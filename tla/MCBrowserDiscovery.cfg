CONSTANTS
    number = number
    open = open
    holder = holder
    category = category
    n1 = n1
    n2 = n2
    n3 = n3
    n4 = n4
    n5 = n5
    ours = ours
    other = other
    savings = savings
    blank = blank
    member = member
    noinput = noinput
    Names = {number, open, holder, category}
    Nodes = {n1, n2, n3, n4, n5}
    Texts = {ours, other, savings, blank}
    Views <- MCViews
    EntryViews <- MCEntryViews
    NumFrames = 2
    FrameOf <- MCFrameOf
    Fillable = {number}
    Clickable = {open}
    MaxChanges = 1
    Inputs = {member}
    ValueOf <- MCValueOf
    RowOf <- MCRowOf
    GoalContexts = {savings}
    NoText = blank
    NoInput = noinput
    MaxTurns = 3
    MaxActions = 2
    MaxEvidence = 2
CHECK_DEADLOCK FALSE
SPECIFICATION FairBrowserSpec
INVARIANTS
    SuccessIsGrounded
    EffectsAreCounted
PROPERTIES
    CheckedIsShown
    EffectHitsWhatWasShown
    DiscoveryEnds
