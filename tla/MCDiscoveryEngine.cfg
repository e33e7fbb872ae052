CONSTANTS
    field = field
    result = result
    Targets = {field, result}
    Stranger = stranger
    Texts = {ours, other}
    GoalTexts = {ours}
    NotVisible = notvisible
    Unavailable = unavailable
    NoText = notext
    RequiredSets <- MCRequiredSets
    MaxTurns = 3
    MaxActions = 2
    MaxChanges = 2
CHECK_DEADLOCK FALSE
SPECIFICATION EngineSpec
INVARIANTS
    CompletionIsGrounded
    DispatchesAreAccounted
