CONSTANTS
    list = list
    details = details
    refusal = refusal
    member = member
    short = short
    long = long
    notext = notext
    Targets <- MCTargets
    Texts <- MCTexts
    Within <- MCWithin
    Readable = {short}
    InputNames <- MCInputNames
    NoText = notext
    Capabilities <- MCCapabilities
    Suppliable <- MCSuppliable
CHECK_DEADLOCK FALSE
SPECIFICATION EngineSpec
INVARIANTS
    CompletionIsProven
