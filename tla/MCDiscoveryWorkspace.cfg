CONSTANTS
    Versions = {w1, w2}
    MaxRuns = 2
    MaxCrashes = 1
CHECK_DEADLOCK FALSE
SPECIFICATION FairWorkspaceSpec
INVARIANTS
    SuccessIsReplayable
    OnlyTheLateOverlap
PROPERTIES
    WorkspaceIsFreed
