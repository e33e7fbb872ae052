CONSTANTS
    run = run
    o1 = o1
    c1 = c1
    c2 = c2
    t1 = t1
    none = none
    noid = noid
    i1 = i1
    i2 = i2
    Run = run
    Operators = {o1}
    Tasks = {c1, c2, t1}
    Nobody = none
    MaxGeneration = 4
    Callers = {c1, c2}
    OperatorTasks = {t1}
    First = c1
    Ids = {i1, i2}
    NoId = noid
    LastStep = 2
    ApprovalSteps = {1}
    MaxFaults = 0
SPECIFICATION ReplaySpec
INVARIANTS
    StopRemovesContinuation
