CONSTANTS
    run = run
    o1 = o1
    o2 = o2
    a1 = a1
    h1 = h1
    none = none
    Run = run
    Operators = {o1, o2}
    Tasks = {a1, h1}
    Nobody = none
    MaxGeneration = 4
    Console = {h1}
    MaxFaults = 1
SPECIFICATION GatewaySpec
INVARIANTS
    LossAfterDispatchOnly
