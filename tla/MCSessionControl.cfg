CONSTANTS
    run = run
    o1 = o1
    o2 = o2
    t1 = t1
    t2 = t2
    t3 = t3
    none = none
    Run = run
    Operators = {o1, o2}
    Tasks = {t1, t2, t3}
    Nobody = none
    MaxGeneration = 4
SPECIFICATION FairSpec
INVARIANTS
    TypeOK
    InFlightBelongsToOwner
    OneInFlight
    InFlightGeneration
    OwnerFitsState
    QueueHoldsWaiters
PROPERTIES
    HandoffIsQuiescentAndFresh
    KeepsHandoffPromise
    QueuedDispatchIsAnswered
    PauseQuiesces
