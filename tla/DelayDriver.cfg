\* Two timers and a waiter, two callers, a stop at any time.
SPECIFICATION FairSpec
CONSTANTS
    k1 = k1
    k2 = k2
    k3 = k3
    Caller = {c1, c2}
    Token = {k1, k2, k3}
    Delay <- LongShortWaiter
    MaxTime = 2
    Never = Never
CHECK_DEADLOCK FALSE
INVARIANTS
    TypeOK
    NeverEarly
    KeyFindsOwnWait
PROPERTIES
    DrainUnshared
    ImplementsWaitToken
    WaitsAnswered
