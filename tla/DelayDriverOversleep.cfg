\* A short timer added while the worker sleeps for a long one.
SPECIFICATION Spec
CONSTANTS
    k1 = k1
    k2 = k2
    k3 = k3
    Caller = {c1}
    Token = {k1, k2, k3}
    Delay <- LongShortWaiter
    MaxTime = 3
    Never = Never
CHECK_DEADLOCK FALSE
INVARIANTS
    NoOversleep
