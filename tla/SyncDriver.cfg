\* One driver used three times, with and without a timeout.
SPECIFICATION Spec
CONSTANTS
    Driver = {d1}
    MaxForward = 3
    IdLimit = 4
    Timeouts = {TRUE, FALSE}
    None = None
SYMMETRY Drivers
CHECK_DEADLOCK FALSE
INVARIANTS
    TypeOK
    NoDanglingReceiver
    OwnAnswer
    NoneOnlyAfterTimeout
    AnswerKept
