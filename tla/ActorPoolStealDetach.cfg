\* Stealing on: a stolen actor calls deactivate().
SPECIFICATION Spec
CONSTANTS
    w1 = w1
    w2 = w2
    m1 = m1
    m2 = m2
    u1 = u1
    u2 = u2
    Worker = {w1, w2}
    Public = {p1}
    Mailbox = {m1, m2}
    UidOf <- DistinctUid
    Home <- SameBucket
    MsgId = {i1, i2}
    Mortal = {m1}
    Owned = {}
    StealMax = 1
    RandomPush = FALSE
    READY = READY
    DETACHED = DETACHED
    ACCESS_PUB = ACCESS_PUB
    None = None
SYMMETRY Messages
INVARIANTS
    HandlerAlive
