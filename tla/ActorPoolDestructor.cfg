\* Stealing and random notification off: one actor is destroyed from outside.
SPECIFICATION Spec
CONSTANTS
    w1 = w1
    w2 = w2
    m1 = m1
    m2 = m2
    u1 = u1
    u2 = u2
    Worker = {w1, w2}
    Public = {p1}
    Mailbox = {m1, m2}
    UidOf <- DistinctUid
    Home <- TwoBuckets
    MsgId = {i1}
    Mortal = {}
    Owned = {m1}
    StealMax = 0
    RandomPush = FALSE
    READY = READY
    DETACHED = DETACHED
    ACCESS_PUB = ACCESS_PUB
    None = None
INVARIANTS
    NoStaleMailbox
