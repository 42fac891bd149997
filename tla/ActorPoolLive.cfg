\* Two workers share a bucket, steal and notify at random; one actor is destroyed from outside.
SPECIFICATION FairSpec
CONSTANTS
    w1 = w1
    w2 = w2
    m1 = m1
    m2 = m2
    u1 = u1
    u2 = u2
    Worker = {w1, w2}
    Public = {p1}
    Mailbox = {m1, m2}
    UidOf <- SameUid
    Home <- OneHome
    MsgId = {i1, i2}
    Mortal = {}
    Owned = {m1}
    StealMax = 1
    RandomPush = TRUE
    READY = READY
    DETACHED = DETACHED
    ACCESS_PUB = ACCESS_PUB
    None = None
INVARIANTS
    HandlerExclusion
    NoMessageLost
    MailboxKept
    CacheNeverDangles
PROPERTIES
    EveryMessageAnswered
    DetachedIsErased
