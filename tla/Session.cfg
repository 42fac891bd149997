\* One or two channel slots, two accounts, two connections one after another.
SPECIFICATION Spec
CONSTANTS
    Setups <- SmallSetups
    Account = {a1, a2}
    OneLogin = TRUE
    MaxConn = 2
    MaxQueue = 1
    None = None
SYMMETRY Accounts
CHECK_DEADLOCK FALSE
INVARIANTS
    TypeOK
    NumbersConserved
    EntryFollowsChannel
    NoStuckEntry
    FaultsExplained
    DeafOnlyIfBoundLate
PROPERTIES
    StrangersClosed
