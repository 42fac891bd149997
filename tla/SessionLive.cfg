\* One slot, one account and two connections: fairness, so no symmetry.
SPECIFICATION FairSpec
CONSTANTS
    Setups <- LiveSetups
    Account = {a1}
    OneLogin = TRUE
    MaxConn = 2
    MaxQueue = 1
    None = None
CHECK_DEADLOCK FALSE
PROPERTIES
    DroppedPlayerLeaves
    LogoutAnswered
