\* Two incarnations of a player call the service core and are called by it.
SPECIFICATION FairSpec
CONSTANTS
    player1 = player1
    player2 = player2
    core = core
    Player = Player
    Core = Core
    Pod = {player1, player2, core}
    Uid = {Player, Core}
    UidOf <- Relogin
    Tolerant = {Player}
    UniqueIDs = TRUE
    MaxSeq = 2
    MaxPost = 1
    None = None
CHECK_DEADLOCK FALSE
INVARIANTS
    TypeOK
    OneAnswer
    StrayOnlyAfterReuse
PROPERTIES
    RightAnswer
    EveryCallReturns
