\* Every actor rolls its own numbers, the default.
SPECIFICATION Spec
CONSTANTS
    player1 = player1
    player2 = player2
    core = core
    Player = Player
    Core = Core
    Pod = {player1, player2, core}
    Uid = {Player, Core}
    UidOf <- Relogin
    Tolerant = {Player}
    UniqueIDs = FALSE
    MaxSeq = 1
    MaxPost = 0
    None = None
CHECK_DEADLOCK FALSE
PROPERTIES
    RightAnswer
