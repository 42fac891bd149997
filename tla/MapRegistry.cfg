\* An instance map, its exit map, two scripts that close it and two players; one of them may die.
SPECIFICATION Spec
CONSTANTS
    Base = {Home, Exit}
    Instance = {inst}
    Home = Home
    Exit = Exit
    Setups <- SmallSetups
    Script = {s1, s2}
    Player = {p1, p2}
    MaxClose = 1
    Mortal = {p2}
    MaxSwitch <- Switches
    p1 = p1
    p2 = p2
    Core = Core
    Peer = Peer
    None = None
SYMMETRY Scripts
CHECK_DEADLOCK FALSE
INVARIANTS
    TypeOK
    ListFollowsMaps
    FaultsExplained
    NobodyLeftBehind
    NobodyForgotten
