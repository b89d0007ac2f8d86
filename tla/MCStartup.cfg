SPECIFICATION FairSpec
CONSTANTS
    Games <- MCGames
    Launches <- MCLaunches
    SysModules = {net}
    GameRefs = 1
    MaxDepth = 3
INVARIANTS
    TypeOK
    RestartOnce
    OneWriter
    ProtectedAtEnd
    KeyAgrees
    ReferencesBalance
PROPERTIES
    StartReturns
