SPECIFICATION Spec
CONSTANTS
    Games <- MCTwoGames
    Launches <- MCLaunches
    SysModules = {net}
    GameRefs = 1
    MaxDepth = 3
INVARIANTS
    UpdatedMeansUpdated
