SPECIFICATION FairSpec
CONSTANTS
    old = old
    new = new
    none = none
    Games <- MCGames
    Launches <- MCLaunches
    SysModules = {net}
    GameRefs = 1
    MaxDepth = 2
    Images <- MCImages
    Published <- MCPublished
    Factory = old
    NoImage = none
    Size = 2
    Chunk = 2
    UninitCompare <- AnyCompare
    Configurations <- MCConfigurations
PROPERTIES
    StartupSpec
    BootReturns
