SPECIFICATION FairSpec
CONSTANTS
    old = old
    new = new
    other = other
    none = none
    Images <- MCImages
    Published <- MCPublished
    Factory = old
    NoImage = none
    Size = 3
    Chunk = 2
    UninitCompare <- AnyCompare
INVARIANTS
    TypeOK
    NothingSkipped
    InstallNeedsProof
    PoolOutlivesHttp
    ReturnReleases
    ResultFitsStatus
PROPERTIES
    UpdateReturns
