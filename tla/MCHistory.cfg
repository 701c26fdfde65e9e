SPECIFICATION FairSpec
CONSTANTS
    NotFound = NotFound
    Texts <- Steady
    Dirs <- TwoDirs
    Meaning <- MCMeaning
    Begins <- MCBegins
    Word <- MCWord
    InitCapacity = 2
    AllocFails = TRUE
    MaxHistory = 4
INVARIANTS TypeOk NumberExact RecursionBounded NewestIsExecuted
PROPERTY RunReturns
