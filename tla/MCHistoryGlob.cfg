SPECIFICATION FairSpec
CONSTANTS
    NotFound = NotFound
    Texts <- Globbed
    Dirs <- TwoDirs
    Meaning <- MCMeaning
    Begins <- MCBegins
    Word <- MCWord
    InitCapacity = 2
    AllocFails = FALSE
    MaxHistory = 2
PROPERTY RunReturns
