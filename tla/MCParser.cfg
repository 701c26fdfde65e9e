SPECIFICATION Spec
CONSTANTS
    Lines <- MoreLines
    InitCapacity = 2
    AllocFails = TRUE
INVARIANTS TypeOk ArraysFit DecidesGrammar NothingDropped NothingLeaks
