SPECIFICATION Spec
CONSTANTS
    Lines <- MoreLines
    CatCapacity = 2
    TokCapacity = 2
    Failures = TRUE
INVARIANTS TypeOk BuffersFit AssertionsHold WordsAsQuoted EndMarksLine
