SPECIFICATION Spec
CONSTANTS
    a = a
    Chars <- OneChar
    InitCapacity = 2
    MaxLen = 5
    MaxHistory = 2
    AllocFails = TRUE
INVARIANTS TypeOk TextFits DownFits DraftRestored
