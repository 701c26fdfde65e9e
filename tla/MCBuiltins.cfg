SPECIFICATION Spec
CONSTANTS
    d1 = d1
    d2 = d2
    d3 = d3
    n1 = n1
    n2 = n2
    n3 = n3
    Dirs <- MCDirs
    Names <- MCNames
    Numbers <- MCNumbers
    Gone = gone
    Unset = unset
    MaxMoves = 2
    IntMax = 1
    LongMax = 3
    Prompts = {"$", "%"}
    Failures = TRUE
SYMMETRY MCSymmetry
INVARIANTS TypeOk PwdNamesCwd OldpwdNamesPrevious ExitExact
PROPERTY DashGoesBack
