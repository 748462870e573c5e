SPECIFICATION Spec
CONSTANTS
    p1 = p1
    p2 = p2
    p3 = p3
    tty0 = tty0
    null = null
    random = random
    Procs = {p1, p2, p3}
    VNodes = {tty0, null, random}
    NULL = NULL
    FdMod = 100
    MaxFd = 5
SYMMETRY Symmetry
CONSTRAINT UntilOverlap
INVARIANTS
    FlagsSound
    NumbersAscend
    HandlesResolve
CHECK_DEADLOCK FALSE
