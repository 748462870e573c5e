SPECIFICATION Spec
CONSTANTS
    kmain = kmain
    p1 = p1
    p2 = p2
    p3 = p3
    Procs = {kmain, p1, p2, p3}
    Self = Self
    NULL = NULL
    PidMod = 100
    MaxPid = 4
SYMMETRY Symmetry
INVARIANTS
    ProcessesUnderProc
CHECK_DEADLOCK FALSE
