SPECIFICATION LiveSpec
CONSTANTS
    kmain = kmain
    p1 = p1
    p2 = p2
    p3 = p3
    Procs = {kmain, p1, p2, p3}
    Self = Self
    NULL = NULL
    PidMod = 100
    MaxPid = 5
INVARIANTS
    TypeOK
    RunsCurrentProc
    SavedIsOwn
    PicksAProcess
    ProcListed
    DoublyLinked
    PidsUnique
PROPERTIES
    ImplementsRoundRobin
    NoStarvation
    ExitCompletes
CHECK_DEADLOCK FALSE
