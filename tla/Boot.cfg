\* Machines of few parts each; a process that has ended does not go on.
CONSTANTS
    Machines <- MCMachines
    Word = 256
    Kernel <- MCKernel
    TagAlign = 8
    Buses = 2
    Slots = 2
    Functions = 4
    MaxDevices = 4
    DirEntry = 32
    Max12 = 4085
    Max16 = 65525
    Offsets = 8388608
    BufSize = 4
    Readings <- MCReadings
    SampleDelay = 2
SPECIFICATION Spec
INVARIANTS
    InitRunsLinked
    BusListed
    NodesReal
    AccessHonest
    VolumesAsMade
    LineAsEdited
    PacketsFramed
    InterruptsComeBack
PROPERTY BootCompletes
CHECK_DEADLOCK FALSE
