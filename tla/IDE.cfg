SPECIFICATION Spec
CONSTANTS
    Drives <- MCDrives
    AtaBytes = 2
    AtapiBytes = 4
    LongMod = 260
    ByteBase = 4
    HeadBase = 2
    Heads = 2
    Spt = 3
    SeekOffsets <- MCSeekOffsets
    MaxBytes = 4
    MaxCalls = 2
CONSTRAINT OneBadSector
INVARIANTS
    DiskSound
    ReadDelivers
PROPERTIES
    OnlyRequested
CHECK_DEADLOCK FALSE
