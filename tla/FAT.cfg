SPECIFICATION Spec
CONSTANTS
    ClusterCount = 9
    SectorsPerCluster = 2
    EntriesPerFatSector = 4
    EntriesPerSector = 1
    LocMod = 8
    FirstData = 5
    SectorMod = 23
    Dirs <- MCDirs
    Names <- MCNames
    Volumes <- MCVolumes
    MaxSize = 5
    MaxWrites = 3
INVARIANTS
    ChainsSound
    AllOrNothing
    MirrorsAgree
    NothingLost
CHECK_DEADLOCK FALSE
