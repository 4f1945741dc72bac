SPECIFICATION FatDiskSpec
CONSTANTS
    endOfPartition = 5
    sectorsPerPage = 2
    numberOfPages = 2
    Values = {0, 1}
    AccessLimit = 2
    Faults = {"write"}
    Threads = {t1, t2}
    NoThread = none
    MaxTries = 2
    MaxCalls = 2
    lastCluster = 4
    FilesysTypes = {"FS_FAT16", "FS_FAT32"}
    Following = 255
    DirSlots = 4
    RootSlots = 5
    MAX_NUMERIC_TAIL = 3
    ShortNames = {"A"}
    MixedNames = {"D"}
    LongNames = {"L"}
    LongSlots = 2
    BlankNames = {"A"}
    FirstLongTail = 2
    TailEnds = TRUE
    TailNames = {1}
    DirNames = {"D"}
    MaxChanges = 3
    Via = {"up"}
    DirClient = {"gap", "closed", "room", "parents"}
INVARIANTS
    MountedOnce
    DriverConsistent
    TreeStored
    NamesDistinct
    RepliesRight
    ChainsOwned
    ListingComplete
PROPERTY
    Transparent
CHECK_DEADLOCK FALSE
