SPECIFICATION Spec
CONSTANTS
    lastCluster = 5
    FilesysTypes = {"FS_FAT12", "FS_FAT32"}
    Following = 255
    Files = {a}
    MaxTaken = 3
    bytesPerSector = 2
    sectorsPerCluster = 2
    MaxSize = 13
    Lengths = {3, 13}
    Offsets = {0, 8}
    Modes = {"rw", "w+trunc", "rw+append"}
    Client = {"position", "space", "reread"}
INVARIANTS
    Contents
    ReadsRight
    ClustersAccounted
    ChainsSeparate
CHECK_DEADLOCK FALSE
