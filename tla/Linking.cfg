SPECIFICATION LinkingSpec
CONSTANTS
    Byteorder = "MSB"
    MaxCount = 3
    Versions <- SomeVersions
    Notes <- SomeNotes
    Hashes <- SomeHashes
    Nibbles = 2
    Patterns <- SomePatterns
    Shapes <- SomeShapes
    MaxData = 3
    MaxSymbols = 2
    MaxTotal = 4
    MaxGame = 4
    MaxModules = 2
    MaxSections = 3
    Sizes = {6, 20}
    Aligns = {1, 4, 32}
    MaxEntries = 2
    Half = 4
    OpBits = 2
    MODULE_ENTRIES_CAPACITY_DEFAULT = 2
    MaxFiles = 2
    MaxRelocs = 1
    Files <- SomeFiles
    Blocks = {16, 72}
    Space = 200
    module_list_count = 3
    Names = {"f"}
INVARIANTS
    MembersRight
    FileGivenBack
    SearchExact
    WordAlignedFits
    RelocationsRight
    EntriesDelimited
    CalledInOrder
    ErrorJustified
CHECK_DEADLOCK FALSE
