SPECIFICATION ChannelSpec
CONSTANTS
    Chars = {"#", "[", "]", "=", " ", "n", "h", "1", "."}
    MaxLine = 6
    BUFFER = 4
    OCTETS = 2
    IntHalf = 32768
    IntSize = 2
    PacketSize = 3
    MaxPackets = 2
    MaxFailures = 2
    IosErrors <- SomeErrors
INVARIANTS
    SettingsTypeOK
    StartedConnected
    Framed
PROPERTIES
    AddressHonoured
    OnlyAssignments
CHECK_DEADLOCK FALSE
