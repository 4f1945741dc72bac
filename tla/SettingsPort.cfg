SPECIFICATION SettingsSpec
CONSTANTS
    Chars = {"[", "]", "=", "n", "p", "1"}
    MaxLine = 5
    BUFFER = 4
    OCTETS = 1
    IntHalf = 32768
PROPERTY PortHonoured
CHECK_DEADLOCK FALSE
