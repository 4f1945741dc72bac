SPECIFICATION FairSpec
CONSTANTS
    BUFFER_SIZE = 5
    MaxFrame = 7
    Input <- MCInput
    Disconnected = Disconnected
    Zeroed = Zeroed
PROPERTY GameBegins
CHECK_DEADLOCK FALSE
