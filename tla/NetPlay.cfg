SPECIFICATION FairSpec
CONSTANTS
    BUFFER_SIZE = 5
    MaxFrame = 10
    Input <- MCInput
    Disconnected = Disconnected
    Zeroed = Zeroed
INVARIANTS
    TypeOK
    LockStep
    BoundedSkew
    HostWaitsForFuture
PROPERTIES
    CurrentFrameStable
    Progress
CHECK_DEADLOCK FALSE
