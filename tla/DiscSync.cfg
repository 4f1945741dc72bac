SPECIFICATION Spec
CONSTANTS
    BUFFER_SIZE = 3
    IOCTL_BUFFER_SIZE = 2
    Reads = 3
    MaxOutstanding = 2
    Refused = {2}
INVARIANTS
    UnknownCallbackImpossible
    CompletedOnce
PROPERTY ReadsComplete
