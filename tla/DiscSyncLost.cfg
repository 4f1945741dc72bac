SPECIFICATION Spec
CONSTANTS
    BUFFER_SIZE = 3
    IOCTL_BUFFER_SIZE = 3
    Reads = 2
    MaxOutstanding = 2
    Refused = {}
PROPERTY CalledBack
