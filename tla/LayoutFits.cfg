SPECIFICATION LayoutSpec
CONSTANTS
    MaxModules = 1
    MaxSections = 2
    Sizes = {4}
    Aligns = {4, 32}
    MaxEntries = 2
INVARIANT Fits
CHECK_DEADLOCK FALSE
