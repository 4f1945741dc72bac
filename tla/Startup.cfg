SPECIFICATION StartupSpec
CONSTANTS
    MaxModules = 2
    Sizes = {8, 40}
    MaxSections = 2
    Waiters = {main, apploader, module, search}
    Triggers = {first, second}
INVARIANTS
    SizeAgreed
    UnmountQuiet
    LaunchReady
    NoLostWakeup
PROPERTIES
    StartupEnds
    IsLatch
CHECK_DEADLOCK FALSE
