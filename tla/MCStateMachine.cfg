SPECIFICATION Spec
CONSTANTS
    Caller = {tick, shell}
    Subscribers = 1
    MaxHistory = 2
    MaxReloads = 1
INVARIANTS
    CommitsAreSound
PROPERTIES
    CallersAreFreed
    ImplementsContract
CHECK_DEADLOCK FALSE
