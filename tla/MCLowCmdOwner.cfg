SPECIFICATION Spec
CONSTANTS
    MaxCallbacks = 2
    CloseRetryVerified = TRUE
INVARIANTS
    Custody
    HoldIsGenuine
PROPERTIES
    ReleaseInOrder
    RevokeMeansHold
    LifecycleEnds
