CONSTANTS
    MaxQueue = 3
SPECIFICATION Spec
INVARIANTS
    BenchIsHonest
PROPERTIES
    RotorsRest
CHECK_DEADLOCK FALSE
