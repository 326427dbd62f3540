SPECIFICATION Spec
CONSTANTS
    Samples = {"LOW", "HIGH"}
    Debounce = 0
    Landings = {"legacy", "mpc"}
    AirborneConfirm = 1
    TouchdownConfirm = 1
    Completion = 3
    Finalization = 1
    StableConfirm = 2
    MaxGap = 1
    LiftConfirm = 2
    Blend = 1
INVARIANTS
    FencedIsQuiet
PROPERTIES
    ImpactIsNoLanding
    ExitIsEarned
    LandingEnds
CHECK_DEADLOCK FALSE
