SPECIFICATION Spec
CONSTANTS
    Operation = operation
    Commit = commit
    Client = {operation, commit}
    Lease = 1
    AckWait = 1
    Ttl = 1
    MaxFlight = 1
    Positions = {"low","high"}
    Losses = TRUE
PROPERTIES
    ArmingSettles
INVARIANTS
    AuthorizationFollowsMode
    RevokedStaysShut
CHECK_DEADLOCK FALSE
