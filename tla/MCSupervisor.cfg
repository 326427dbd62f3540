SPECIFICATION Spec
CONSTANTS
    Faults = {"heartbeat", "landed_state", "estimate", "esc", "rc", "ch5", "f446", "f446_fault", "go2", "unsteady", "contact", "owner"}
    Configs = {"sport","comply","lowcmd"}
INVARIANTS
    FaultIsClearable
    StartIsFounded
PROPERTIES
    NoFalseAlarm
    PilotKeepsControl
CHECK_DEADLOCK FALSE
