SPECIFICATION Spec
CONSTANTS
    Mover = {shell}
    Stopper = {tickStop, shellStop}
    Poll = poll
    Shell = shell
    TickStop = tickStop
    ShellStop = shellStop
    Commands = {"flight", "walk", "home"}
    Prompt = TRUE
    Polls = FALSE
    Cancels = FALSE
    Garbles = TRUE
    MaxUplink = 3
    Unplugs = TRUE
INVARIANTS
    ShapeIsKnown
    MotionIsConfined
PROPERTIES
    StopHonest
CHECK_DEADLOCK FALSE
