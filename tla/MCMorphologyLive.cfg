SPECIFICATION Spec
CONSTANTS
    Mover = {shell}
    Stopper = {tickStop, shellStop}
    Poll = poll
    Shell = shell
    TickStop = tickStop
    ShellStop = shellStop
    Commands = {"home"}
    Prompt = TRUE
    Polls = TRUE
    Cancels = TRUE
    Garbles = FALSE
    MaxUplink = 2
    Unplugs = FALSE
PROPERTIES
    TransformEnds
    MotorComesToRest
CHECK_DEADLOCK FALSE
