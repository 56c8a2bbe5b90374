SPECIFICATION Spec
CONSTANTS
    RINGSIZE = 3
    MAX_MSGCOUNT = 2
    MAX_LOAD = 2
    CardFrames = 2
    Frames <- MCFrames
    Clients = {"c"}
    Deaf = {}
    Commands <- MCCommands
    MaxFrames = 3
    MaxCommands = 2
PROPERTY PacketsLeave
CHECK_DEADLOCK FALSE
