SPECIFICATION Spec
CONSTANTS
    RINGSIZE = 3
    MAX_MSGCOUNT = 2
    MAX_LOAD = 12
    CardFrames = 2
    Frames <- MCLongFrames
    Clients = {"c"}
    Deaf = {}
    Commands <- MCCommands
    MaxFrames = 3
    MaxCommands = 2
INVARIANT BuffersAccounted
CHECK_DEADLOCK FALSE
