CONSTANTS
    FRAME = {f1}
    CAPTURE = {c1}
    CALLER = {main, other}
    Main = main
    CALLBACK = {k1}
    WINDOW = {}
    NULL = NULL
    MODES = {"yuyv"}
    FORMATS = {FALSE}
    MAX_FRAME = 1
    MaxSessions = 1
    MaxSets = 3
    Spurious = FALSE
SPECIFICATION LiveSpec
CHECK_DEADLOCK FALSE
PROPERTIES
    StopReturns
    SetterReturns
    QueuedFrameTaken
