CONSTANTS
    FRAME = {f1}
    CAPTURE = {c1}
    CALLER = {main}
    Main = main
    CALLBACK = {k1}
    WINDOW = {}
    NULL = NULL
    MODES = {"yuyv"}
    FORMATS = {FALSE}
    MAX_FRAME = 1
    MaxSessions = 2
    MaxSets = 3
    Spurious = FALSE
SPECIFICATION Spec
CHECK_DEADLOCK FALSE
INVARIANTS
    CaptureToFinish
