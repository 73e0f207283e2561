CONSTANTS
    FRAME = {f1, f2}
    CAPTURE = {c1}
    CALLER = {main, other}
    Main = main
    CALLBACK = {k1, k2}
    WINDOW = {w1}
    NULL = NULL
    MODES = {"yuyv"}
    FORMATS = {TRUE, FALSE}
    MAX_FRAME = 1
    MaxSessions = 1
    MaxSets = 3
    Spurious = FALSE
SPECIFICATION Spec
SYMMETRY Symmetric
CHECK_DEADLOCK FALSE
PROPERTY
    FinishedCapturing
