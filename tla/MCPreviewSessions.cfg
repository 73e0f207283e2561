CONSTANTS
    FRAME = {f1, f2, f3, f4}
    CAPTURE = {c1, c2}
    CALLER = {main}
    Main = main
    CALLBACK = {}
    WINDOW = {}
    NULL = NULL
    MODES = {"mjpeg"}
    FORMATS = {FALSE}
    MAX_FRAME = 1
    MaxSessions = 2
    MaxSets = 2
    Spurious = TRUE
SPECIFICATION Spec
SYMMETRY Symmetric
CHECK_DEADLOCK FALSE
INVARIANTS
    TypeOK
    FrameOwnership
    LeakBound
    StoppedQuiet
    NoStrayCapture
    Lifecycle
    Holding
PROPERTY
    LedgerSpec
