SPECIFICATION Spec
CONSTANTS
    DEVICE = {d1, d2}
    MAX_BLOCKS = 3
    MAX_CALLS = 3
    CAMERA = {c1, c2}
    Main = main
    CLOSER = {main, c1, c2}
    MAX_FD = 2
INVARIANTS TypeOK ConnectLive OriginalsInTable OwnDescriptor
PROPERTY AttachReported
SYMMETRY Symmetry
CHECK_DEADLOCK FALSE
