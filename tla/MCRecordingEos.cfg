CONSTANTS
    MAX_INPUT = 1
    MAX_REQUEST = 1
    TRIES = 1
SPECIFICATION Spec
CHECK_DEADLOCK FALSE
INVARIANTS
    ZeroMeansEos
