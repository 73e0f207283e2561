SPECIFICATION Spec
CONSTANTS
    OPENER = {monitor}
    CLOSER = {ui}
    MAX_POSTS = 3
    MAX_STOPS = 2
    MAX_MOVIES = 2
    ENCODER_TYPES = {1}
INVARIANT StoppedOnReturn
CHECK_DEADLOCK FALSE
