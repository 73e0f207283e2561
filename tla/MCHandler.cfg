SPECIFICATION FairSpec
CONSTANTS
    OPENER = {monitor}
    CLOSER = {ui}
    MAX_POSTS = 3
    MAX_STOPS = 2
    MAX_MOVIES = 2
    ENCODER_TYPES = {1, 2}
INVARIANTS TypeOK PreviewFlag RecordingHasCamera StaysForEncoder StopAnswered ReleaseArrives
PROPERTIES StopReturns ThreadEnds
CHECK_DEADLOCK FALSE
