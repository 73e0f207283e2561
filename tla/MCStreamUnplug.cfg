SPECIFICATION Spec
CONSTANTS
    NumTransfers = 1
    MaxSeq = 1
    MaxSessions = 1
    Unplug = TRUE
    SubmitFails = FALSE
INVARIANT EndsThreads
CHECK_DEADLOCK FALSE
