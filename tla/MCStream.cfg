SPECIFICATION FairSpec
CONSTANTS
    NumTransfers = 2
    MaxSeq = 3
    MaxSessions = 2
    Unplug = TRUE
    SubmitFails = TRUE
INVARIANTS TypeOK SafeFree OneLate NoLostWakeup
PROPERTIES FreshDelivery StopReturns UserThreadEnds
CHECK_DEADLOCK FALSE
