CONSTANTS
    MAX_INPUT = 1
    MAX_REQUEST = 1
    TRIES = 1
SPECIFICATION LiveSpec
CHECK_DEADLOCK FALSE
INVARIANTS
    TypeOK
    OnlyMissingCodecThrows
    CountExact
    FileClosed
    WaitsForPartner
PROPERTIES
    Rendezvous
    RecordingEnds
