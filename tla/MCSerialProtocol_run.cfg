SPECIFICATION FairSpec
CONSTANTS
    TOOTH_LOG_SIZE = 3
    Readings = 5
    Clients <- MCClients
    CalibrationValues = 4
    MaxLost = 1
INVARIANTS
    InStep
    ReplyIsWhatWasWritten
    SentLogIsConsecutive
PROPERTIES
    EventuallyWritten
    UsesLoggerAsMeant
CHECK_DEADLOCK FALSE
