SPECIFICATION Spec
CONSTANTS
    d1 = d1
    d2 = d2
    Docs <- OneSlip
    QueueCap = 1
    MaxEdits = 3
    MaxFaults = 2
    MaxSenders = 1
    LostReplies = FALSE
INVARIANTS
    ReadyMatchesSnapshot
    RecordedFileExists
    
PROPERTIES
    SettledSlipIsFinal
    FailureIsCurrent
    ImplementsDocument
CHECK_DEADLOCK FALSE
