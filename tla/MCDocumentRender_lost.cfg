SPECIFICATION Spec
CONSTANTS
    d1 = d1
    d2 = d2
    Docs <- OneSlip
    QueueCap = 1
    MaxEdits = 1
    MaxFaults = 1
    MaxSenders = 1
    LostReplies = TRUE
INVARIANTS
    ReadyPdfIsKept
CHECK_DEADLOCK FALSE
