SPECIFICATION FairSpec
CONSTANTS
    d1 = d1
    d2 = d2
    Docs <- TwoSlips
    QueueCap = 1
    MaxEdits = 2
    MaxFaults = 1
    MaxSenders = 0
    LostReplies = FALSE
INVARIANTS
    TypeOK
    KeysAreWaiting
    NoOrphanFiles
PROPERTIES
    RenderSettles
CHECK_DEADLOCK FALSE
