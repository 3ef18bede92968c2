SPECIFICATION Spec
CONSTANTS
    i1 = i1
    s1 = s1
    s2 = s2
    e1 = e1
    e2 = e2
    Periods <- OneMonth
    MaxRevision = 0
    Items <- OneItem
    Senders <- TwoSenders
    Editors <- OneEditor
    MaxWrites = 3
    MaxFaults = 0
SYMMETRY SenderSymmetry
PROPERTIES
    FrozenWhileSending
CHECK_DEADLOCK FALSE
