SPECIFICATION Spec
CONSTANTS
    i1 = i1
    s1 = s1
    s2 = s2
    e1 = e1
    e2 = e2
    Periods <- OneMonth
    MaxRevision = 1
    Items <- OneItem
    Senders <- TwoSenders
    Editors <- TwoEditors
    MaxWrites = 3
    MaxFaults = 1
SYMMETRY SenderSymmetry
INVARIANTS
    SentSlipWasMailed
    ReissueKeepsItems
CHECK_DEADLOCK FALSE
