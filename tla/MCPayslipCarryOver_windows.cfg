SPECIFICATION Spec
CONSTANTS
    p1 = p1
    b1 = b1
    r1 = r1
    r2 = r2
    LastMonth = 2
    MonthLength = 2
    MaxTime = 5
    Grace = 2
    MaxRevision = 1
    Reimbursements <- OnePayment
    Bonuses <- OneBonus
    BonusMonth <- FirstMonthsBonus
    Requests <- TwoRequests
    Mishaps <- NoMishap
SYMMETRY RequestSymmetry
INVARIANTS
    TypeOK
    NothingLost
    NothingSweptIn
    ReissueKeepsWindow
CHECK_DEADLOCK FALSE
