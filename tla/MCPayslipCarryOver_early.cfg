SPECIFICATION Spec
CONSTANTS
    p1 = p1
    b1 = b1
    r1 = r1
    r2 = r2
    LastMonth = 2
    MonthLength = 2
    MaxTime = 5
    Grace = 2
    MaxRevision = 1
    Reimbursements <- OnePayment
    Bonuses <- NoItems
    BonusMonth <- FirstMonthsBonus
    Requests <- OneRequest
    Mishaps <- EarlySlips
INVARIANTS
    NothingLost
CHECK_DEADLOCK FALSE
