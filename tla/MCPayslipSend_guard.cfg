SPECIFICATION FairSpec
CONSTANTS
    i1 = i1
    s1 = s1
    s2 = s2
    e1 = e1
    e2 = e2
    Periods <- TwoMonths
    MaxRevision = 0
    Items <- OneItem
    Senders <- TwoSenders
    Editors <- OneEditor
    MaxWrites = 2
    MaxFaults = 1
INVARIANTS
    TypeOK
    MailIsCurrent
    VerifiedDraftsDisjoint
    LogIsTrue
PROPERTIES
    GuardIsReleased
CHECK_DEADLOCK FALSE
