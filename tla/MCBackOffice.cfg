SPECIFICATION BackOfficeSpec
CONSTANTS
    c1 = c1
    k1 = k1
    k2 = k2
    k3 = k3
    e1 = e1
    s1 = s1
    s2 = s2
    g1 = g1
    g2 = g2
    b1 = b1
    b2 = b2
    r1 = r1
    q1 = q1
    f1 = f1
    f2 = f2
    n1 = n1
    n2 = n2
    m1 = m1
    w1 = w1
    w2 = w2
    p1 = p1
    p2 = p2
    d1 = d1
    o1 = o1
    o2 = o2
    x1 = x1
    x2 = x2
    x3 = x3
    y1 = y1
    y2 = y2
    y3 = y3
    t1 = t1
    t2 = t2
    v1 = v1
    v2 = v2
    Cap = 1
    StaleGap = 2
    DayLength = 2
    MaxClock = 3
    MaxSessions = 2
    Calls <- OneCall
    MaxReplay = 2
    Contracts <- ThreeContracts
    Months <- OneMonth
    ContractEditors <- OneEditor
    ContractSenders <- ContractMailers
    MaxRevisions = 1
    MaxGenerations = 3
    Campaigns <- TwoCampaigns
    LastLane = 3
    Stages = {"plan", "live"}
    NamedFor <- SecondLaneNamed
    Boarders <- TwoBoarders
    Recipients <- OneRecipient
    Requests <- OneRequest
    Settings <- OnOrOff
    ReminderAt = {0}
    DigestAt = {1}
    ScheduleAt = {0, 1}
    DayMinutes = 2
    LastMinute = 2
    MaxEvents = 2
    Claims <- TwoClaims
    Entries <- OneEntry
    Amounts = {1, 2}
    Receipts <- TwoReceipts
    Clerks <- TwoClerks
    MaxReceipts = 2
    Checks <- TwoChecks
    Domains <- OneDomain
    ProbeWorkers <- TwoWorkers
    DownBeforeAlert = 3
    DownBeforeDomainAlert = 2
    AlertCooldown = 2
    DomainAlertCooldown = 3
    MaxAge = 1
    KanbanTasks <- ThreeTasks
    KanbanColumns <- ThreeColumns
    DefaultColumns <- FirstColumns
    Teammates <- TwoTeammates
    Movers <- TwoMovers
    MaxPosition = 3
    u1 = u1
    h1 = h1
    h2 = h2
    l1 = l1
    i1 = i1
    i2 = i2
    Accounts <- OneAccount
    Roles <- TwoRoles
    Permits = {"edit"}
    Loaders <- OneLoader
    Admins <- TwoAdmins
    CacheTTL = 1
    MaxAgeOfRun = 2
    MaxChanges = 2
    z1 = z1
    z2 = z2
    Chores <- TwoChores
    QueueCap = 3
    MaxBatch = 2
    MaxBeats = 4
    MaxOpened = 2
    a1 = a1
    a2 = a2
    j1 = j1
    j2 = j2
    j3 = j3
    j4 = j4
    Letters <- TwoLetters
    LegalClerks <- TwoLegalClerks
    LetterSenders <- OneLetterSender
    MaxLetterSnapshots = 2
    MaxLetterFiles = 2
    Companies <- TwoCompanies
    HourLength = 1
    DedupWindow = 0
    DayHours = 3
    CronMinutes = {1}
    LastReminder = 3
    MaxMishaps = 2
VIEW Moving
INVARIANTS
    BackOfficeTypeOK
    NoDoubleCredit
    NothingWithoutConsent
    NumbersAreGapless
    RevisionTellsDocuments
    SignedAsIssued
    ChainNeverForks
    BoardInOrder
    PlacementsNeverDeadlock
    JobsRunOnce
    SettingsRespected
    BooksAgree
    ReceiptsAreKept
    MonitorsAgree
    BoardIsKept
    RolesInEffect
    QueueKeepsBeats
    LettersInOrder
    RemindersKept
CHECK_DEADLOCK FALSE
