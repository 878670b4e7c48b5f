SPECIFICATION ServicesSpec
CONSTANTS
    s1 = s1
    s2 = s2
    r1 = r1
    r2 = r2
    q1 = q1
    q2 = q2
    t1 = t1
    t2 = t2
    h1 = h1
    h2 = h2
    cA = cA
    cB = cB
    cC = cC
    Sessions <- Requests
    Lines <- MCLines
    StartDate <- MCStart
    First <- MCFirst
    Ending <- MCEnding
    NoEnding = NoEnding
    Increment <- MCIncrement
    DateOrder = TRUE
    Dates = {1, 2, 3}
    Batches = {1, 2}
    MaxIssued = 3
    Messages <- Things
    Senders <- Requests
    MaxAttempts = 2
    MaxPersons = 1
    MaxSenderCrashes = 1
    SlowSends = FALSE
    Students = {s1, s2}
    FeeRuns = {r1, r2}
    Clerks <- Requests
    Scope <- ScopeGrade
    Schedule <- SplitAndWhole
    Bills <- AllBills
    MaxEdits = 1
    MaxClerkCrashes = 1
    Deletions = TRUE
    Things = {t1, t2}
    Holders = {h1, h2}
    Desks <- Requests
    Limit = 1
    MaxHoldings = 3
    Cashiers <- Requests
    Amounts = {1}
    Statements = {0, 1}
    MaxEntries = 2
    MaxRecs = 2
    LeaveDesks <- Requests
    DaysApplied = {1, 2}
    Standard = 2
    MaxCarry = 1
    MaxCalendars = 3
    MaxApps = 2
    MaxRecalls = 2
    MaxGrants = 2
    Offices <- Requests
    Streams <- MCStreams
    YearOf <- MCYear
    GradeOf <- MCGrade
    Capacity <- MCCapacity
    MaxPupils = 2
    MaxDirect = 1
    ExitDesks <- Requests
    Sections <- Things
    ExitDates = {0, 1, 2}
    DueOn <- MCDueOn
    ManualTypes = {"NOTICE_PENALTY"}
    MaxExits = 2
    MaxManual = 1
    MaxPeriods = 1
    Collectors <- Requests
    OpenEntries <- Things
    Levels = 3
    MaxReminders = 2
    MaxDocuments = 2
INVARIANT NumbersSound
INVARIANT OutboxSound
INVARIANT FeesSound
PROPERTY PostedMeansBilled
INVARIANT HeldOnce
INVARIANT StatementIsReconciled
 
INVARIANT StudentsSound
INVARIANT ExitsSound
 
SYMMETRY Symm
CONSTRAINT Undisturbed
CHECK_DEADLOCK FALSE
