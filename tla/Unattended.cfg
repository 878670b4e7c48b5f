SPECIFICATION UnattendedSpec
CONSTANTS
    s1 = s1
    s2 = s2
    m1 = m1
    m2 = m2
    r1 = r1
    r2 = r2
    c1 = c1
    c2 = c2
    Entries = {1, 2}
    Instances = {"A", "B"}
    Threads = {"poll", "other poll"}
    Host <- TwoEach
    Lease = 1
    Interval = 1
    MaxRun = 1
    MaxAdmin = 2
    MaxCrashes = 1
    Messages = {m1, m2}
    Senders = {s1, s2}
    MaxAttempts = 2
    MaxPersons = 0
    MaxSenderCrashes = 1
    SlowSends = FALSE
    Students = {s1, s2}
    FeeRuns = {r1, r2}
    Clerks = {c1, c2}
    Scope <- ScopeGrade
    Schedule <- SplitAndWhole
    Bills <- OneBill
    MaxEdits = 0
    MaxClerkCrashes = 1
    Deletions = FALSE
INVARIANT OneRunAtATime
 
PROPERTY ReadyRuns
PROPERTY NothingForgotten
PROPERTY EverybodyBilled
CHECK_DEADLOCK FALSE
