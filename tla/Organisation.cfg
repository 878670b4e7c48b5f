SPECIFICATION OrganisationSpec
CONSTANTS
    q1 = q1
    q2 = q2
    a1 = a1
    a2 = a2
    b1 = b1
    b2 = b2
    c1 = c1
    c2 = c2
    y1 = y1
    y2 = y2
    t1 = t1
    t2 = t2
    t3 = t3
    Jobs <- Firsts
    NoJob = NoJob
    PostNumbers = {0, 1}
    People <- Seconds
    HrDesks <- Requests
    Scales <- Firsts
    NoScale = NoScale
    Pays = {1, 2}
    NoContract = NoContract
    PayDesks <- Requests
    Years = {y1, y2}
    YearTerms = {t1, t2, t3}
    YearOf <- MCYearOf
    Sort <- MCSort
    Registrars <- Requests
    Classes <- Firsts
    Teachers <- Seconds
    NoOne = NoOne
    Hours <- WithinHours
    LessonTerms = {1, 2}
    LessonIds <- Thirds
    Planners <- Requests
    Exams = {t1}
    NoMark = NoMark
    Scores = {1, 2}
    PassLevels = {1, 2}
    RemarkTexts <- Firsts
    NoText = NoText
    Markers <- Requests
INVARIANT EstablishmentSound
 
 
SYMMETRY Symm
CONSTRAINT Orderly
CHECK_DEADLOCK FALSE
