SPECIFICATION RegistersSpec
CONSTANTS
    q1 = q1
    q2 = q2
    d1 = d1
    d2 = d2
    c1 = c1
    c2 = c2
    Rows <- AllRows
    Sessions <- Requests
    Contents <- Texts
    MaxEffects = 2
    Movers <- Requests
    Methods = {"FIFO", "LIFO", "Average", "Standard", "Specific"}
    Costs = {1, 2}
    Quantities = {1, 2}
    QtyApproved = 2
    Openings <- NothingOrTwoLots
    MaxLots = 3
    MaxMoved = 3
    Clerks <- Requests
    MaxOrders = 2
    MaxPosts = 4
    PayClerks <- Requests
    Loan = 3
    Instalment = 2
    PeriodNames = {1, 2}
    Papers <- Documents
    Officers <- Requests
    Advance = 2
    Spent = {1, 3}
    MaxOutstanding = 1
    MaxLines = 2
    Keepers <- Requests
    EnteredByHand <- ByHand
    Cost = 6
    Step = 1
    Salvage = 1
    Life = 2
    FaMethods = {"Straight-Line", "Declining-Balance 1", "DB1/SL"}
    FinalRounding = 1
    Days = {1, 3}
    MaxDrafts = 2
    PrLines = {1, 2}
    Reviewers <- Requests
    MaxRaised = 2
    ResultAccounts <- Documents
    DimValues = {"none", "branch"}
    Accountants <- Requests
    MaxYears = 2
    MaxPosted = 2
    MaxClosings = 3
INVARIANT RunIsRepeatable
SYMMETRY Symm
CONSTRAINT Undisturbed
CHECK_DEADLOCK FALSE
