SPECIFICATION Spec
CONSTANTS
    s1 = s1
    s2 = s2
    Users <- MCUsers
    Requester = "req"
    Nobody = "nobody"
    Sessions = {s1, s2}
    Amounts = {"small", "big"}
    Steps <- OwnSteps
    Grouped <- OwnGrouped
    Substitute <- AmyToBen
    Admins = {"boss"}
    HasStatus = TRUE
    MaxSubmits = 2
INVARIANT TasksSound
PROPERTY DecidedProperly
SYMMETRY SessionSymmetry
CHECK_DEADLOCK FALSE
