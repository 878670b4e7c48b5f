SPECIFICATION MoneySpec
CONSTANTS
    q1 = q1
    q2 = q2
    ann = ann
    bob = bob
    c1 = c1
    k1 = k1
    Sessions = {"s1", "s2"}
    Customers <- AllCustomers
    MaxUnapply = 0
    Users = {"maker", "officer"}
    Maker = "maker"
    Tellers <- Requests
    ReceiptAmounts = {1, 2, 3}
    ApprovalLimit = 2
    MaxEdits = 2
    Nobody = Nobody
    Handlers <- Requests
    C2B = {c1}
    Pushes = {k1}
    Students <- Pupils
    MaxDeaths = 1
    MaxRows = 2
 
 
 
PROPERTY BigReceiptsApprovedUnlessChanged
 
INVARIANT PaidIffCredited
SYMMETRY Symm
CHECK_DEADLOCK FALSE
