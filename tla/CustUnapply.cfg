SPECIFICATION SpecUnapply
CONSTANTS
    Sessions = {"s1"}
    Customers <- UnapplyOnly
    MaxUnapply = 1
INVARIANT NeverOverApplied
CHECK_DEADLOCK FALSE
