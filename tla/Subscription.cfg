SPECIFICATION FairSpec
CONSTANTS
    o1 = o1
    p1 = p1
    p2 = p2
    r1 = r1
    r2 = r2
    Orders = {o1}
    Payments = {p1, p2}
    OrderOf <- MCOrderOf
    Requests = {r1, r2}
    MaxAgain = 1
    Subscribed = FALSE
    None = None
INVARIANTS
    NothingIsFree
    PaidIsActive
PROPERTIES
    CustomerGetsAccess
CHECK_DEADLOCK FALSE
