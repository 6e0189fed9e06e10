SPECIFICATION Spec
CONSTANTS
    b1 = b1
    b2 = b2
    b3 = b3
    e1 = e1
    e2 = e2
    maker = maker
    checker = checker
    u1 = u1
    u2 = u2
    c1 = c1
    c2 = c2
    Batches = {b1, b2}
    Employees = {e1}
    Users = {maker, checker}
    Utrs = {u1}
    Calls = {c1}
    MaxManual = 0
    MaxCreated = 1
    DualPolicy = TRUE
    None = None
SYMMETRY Names
PROPERTIES
    ReplayIsSafe
CHECK_DEADLOCK FALSE
