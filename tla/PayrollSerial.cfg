SPECIFICATION Spec
CONSTANTS
    jan = jan
    feb = feb
    u1 = u1
    u2 = u2
    a1 = a1
    s1 = s1
    s2 = s2
    NoUser = NoUser
    NoPeriod = NoPeriod
    Periods = {jan}
    Users = {u1, u2}
    Arrears = {a1}
    TargetOf <- MCTargetOf
    Instalments = 2
    Slots = {s1}
    MakerChecker = TRUE
    Legacy = TRUE
    Retries = TRUE
    Outcomes = {"PAID", "FAILED"}
    MaxFaults = 1
SYMMETRY SameUsers
INVARIANTS
    DualControl
    PaidIsSettled
PROPERTIES
    ApprovedFiguresStand
    ClosedStaysClosed
