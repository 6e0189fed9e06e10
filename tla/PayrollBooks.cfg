SPECIFICATION Spec
CONSTANTS
    jan = jan
    feb = feb
    u1 = u1
    u2 = u2
    a1 = a1
    s1 = s1
    s2 = s2
    NoUser = NoUser
    NoPeriod = NoPeriod
    Periods = {jan, feb}
    Users = {u1}
    Arrears = {a1}
    TargetOf <- MCTargetOf
    Instalments = 1
    Slots = {s1}
    MakerChecker = FALSE
    Legacy = FALSE
    Retries = TRUE
    Outcomes = {}
    MaxFaults = 0
SYMMETRY SamePeriods
INVARIANTS
    LoanIsBooked
    ArrearOnce
