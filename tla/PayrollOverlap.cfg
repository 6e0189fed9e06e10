SPECIFICATION FairSpec
CONSTANTS
    jan = jan
    feb = feb
    u1 = u1
    u2 = u2
    a1 = a1
    s1 = s1
    s2 = s2
    NoUser = NoUser
    NoPeriod = NoPeriod
    Periods = {jan}
    Users = {u1}
    Arrears = {}
    TargetOf <- MCTargetOf
    Instalments = 2
    Slots = {s1, s2}
    MakerChecker = FALSE
    Legacy = FALSE
    Retries = TRUE
    Outcomes = {}
    MaxFaults = 0
INVARIANTS
    SlipIsBooked
    LoanIsBooked
    ApprovedWasCalculated
PROPERTIES
    ProcessingEnds
