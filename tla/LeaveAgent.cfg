SPECIFICATION FairSpec
CONSTANTS
    r1 = r1
    r2 = r2
    r3 = r3
    t1 = t1
    t2 = t2
    sick = sick
    NoRequest = NoRequest
    Requests = {r1, r2}
    Txns = {t1, t2}
    Dates <- OneYear
    LeaveTypes <- MCLeaveTypes
    TotalDays <- MCTotalDays
    YearOf <- MCYearOf
    PeriodOf <- MCPeriodOf
    Deadline <- MCDeadline
    Users <- MCUsers
    RoleOf <- MCRoleOf
    Managers <- MCManagers
    BackdateDays = 1
    Owner = "employee"
    AgentCancels = TRUE
INVARIANTS
    NeverOverdrawn
PROPERTIES
    EveryCallEnds
