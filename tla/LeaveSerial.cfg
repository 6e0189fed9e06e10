SPECIFICATION Spec
CONSTANTS
    r1 = r1
    r2 = r2
    r3 = r3
    t1 = t1
    t2 = t2
    sick = sick
    NoRequest = NoRequest
    Requests = {r1, r2, r3}
    Txns = {t1}
    Dates <- MCDates
    LeaveTypes <- MCLeaveTypes
    TotalDays <- MCTotalDays
    YearOf <- MCYearOf
    PeriodOf <- MCPeriodOf
    Deadline <- MCDeadline
    Users <- MCUsers
    RoleOf <- MCRoleOf
    Managers <- MCManagers
    BackdateDays = 1
    Owner = "employee"
    AgentCancels = FALSE
SYMMETRY RowsOneByOne
INVARIANTS
    PendingIsReserved
    NoDayTwice
    SomeoneCanBeApproved
