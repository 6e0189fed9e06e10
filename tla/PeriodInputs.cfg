SPECIFICATION Spec
CONSTANTS
    e1 = e1
    c1 = c1
    c2 = c2
    Employees = {e1}
    Calls = {c1, c2}
    Hours <- MCHours
    MaxDays = 1
INVARIANTS
    OneRowPerInput
    InputsFollowSources
    NothingLeftToPush
    FlagsAgree
CHECK_DEADLOCK FALSE
