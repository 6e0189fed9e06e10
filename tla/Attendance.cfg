SPECIFICATION Spec
CONSTANTS
    DayLength = 3
    MaxClock = 3
    MaxBreaks = 2
    MaxEdits = 1
    ShiftStart = 1
    ShiftEnd = 3
    EarlyWindow = 0
    PostWindow = 0
    MaxShift = 2
    ShiftBreak = 1
    AutoBreakMin = 1
    OffDates <- MCOffDates
    LockedDates <- MCLockedDates
    EditTimes <- MCEditTimes
INVARIANTS
    TypeOK
    OneActiveBreak
    BreaksAddUp
    BreaksWithinSession
    HoursAddUp
PROPERTIES
    OpensAlone
    SessionsEnd
CHECK_DEADLOCK FALSE
