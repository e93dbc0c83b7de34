SPECIFICATION ASpec
CONSTANTS
    LastTick = 4
    DayLength = 3
    LateGrace = 0
    ClockInBefore = 0
    Policy = "if_no_shift"
    AbsentGrace = 1
    Lookback = 1
    ShiftIds = {1}
    RecordIds = {a1, a2}
    a1 = a1
    a2 = a2
    BreakIds = {1}
    ShiftTimes <- MCShiftTimes
    Kinds = {"plain"}
    GivenTimes = {2}
    GivenStatus = {"normal"}
    MaxInFlight = 1
    Slow = {"insert", "listed", "delete"}
INVARIANT
    OpenMeansAtWork
