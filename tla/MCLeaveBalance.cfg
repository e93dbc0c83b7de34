SPECIFICATION LSpec
CHECK_DEADLOCK FALSE
CONSTANTS
    Types = {"day", "half"}
    FullDay = {"day"}
    Deduct <- MCDeduct
    LastDay = 2
    YearLength = 2
    Workdays = {1, 2}
    JoinedAt = 1
    Rules <- MCRules
    Amounts = {1}
    GrantExpiry = {1}
    MaxGranted = 1
    MaxExtended = 1
    LeaveIds = {1}
    MaxLength = 2
    MaxInFlight = 1
INVARIANTS
    LeaveTypeOK
    DaysAddUp
    OverdrawnOnlyByChanges
    UsedDaysAreLeaves
    AccrualNotRepeated
PROPERTIES
    AccrualNeverLowers
