SPECIFICATION RFairSpec
CONSTANTS
    e1 = e1
    e2 = e2
    e3 = e3
    e4 = e4
    r1 = r1
    r2 = r2
    p1 = p1
    p2 = p2
    NoOne = NoOne
    People <- MCPeople
    Requester = e1
    Level <- MCLevel
    SharesOrg = {e2}
    DeptApprover = e2
    FirstAdmin = e3
    RuleIds = {r1, r2}
    InitRules <- FixedRules
    RuleEdits <- SomeEdits
    FormStates = {TRUE, FALSE}
    CcTargets = {e2}
    Payloads = {p1, p2}
INVARIANTS
    RequestTypeOK
    EffectsExactlyOnce
    DocumentMirrorsRequest
    DistinctApprovers
PROPERTIES
    DecidedIsFinal
    QuorumDecides
    RoundsHandOver
    RequestIsDecided
CHECK_DEADLOCK FALSE
