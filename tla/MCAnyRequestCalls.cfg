SPECIFICATION CSpec
CONSTANTS
    e1 = e1
    e2 = e2
    e3 = e3
    r1 = r1
    p1 = p1
    p2 = p2
    s1 = s1
    s2 = s2
    s3 = s3
    NoOne = NoOne
    People <- MCPeople
    Requester = e1
    Level <- MCLevel
    SharesOrg = {e2}
    DeptApprover = e2
    FirstAdmin = e3
    RuleIds = {r1}
    InitRules <- TwoRounds
    RuleEdits <- NoEdits
    FormStates = {TRUE}
    CcTargets = {e2}
    Payloads = {p1, p2}
    Sessions = {s1, s2, s3}
    Owner <- OwnCalls
    Ops = {"approve", "reject", "forceApprove", "forceReject", "cancel", "update", "recall"}
INVARIANTS
    WritesStayTogether
    RacesNeverApproveEarly
CHECK_DEADLOCK FALSE
