SPECIFICATION SSpec
CONSTANTS
    e1 = e1
    e2 = e2
    e3 = e3
    o1 = o1
    s1 = s1
    s2 = s2
    s3 = s3
    NoOne = NoOne
    Employees <- MCEmployees
    Organizations = {o1}
    Drafter = e1
    Admins = {e3}
    Lines <- MCLines
    DefaultLine <- MCDefaultLine
    DocManagers <- MCDocManagers
    DeptHead <- MCDeptHead
    CcInputs <- MCCcInputs
    ProxyChoices <- NoProxyPairs
    AllowPreApproval = TRUE
    EnablePrevStepReject = TRUE
    Sessions = {s1, s2, s3}
    Owner <- OwnSessions
    Ops = {"update", "submit", "recall", "remove", "approve", "reject", "preApprove", "return", "cancel"}
PROPERTIES
    AcceptedWhenWritten
CHECK_DEADLOCK FALSE
