SPECIFICATION SSpec
CONSTANTS
    e1 = e1
    e2 = e2
    e3 = e3
    o1 = o1
    s1 = s1
    s2 = s2
    s3 = s3
    NoOne = NoOne
    Employees <- MCEmployees
    Organizations = {o1}
    Drafter = e1
    Admins = {e2}
    Lines <- AnyLines
    DefaultLine <- MCDefaultLine
    DocManagers <- MCDocManagers
    DeptHead <- MCDeptHead
    CcInputs <- MCCcInputs
    ProxyChoices <- ProxyOfE3
    AllowPreApproval = TRUE
    EnablePrevStepReject = TRUE
    Sessions = {s1, s2}
    Owner <- TwoCallers
    Ops = {"update", "submit", "recall", "remove", "forceDelete", "addCc", "approve", "reject", "preApprove", "return", "cancel", "view", "receive", "bounce"}
INVARIANTS
    ReceiversAfterApproval
    OutcomesAreRecorded
CHECK_DEADLOCK FALSE
