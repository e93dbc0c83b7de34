SPECIFICATION FairSpec
CONSTANTS
    e1 = e1
    e2 = e2
    e3 = e3
    o1 = o1
    NoOne = NoOne
    Employees <- MCEmployees
    Organizations = {o1}
    Drafter = e1
    Admins <- MCAdmins
    Lines <- MCLines
    DefaultLine <- MCDefaultLine
    DocManagers <- MCDocManagers
    DeptHead <- MCDeptHead
    CcInputs <- MCCcInputs
    ProxyChoices <- MCProxyChoices
    AllowPreApproval = TRUE
    EnablePrevStepReject = TRUE
INVARIANTS
    TypeOK
    OneTurn
    ApprovedMeansComplete
    ReceiversFollowDocument
    ProxyAttribution
PROPERTIES
    FinalIsFinal
    TurnIsAnnounced
    ImplementsTurnPassing
    SubmittedIsDecided
