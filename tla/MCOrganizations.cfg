SPECIFICATION OSpec
CONSTANTS
    OrgIds = {o1, o2, o3}
    EmployeeIds = {e1}
    NoOrg = NoOrg
    MAX_DEPTH = 3
    MaxInFlight = 1
SYMMETRY OrgSymmetry
INVARIANTS
    OrganizationTypeOK
PROPERTIES
    EveryOrganizationShown
    NobodyLosesTheirOrganization
