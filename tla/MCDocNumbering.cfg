SPECIFICATION NSpec
CONSTANTS
    c1 = c1
    c2 = c2
    f1 = f1
    f2 = f2
    f3 = f3
    f4 = f4
    d1 = d1
    d2 = d2
    d3 = d3
    d4 = d4
    d5 = d5
    d6 = d6
    d7 = d7
    s1 = s1
    s2 = s2
    Companies = {c1, c2}
    Forms = {f1, f2, f3, f4}
    Docs = {d1, d2, d3, d4, d5, d6, d7}
    Sessions = {s1, s2}
    CompanyOf <- OneCompany
    FormOf <- DocForms
    RuleForms = {f1, f3, f4}
    Patterns <- Texts
    ResetYearly <- Resets
    Deletable = {f1}
    Editable = {f1}
    LastYear = 2
INVARIANTS
    FailsOnlyUnderContention
    GapFree
    SequenceCoversNumbers
SYMMETRY SessionsAndDocs
CHECK_DEADLOCK FALSE
