-------------------------- MODULE MCDocumentSessions --------------------------
(* Instances of DocumentSessions for TLC. *)
EXTENDS DocumentSessions, TLC

CONSTANTS e1, e2, e3, o1, s1, s2, s3

Personal(role, e, order) ==
    [role |-> role, assigneeId |-> e, organizationId |-> NoOne, stepOrder |-> order]

\* e2 then e3 decide, e2 receives, e3 is informed.
TwoSteps == <<Personal("AGREEMENT", e2, 1), Personal("APPROVER", e3, 2),
              Personal("RECEIVER", e2, 3), Personal("REFERENCE", e3, 4)>>

\* The same with a department as the receiver.
DeptLine == <<Personal("APPROVER", e2, 1), Personal("APPROVER", e3, 2),
              [role |-> "DEPT_RECEIVER", assigneeId |-> NoOne, organizationId |-> o1, stepOrder |-> 3]>>

MCEmployees == {e1, e2, e3}
MCDocManagers == [o \in {o1} |-> {e2, e3}]
MCDeptHead == [o \in {o1} |-> NoOne]
MCLines == {TwoSteps}
AnyLines == {DeptLine}
MCDefaultLine == <<>>
MCCcInputs == {<<[role |-> "VIEWER", assigneeId |-> e2]>>}
NoProxyPairs == {{}}
\* Two callers who between them can make every call: e1 drafts and is the proxy
\* of e3, e2 decides the first step, manages o1 and is an administrator.
TwoCallers == s1 :> e1 @@ s2 :> e2
ProxyOfE3 == {{<<e3, e1>>}}
OwnSessions == s1 :> e1 @@ s2 :> e2 @@ s3 :> e3
=============================================================================
