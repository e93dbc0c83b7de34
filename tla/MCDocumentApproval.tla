------------------------- MODULE MCDocumentApproval -------------------------
(* Instances of DocumentApproval for TLC. *)
EXTENDS SequencedApproval

CONSTANTS e1, e2, e3, o1

MCEmployees == {e1, e2, e3}
MCDocManagers == [o \in {o1} |-> {e2, e3}]
MCDeptHead == [o \in {o1} |-> NoOne]

Personal(role, e, order) ==
    [role |-> role, assigneeId |-> e, organizationId |-> NoOne, stepOrder |-> order]
Dept(role, o, order) ==
    [role |-> role, assigneeId |-> NoOne, organizationId |-> o, stepOrder |-> order]

\* Three flow steps handed in out of order, one assignee holding two of them.
ThreeSteps == <<Personal("APPROVER", e3, 5), Personal("AGREEMENT", e2, 1),
                Personal("APPROVER", e2, 7), Personal("RECEIVER", e1, 8)>>
\* A department in the flow and as a receiver, and a reference.
DeptSteps == <<Personal("APPROVER", e2, 0), Dept("DEPT_COLLABORATOR", o1, 1),
               Dept("DEPT_RECEIVER", o1, 2), Personal("REFERENCE", e1, 3)>>
\* A draft that cannot be submitted: nobody decides.
NoFlow == <<Personal("VIEWER", e2, 1)>>

MCLines == {ThreeSteps, DeptSteps, NoFlow}
MCDefaultLine == <<Personal("APPROVER", e3, 1)>>
MCCcInputs == {<<[role |-> "VIEWER", assigneeId |-> e3]>>}
MCProxyChoices == {{}, {<<e3, e1>>}}
MCAdmins == {e3}
=============================================================================
