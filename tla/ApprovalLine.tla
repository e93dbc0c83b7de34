----------------------------- MODULE ApprovalLine -----------------------------
(***************************************************************************)
(* The vocabulary of electronic approval: document and step states, step   *)
(* roles, and the pure questions the handlers ask about an approval line.  *)
(*                                                                         *)
(* An approval line is a sequence of steps (rows of ApprovalStep); a row   *)
(* id is the position of the row, so ids order rows of one line by         *)
(* creation.  What never changes after a row is created (role, assignee,   *)
(* organization, order) is in "line"; the status column is kept apart, as  *)
(* a function "st" with the same domain.                                   *)
(***************************************************************************)
EXTENDS Naturals, Sequences

CONSTANTS
    Employees,       \* employee ids of one company
    Organizations,   \* departments that department steps are routed to
    NoOne            \* the null of a nullable employee/organization column

DocStatus == {"DRAFT", "PENDING", "APPROVED", "REJECTED", "RECALLED", "CANCELLED"}

StepRole == {"APPROVER", "AGREEMENT", "REFERENCE", "VIEWER", "RECEIVER",
             "DEPT_COLLABORATOR", "DEPT_RECEIVER"}

StepStatus == {"WAITING", "PENDING", "APPROVED", "PROXY_APPROVED", "PRE_APPROVED",
               "REJECTED", "RETURNED", "CANCELLED", "SKIPPED", "VIEWED",
               "RECEIVED", "BOUNCED"}

APPROVAL_FLOW_ROLES    == {"APPROVER", "AGREEMENT", "DEPT_COLLABORATOR"}
RECEIVER_ROLES         == {"RECEIVER", "DEPT_RECEIVER"}
DEPT_ROLES             == {"DEPT_COLLABORATOR", "DEPT_RECEIVER"}
CC_ROLES               == {"REFERENCE", "VIEWER"}
\* MUTANT of CANCEL_ON_REJECT_ROLES: a rejection forgets the receivers.
CancelFlowRolesOnly    == APPROVAL_FLOW_ROLES

CANCEL_ON_REJECT_ROLES == APPROVAL_FLOW_ROLES \cup RECEIVER_ROLES
ACTED_STEP_STATUSES    == {"APPROVED", "PROXY_APPROVED", "PRE_APPROVED"}
EDITABLE_STATUSES      == {"DRAFT"}

\* The two states approveFlowStep leaves a flow step in.
Passed == {"APPROVED", "PROXY_APPROVED"}
\* The states progressFlow picks the next step from.
Resumable == {"WAITING", "RETURNED"}

HistoryAction == {"SUBMIT", "RECALL", "APPROVE", "PROXY_APPROVE", "AGREE", "REJECT",
                  "PRE_APPROVE", "RETURN_PREV", "CANCEL_APPROVAL", "VIEW", "RECEIVE",
                  "DEPT_COLLAB", "BOUNCE", "OPINION"}

\* A department step names its department; its assignee is resolved later.
Step == {r \in [role : StepRole, assigneeId : Employees \cup {NoOne},
                organizationId : Organizations \cup {NoOne}, stepOrder : Nat] :
            r.role \in DEPT_ROLES => r.organizationId \in Organizations}

CcTarget == [role : CC_ROLES, assigneeId : Employees]

FlowRows(line) == {i \in DOMAIN line : line[i].role \in APPROVAL_FLOW_ROLES}

\* i is a row of S that no row of S precedes: sort(stepOrder asc)[0].  Rows
\* with the same stepOrder are in no defined order.
Lowest(line, S, i) ==
    i \in S /\ \A j \in S : line[i].stepOrder <= line[j].stepOrder

\* sort(stepOrder desc)[0].
Highest(line, S, i) ==
    i \in S /\ \A j \in S : line[j].stepOrder <= line[i].stepOrder

\* MUTANT of NextRows: a step that returned the turn is never resumed.
NextRowsWaitingOnly(line, st, i) == {j \in FlowRows(line) \ {i} : st[j] = "WAITING"}

\* The candidates progressFlow continues with once row i is approved.
NextRows(line, st, i) == {j \in FlowRows(line) \ {i} : st[j] \in Resumable}

\* The rows returnToPrevious may hand the turn back to.
PreviousRows(line, st, i) ==
    {j \in FlowRows(line) : line[j].stepOrder < line[i].stepOrder /\ st[j] \in Passed}

LaterFlowRows(line, i) ==
    {j \in FlowRows(line) : line[j].stepOrder > line[i].stepOrder}

\* MUTANT of initialStepStatus: receivers may act at once.
ReceiversStartOpen(line, i) ==
    IF line[i].role \in APPROVAL_FLOW_ROLES /\ ~Lowest(line, FlowRows(line), i)
    THEN "WAITING" ELSE "PENDING"

\* status given to a row when its line is submitted
initialStepStatus(line, i) ==
    CASE line[i].role \in APPROVAL_FLOW_ROLES ->
             IF Lowest(line, FlowRows(line), i) THEN "PENDING" ELSE "WAITING"
      [] line[i].role \in RECEIVER_ROLES -> "WAITING"
      [] OTHER -> "PENDING"

\* MUTANT of ActivateReceivers: the approval does not reach the receivers.
LeaveReceiversWaiting(line, st) == st

\* finalizeApproval: waiting receivers may now act
ActivateReceivers(line, st) ==
    [i \in DOMAIN st |->
        IF line[i].role \in RECEIVER_ROLES /\ st[i] = "WAITING" THEN "PENDING" ELSE st[i]]

\* reject: what is still open, other than row i, is cancelled
CancelOpenRows(line, st, i) ==
    [j \in DOMAIN st |->
        IF j # i /\ line[j].role \in CANCEL_ON_REJECT_ROLES /\ st[j] \in {"WAITING", "PENDING"}
        THEN "CANCELLED" ELSE st[j]]

\* preApprove: flow steps not yet reached are skipped
SkipRemainingRows(line, st) ==
    [j \in DOMAIN st |->
        IF line[j].role \in APPROVAL_FLOW_ROLES /\ st[j] \in Resumable
        THEN "SKIPPED" ELSE st[j]]
=============================================================================
