--------------------------- MODULE DocumentApproval ---------------------------
(***************************************************************************)
(* One approval document, from the draft to its final state, with the      *)
(* handlers of DocumentsService and ApprovalActionsService as actions.     *)
(*                                                                         *)
(* Every handler of the code has two halves: it first reads the document   *)
(* and its steps and refuses the call when a condition fails (XGuard, with *)
(* the decisions it derives from what it read), then it runs one database  *)
(* transaction (XTx).  Here a handler is one atomic action, as when        *)
(* calls on a document do not overlap; DocumentSessions lets other         *)
(* handlers run between the two halves.                                    *)
(***************************************************************************)
EXTENDS ApprovalLine

CONSTANTS
    Drafter,              \* the employee who creates the document
    Admins,               \* employees with GENERAL_ADMIN access or more
    Lines,                \* approval lines a caller can hand in (StepInput arrays)
    DefaultLine,          \* the form's default shared line, <<>> if it has none
    DocManagers,          \* [Organizations -> SUBSET Employees]
    DeptHead,             \* [Organizations -> Employees \cup {NoOne}], docManagerId ?? approverId
    CcInputs,             \* non-empty sequences of [role, assigneeId] given to addCcSteps
    ProxyChoices,         \* the values the set of valid proxy pairs can take
    AllowPreApproval,     \* form.allowPreApproval
    EnablePrevStepReject  \* company setting approval.enable_prev_step_reject

ASSUME ConstantTypes ==
    /\ NoOne \notin Employees
    /\ Drafter \in Employees
    /\ Lines \subseteq Seq(Step)
    /\ DefaultLine \in Seq(Step)
    /\ DocManagers \in [Organizations -> SUBSET Employees]
    /\ DeptHead \in [Organizations -> Employees \cup {NoOne}]
    /\ CcInputs \subseteq Seq(CcTarget)
    /\ AllowPreApproval \in BOOLEAN
    /\ EnablePrevStepReject \in BOOLEAN

VARIABLES
    status,     \* Document.status, "NONE" before create, "DELETED" after a delete
    line,       \* the rows of the approval line: what never changes in them
    st,         \* ApprovalStep.status of every row
    proxyId,    \* ApprovalStep.proxyId of every row (isProxy is proxyId # NoOne)
    docNumber,  \* how many numbers were issued for the document; 0 is no number
    history,    \* kinds of ApprovalHistory records the document has
    emitted,    \* events of the last handler, <<event, employee concerned>>
    proxies     \* pairs <<principal, proxy>> whose latest active setting covers today

docVars == <<status, line, st, proxyId, docNumber, history, emitted>>
vars == <<status, line, st, proxyId, docNumber, history, emitted, proxies>>

\* Document.requestId has no writer anywhere in the code: a request stores the
\* document's id, never the reverse.  assertNotRequestManaged never refuses.
RequestManaged == FALSE

-----------------------------------------------------------------------------
(* Who may act, and on which line.                                         *)

\* The assignee of a department step: the first of its document managers (the
\* CHOOSE stands for their sortOrder), else the head of the department.
DeptAssignee(o) ==
    IF DocManagers[o] = {} THEN DeptHead[o] ELSE CHOOSE e \in DocManagers[o] : TRUE

Resolvable(l) ==
    \A i \in DOMAIN l : l[i].role \in DEPT_ROLES => DeptAssignee(l[i].organizationId) # NoOne

resolveSteps(l) ==
    [i \in DOMAIN l |-> IF l[i].role \in DEPT_ROLES
                        THEN [l[i] EXCEPT !.assigneeId = DeptAssignee(l[i].organizationId)]
                        ELSE l[i]]

ActsInPerson(i, e) ==
    \/ line[i].assigneeId = e
    \/ line[i].role \in DEPT_ROLES /\ e \in DocManagers[line[i].organizationId]

resolveActor(i, e) == ActsInPerson(i, e) \/ <<line[i].assigneeId, e>> \in proxies

\* The proxyId written for an action of e on row i.
ProxyOf(i, e) == IF ActsInPerson(i, e) THEN NoOne ELSE e

\* Where a submitted line comes from: the call, the draft, or the form.
SubmitLines ==
    Lines \cup (IF line # <<>> THEN {line} ELSE IF DefaultLine # <<>> THEN {DefaultLine} ELSE {})

Submittable(l) ==
    /\ FlowRows(l) # {}
    /\ \A i \in DOMAIN l : ~(l[i].role = "APPROVER" /\ l[i].assigneeId = Drafter)
    /\ Resolvable(l)

AllWaiting(l) == [i \in DOMAIN l |-> "WAITING"]
NoProxies(l)  == [i \in DOMAIN l |-> NoOne]

-----------------------------------------------------------------------------
(* DocumentsService.                                                       *)

Create(l) ==
    /\ status = "NONE"
    /\ Resolvable(l)
    /\ status' = "DRAFT"
    /\ line' = resolveSteps(l)
    /\ st' = AllWaiting(l)
    /\ proxyId' = NoProxies(l)
    /\ emitted' = {}
    /\ UNCHANGED <<docNumber, history, proxies>>

UpdateGuard(l) == status \in EDITABLE_STATUSES /\ ~RequestManaged /\ Resolvable(l)

UpdateTx(l) ==
    /\ line' = resolveSteps(l)
    /\ st' = AllWaiting(l)
    /\ proxyId' = NoProxies(l)
    /\ emitted' = {}
    /\ UNCHANGED <<status, docNumber, history>>

\* A call that carries no steps changes no modelled column.
Update(l) == UpdateGuard(l) /\ UpdateTx(l) /\ UNCHANGED proxies

DeleteTx ==
    /\ status' = "DELETED"
    /\ line' = <<>>
    /\ st' = <<>>
    /\ proxyId' = <<>>
    /\ history' = {}
    /\ emitted' = {}
    /\ UNCHANGED docNumber

Remove == status = "DRAFT" /\ DeleteTx /\ UNCHANGED proxies

ForceDelete(e) == e \in Admins /\ status \in DocStatus /\ DeleteTx /\ UNCHANGED proxies

BulkForceDelete(e) ==
    e \in Admins /\ status \in {"PENDING", "REJECTED"} /\ DeleteTx /\ UNCHANGED proxies

SubmitGuard(l) ==
    /\ status \in EDITABLE_STATUSES
    /\ ~RequestManaged
    /\ l \in SubmitLines
    /\ Submittable(l)

\* hadNumber: the document had a number when the handler read it.
SubmitTx(l, hadNumber) ==
    LET rows == resolveSteps(l) IN
    \E first \in FlowRows(rows) :
        /\ Lowest(rows, FlowRows(rows), first)
        /\ status' = "PENDING"
        /\ line' = rows
        /\ st' = [i \in DOMAIN rows |-> initialStepStatus(rows, i)]
        /\ proxyId' = NoProxies(rows)
        /\ docNumber' = IF hadNumber THEN docNumber ELSE docNumber + 1
        /\ history' = history \cup {"SUBMIT"}
        /\ emitted' = {<<"DOCUMENT_SUBMITTED", Drafter>>,
                       <<"DOCUMENT_STEP_PENDING", rows[first].assigneeId>>}

Submit(l) == SubmitGuard(l) /\ SubmitTx(l, docNumber # 0) /\ UNCHANGED proxies

\* MUTANT of RecallGuard: recall after an approval.
RecallAnyPending == status = "PENDING"

RecallGuard ==
    /\ status = "PENDING"
    /\ ~RequestManaged
    /\ \A i \in DOMAIN st : st[i] \notin ACTED_STEP_STATUSES

RecallTx ==
    /\ status' = "RECALLED"
    /\ history' = history \cup {"RECALL"}
    /\ emitted' = {<<"DOCUMENT_RECALLED", Drafter>>}
    /\ UNCHANGED <<line, st, proxyId, docNumber>>

Recall == RecallGuard /\ RecallTx /\ UNCHANGED proxies

\* fresh: the requested targets that have no row with their role yet.
AddCcGuard(e, fresh) ==
    /\ status \in {"PENDING", "APPROVED"}
    /\ ~RequestManaged
    /\ e = Drafter \/ \E i \in FlowRows(line) : line[i].assigneeId = e
    /\ \A k \in DOMAIN fresh, i \in DOMAIN line :
          ~(line[i].role = fresh[k].role /\ line[i].assigneeId = fresh[k].assigneeId)

IsMaxOrder(l, m) ==
    /\ m \in {0} \cup {l[i].stepOrder : i \in DOMAIN l}
    /\ \A i \in DOMAIN l : l[i].stepOrder <= m

\* MUTANT of AddCcTx: the new rows get no status.
AddCcWithoutStatus(fresh, maxOrder) ==
    /\ line' = line \o [k \in DOMAIN fresh |->
                          [role |-> fresh[k].role, assigneeId |-> fresh[k].assigneeId,
                           organizationId |-> NoOne, stepOrder |-> maxOrder + k]]
    /\ UNCHANGED <<status, st, proxyId, docNumber, history, emitted>>

AddCcTx(fresh, maxOrder) ==
    LET n == Len(line)
        ids == 1 .. (n + Len(fresh))
        CcRow(k) == [role |-> fresh[k].role, assigneeId |-> fresh[k].assigneeId,
                     organizationId |-> NoOne, stepOrder |-> maxOrder + k]
    IN  /\ line' = [i \in ids |-> IF i <= n THEN line[i] ELSE CcRow(i - n)]
        /\ st' = [i \in ids |-> IF i <= n THEN st[i] ELSE "PENDING"]
        /\ proxyId' = [i \in ids |-> IF i <= n THEN proxyId[i] ELSE NoOne]
        /\ emitted' = {<<"DOCUMENT_STEP_PENDING", fresh[k].assigneeId>> : k \in DOMAIN fresh}
        /\ UNCHANGED <<status, docNumber, history>>

AddCcSteps(e, fresh) ==
    /\ AddCcGuard(e, fresh)
    /\ \E m \in {0} \cup {line[i].stepOrder : i \in DOMAIN line} :
          IsMaxOrder(line, m) /\ AddCcTx(fresh, m)
    /\ UNCHANGED proxies

\* assertCanRead
CanRead(e) ==
    \/ e \in Admins
    \/ e = Drafter
    \/ \E i \in DOMAIN line : line[i].assigneeId = e \/ proxyId[i] = e

AddOpinion(e) ==
    /\ status \in DocStatus \ {"DRAFT"}
    /\ CanRead(e)
    /\ history' = history \cup {"OPINION"}
    /\ emitted' = {}
    /\ UNCHANGED <<status, line, st, proxyId, docNumber, proxies>>

-----------------------------------------------------------------------------
(* ApprovalActionsService.                                                 *)

\* MUTANT of Actionable: a step can be acted on again.
ActionableInAnyStatus(i, roles, e) ==
    i \in DOMAIN line /\ line[i].role \in roles /\ resolveActor(i, e)

\* What loadActionTarget and the assert* helpers demand of an action on row i.
Actionable(i, roles, e) ==
    /\ i \in DOMAIN line
    /\ ~RequestManaged
    /\ line[i].role \in roles
    /\ st[i] = "PENDING"
    /\ resolveActor(i, e)

ApproveGuard(i, e) == status = "PENDING" /\ Actionable(i, APPROVAL_FLOW_ROLES, e)

\* progressFlow: the row to activate next, 0 when the approval is final.
IsNext(i, next) ==
    IF NextRows(line, st, i) = {} THEN next = 0
    ELSE Lowest(line, NextRows(line, st, i), next)

ApprovalRecord(role, proxy) ==
    IF proxy # NoOne THEN "PROXY_APPROVE"
    ELSE CASE role = "AGREEMENT" -> "AGREE"
           [] role = "DEPT_COLLABORATOR" -> "DEPT_COLLAB"
           [] OTHER -> "APPROVE"

\* The endpoints approve, agree and deptCollab: one per flow role.
ApproveTx(i, proxy, next) ==
    LET passed == [st EXCEPT ![i] = IF proxy = NoOne THEN "APPROVED" ELSE "PROXY_APPROVED"] IN
    /\ IF next = 0
       THEN /\ status' = "APPROVED"
            /\ st' = ActivateReceivers(line, passed)
            /\ emitted' = {<<"DOCUMENT_APPROVED", Drafter>>}
       ELSE /\ st' = [passed EXCEPT ![next] = "PENDING"]
            /\ emitted' = {<<"DOCUMENT_STEP_PENDING", line[next].assigneeId>>,
                           <<"DOCUMENT_STEP_APPROVED", Drafter>>}
            /\ UNCHANGED status
    /\ proxyId' = [proxyId EXCEPT ![i] = proxy]
    /\ history' = history \cup {ApprovalRecord(line[i].role, proxy)}
    /\ UNCHANGED <<line, docNumber>>

approveFlowStep(i, e) ==
    /\ ApproveGuard(i, e)
    /\ \E next \in {0} \cup DOMAIN line : IsNext(i, next) /\ ApproveTx(i, ProxyOf(i, e), next)
    /\ UNCHANGED proxies

\* MUTANT of RejectTx: a rejection leaves no record.
RejectUnrecorded(i, proxy) ==
    /\ status' = "REJECTED"
    /\ st' = CancelOpenRows(line, [st EXCEPT ![i] = "REJECTED"], i)
    /\ proxyId' = [proxyId EXCEPT ![i] = proxy]
    /\ emitted' = {<<"DOCUMENT_REJECTED", Drafter>>}
    /\ UNCHANGED <<line, docNumber, history>>

RejectTx(i, proxy) ==
    /\ status' = "REJECTED"
    /\ st' = CancelOpenRows(line, [st EXCEPT ![i] = "REJECTED"], i)
    /\ proxyId' = [proxyId EXCEPT ![i] = proxy]
    /\ history' = history \cup {"REJECT"}
    /\ emitted' = {<<"DOCUMENT_REJECTED", Drafter>>}
    /\ UNCHANGED <<line, docNumber>>

reject(i, e) == ApproveGuard(i, e) /\ RejectTx(i, ProxyOf(i, e)) /\ UNCHANGED proxies

PreApproveGuard(i, e) ==
    AllowPreApproval /\ status = "PENDING" /\ Actionable(i, {"APPROVER"}, e)

PreApproveTx(i, proxy) ==
    /\ status' = "APPROVED"
    /\ st' = ActivateReceivers(line, SkipRemainingRows(line, [st EXCEPT ![i] = "PRE_APPROVED"]))
    /\ proxyId' = [proxyId EXCEPT ![i] = proxy]
    /\ history' = history \cup {"PRE_APPROVE"}
    /\ emitted' = {<<"DOCUMENT_APPROVED", Drafter>>}
    /\ UNCHANGED <<line, docNumber>>

preApprove(i, e) == PreApproveGuard(i, e) /\ PreApproveTx(i, ProxyOf(i, e)) /\ UNCHANGED proxies

ReturnGuard(i, e, previous) ==
    /\ EnablePrevStepReject
    /\ ApproveGuard(i, e)
    /\ Highest(line, PreviousRows(line, st, i), previous)

\* MUTANT of ReturnTx: the previous step keeps its proxy.
ReturnKeepsProxy(i, previous) ==
    /\ st' = [st EXCEPT ![i] = "RETURNED", ![previous] = "PENDING"]
    /\ history' = history \cup {"RETURN_PREV"}
    /\ emitted' = {<<"DOCUMENT_STEP_PENDING", line[previous].assigneeId>>}
    /\ UNCHANGED <<status, line, proxyId, docNumber>>

\* MUTANT of ReturnTx: nobody is told of the turn.
ReturnSilently(i, previous) ==
    /\ st' = [st EXCEPT ![i] = "RETURNED", ![previous] = "PENDING"]
    /\ proxyId' = [proxyId EXCEPT ![previous] = NoOne]
    /\ history' = history \cup {"RETURN_PREV"}
    /\ emitted' = {}
    /\ UNCHANGED <<status, line, docNumber>>

\* MUTANT of ReturnTx: the previous step is not reopened.
ReturnReopensNobody(i, previous) ==
    /\ st' = [st EXCEPT ![i] = "RETURNED", ![previous] = "WAITING"]
    /\ proxyId' = [proxyId EXCEPT ![previous] = NoOne]
    /\ history' = history \cup {"RETURN_PREV"}
    /\ emitted' = {}
    /\ UNCHANGED <<status, line, docNumber>>

ReturnTx(i, previous) ==
    /\ st' = [st EXCEPT ![i] = "RETURNED", ![previous] = "PENDING"]
    /\ proxyId' = [proxyId EXCEPT ![previous] = NoOne]
    /\ history' = history \cup {"RETURN_PREV"}
    /\ emitted' = {<<"DOCUMENT_STEP_PENDING", line[previous].assigneeId>>}
    /\ UNCHANGED <<status, line, docNumber>>

returnToPrevious(i, e, previous) ==
    ReturnGuard(i, e, previous) /\ ReturnTx(i, previous) /\ UNCHANGED proxies

\* MUTANT of CancelGuard: the approval of a finished document is taken back.
CancelInAnyDocument(i, e) ==
    /\ i \in DOMAIN line
    /\ st[i] \in Passed
    /\ line[i].assigneeId = e \/ proxyId[i] = e
    /\ \A j \in LaterFlowRows(line, i) : st[j] \in {"WAITING", "PENDING"}

CancelGuard(i, e) ==
    /\ i \in DOMAIN line
    /\ ~RequestManaged
    /\ status = "PENDING"
    /\ st[i] \in Passed
    /\ line[i].assigneeId = e \/ proxyId[i] = e
    /\ \A j \in LaterFlowRows(line, i) : st[j] \in {"WAITING", "PENDING"}

\* The row that loses its turn to row i, 0 when there is none.
IsCurrentPendingNext(i, cur) ==
    LET open == {j \in LaterFlowRows(line, i) : st[j] = "PENDING"} IN
    IF open = {} THEN cur = 0 ELSE Lowest(line, open, cur)

\* MUTANT of CancelTx: the next step keeps the turn too.
CancelKeepsNextTurn(i, cur) ==
    /\ st' = [st EXCEPT ![i] = "PENDING"]
    /\ proxyId' = [proxyId EXCEPT ![i] = NoOne]
    /\ history' = history \cup {"CANCEL_APPROVAL"}
    /\ emitted' = {}
    /\ UNCHANGED <<status, line, docNumber>>

CancelTx(i, cur) ==
    LET own == [st EXCEPT ![i] = "PENDING"] IN
    /\ st' = IF cur = 0 THEN own ELSE [own EXCEPT ![cur] = "WAITING"]
    /\ proxyId' = [proxyId EXCEPT ![i] = NoOne]
    /\ history' = history \cup {"CANCEL_APPROVAL"}
    /\ emitted' = {}
    /\ UNCHANGED <<status, line, docNumber>>

cancelApproval(i, e) ==
    /\ CancelGuard(i, e)
    /\ \E cur \in {0} \cup DOMAIN line : IsCurrentPendingNext(i, cur) /\ CancelTx(i, cur)
    /\ UNCHANGED proxies

\* view, receive and bounce write one row and a record, and leave the flow alone.
MarkTx(i, proxy, to, record) ==
    /\ st' = [st EXCEPT ![i] = to]
    /\ proxyId' = [proxyId EXCEPT ![i] = proxy]
    /\ history' = history \cup {record}
    /\ emitted' = IF record = "BOUNCE" THEN {<<"DOCUMENT_BOUNCED", Drafter>>} ELSE {}
    /\ UNCHANGED <<status, line, docNumber>>

\* No condition on the document's status: a rejected document can be viewed.
view(i, e) ==
    Actionable(i, CC_ROLES, e) /\ MarkTx(i, ProxyOf(i, e), "VIEWED", "VIEW") /\ UNCHANGED proxies

receive(i, e) ==
    /\ status = "APPROVED"
    /\ Actionable(i, RECEIVER_ROLES, e)
    /\ MarkTx(i, ProxyOf(i, e), "RECEIVED", "RECEIVE")
    /\ UNCHANGED proxies

bounce(i, e) ==
    /\ status = "APPROVED"
    /\ Actionable(i, {"DEPT_RECEIVER"}, e)
    /\ MarkTx(i, ProxyOf(i, e), "BOUNCED", "BOUNCE")
    /\ UNCHANGED proxies

-----------------------------------------------------------------------------
\* A proxy setting is created, switched, deleted, or its period begins or ends.
ChangeProxies ==
    /\ proxies' \in ProxyChoices
    /\ proxies' # proxies
    /\ emitted' = {}
    /\ UNCHANGED <<status, line, st, proxyId, docNumber, history>>

Init ==
    /\ status = "NONE"
    /\ line = <<>>
    /\ st = <<>>
    /\ proxyId = <<>>
    /\ docNumber = 0
    /\ history = {}
    /\ emitted = {}
    /\ proxies \in ProxyChoices

DraftNext ==
    \/ \E l \in Lines \cup {<<>>} : Create(l) \/ Update(l)
    \/ \E l \in SubmitLines : Submit(l)
    \/ Remove
    \/ Recall

StepNext(i, e) ==
    \/ approveFlowStep(i, e)
    \/ reject(i, e)
    \/ preApprove(i, e)
    \/ \E previous \in DOMAIN line : returnToPrevious(i, e, previous)
    \/ cancelApproval(i, e)
    \/ view(i, e)
    \/ receive(i, e)
    \/ bounce(i, e)

Next ==
    \/ DraftNext
    \/ \E e \in Employees : ForceDelete(e) \/ BulkForceDelete(e) \/ AddOpinion(e)
    \/ \E e \in Employees, fresh \in CcInputs : AddCcSteps(e, fresh)
    \/ \E i \in DOMAIN line, e \in Employees : StepNext(i, e)
    \/ ChangeProxies

Spec == Init /\ [][Next]_vars

\* Row ids a flow step can have: cc rows are only ever appended after them.
LineIds == UNION {DOMAIN l : l \in Lines \cup {DefaultLine}}

\* Whoever holds the turn approves if the turn keeps coming back to him.
FairSpec ==
    /\ Spec
    /\ \A i \in LineIds : SF_vars(\E e \in Employees : approveFlowStep(i, e))

-----------------------------------------------------------------------------
(* Properties.                                                             *)

\* Columns hold values of their type, and every row has all of them.
TypeOK ==
    /\ status \in DocStatus \cup {"NONE", "DELETED"}
    /\ line \in Seq(Step)
    /\ st \in [1 .. Len(line) -> StepStatus]
    /\ proxyId \in [1 .. Len(line) -> Employees \cup {NoOne}]
    /\ docNumber \in Nat
    /\ history \subseteq HistoryAction
    /\ proxies \in ProxyChoices

\* Row p has the turn: the flow steps before it are approved, those after it
\* are still to come (or sent the turn back).
HasTurn(p) ==
    /\ p \in FlowRows(line)
    /\ st[p] = "PENDING"
    /\ \A j \in FlowRows(line) \ {p} :
          \/ line[j].stepOrder < line[p].stepOrder /\ st[j] \in Passed
          \/ line[j].stepOrder > line[p].stepOrder /\ st[j] \in Resumable

\* A document under approval has exactly one current flow step, whatever mix of
\* approvals, returns and cancelled approvals led there.  approveFlowStep,
\* returnToPrevious and cancelApproval each move the turn by rewriting two rows.
OneTurn == status = "PENDING" => \E p \in FlowRows(line) : HasTurn(p)

\* A document is APPROVED only when every flow step was approved, or when all
\* steps before a pre-approving step were approved and all after it skipped
\* (finalizeApproval is reached from progressFlow and from preApprove only).
ApprovedMeansComplete ==
    status = "APPROVED" =>
        \/ \A i \in FlowRows(line) : st[i] \in Passed
        \/ \E p \in FlowRows(line) :
              /\ st[p] = "PRE_APPROVED"
              /\ \A j \in FlowRows(line) \ {p} :
                    \/ line[j].stepOrder < line[p].stepOrder /\ st[j] \in Passed
                    \/ line[j].stepOrder > line[p].stepOrder /\ st[j] = "SKIPPED"

\* Receivers can act exactly on approved documents: they wait before, are
\* cancelled by a rejection, and none is left waiting after the approval.
ReceiversFollowDocument ==
    \A i \in DOMAIN line : line[i].role \in RECEIVER_ROLES =>
        /\ status = "APPROVED" => st[i] \in {"PENDING", "RECEIVED", "BOUNCED"}
        /\ status = "REJECTED" => st[i] = "CANCELLED"
        /\ status \notin {"APPROVED", "REJECTED"} => st[i] = "WAITING"

\* A row names a proxy only for what that proxy did: the turn coming back
\* (return, cancelled approval) erases it, so no later approval in person is
\* attributed to the proxy, and PROXY_APPROVED is never without its proxy.
ProxyAttribution ==
    \A i \in DOMAIN line :
        /\ st[i] = "PROXY_APPROVED" => proxyId[i] # NoOne
        /\ st[i] \in {"WAITING", "PENDING", "RETURNED", "APPROVED", "SKIPPED", "CANCELLED"}
              => proxyId[i] = NoOne

\* A finished document stays as it was decided: its status changes no more
\* except by deletion, and no flow step is rewritten.
DecisionKept ==
    /\ status' = status
    /\ \A i \in FlowRows(line) : st[i]' = st[i]

FinalIsFinal ==
    [][(status \in {"APPROVED", "REJECTED", "RECALLED"}) => status' = "DELETED" \/ DecisionKept]_vars

\* Every flow step that gets the turn from somebody else is announced to its
\* assignee (DOCUMENT_STEP_PENDING); only cancelApproval, where the turn goes
\* back to the caller, announces nothing.
TurnGivenAloud ==
    \A i \in FlowRows(line') :
        (st'[i] = "PENDING" /\ ~(i \in DOMAIN st /\ st[i] = "PENDING"))
            => \/ <<"DOCUMENT_STEP_PENDING", line'[i].assigneeId>> \in emitted'
               \/ \E e \in Employees : cancelApproval(i, e)

TurnIsAnnounced == [][TurnGivenAloud]_vars

\* A number is issued once, on the submission, and never again.
NumberedOnce ==
    docNumber = IF status \in {"NONE", "DRAFT"} THEN 0
                ELSE IF status = "DELETED" THEN docNumber ELSE 1

\* When whoever keeps getting the turn eventually approves, every submitted
\* document leaves the PENDING state: no order of returns and cancelled
\* approvals leaves it without a step to act on.
SubmittedIsDecided == status = "PENDING" ~> status # "PENDING"
=============================================================================
