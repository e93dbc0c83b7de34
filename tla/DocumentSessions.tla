--------------------------- MODULE DocumentSessions ---------------------------
(***************************************************************************)
(* The handlers of DocumentApproval as concurrent API calls.  A session is *)
(* one call in flight: Load reads the document, checks the handler's       *)
(* conditions and keeps what it decided from that read; Commit runs the    *)
(* transaction later, on the rows as they are then.  The transactions run  *)
(* at PostgreSQL's default isolation, take no lock beforehand and do not   *)
(* check the conditions again.                                             *)
(***************************************************************************)
EXTENDS DocumentApproval

CONSTANTS
    Sessions,   \* calls that can be in flight at the same time
    Owner,      \* [Sessions -> Employees], who makes the calls of a session
    Ops         \* the handlers called in this instance

ASSUME SessionConstants == Owner \in [Sessions -> Employees]

VARIABLE sess   \* what each call in flight has read and decided

svars == <<status, line, st, proxyId, docNumber, history, emitted, proxies, sess>>

Idle == [op |-> "idle", row |-> 0, proxy |-> NoOne, other |-> 0, steps |-> <<>>, stale |-> FALSE]

\* A call on step i: the handler keeps the step's id and its decision "other"
\* (the next step, the previous step, the step that loses its turn).
OnStep(op, i, e, other) ==
    [Idle EXCEPT !.op = op, !.row = i, !.proxy = ProxyOf(i, e), !.other = other]

\* The calls that pass their handler's conditions in the current state.
StepCalls(e, i) ==
    LET rows == {0} \cup DOMAIN line
        When(guard, call) == IF guard THEN {call} ELSE {}
    IN  {OnStep("approve", i, e, n) : n \in {n \in rows : ApproveGuard(i, e) /\ IsNext(i, n)}}
        \cup {OnStep("return", i, e, p) : p \in {p \in DOMAIN line : ReturnGuard(i, e, p)}}
        \cup {OnStep("cancel", i, e, c) : c \in {c \in rows : CancelGuard(i, e) /\ IsCurrentPendingNext(i, c)}}
        \cup When(ApproveGuard(i, e), OnStep("reject", i, e, 0))
        \cup When(PreApproveGuard(i, e), OnStep("preApprove", i, e, 0))
        \cup When(Actionable(i, CC_ROLES, e), OnStep("view", i, e, 0))
        \cup When(status = "APPROVED" /\ Actionable(i, RECEIVER_ROLES, e), OnStep("receive", i, e, 0))
        \cup When(status = "APPROVED" /\ Actionable(i, {"DEPT_RECEIVER"}, e), OnStep("bounce", i, e, 0))

DocCalls(e) ==
    {[Idle EXCEPT !.op = "update", !.steps = l] :
         l \in {l \in Lines : e = Drafter /\ UpdateGuard(l)}}
    \cup {[Idle EXCEPT !.op = "submit", !.steps = l, !.other = docNumber] :
         l \in {l \in SubmitLines : e = Drafter /\ SubmitGuard(l)}}
    \cup (UNION {{[Idle EXCEPT !.op = "addCc", !.steps = fresh, !.other = m] :
         m \in {m \in {0} \cup {line[i].stepOrder : i \in DOMAIN line} : IsMaxOrder(line, m)}} :
         fresh \in {f \in CcInputs : AddCcGuard(e, f)}})
    \cup (IF e = Drafter /\ RecallGuard THEN {[Idle EXCEPT !.op = "recall"]} ELSE {})
    \cup (IF e = Drafter /\ status = "DRAFT" THEN {[Idle EXCEPT !.op = "remove"]} ELSE {})
    \cup (IF e \in Admins /\ status \in DocStatus THEN {[Idle EXCEPT !.op = "forceDelete"]} ELSE {})

Load(p) ==
    /\ sess[p] = Idle
    /\ \E call \in DocCalls(Owner[p]) \cup UNION {StepCalls(Owner[p], i) : i \in DOMAIN line} :
          /\ call.op \in Ops
          /\ sess' = [sess EXCEPT ![p] = call]
    /\ UNCHANGED <<docVars, proxies>>

\* Once the line is replaced or deleted, the ids other calls hold name no row.
Finish(p) == sess' = [sess EXCEPT ![p] = Idle]
FinishReplacing(p) ==
    sess' = [q \in Sessions |->
                IF q = p THEN Idle
                ELSE IF sess[q].row # 0 \/ sess[q].op = "addCc" THEN [sess[q] EXCEPT !.stale = TRUE]
                ELSE sess[q]]

CommitStep(p) ==
    LET c == sess[p] IN
    /\ \/ c.op = "approve" /\ ApproveTx(c.row, c.proxy, c.other)
       \/ c.op = "reject" /\ RejectTx(c.row, c.proxy)
       \/ c.op = "preApprove" /\ PreApproveTx(c.row, c.proxy)
       \/ c.op = "return" /\ ReturnTx(c.row, c.other)
       \/ c.op = "cancel" /\ CancelTx(c.row, c.other)
       \/ c.op = "view" /\ MarkTx(c.row, c.proxy, "VIEWED", "VIEW")
       \/ c.op = "receive" /\ MarkTx(c.row, c.proxy, "RECEIVED", "RECEIVE")
       \/ c.op = "bounce" /\ MarkTx(c.row, c.proxy, "BOUNCED", "BOUNCE")
       \/ c.op = "addCc" /\ AddCcTx(c.steps, c.other)
       \/ c.op = "recall" /\ RecallTx
    /\ Finish(p)

CommitLine(p) ==
    LET c == sess[p] IN
    /\ \/ c.op = "update" /\ UpdateTx(c.steps)
       \/ c.op = "submit" /\ SubmitTx(c.steps, c.other # 0)
       \/ c.op = "remove" /\ history = {} /\ DeleteTx
       \/ c.op = "forceDelete" /\ DeleteTx
    /\ FinishReplacing(p)

\* The transaction finds its document, and the row it names.
Commit(p) ==
    /\ status # "DELETED" /\ ~sess[p].stale
    /\ CommitStep(p) \/ CommitLine(p)
    /\ UNCHANGED proxies

\* An update of a missing record raises P2025, and remove cannot delete a
\* document with history records: the transaction rolls back.
Abort(p) ==
    /\ sess[p].op # "idle"
    /\ \/ status = "DELETED"
       \/ sess[p].stale
       \/ sess[p].op = "remove" /\ history # {}
    /\ Finish(p)
    /\ UNCHANGED <<docVars, proxies>>

\* The calls that read nothing they depend on, or nothing that can change.
Others ==
    /\ \/ \E l \in Lines \cup {<<>>} : Create(l)
       \/ \E e \in Employees : AddOpinion(e)
       \/ ChangeProxies
    /\ UNCHANGED sess

SInit == Init /\ sess = [p \in Sessions |-> Idle]
SNext == Others \/ \E p \in Sessions : Load(p) \/ Commit(p) \/ Abort(p)
SSpec == SInit /\ [][SNext]_svars

-----------------------------------------------------------------------------
(* What holds of any overlapping calls.                                    *)

ApprovalRecords == {"APPROVE", "PROXY_APPROVE", "AGREE", "DEPT_COLLAB", "PRE_APPROVE"}

\* Receivers never get ahead of the approval: however calls overlap, a receiver
\* row that left WAITING without being cancelled belongs to a document that
\* somebody approved (finalizeApproval runs in the approving transaction).
ReceiversAfterApproval ==
    \A i \in DOMAIN line :
        (line[i].role \in RECEIVER_ROLES /\ st[i] \in {"PENDING", "RECEIVED", "BOUNCED"})
            => history \cap ApprovalRecords # {}

\* The audit trail is complete: however calls overlap, the outcome a row or the
\* document shows has its ApprovalHistory record, since each transaction writes
\* both or neither.
OutcomesAreRecorded ==
    /\ status = "REJECTED" => "REJECT" \in history
    /\ status = "APPROVED" => history \cap ApprovalRecords # {}
    /\ status = "RECALLED" => "RECALL" \in history
    /\ \A i \in DOMAIN st :
          /\ st[i] = "PROXY_APPROVED" => "PROXY_APPROVE" \in history
          /\ st[i] = "RETURNED" => "RETURN_PREV" \in history
          /\ st[i] = "SKIPPED" => "PRE_APPROVE" \in history
          /\ st[i] = "BOUNCED" => "BOUNCE" \in history

-----------------------------------------------------------------------------
(* What the handlers' comments say of a call, stated of the moment its     *)
(* transaction runs.                                                       *)

\* What the messages and comments say of when a call is accepted: only documents
\* in progress are decided, only drafts are edited, submitted or deleted, recall
\* comes before the first approval and a cancelled approval before the next
\* approver has acted.
Accepted(c) ==
    /\ c.op \in {"approve", "reject", "preApprove", "return", "cancel", "recall"} => status = "PENDING"
    /\ c.op \in {"update", "submit", "remove"} => status \in EDITABLE_STATUSES
    /\ c.op = "recall" => \A i \in DOMAIN st : st[i] \notin ACTED_STEP_STATUSES
    /\ c.op = "cancel" => \A j \in LaterFlowRows(line, c.row) : st[j] \in {"WAITING", "PENDING"}

\* "recall (the drafter, only before an approval)", "only a document in progress
\* can be decided", and so for the other calls: what was checked when the document
\* was read still holds when the transaction writes.
AcceptedWhenWritten == [][\A p \in Sessions : Commit(p) => Accepted(sess[p])]_svars
=============================================================================
