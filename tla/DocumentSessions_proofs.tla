----------------------- MODULE DocumentSessions_proofs -----------------------
(***************************************************************************)
(* Proofs, for every set of employees, lines, sessions and handlers called *)
(* concurrently, that what the transactions of the handlers write together *)
(* stays together, however the calls overlap.                              *)
(***************************************************************************)
EXTENDS DocumentSessions, SequencedApproval_proofs

-----------------------------------------------------------------------------
(* The inductive invariant.                                                *)

\* A call in flight carries ids, people and lines.
CallType ==
    [op : {"idle", "approve", "return", "cancel", "reject", "preApprove", "view", "receive", "bounce",
           "update", "submit", "addCc", "recall", "remove", "forceDelete"},
     row : Nat, proxy : Employees \cup {NoOne}, other : Nat,
     steps : Seq(Step) \cup Seq(CcTarget), stale : BOOLEAN]

\* The line or the cc targets it was handed.
StepsTyped(c) ==
    /\ c.op \in {"update", "submit"} => c.steps \in Seq(Step)
    /\ c.op = "addCc" => c.steps \in Seq(CcTarget)

CallsTyped ==
    /\ sess \in [Sessions -> CallType]
    /\ \A p \in Sessions : StepsTyped(sess[p])

\* What the records h say of a status s: only steps of the approval flow are ever
\* approved (cancelApproval, which reopens a step, does not look at its role), an
\* active receiver follows an approval, and every outcome has its record.
RowSound(role, s, h) ==
    /\ s \in Passed => role \in APPROVAL_FLOW_ROLES
    /\ role \in RECEIVER_ROLES /\ s \in {"PENDING", "RECEIVED", "BOUNCED"} => h \cap ApprovalRecords # {}
    /\ s = "PROXY_APPROVED" => "PROXY_APPROVE" \in h
    /\ s = "RETURNED" => "RETURN_PREV" \in h
    /\ s = "SKIPPED" => "PRE_APPROVE" \in h
    /\ s = "BOUNCED" => "BOUNCE" \in h

StatusSound(s, h) ==
    /\ s = "REJECTED" => "REJECT" \in h
    /\ s = "APPROVED" => h \cap ApprovalRecords # {}
    /\ s = "RECALLED" => "RECALL" \in h

DocSound ==
    /\ TypeOK
    /\ StatusSound(status, history)
    /\ \A i \in DOMAIN line : RowSound(line[i].role, st[i], history)

\* The rows a call holds are, until the line l is replaced, rows of the role its
\* handler acts on, and a receiver's call follows an approval among the records h.
NamesRows(l, h, c) ==
    ~c.stale =>
        /\ c.op \in {"approve", "reject", "preApprove", "return", "cancel"} => c.row \in FlowRows(l)
        /\ c.op \in {"approve", "cancel"} => c.other \in {0} \cup FlowRows(l)
        /\ c.op = "return" => c.other \in FlowRows(l)
        /\ c.op = "view" => c.row \in DOMAIN l /\ l[c.row].role \in CC_ROLES
        /\ c.op \in {"receive", "bounce"} => /\ c.row \in DOMAIN l
                                             /\ l[c.row].role \in RECEIVER_ROLES
                                             /\ h \cap ApprovalRecords # {}

CallsNameRows == \A p \in Sessions : NamesRows(line, history, sess[p])

\* Before the document exists there is no row and no call.
NothingBeforeCreate == status = "NONE" => line = <<>> /\ \A p \in Sessions : sess[p] = Idle

SIInv ==
    /\ DocSound
    /\ CallsTyped
    /\ CallsNameRows
    /\ NothingBeforeCreate

-----------------------------------------------------------------------------
(* Facts about types, lines and records.                                   *)

\* A record once written justifies what it justified: records are only added.
LEMMA MoreRecords ==
    ASSUME NEW h, NEW g, h \subseteq g
    PROVE  /\ \A role, s : RowSound(role, s, h) => RowSound(role, s, g)
           /\ \A s : StatusSound(s, h) => StatusSound(s, g)
  <1>1. \A role, s : RowSound(role, s, h) => RowSound(role, s, g)
    BY DEF RowSound
  <1>2. \A s : StatusSound(s, h) => StatusSound(s, g)
    BY DEF StatusSound
  <1> QED
    BY <1>1, <1>2

\* Steps that wait, or that are open outside the receivers, need no record.
LEMMA FreshRowSound ==
    ASSUME NEW role, NEW s, NEW h, s = "WAITING" \/ (s = "PENDING" /\ role \notin RECEIVER_ROLES)
    PROVE  RowSound(role, s, h)
  BY DEF RowSound, Passed

\* resolveSteps turns a line into a line with the same roles.
LEMMA ResolvedLine ==
    ASSUME NEW l \in Seq(Step)
    PROVE  /\ resolveSteps(l) \in Seq(Step)
           /\ DOMAIN resolveSteps(l) = DOMAIN l
           /\ Len(resolveSteps(l)) = Len(l)
           /\ DOMAIN l = 1 .. Len(l)
  <1> DEFINE r == resolveSteps(l)
  <1>0. DOMAIN l = 1 .. Len(l) /\ Len(l) \in Nat /\ \A i \in 1 .. Len(l) : l[i] \in Step
    OBVIOUS
  <1>1. \A i \in 1 .. Len(l) : r[i] \in Step
    <2> SUFFICES ASSUME NEW i \in 1 .. Len(l) PROVE r[i] \in Step
      OBVIOUS
    <2>1. CASE l[i].role \notin DEPT_ROLES
      BY <1>0, <2>1 DEF resolveSteps
    <2>2. CASE l[i].role \in DEPT_ROLES
      <3>1. DeptAssignee(l[i].organizationId) \in Employees \cup {NoOne}
        BY <1>0, <2>2, ConstantTypes DEF Step, DeptAssignee
      <3>2. r[i] = [l[i] EXCEPT !.assigneeId = DeptAssignee(l[i].organizationId)]
        BY <1>0, <2>2 DEF resolveSteps
      <3> QED
        BY <1>0, <3>1, <3>2 DEF Step
    <2> QED
      BY <2>1, <2>2
  <1>2. DOMAIN r = 1 .. Len(l) /\ r = [i \in DOMAIN r |-> r[i]]
    BY <1>0 DEF resolveSteps
  <1>3. r \in [1 .. Len(l) -> Step]
    BY <1>1, <1>2
  <1>4. r \in Seq(Step) /\ Len(r) = Len(l)
    BY <1>0, <1>3
  <1> QED
    BY <1>0, <1>2, <1>4

-----------------------------------------------------------------------------
(* The transactions keep the document sound, whenever they run.            *)

\* The shape of every transaction on a line that stays: records are added, and
\* each row either keeps its status or gets one that the records justify.
LEMMA RewriteKeepsDoc ==
    ASSUME DocSound, UNCHANGED <<line, docNumber, proxies>>,
           status' \in DocStatus \cup {"NONE", "DELETED"},
           history \subseteq history', history' \subseteq HistoryAction,
           status' = status \/ StatusSound(status', history'),
           DOMAIN st' = DOMAIN st, st' = [j \in DOMAIN st |-> st'[j]],
           \A j \in DOMAIN line : \/ st'[j] = st[j]
                                  \/ (st'[j] \in StepStatus /\ RowSound(line[j].role, st'[j], history')),
           NEW i, NEW x \in Employees \cup {NoOne}, proxyId' = [proxyId EXCEPT ![i] = x]
    PROVE  DocSound'
  <1>1. /\ DOMAIN st = 1 .. Len(line) /\ DOMAIN line = DOMAIN st /\ DOMAIN proxyId = DOMAIN line
        /\ \A j \in DOMAIN line : st[j] \in StepStatus /\ proxyId[j] \in Employees \cup {NoOne}
    BY RowFacts DEF DocSound
  <1>2. st' \in [1 .. Len(line) -> StepStatus]
    BY <1>1
  <1>3. proxyId' \in [1 .. Len(line) -> Employees \cup {NoOne}]
    BY <1>1
  <1>4. TypeOK'
    BY <1>2, <1>3 DEF DocSound, TypeOK
  <1>5. StatusSound(status', history')
    BY MoreRecords DEF DocSound
  <1>6. \A j \in DOMAIN line : RowSound(line[j].role, st'[j], history')
    BY MoreRecords DEF DocSound
  <1> QED
    BY <1>4, <1>5, <1>6 DEF DocSound

\* The shape of create, update and submit: every row is new.
LEMMA NewLineKeepsDoc ==
    ASSUME DocSound, NEW l \in Seq(Step), UNCHANGED proxies,
           line' = resolveSteps(l), proxyId' = NoProxies(resolveSteps(l)),
           status' \in {status, "DRAFT", "PENDING"}, docNumber' \in Nat,
           history \subseteq history', history' \subseteq HistoryAction,
           NEW f, st' = f, f = [i \in DOMAIN resolveSteps(l) |-> f[i]],
           \A i \in DOMAIN resolveSteps(l) :
              f[i] = "WAITING" \/ (f[i] = "PENDING" /\ resolveSteps(l)[i].role \notin RECEIVER_ROLES)
    PROVE  DocSound'
  <1> DEFINE r == resolveSteps(l)
  <1>1. r \in Seq(Step) /\ DOMAIN r = 1 .. Len(r)
    BY ResolvedLine
  <1>2. st' \in [1 .. Len(line') -> StepStatus] /\ proxyId' \in [1 .. Len(line') -> Employees \cup {NoOne}]
    BY <1>1 DEF NoProxies, StepStatus
  <1>3. TypeOK'
    BY <1>1, <1>2 DEF DocSound, TypeOK, DocStatus
  <1>4. StatusSound(status', history')
    <2>1. CASE status' = status
      BY <2>1, MoreRecords DEF DocSound
    <2>2. CASE status' \in {"DRAFT", "PENDING"}
      BY <2>2 DEF StatusSound
    <2> QED
      BY <2>1, <2>2
  <1>5. \A i \in DOMAIN r : RowSound(r[i].role, f[i], history')
    BY FreshRowSound
  <1> QED
    BY <1>3, <1>4, <1>5 DEF DocSound

LEMMA ApproveTxKeepsDoc ==
    ASSUME DocSound, NEW i \in FlowRows(line), NEW x \in Employees \cup {NoOne},
           NEW next \in {0} \cup FlowRows(line), ApproveTx(i, x, next), UNCHANGED proxies
    PROVE  DocSound'
  <1> DEFINE how == IF x = NoOne THEN "APPROVED" ELSE "PROXY_APPROVED"
             passed == [st EXCEPT ![i] = how]
  <1>1. /\ DOMAIN st = DOMAIN line /\ i \in DOMAIN line /\ line[i].role \in APPROVAL_FLOW_ROLES
        /\ next # 0 => next \in DOMAIN line /\ line[next].role \in APPROVAL_FLOW_ROLES
    BY RowFacts DEF DocSound, FlowRows
  <1>2. /\ UNCHANGED <<line, docNumber, proxies>> /\ proxyId' = [proxyId EXCEPT ![i] = x]
        /\ history' = history \cup {ApprovalRecord(line[i].role, x)}
    BY DEF ApproveTx
  <1>3. /\ ApprovalRecord(line[i].role, x) \in ApprovalRecords
        /\ x # NoOne => ApprovalRecord(line[i].role, x) = "PROXY_APPROVE"
    <2>1. CASE x # NoOne
      BY <2>1 DEF ApprovalRecord, ApprovalRecords
    <2>2. CASE x = NoOne
      BY <2>2 DEF ApprovalRecord, ApprovalRecords
    <2> QED
      BY <2>1, <2>2
  <1>4. history \subseteq history' /\ history' \subseteq HistoryAction /\ history' \cap ApprovalRecords # {}
    BY <1>2, <1>3 DEF DocSound, TypeOK, HistoryAction, ApprovalRecords
  <1>5. how \in StepStatus /\ RowSound(line[i].role, how, history')
    BY <1>1, <1>2, <1>3, RoleGroups DEF StepStatus, RowSound
  <1>0. DOMAIN passed = DOMAIN line /\ \A j \in DOMAIN line : passed[j] = IF j = i THEN how ELSE st[j]
    BY <1>1
  <1> HIDE DEF passed, how
  <1>6. CASE next = 0
    <2>1. status' = "APPROVED" /\ st' = ActivateReceivers(line, passed)
      BY <1>6 DEF ApproveTx, passed, how
    <2>2. \A j \in DOMAIN line :
            st'[j] = IF line[j].role \in RECEIVER_ROLES /\ passed[j] = "WAITING" THEN "PENDING" ELSE passed[j]
      BY <1>0, <2>1 DEF ActivateReceivers
    <2>3. \A j \in DOMAIN line : st'[j] = st[j] \/ (st'[j] \in StepStatus /\ RowSound(line[j].role, st'[j], history'))
      <3> TAKE j \in DOMAIN line
      <3>1. CASE line[j].role \in RECEIVER_ROLES /\ passed[j] = "WAITING"
        BY <1>4, <2>2, <3>1 DEF RowSound, Passed, StepStatus
      <3>2. CASE ~(line[j].role \in RECEIVER_ROLES /\ passed[j] = "WAITING")
        BY <1>0, <1>5, <2>2, <3>2
      <3> QED
        BY <3>1, <3>2
    <2>4. DOMAIN st' = DOMAIN st /\ st' = [j \in DOMAIN st |-> st'[j]]
      BY <1>0, <1>1, <2>1 DEF ActivateReceivers
    <2>5. status' \in DocStatus /\ StatusSound(status', history')
      BY <1>4, <2>1 DEF StatusSound, DocStatus
    <2> QED
      BY <1>2, <1>4, <2>3, <2>4, <2>5, RewriteKeepsDoc
  <1>7. CASE next # 0
    <2>1. st' = [passed EXCEPT ![next] = "PENDING"] /\ status' = status
      BY <1>7 DEF ApproveTx, passed, how
    <2>2. RowSound(line[next].role, "PENDING", history') /\ "PENDING" \in StepStatus
      BY <1>1, <1>7, RoleGroups, FreshRowSound DEF StepStatus
    <2>3. \A j \in DOMAIN line : st'[j] = st[j] \/ (st'[j] \in StepStatus /\ RowSound(line[j].role, st'[j], history'))
      <3> TAKE j \in DOMAIN line
      <3>1. st'[j] = IF j = next THEN "PENDING" ELSE passed[j]
        BY <1>0, <2>1
      <3>2. CASE j = next
        BY <2>2, <3>1, <3>2
      <3>3. CASE j # next
        BY <1>0, <1>5, <3>1, <3>3
      <3> QED
        BY <3>2, <3>3
    <2>4. DOMAIN st' = DOMAIN st /\ st' = [j \in DOMAIN st |-> st'[j]]
      BY <1>0, <1>1, <2>1
    <2>5. status' \in DocStatus \cup {"NONE", "DELETED"}
      BY <2>1 DEF DocSound, TypeOK
    <2> QED
      BY <1>2, <1>4, <2>1, <2>3, <2>4, <2>5, RewriteKeepsDoc
  <1> QED
    BY <1>6, <1>7

LEMMA RejectTxKeepsDoc ==
    ASSUME DocSound, NEW i, NEW x \in Employees \cup {NoOne}, RejectTx(i, x), UNCHANGED proxies
    PROVE  DocSound'
  <1>1. /\ DOMAIN st = DOMAIN line /\ \A j \in DOMAIN line : st[j] \in StepStatus
    BY RowFacts DEF DocSound
  <1>2. /\ UNCHANGED <<line, docNumber, proxies>> /\ proxyId' = [proxyId EXCEPT ![i] = x]
        /\ history' = history \cup {"REJECT"} /\ status' = "REJECTED"
        /\ st' = CancelOpenRows(line, [st EXCEPT ![i] = "REJECTED"], i)
    BY DEF RejectTx
  <1>3. \A j \in DOMAIN line : st'[j] \in {st[j], "REJECTED", "CANCELLED"}
    BY <1>1, <1>2 DEF CancelOpenRows
  <1>4. \A role : RowSound(role, "REJECTED", history') /\ RowSound(role, "CANCELLED", history')
    BY DEF RowSound, Passed
  <1>5. \A j \in DOMAIN line : st'[j] = st[j] \/ (st'[j] \in StepStatus /\ RowSound(line[j].role, st'[j], history'))
    <2> TAKE j \in DOMAIN line
    <2>1. CASE st'[j] = st[j]
      BY <1>3, <2>1 DEF StepStatus
    <2>2. CASE st'[j] = "REJECTED"
      BY <1>4, <2>2 DEF StepStatus
    <2>3. CASE st'[j] = "CANCELLED"
      BY <1>4, <2>3 DEF StepStatus
    <2> QED
      BY <1>3, <2>1, <2>2, <2>3
  <1>6. DOMAIN st' = DOMAIN st /\ st' = [j \in DOMAIN st |-> st'[j]]
    BY <1>2 DEF CancelOpenRows
  <1>7. /\ history \subseteq history' /\ history' \subseteq HistoryAction
        /\ status' \in DocStatus /\ StatusSound(status', history')
    BY <1>2 DEF DocSound, TypeOK, HistoryAction, DocStatus, StatusSound
  <1> QED
    BY <1>2, <1>5, <1>6, <1>7, RewriteKeepsDoc

LEMMA PreApproveTxKeepsDoc ==
    ASSUME DocSound, NEW i, NEW x \in Employees \cup {NoOne}, PreApproveTx(i, x), UNCHANGED proxies
    PROVE  DocSound'
  <1> DEFINE own == [st EXCEPT ![i] = "PRE_APPROVED"]
             skipped == SkipRemainingRows(line, own)
  <1>1. DOMAIN st = DOMAIN line /\ DOMAIN own = DOMAIN line
    BY RowFacts DEF DocSound
  <1>2. /\ UNCHANGED <<line, docNumber, proxies>> /\ proxyId' = [proxyId EXCEPT ![i] = x]
        /\ history' = history \cup {"PRE_APPROVE"} /\ status' = "APPROVED"
        /\ st' = ActivateReceivers(line, skipped)
    BY DEF PreApproveTx
  <1>3. /\ history \subseteq history' /\ history' \subseteq HistoryAction
        /\ "PRE_APPROVE" \in history' /\ history' \cap ApprovalRecords # {}
        /\ status' \in DocStatus /\ StatusSound(status', history')
    BY <1>2 DEF DocSound, TypeOK, HistoryAction, DocStatus, StatusSound, ApprovalRecords
  <1>4. DOMAIN skipped = DOMAIN line /\ \A j \in DOMAIN line : skipped[j] \in {st[j], "PRE_APPROVED", "SKIPPED"}
    BY <1>1 DEF SkipRemainingRows
  <1>5. /\ DOMAIN st' = DOMAIN st /\ st' = [j \in DOMAIN st |-> st'[j]]
        /\ \A j \in DOMAIN line : st'[j] = skipped[j] \/ (line[j].role \in RECEIVER_ROLES /\ st'[j] = "PENDING")
    <2>1. /\ DOMAIN st' = DOMAIN st /\ st' = [j \in DOMAIN st |-> st'[j]]
          /\ \A j \in DOMAIN line : st'[j] = IF line[j].role \in RECEIVER_ROLES /\ skipped[j] = "WAITING"
                                            THEN "PENDING" ELSE skipped[j]
      <3> HIDE DEF skipped
      <3> QED
        BY <1>1, <1>2, <1>4 DEF ActivateReceivers
    <2> QED
      BY <2>1
  <1>6. \A role : RowSound(role, "PRE_APPROVED", history') /\ RowSound(role, "SKIPPED", history')
                  /\ RowSound(role, "PENDING", history')
    BY <1>3 DEF RowSound, Passed
  <1>7. \A j \in DOMAIN line : st'[j] = st[j] \/ (st'[j] \in StepStatus /\ RowSound(line[j].role, st'[j], history'))
    BY <1>4, <1>5, <1>6 DEF StepStatus
  <1> QED
    BY <1>2, <1>3, <1>5, <1>7, RewriteKeepsDoc

LEMMA ReturnTxKeepsDoc ==
    ASSUME DocSound, NEW i, NEW p \in FlowRows(line), ReturnTx(i, p), UNCHANGED proxies
    PROVE  DocSound'
  <1>1. DOMAIN st = DOMAIN line /\ p \in DOMAIN line /\ line[p].role \notin RECEIVER_ROLES
    BY RowFacts, RoleGroups DEF DocSound, FlowRows
  <1>2. /\ UNCHANGED <<line, docNumber, proxies, status>> /\ proxyId' = [proxyId EXCEPT ![p] = NoOne]
        /\ history' = history \cup {"RETURN_PREV"} /\ st' = [st EXCEPT ![i] = "RETURNED", ![p] = "PENDING"]
    BY DEF ReturnTx
  <1>3. /\ \A role : RowSound(role, "RETURNED", history')
        /\ RowSound(line[p].role, "PENDING", history')
    BY <1>1, <1>2 DEF RowSound, Passed
  <1>4. /\ history \subseteq history' /\ history' \subseteq HistoryAction
        /\ status' \in DocStatus \cup {"NONE", "DELETED"}
    BY <1>2 DEF DocSound, TypeOK, HistoryAction
  <1>5. /\ DOMAIN st' = DOMAIN st /\ st' = [j \in DOMAIN st |-> st'[j]]
        /\ \A j \in DOMAIN line : \/ st'[j] \in {st[j], "RETURNED"}
                                  \/ (j = p /\ st'[j] = "PENDING")
    BY <1>1, <1>2
  <1>6. \A j \in DOMAIN line : st'[j] = st[j] \/ (st'[j] \in StepStatus /\ RowSound(line[j].role, st'[j], history'))
    <2> TAKE j \in DOMAIN line
    <2>1. CASE st'[j] = st[j]
      BY <1>5, <2>1 DEF StepStatus
    <2>2. CASE st'[j] = "RETURNED"
      BY <1>3, <2>2 DEF StepStatus
    <2>3. CASE j = p /\ st'[j] = "PENDING"
      BY <1>3, <2>3 DEF StepStatus
    <2> QED
      BY <1>5, <2>1, <2>2, <2>3
  <1> QED
    BY <1>2, <1>4, <1>5, <1>6, RewriteKeepsDoc

LEMMA CancelTxKeepsDoc ==
    ASSUME DocSound, NEW i \in FlowRows(line), NEW cur, CancelTx(i, cur), UNCHANGED proxies
    PROVE  DocSound'
  <1>1. DOMAIN st = DOMAIN line /\ i \in DOMAIN line /\ line[i].role \notin RECEIVER_ROLES
    BY RowFacts, RoleGroups DEF DocSound, FlowRows
  <1>2. /\ UNCHANGED <<line, docNumber, proxies, status>> /\ proxyId' = [proxyId EXCEPT ![i] = NoOne]
        /\ history' = history \cup {"CANCEL_APPROVAL"}
    BY DEF CancelTx
  <1>3. /\ \A role : RowSound(role, "WAITING", history')
        /\ RowSound(line[i].role, "PENDING", history')
    BY <1>1 DEF RowSound, Passed
  <1>4. /\ history \subseteq history' /\ history' \subseteq HistoryAction
        /\ status' \in DocStatus \cup {"NONE", "DELETED"}
    BY <1>2 DEF DocSound, TypeOK, HistoryAction
  <1>5. /\ DOMAIN st' = DOMAIN st /\ st' = [j \in DOMAIN st |-> st'[j]]
        /\ \A j \in DOMAIN line : st'[j] \in {st[j], "WAITING"} \/ (j = i /\ st'[j] = "PENDING")
    <2>1. CASE cur = 0
      BY <1>1, <2>1 DEF CancelTx
    <2>2. CASE cur # 0
      BY <1>1, <2>2 DEF CancelTx
    <2> QED
      BY <2>1, <2>2
  <1>6. \A j \in DOMAIN line : st'[j] = st[j] \/ (st'[j] \in StepStatus /\ RowSound(line[j].role, st'[j], history'))
    <2> TAKE j \in DOMAIN line
    <2>1. CASE st'[j] = st[j]
      BY <1>5, <2>1 DEF StepStatus
    <2>2. CASE st'[j] = "WAITING"
      BY <1>3, <2>2 DEF StepStatus
    <2>3. CASE j = i /\ st'[j] = "PENDING"
      BY <1>3, <2>3 DEF StepStatus
    <2> QED
      BY <1>5, <2>1, <2>2, <2>3
  <1> QED
    BY <1>2, <1>4, <1>5, <1>6, RewriteKeepsDoc

\* view, receive and bounce; a receiver's mark needs an approval on record.
LEMMA MarkTxKeepsDoc ==
    ASSUME DocSound, NEW i \in DOMAIN line, NEW x \in Employees \cup {NoOne}, NEW to, NEW a,
           MarkTx(i, x, to, a), UNCHANGED proxies,
           <<to, a>> \in {<<"VIEWED", "VIEW">>, <<"RECEIVED", "RECEIVE">>, <<"BOUNCED", "BOUNCE">>},
           to = "VIEWED" \/ history \cap ApprovalRecords # {}
    PROVE  DocSound'
  <1>1. DOMAIN st = DOMAIN line
    BY RowFacts DEF DocSound
  <1>2. /\ UNCHANGED <<line, docNumber, proxies, status>> /\ proxyId' = [proxyId EXCEPT ![i] = x]
        /\ history' = history \cup {a} /\ st' = [st EXCEPT ![i] = to]
    BY DEF MarkTx
  <1>3. to \in StepStatus /\ \A role : RowSound(role, to, history')
    BY <1>2 DEF RowSound, Passed, StepStatus
  <1>4. /\ history \subseteq history' /\ history' \subseteq HistoryAction
        /\ status' \in DocStatus \cup {"NONE", "DELETED"}
    BY <1>2 DEF DocSound, TypeOK, HistoryAction
  <1>5. /\ DOMAIN st' = DOMAIN st /\ st' = [j \in DOMAIN st |-> st'[j]]
        /\ \A j \in DOMAIN line : st'[j] \in {st[j], to}
    BY <1>1, <1>2
  <1> QED
    BY <1>2, <1>3, <1>4, <1>5, RewriteKeepsDoc

LEMMA RecallTxKeepsDoc ==
    ASSUME DocSound, RecallTx, UNCHANGED proxies
    PROVE  DocSound'
  <1>1. /\ TypeOK' /\ UNCHANGED <<line, st>> /\ history \subseteq history' /\ StatusSound(status', history')
    BY DEF RecallTx, DocSound, TypeOK, DocStatus, HistoryAction, StatusSound
  <1> QED
    BY <1>1, MoreRecords DEF DocSound

LEMMA DeleteTxKeepsDoc ==
    ASSUME DocSound, DeleteTx, UNCHANGED proxies
    PROVE  DocSound'
  BY DEF DeleteTx, DocSound, TypeOK, StatusSound

\* addCcSteps appends open rows for readers, whatever the line is by then.
LEMMA AddCcTxKeepsDoc ==
    ASSUME DocSound, NEW fresh \in Seq(CcTarget), NEW m \in Nat, AddCcTx(fresh, m), UNCHANGED proxies
    PROVE  DocSound'
  <1> DEFINE n == Len(line)
             ids == 1 .. (n + Len(fresh))
  <1>1. /\ DOMAIN line = 1 .. n /\ n \in Nat
        /\ \A i \in 1 .. n : line[i] \in Step /\ st[i] \in StepStatus /\ proxyId[i] \in Employees \cup {NoOne}
    BY RowFacts DEF DocSound
  <1>2. Len(fresh) \in Nat /\ \A k \in 1 .. Len(fresh) : fresh[k] \in CcTarget
    OBVIOUS
  <1>3. /\ DOMAIN line' = ids /\ line' = [i \in ids |-> line'[i]]
        /\ st' = [i \in ids |-> st'[i]] /\ proxyId' = [i \in ids |-> proxyId'[i]]
    BY DEF AddCcTx
  <1>4. \A i \in 1 .. n : i \in ids /\ line'[i] = line[i] /\ st'[i] = st[i] /\ proxyId'[i] = proxyId[i]
    BY <1>1, <1>2 DEF AddCcTx
  <1>5. \A i \in ids \ (1 .. n) :
          line'[i] \in Step /\ line'[i].role \in CC_ROLES /\ st'[i] = "PENDING" /\ proxyId'[i] = NoOne
    <2> SUFFICES ASSUME NEW i \in ids \ (1 .. n)
                 PROVE  line'[i] \in Step /\ line'[i].role \in CC_ROLES /\ st'[i] = "PENDING" /\ proxyId'[i] = NoOne
      OBVIOUS
    <2>1. i - n \in 1 .. Len(fresh) /\ ~(i <= n) /\ m + (i - n) \in Nat
      BY <1>1, <1>2
    <2>2. /\ line'[i] = [role |-> fresh[i - n].role, assigneeId |-> fresh[i - n].assigneeId,
                         organizationId |-> NoOne, stepOrder |-> m + (i - n)]
          /\ st'[i] = "PENDING" /\ proxyId'[i] = NoOne
      BY <2>1 DEF AddCcTx
    <2> QED
      BY <1>2, <2>1, <2>2 DEF CcTarget, Step, CC_ROLES, DEPT_ROLES, StepRole
  <1>6. ids = (1 .. n) \cup (ids \ (1 .. n))
    BY <1>1, <1>2
  <1>7. UNCHANGED <<status, docNumber, history, proxies>>
    BY DEF AddCcTx
  <1>8. TypeOK'
    <2>1. line' \in [1 .. (n + Len(fresh)) -> Step] /\ n + Len(fresh) \in Nat
      BY <1>1, <1>2, <1>3, <1>4, <1>5, <1>6
    <2>2. line' \in Seq(Step) /\ Len(line') = n + Len(fresh)
      BY <2>1
    <2>3. st' \in [ids -> StepStatus] /\ proxyId' \in [ids -> Employees \cup {NoOne}]
      BY <1>1, <1>3, <1>4, <1>5, <1>6 DEF StepStatus
    <2> QED
      BY <1>7, <2>2, <2>3 DEF DocSound, TypeOK
  <1>9. \A i \in DOMAIN line' : RowSound(line'[i].role, st'[i], history')
    <2>1. \A i \in 1 .. n : RowSound(line'[i].role, st'[i], history')
      BY <1>1, <1>4, <1>7 DEF DocSound
    <2>2. \A i \in ids \ (1 .. n) : RowSound(line'[i].role, st'[i], history')
      BY <1>5, FreshRowSound, RoleGroups
    <2> QED
      BY <1>3, <1>6, <2>1, <2>2
  <1> QED
    BY <1>7, <1>8, <1>9 DEF DocSound

LEMMA UpdateTxKeepsDoc ==
    ASSUME DocSound, NEW l \in Seq(Step), UpdateTx(l), UNCHANGED proxies
    PROVE  DocSound'
  <1>1. /\ line' = resolveSteps(l) /\ st' = AllWaiting(l) /\ proxyId' = NoProxies(resolveSteps(l))
        /\ UNCHANGED <<status, docNumber, history>>
    BY ResolvedLine DEF UpdateTx, NoProxies
  <1>2. /\ AllWaiting(l) = [i \in DOMAIN resolveSteps(l) |-> AllWaiting(l)[i]]
        /\ \A i \in DOMAIN resolveSteps(l) : AllWaiting(l)[i] = "WAITING"
    BY ResolvedLine DEF AllWaiting
  <1>3. docNumber' \in Nat /\ history \subseteq history' /\ history' \subseteq HistoryAction
    BY <1>1 DEF DocSound, TypeOK
  <1> QED
    BY <1>1, <1>2, <1>3, NewLineKeepsDoc

LEMMA SubmitTxKeepsDoc ==
    ASSUME DocSound, NEW l \in Seq(Step), NEW had, SubmitTx(l, had), UNCHANGED proxies
    PROVE  DocSound'
  <1> DEFINE r == resolveSteps(l)
             f == [i \in DOMAIN r |-> initialStepStatus(r, i)]
  <1>1. /\ line' = r /\ st' = f /\ proxyId' = NoProxies(r) /\ status' = "PENDING"
        /\ docNumber' = IF had THEN docNumber ELSE docNumber + 1
        /\ history' = history \cup {"SUBMIT"}
    BY DEF SubmitTx
  <1>2. docNumber' \in Nat /\ history \subseteq history' /\ history' \subseteq HistoryAction
    BY <1>1 DEF DocSound, TypeOK, HistoryAction
  <1>3. \A i \in DOMAIN r : f[i] = "WAITING" \/ (f[i] = "PENDING" /\ r[i].role \notin RECEIVER_ROLES)
    <2>1. \A i \in DOMAIN r : r[i].role \in StepRole
      BY ResolvedLine DEF Step
    <2> TAKE i \in DOMAIN r
    <2>2. CASE r[i].role \in APPROVAL_FLOW_ROLES
      BY <2>2, RoleGroups DEF initialStepStatus
    <2>3. CASE r[i].role \notin APPROVAL_FLOW_ROLES
      BY <2>1, <2>3, RoleGroups DEF initialStepStatus
    <2> QED
      BY <2>2, <2>3
  <1>4. f = [i \in DOMAIN r |-> f[i]]
    OBVIOUS
  <1> QED
    BY <1>1, <1>2, <1>3, <1>4, NewLineKeepsDoc

LEMMA CreateKeepsDoc ==
    ASSUME DocSound, NEW l \in Lines \cup {<<>>}, Create(l)
    PROVE  DocSound'
  <1>0. l \in Seq(Step)
    BY ConstantTypes, EmptySeq
  <1>1. /\ line' = resolveSteps(l) /\ st' = AllWaiting(l) /\ proxyId' = NoProxies(resolveSteps(l))
        /\ status' = "DRAFT" /\ UNCHANGED <<docNumber, history, proxies>>
    BY <1>0, ResolvedLine DEF Create, NoProxies
  <1>2. /\ AllWaiting(l) = [i \in DOMAIN resolveSteps(l) |-> AllWaiting(l)[i]]
        /\ \A i \in DOMAIN resolveSteps(l) : AllWaiting(l)[i] = "WAITING"
    BY <1>0, ResolvedLine DEF AllWaiting
  <1>3. docNumber' \in Nat /\ history \subseteq history' /\ history' \subseteq HistoryAction
    BY <1>1 DEF DocSound, TypeOK
  <1> QED
    BY <1>0, <1>1, <1>2, <1>3, NewLineKeepsDoc

-----------------------------------------------------------------------------
(* Load: what a handler keeps of what it read.                             *)

\* Every call is typed and, when it is loaded, names rows of the line.
CallSound(c) ==
    /\ c \in CallType /\ StepsTyped(c) /\ ~c.stale
    /\ NamesRows(line, history, c)
    /\ status # "NONE"

LEMMA OnStepFields ==
    ASSUME NEW op, NEW i, NEW e, NEW other, NEW c, c = OnStep(op, i, e, other)
    PROVE  c = [op |-> op, row |-> i, proxy |-> ProxyOf(i, e), other |-> other, steps |-> <<>>, stale |-> FALSE]
  BY DEF OnStep, Idle

\* The common part of the calls on a step.
LEMMA StepCallSound ==
    ASSUME SIInv, NEW i \in DOMAIN line, NEW e \in Employees, NEW other \in {0} \cup DOMAIN line, NEW op,
           op \in {"approve", "reject", "preApprove", "return", "cancel", "view", "receive", "bounce"},
           op \in {"approve", "reject", "preApprove", "return", "cancel"} => i \in FlowRows(line),
           op \in {"approve", "cancel"} => other \in {0} \cup FlowRows(line),
           op = "return" => other \in FlowRows(line),
           op = "view" => line[i].role \in CC_ROLES,
           op \in {"receive", "bounce"} => line[i].role \in RECEIVER_ROLES /\ status = "APPROVED"
    PROVE  CallSound(OnStep(op, i, e, other))
  <1> SUFFICES ASSUME NEW c, c = OnStep(op, i, e, other)
               PROVE  CallSound(c)
    OBVIOUS
  <1>0. i \in Nat /\ other \in Nat
    BY RowFacts DEF SIInv, DocSound
  <1>1. c = [op |-> op, row |-> i, proxy |-> ProxyOf(i, e), other |-> other, steps |-> <<>>, stale |-> FALSE]
    BY <1>0, OnStepFields
  <1>2. c.op = op /\ c.row = i /\ c.other = other /\ ~c.stale
    BY <1>1
  <1>3. i \in Nat /\ other \in Nat /\ ProxyOf(i, e) \in Employees \cup {NoOne} /\ line # <<>>
    BY RowFacts DEF SIInv, DocSound, ProxyOf
  <1>4. c \in CallType
    <2>1. <<>> \in Seq(Step) \cup Seq(CcTarget)
      OBVIOUS
    <2> QED
      BY <1>1, <1>3, <2>1 DEF CallType
  <1>5. StepsTyped(c)
    BY <1>2 DEF StepsTyped
  <1>6. op \in {"receive", "bounce"} => history \cap ApprovalRecords # {}
    BY DEF SIInv, DocSound, StatusSound
  <1>7. NamesRows(line, history, c)
    BY <1>2, <1>6 DEF NamesRows
  <1>8. status # "NONE"
    BY <1>3 DEF SIInv, NothingBeforeCreate
  <1> QED
    BY <1>2, <1>4, <1>5, <1>7, <1>8 DEF CallSound

LEMMA StepCallsSound ==
    ASSUME SIInv, NEW e \in Employees, NEW i \in DOMAIN line, NEW call \in StepCalls(e, i)
    PROVE  CallSound(call)
  <1> DEFINE rows == {0} \cup DOMAIN line
  <1>1. ApproveGuard(i, e) => i \in FlowRows(line)
    BY DEF ApproveGuard, Actionable, FlowRows
  <1>2. CASE \E n \in rows : call = OnStep("approve", i, e, n) /\ ApproveGuard(i, e) /\ IsNext(i, n)
    <2>1. PICK n \in rows : call = OnStep("approve", i, e, n) /\ ApproveGuard(i, e) /\ IsNext(i, n)
      BY <1>2
    <2>2. n \in {0} \cup FlowRows(line)
      BY <2>1 DEF IsNext, Lowest, NextRows
    <2> QED
      BY <1>1, <2>1, <2>2, StepCallSound
  <1>3. CASE \E p \in DOMAIN line : call = OnStep("return", i, e, p) /\ ReturnGuard(i, e, p)
    <2>1. PICK p \in DOMAIN line : call = OnStep("return", i, e, p) /\ ReturnGuard(i, e, p)
      BY <1>3
    <2>2. p \in FlowRows(line) /\ ApproveGuard(i, e)
      BY <2>1 DEF ReturnGuard, Highest, PreviousRows
    <2> QED
      BY <1>1, <2>1, <2>2, StepCallSound
  <1>4. CASE \E c \in rows : call = OnStep("cancel", i, e, c) /\ CancelGuard(i, e) /\ IsCurrentPendingNext(i, c)
    <2>1. PICK c \in rows : call = OnStep("cancel", i, e, c) /\ CancelGuard(i, e) /\ IsCurrentPendingNext(i, c)
      BY <1>4
    <2>2. c \in {0} \cup FlowRows(line)
      BY <2>1 DEF IsCurrentPendingNext, Lowest, LaterFlowRows
    <2>3. i \in FlowRows(line)
      <3>1. st[i] \in Passed /\ RowSound(line[i].role, st[i], history)
        BY <2>1 DEF CancelGuard, SIInv, DocSound
      <3> QED
        BY <3>1 DEF RowSound, FlowRows
    <2> QED
      BY <2>1, <2>2, <2>3, StepCallSound
  <1>5. CASE ApproveGuard(i, e) /\ call = OnStep("reject", i, e, 0)
    BY <1>1, <1>5, StepCallSound
  <1>6. CASE PreApproveGuard(i, e) /\ call = OnStep("preApprove", i, e, 0)
    <2>1. i \in FlowRows(line)
      BY <1>6 DEF PreApproveGuard, Actionable, FlowRows, APPROVAL_FLOW_ROLES
    <2> QED
      BY <1>6, <2>1, StepCallSound
  <1>7. CASE Actionable(i, CC_ROLES, e) /\ call = OnStep("view", i, e, 0)
    <2>1. line[i].role \in CC_ROLES
      BY <1>7 DEF Actionable
    <2> QED
      BY <1>7, <2>1, StepCallSound
  <1>8. CASE status = "APPROVED" /\ Actionable(i, RECEIVER_ROLES, e) /\ call = OnStep("receive", i, e, 0)
    <2>1. line[i].role \in RECEIVER_ROLES
      BY <1>8 DEF Actionable
    <2> QED
      BY <1>8, <2>1, StepCallSound
  <1>9. CASE status = "APPROVED" /\ Actionable(i, {"DEPT_RECEIVER"}, e) /\ call = OnStep("bounce", i, e, 0)
    <2>1. line[i].role \in RECEIVER_ROLES
      BY <1>9 DEF Actionable, RECEIVER_ROLES
    <2> QED
      BY <1>9, <2>1, StepCallSound
  <1> QED
    BY <1>2, <1>3, <1>4, <1>5, <1>6, <1>7, <1>8, <1>9, Zenon DEF StepCalls

LEMMA DocCallsSound ==
    ASSUME SIInv, NEW e, NEW call \in DocCalls(e)
    PROVE  CallSound(call)
  <1>0. line \in Seq(Step) /\ docNumber \in Nat
    BY DEF SIInv, DocSound, TypeOK
  <1>1. \A c : c.stale = FALSE /\ c.op \in {"update", "submit", "addCc", "recall", "remove", "forceDelete"}
                 => NamesRows(line, history, c)
    BY DEF NamesRows
  <1>2. CASE \E l \in Lines : call = [Idle EXCEPT !.op = "update", !.steps = l] /\ UpdateGuard(l)
    <2>1. PICK l \in Lines : call = [Idle EXCEPT !.op = "update", !.steps = l] /\ UpdateGuard(l)
      BY <1>2
    <2>2. call = [op |-> "update", row |-> 0, proxy |-> NoOne, other |-> 0, steps |-> l, stale |-> FALSE]
      BY <2>1 DEF Idle
    <2>3. l \in Seq(Step) /\ status # "NONE"
      BY <2>1, ConstantTypes DEF UpdateGuard, EDITABLE_STATUSES
    <2> QED
      BY <1>1, <2>2, <2>3 DEF CallSound, CallType, StepsTyped
  <1>3. CASE \E l \in SubmitLines : call = [Idle EXCEPT !.op = "submit", !.steps = l, !.other = docNumber]
                                    /\ SubmitGuard(l)
    <2>1. PICK l \in SubmitLines : call = [Idle EXCEPT !.op = "submit", !.steps = l, !.other = docNumber]
                                    /\ SubmitGuard(l)
      BY <1>3
    <2>2. call = [op |-> "submit", row |-> 0, proxy |-> NoOne, other |-> docNumber, steps |-> l, stale |-> FALSE]
      BY <2>1 DEF Idle
    <2>3. l \in Seq(Step) /\ status # "NONE"
      BY <1>0, <2>1, ConstantTypes DEF SubmitGuard, SubmitLines, EDITABLE_STATUSES
    <2> QED
      BY <1>0, <1>1, <2>2, <2>3 DEF CallSound, CallType, StepsTyped
  <1>4. CASE \E fresh \in CcInputs : \E m \in {0} \cup {line[i].stepOrder : i \in DOMAIN line} :
                  call = [Idle EXCEPT !.op = "addCc", !.steps = fresh, !.other = m] /\ AddCcGuard(e, fresh)
    <2>1. PICK fresh \in CcInputs : \E m \in {0} \cup {line[i].stepOrder : i \in DOMAIN line} :
                  call = [Idle EXCEPT !.op = "addCc", !.steps = fresh, !.other = m] /\ AddCcGuard(e, fresh)
      BY <1>4
    <2>2. PICK m \in {0} \cup {line[i].stepOrder : i \in DOMAIN line} :
                  call = [Idle EXCEPT !.op = "addCc", !.steps = fresh, !.other = m] /\ AddCcGuard(e, fresh)
      BY <2>1
    <2>3. call = [op |-> "addCc", row |-> 0, proxy |-> NoOne, other |-> m, steps |-> fresh, stale |-> FALSE]
      BY <2>2 DEF Idle
    <2>4. fresh \in Seq(CcTarget) /\ m \in Nat /\ status # "NONE"
      BY <2>2, RowFacts, ConstantTypes DEF SIInv, DocSound, AddCcGuard
    <2> QED
      BY <1>1, <2>3, <2>4 DEF CallSound, CallType, StepsTyped
  <1>5. CASE \/ RecallGuard /\ call = [Idle EXCEPT !.op = "recall"]
             \/ status = "DRAFT" /\ call = [Idle EXCEPT !.op = "remove"]
             \/ status \in DocStatus /\ call = [Idle EXCEPT !.op = "forceDelete"]
    <2>1. PICK op \in {"recall", "remove", "forceDelete"} : call = [Idle EXCEPT !.op = op]
      BY <1>5
    <2>2. call = [op |-> op, row |-> 0, proxy |-> NoOne, other |-> 0, steps |-> <<>>, stale |-> FALSE]
      BY <2>1 DEF Idle
    <2>3. status # "NONE" /\ <<>> \in Seq(Step)
      BY <1>5 DEF RecallGuard, DocStatus
    <2> QED
      BY <1>1, <2>2, <2>3 DEF CallSound, CallType, StepsTyped
  <1> QED
    <2>1. \/ call \in {[Idle EXCEPT !.op = "update", !.steps = l] : l \in {l \in Lines : e = Drafter /\ UpdateGuard(l)}}
          \/ call \in {[Idle EXCEPT !.op = "submit", !.steps = l, !.other = docNumber] :
                          l \in {l \in SubmitLines : e = Drafter /\ SubmitGuard(l)}}
          \/ call \in UNION {{[Idle EXCEPT !.op = "addCc", !.steps = fresh, !.other = m] :
                                 m \in {m \in {0} \cup {line[i].stepOrder : i \in DOMAIN line} : IsMaxOrder(line, m)}} :
                              fresh \in {f \in CcInputs : AddCcGuard(e, f)}}
          \/ call \in IF e = Drafter /\ RecallGuard THEN {[Idle EXCEPT !.op = "recall"]} ELSE {}
          \/ call \in IF e = Drafter /\ status = "DRAFT" THEN {[Idle EXCEPT !.op = "remove"]} ELSE {}
          \/ call \in IF e \in Admins /\ status \in DocStatus THEN {[Idle EXCEPT !.op = "forceDelete"]} ELSE {}
      BY Zenon DEF DocCalls
    <2> QED
      BY <1>2, <1>3, <1>4, <1>5, <2>1, Zenon

LEMMA LoadKeepsSIInv ==
    ASSUME SIInv, NEW p \in Sessions, Load(p)
    PROVE  SIInv'
  <1>1. Owner[p] \in Employees
    BY SessionConstants
  <1>2. PICK call \in DocCalls(Owner[p]) \cup UNION {StepCalls(Owner[p], i) : i \in DOMAIN line} :
              sess' = [sess EXCEPT ![p] = call]
    BY DEF Load
  <1>3. CallSound(call)
    <2>1. CASE call \in DocCalls(Owner[p])
      BY <2>1, DocCallsSound
    <2>2. CASE call \notin DocCalls(Owner[p])
      <3>1. PICK i \in DOMAIN line : call \in StepCalls(Owner[p], i)
        BY <2>2
      <3> QED
        BY <1>1, <3>1, StepCallsSound
    <2> QED
      BY <2>1, <2>2
  <1>4. UNCHANGED <<status, line, st, proxyId, docNumber, history, emitted, proxies>>
    BY DEF Load, docVars
  <1>5. DocSound'
    BY <1>4 DEF SIInv, DocSound, TypeOK
  <1>6. CallsTyped' /\ CallsNameRows'
    BY <1>2, <1>3, <1>4 DEF SIInv, CallSound, CallsTyped, CallsNameRows
  <1>7. NothingBeforeCreate'
    BY <1>3, <1>4 DEF CallSound, NothingBeforeCreate
  <1> QED
    BY <1>5, <1>6, <1>7 DEF SIInv

-----------------------------------------------------------------------------
(* Commit and Abort: what becomes of the calls in flight.                  *)

LEMMA IdleSound ==
    ASSUME NEW l, NEW h
    PROVE  Idle \in CallType /\ StepsTyped(Idle) /\ NamesRows(l, h, Idle)
  <1>1. <<>> \in Seq(Step) \cup Seq(CcTarget)
    OBVIOUS
  <1>2. Idle \in CallType
    BY <1>1 DEF Idle, CallType
  <1> QED
    BY <1>2 DEF Idle, StepsTyped, NamesRows

\* Rows keep their ids and roles when rows are appended, and records stay.
LEMMA NamesPersist ==
    ASSUME NEW l, NEW m, DOMAIN l \subseteq DOMAIN m, \A i \in DOMAIN l : m[i] = l[i],
           NEW h, NEW g, h \subseteq g, NEW c, NamesRows(l, h, c)
    PROVE  NamesRows(m, g, c)
  <1>1. FlowRows(l) \subseteq FlowRows(m)
    BY DEF FlowRows
  <1>2. h \cap ApprovalRecords # {} => g \cap ApprovalRecords # {}
    OBVIOUS
  <1> QED
    BY <1>1, <1>2 DEF NamesRows

\* Another call's row is still there after a handler that keeps the line.
LEMMA CallsSurvive ==
    ASSUME SIInv, NEW p \in Sessions, Finish(p), status' # "NONE",
           DOMAIN line \subseteq DOMAIN line', \A i \in DOMAIN line : line'[i] = line[i],
           history \subseteq history'
    PROVE  CallsTyped' /\ CallsNameRows' /\ NothingBeforeCreate'
  <1>1. sess' = [sess EXCEPT ![p] = Idle]
    BY DEF Finish
  <1>2. CallsTyped'
    BY <1>1, IdleSound DEF SIInv, CallsTyped
  <1>3. \A q \in Sessions : NamesRows(line', history', sess'[q])
    <2> TAKE q \in Sessions
    <2>1. CASE q = p
      BY <1>1, <2>1, IdleSound DEF SIInv, CallsTyped
    <2>2. CASE q # p
      <3>1. sess'[q] = sess[q] /\ NamesRows(line, history, sess[q])
        BY <1>1, <2>2 DEF SIInv, CallsNameRows
      <3> QED
        BY <3>1, NamesPersist
    <2> QED
      BY <2>1, <2>2
  <1> QED
    BY <1>2, <1>3 DEF CallsNameRows, NothingBeforeCreate

\* When the line is replaced, every call that names a row of it is stale.
LEMMA CallsGoStale ==
    ASSUME SIInv, NEW p \in Sessions, FinishReplacing(p), status' # "NONE"
    PROVE  CallsTyped' /\ CallsNameRows' /\ NothingBeforeCreate'
  <1>1. sess' = [q \in Sessions |->
                    IF q = p THEN Idle
                    ELSE IF sess[q].row # 0 \/ sess[q].op = "addCc" THEN [sess[q] EXCEPT !.stale = TRUE]
                    ELSE sess[q]]
    BY DEF FinishReplacing
  <1>2. \A q \in Sessions :
          /\ sess'[q] \in CallType /\ StepsTyped(sess'[q])
          /\ NamesRows(line', history', sess'[q])
    <2> TAKE q \in Sessions
    <2>0. sess[q] \in CallType /\ StepsTyped(sess[q]) /\ NamesRows(line, history, sess[q])
      BY DEF SIInv, CallsTyped, CallsNameRows
    <2>1. CASE q = p
      BY <1>1, <2>1, IdleSound
    <2>2. CASE q # p /\ (sess[q].row # 0 \/ sess[q].op = "addCc")
      <3>1. PICK c : c = sess'[q]
        OBVIOUS
      <3>2. c = [sess[q] EXCEPT !.stale = TRUE]
        BY <1>1, <2>2, <3>1
      <3>3. c \in CallType /\ c.op = sess[q].op /\ c.steps = sess[q].steps /\ c.stale = TRUE
        BY <2>0, <3>2 DEF CallType
      <3> QED
        BY <2>0, <3>1, <3>3 DEF StepsTyped, NamesRows
    <2>3. CASE q # p /\ ~(sess[q].row # 0 \/ sess[q].op = "addCc")
      <3>1. sess'[q] = sess[q] /\ sess[q].row = 0 /\ 0 \notin DOMAIN line
        BY <1>1, <2>3, RowFacts DEF SIInv, DocSound
      <3>2. NamesRows(line', history', sess[q])
        BY <2>0, <3>1 DEF NamesRows, FlowRows
      <3> QED
        BY <2>0, <3>1, <3>2
    <2> QED
      BY <2>1, <2>2, <2>3
  <1>3. sess' \in [Sessions -> CallType]
    BY <1>1, <1>2
  <1> QED
    BY <1>2, <1>3 DEF CallsTyped, CallsNameRows, NothingBeforeCreate

\* A call in flight was loaded from an existing document.
LEMMA InFlight ==
    ASSUME SIInv, NEW p \in Sessions, sess[p].op # "idle"
    PROVE  status # "NONE"
  BY DEF SIInv, NothingBeforeCreate, Idle

LEMMA CommitStepKeepsSIInv ==
    ASSUME SIInv, NEW p \in Sessions, ~sess[p].stale, CommitStep(p), UNCHANGED proxies
    PROVE  SIInv'
  <1> DEFINE c == sess[p]
  <1>1. /\ c \in CallType /\ StepsTyped(c) /\ NamesRows(line, history, c)
        /\ c.row \in Nat /\ c.other \in Nat /\ c.proxy \in Employees \cup {NoOne}
    BY DEF SIInv, CallsTyped, CallsNameRows, CallType
  <1>2. DocSound /\ Finish(p)
    BY DEF SIInv, CommitStep
  <1>3. status # "NONE"
    BY InFlight DEF CommitStep
  <1>4. CASE \/ c.op = "approve" /\ ApproveTx(c.row, c.proxy, c.other)
             \/ c.op = "reject" /\ RejectTx(c.row, c.proxy)
             \/ c.op = "preApprove" /\ PreApproveTx(c.row, c.proxy)
             \/ c.op = "return" /\ ReturnTx(c.row, c.other)
             \/ c.op = "cancel" /\ CancelTx(c.row, c.other)
             \/ c.op = "view" /\ MarkTx(c.row, c.proxy, "VIEWED", "VIEW")
             \/ c.op = "receive" /\ MarkTx(c.row, c.proxy, "RECEIVED", "RECEIVE")
             \/ c.op = "bounce" /\ MarkTx(c.row, c.proxy, "BOUNCED", "BOUNCE")
             \/ c.op = "recall" /\ RecallTx
    <2>1. DocSound'
      <3>1. CASE c.op = "approve" /\ ApproveTx(c.row, c.proxy, c.other)
        BY <1>1, <1>2, <3>1, ApproveTxKeepsDoc DEF NamesRows
      <3>2. CASE c.op = "reject" /\ RejectTx(c.row, c.proxy)
        BY <1>1, <1>2, <3>2, RejectTxKeepsDoc
      <3>3. CASE c.op = "preApprove" /\ PreApproveTx(c.row, c.proxy)
        BY <1>1, <1>2, <3>3, PreApproveTxKeepsDoc
      <3>4. CASE c.op = "return" /\ ReturnTx(c.row, c.other)
        BY <1>1, <1>2, <3>4, ReturnTxKeepsDoc DEF NamesRows
      <3>5. CASE c.op = "cancel" /\ CancelTx(c.row, c.other)
        BY <1>1, <1>2, <3>5, CancelTxKeepsDoc DEF NamesRows
      <3>6. CASE c.op = "view" /\ MarkTx(c.row, c.proxy, "VIEWED", "VIEW")
        BY <1>1, <1>2, <3>6, MarkTxKeepsDoc DEF NamesRows
      <3>7. CASE c.op = "receive" /\ MarkTx(c.row, c.proxy, "RECEIVED", "RECEIVE")
        BY <1>1, <1>2, <3>7, MarkTxKeepsDoc DEF NamesRows
      <3>8. CASE c.op = "bounce" /\ MarkTx(c.row, c.proxy, "BOUNCED", "BOUNCE")
        BY <1>1, <1>2, <3>8, MarkTxKeepsDoc DEF NamesRows
      <3>9. CASE c.op = "recall" /\ RecallTx
        BY <1>2, <3>9, RecallTxKeepsDoc
      <3> QED
        BY <1>4, <3>1, <3>2, <3>3, <3>4, <3>5, <3>6, <3>7, <3>8, <3>9
    <2>2. line' = line /\ history \subseteq history' /\ status' # "NONE"
      BY <1>3, <1>4 DEF ApproveTx, RejectTx, PreApproveTx, ReturnTx, CancelTx, MarkTx, RecallTx
    <2> QED
      BY <1>2, <2>1, <2>2, CallsSurvive DEF SIInv
  <1>5. CASE c.op = "addCc" /\ AddCcTx(c.steps, c.other)
    <2>1. c.steps \in Seq(CcTarget) /\ Len(c.steps) \in Nat
      BY <1>1, <1>5 DEF StepsTyped
    <2>2. DocSound'
      BY <1>1, <1>2, <1>5, <2>1, AddCcTxKeepsDoc
    <2>3. /\ DOMAIN line' = 1 .. (Len(line) + Len(c.steps)) /\ UNCHANGED <<status, history>>
          /\ \A i \in 1 .. (Len(line) + Len(c.steps)) : i <= Len(line) => line'[i] = line[i]
      BY <1>5 DEF AddCcTx
    <2>4. DOMAIN line = 1 .. Len(line) /\ Len(line) \in Nat
      BY <1>2, RowFacts DEF DocSound
    <2>5. DOMAIN line \subseteq DOMAIN line' /\ \A i \in DOMAIN line : line'[i] = line[i]
      BY <2>1, <2>3, <2>4
    <2> QED
      BY <1>2, <1>3, <2>2, <2>3, <2>5, CallsSurvive DEF SIInv
  <1> QED
    BY <1>4, <1>5 DEF CommitStep

LEMMA CommitLineKeepsSIInv ==
    ASSUME SIInv, NEW p \in Sessions, ~sess[p].stale, CommitLine(p), UNCHANGED proxies
    PROVE  SIInv'
  <1> DEFINE c == sess[p]
  <1>1. StepsTyped(c) /\ DocSound /\ FinishReplacing(p)
    BY DEF SIInv, CallsTyped, CommitLine
  <1>2. status # "NONE"
    BY InFlight DEF CommitLine
  <1>3. CASE c.op = "update" /\ UpdateTx(c.steps)
    <2>1. DocSound' /\ status' # "NONE"
      BY <1>1, <1>2, <1>3, UpdateTxKeepsDoc DEF StepsTyped, UpdateTx
    <2> QED
      BY <1>1, <2>1, CallsGoStale DEF SIInv
  <1>4. CASE c.op = "submit" /\ SubmitTx(c.steps, c.other # 0)
    <2>1. DocSound' /\ status' # "NONE"
      BY <1>1, <1>4, SubmitTxKeepsDoc DEF StepsTyped, SubmitTx
    <2> QED
      BY <1>1, <2>1, CallsGoStale DEF SIInv
  <1>5. CASE DeleteTx
    <2>1. DocSound' /\ status' # "NONE"
      BY <1>1, <1>5, DeleteTxKeepsDoc DEF DeleteTx
    <2> QED
      BY <1>1, <2>1, CallsGoStale DEF SIInv
  <1> QED
    BY <1>3, <1>4, <1>5 DEF CommitLine

LEMMA AbortKeepsSIInv ==
    ASSUME SIInv, NEW p \in Sessions, Abort(p)
    PROVE  SIInv'
  <1>1. /\ Finish(p)
        /\ UNCHANGED <<status, line, st, proxyId, docNumber, history, emitted, proxies>>
    BY DEF Abort, docVars
  <1>2. status' # "NONE"
    BY <1>1, InFlight DEF Abort
  <1>3. DocSound'
    BY <1>1 DEF SIInv, DocSound, TypeOK
  <1> QED
    BY <1>1, <1>2, <1>3, CallsSurvive DEF SIInv

LEMMA OthersKeepSIInv ==
    ASSUME SIInv, Others
    PROVE  SIInv'
  <1>0. sess' = sess
    BY DEF Others
  <1>1. CASE \E l \in Lines \cup {<<>>} : Create(l)
    <2>1. PICK l \in Lines \cup {<<>>} : Create(l)
      BY <1>1
    <2>2. DocSound'
      BY <2>1, CreateKeepsDoc DEF SIInv
    <2>3. status = "NONE" /\ status' = "DRAFT" /\ \A p \in Sessions : sess[p] = Idle
      BY <2>1 DEF Create, SIInv, NothingBeforeCreate
    <2>4. CallsTyped' /\ CallsNameRows' /\ NothingBeforeCreate'
      BY <1>0, <2>3, IdleSound DEF SIInv, CallsTyped, CallsNameRows, NothingBeforeCreate
    <2> QED
      BY <2>2, <2>4 DEF SIInv
  <1>2. CASE (\E e \in Employees : AddOpinion(e)) \/ ChangeProxies
    <2>1. /\ UNCHANGED <<status, line, st, proxyId, docNumber>> /\ proxies' \in ProxyChoices
          /\ history \subseteq history' /\ history' \subseteq HistoryAction
      BY <1>2 DEF AddOpinion, ChangeProxies, SIInv, DocSound, TypeOK, HistoryAction
    <2>2. DocSound'
      BY <2>1, MoreRecords DEF SIInv, DocSound, TypeOK
    <2>3. CallsNameRows'
      BY <1>0, <2>1, NamesPersist DEF SIInv, CallsNameRows
    <2>4. CallsTyped' /\ NothingBeforeCreate'
      BY <1>0, <2>1 DEF SIInv, CallsTyped, NothingBeforeCreate
    <2> QED
      BY <2>2, <2>3, <2>4 DEF SIInv
  <1> QED
    BY <1>1, <1>2 DEF Others

-----------------------------------------------------------------------------
(* The theorems.                                                           *)

LEMMA InitSIInv == SInit => SIInv
  <1> SUFFICES ASSUME SInit PROVE SIInv
    OBVIOUS
  <1>1. DocSound
    BY EmptySeq DEF SInit, Init, DocSound, TypeOK, StatusSound
  <1>2. CallsTyped /\ CallsNameRows
    BY IdleSound DEF SInit, CallsTyped, CallsNameRows
  <1>3. NothingBeforeCreate
    BY DEF SInit, Init, NothingBeforeCreate
  <1> QED
    BY <1>1, <1>2, <1>3 DEF SIInv

LEMMA NextKeepsSIInv == SIInv /\ [SNext]_svars => SIInv'
  <1> SUFFICES ASSUME SIInv, [SNext]_svars PROVE SIInv'
    OBVIOUS
  <1>1. CASE Others
    BY <1>1, OthersKeepSIInv
  <1>2. CASE \E p \in Sessions : Load(p) \/ Abort(p)
    BY <1>2, LoadKeepsSIInv, AbortKeepsSIInv
  <1>3. CASE \E p \in Sessions : Commit(p)
    BY <1>3, CommitStepKeepsSIInv, CommitLineKeepsSIInv DEF Commit
  <1>4. CASE UNCHANGED svars
    BY <1>4 DEF svars, SIInv, DocSound, TypeOK, CallsTyped, CallsNameRows, NothingBeforeCreate
  <1> QED
    BY <1>1, <1>2, <1>3, <1>4 DEF SNext

\* The inductive invariant, for any number of overlapping calls.
THEOREM SessionInvariance == SSpec => []SIInv
  BY InitSIInv, NextKeepsSIInv, PTL DEF SSpec

\* Types survive any overlap, calls whose line was replaced included.
THEOREM SessionTypes == SSpec => []TypeOK
  <1>1. SIInv => TypeOK
    BY DEF SIInv, DocSound
  <1> QED
    BY <1>1, SessionInvariance, PTL

\* No overlap of calls lets a receiver act on a document nobody approved.
THEOREM ReceiversWait == SSpec => []ReceiversAfterApproval
  <1>1. SIInv => ReceiversAfterApproval
    BY DEF SIInv, DocSound, RowSound, ReceiversAfterApproval
  <1> QED
    BY <1>1, SessionInvariance, PTL

\* No overlap of calls leaves an outcome without its record.
THEOREM AuditTrail == SSpec => []OutcomesAreRecorded
  <1>1. ASSUME SIInv PROVE OutcomesAreRecorded
    <2>1. DOMAIN st = DOMAIN line
      BY <1>1, RowFacts DEF SIInv, DocSound
    <2> QED
      BY <1>1, <2>1 DEF SIInv, DocSound, RowSound, StatusSound, OutcomesAreRecorded
  <1> QED
    BY <1>1, SessionInvariance, PTL


-----------------------------------------------------------------------------
(* One holder for each flow step.  If nobody has two calls in flight, no   *)
(* step can be decided by two people, and nothing is taken back, then the  *)
(* conditions that a handler has checked still hold when it writes.        *)

\* A collaborating department has one document manager at most.
OneManager(l) ==
    \A i \in FlowRows(l) : l[i].role \in DEPT_ROLES =>
        \A e, f \in DocManagers[l[i].organizationId] : e = f

OneHolderPerStep ==
    /\ \A p, q \in Sessions : Owner[p] = Owner[q] => p = q
    /\ \A pairs \in ProxyChoices : pairs = {}
    /\ \A l \in Lines \cup {DefaultLine} : OneManager(l)
    /\ Ops \cap {"cancel", "recall", "forceDelete"} = {}

\* The assignee of a department's flow step is the manager that it has.
HoldersKnown ==
    /\ OneManager(line)
    /\ \A i \in FlowRows(line) :
          line[i].role \in DEPT_ROLES => line[i].assigneeId = DeptAssignee(line[i].organizationId)

\* What the handler of a call of e has checked, as far as it matters, holds still.
Holds(e, c) ==
    /\ c.op \in Ops \cup {"idle"}
    /\ c.op \in {"update", "submit", "remove"} => e = Drafter /\ status = "DRAFT"
    /\ c.op = "update" => c.steps \in Lines /\ UpdateGuard(c.steps)
    /\ c.op = "submit" => SubmitGuard(c.steps) /\ c.other = docNumber
    /\ c.op = "approve" => ApproveGuard(c.row, e) /\ IsNext(c.row, c.other)
    /\ c.op = "reject" => ApproveGuard(c.row, e)
    /\ c.op = "preApprove" => PreApproveGuard(c.row, e)
    /\ c.op = "return" => ReturnGuard(c.row, e, c.other)
    /\ c.op \in {"approve", "reject", "preApprove"} => c.proxy = ProxyOf(c.row, e)
    /\ c.op \in {"view", "addCc"} => status \notin {"NONE", "DRAFT"}
    /\ c.op \in {"receive", "bounce"} => status = "APPROVED"

CallsHold == \A p \in Sessions : Holds(Owner[p], sess[p])

\* The inductive invariant of sessions that hold different steps.
HInv ==
    /\ SIInv
    /\ IInv
    /\ HoldersKnown
    /\ CallsHold

\* resolveSteps gives every department step the assignee of its department.
LEMMA ResolvedHolders ==
    ASSUME NEW l \in Seq(Step), OneManager(l), line' = resolveSteps(l)
    PROVE  HoldersKnown'
  <1>1. DOMAIN line' = DOMAIN l
    BY DEF resolveSteps
  <1>2. \A i \in DOMAIN l :
          /\ line'[i].role = l[i].role /\ line'[i].organizationId = l[i].organizationId
          /\ l[i].role \in DEPT_ROLES => line'[i].assigneeId = DeptAssignee(l[i].organizationId)
    <2> SUFFICES ASSUME NEW i \in DOMAIN l
                 PROVE  /\ line'[i].role = l[i].role /\ line'[i].organizationId = l[i].organizationId
                        /\ l[i].role \in DEPT_ROLES => line'[i].assigneeId = DeptAssignee(l[i].organizationId)
      OBVIOUS
    <2>1. l[i] \in Step
      OBVIOUS
    <2>2. line'[i] = IF l[i].role \in DEPT_ROLES
                     THEN [l[i] EXCEPT !.assigneeId = DeptAssignee(l[i].organizationId)] ELSE l[i]
      BY DEF resolveSteps
    <2> QED
      BY <2>1, <2>2 DEF Step
  <1>3. FlowRows(line') = FlowRows(l)
    BY <1>1, <1>2 DEF FlowRows
  <1>4. FlowRows(l) \subseteq DOMAIN l
    BY DEF FlowRows
  <1> QED
    BY <1>2, <1>3, <1>4 DEF HoldersKnown, OneManager

\* Only one person can decide a flow step.
LEMMA HolderIsAlone ==
    ASSUME OneHolderPerStep, HInv, NEW i, NEW e, i \in FlowRows(line), resolveActor(i, e)
    PROVE  e = line[i].assigneeId
  <1>1. proxies = {}
    BY DEF OneHolderPerStep, HInv, IInv, TypeOK
  <1>2. ActsInPerson(i, e)
    BY <1>1 DEF resolveActor
  <1>3. CASE line[i].role \in DEPT_ROLES /\ e \in DocManagers[line[i].organizationId]
    <2> DEFINE o == line[i].organizationId
    <2>1. DeptAssignee(o) \in DocManagers[o]
      BY <1>3 DEF DeptAssignee
    <2> QED
      BY <1>3, <2>1 DEF HInv, HoldersKnown, OneManager
  <1> QED
    BY <1>2, <1>3 DEF ActsInPerson

\* Two calls that each decide the current step are one call.
LEMMA OneDecides ==
    ASSUME OneHolderPerStep, HInv, NEW p \in Sessions, NEW q \in Sessions,
           sess[p].op \in {"approve", "reject", "preApprove", "return"},
           sess[q].op \in {"approve", "reject", "preApprove", "return"}
    PROVE  p = q
  <1>1. \A r \in {p, q} : status = "PENDING" /\ Actionable(sess[r].row, APPROVAL_FLOW_ROLES, Owner[r])
    <2> SUFFICES ASSUME NEW r \in {p, q}
                 PROVE  status = "PENDING" /\ Actionable(sess[r].row, APPROVAL_FLOW_ROLES, Owner[r])
      OBVIOUS
    <2>1. Holds(Owner[r], sess[r])
      BY DEF HInv, CallsHold
    <2> QED
      BY <2>1 DEF Holds, ApproveGuard, PreApproveGuard, ReturnGuard, Actionable, APPROVAL_FLOW_ROLES
  <1>2. \A r \in {p, q} : /\ sess[r].row \in FlowRows(line) /\ HasTurn(sess[r].row)
                          /\ Owner[r] = line[sess[r].row].assigneeId
    BY <1>1, GuardFindsTurn, HolderIsAlone DEF HInv, Actionable
  <1>3. sess[p].row = sess[q].row
    BY <1>2 DEF HasTurn, Passed, Resumable
  <1> QED
    BY <1>2, <1>3 DEF OneHolderPerStep

\* While somebody works on a draft, nobody else has a call in flight.
LEMMA DrafterAlone ==
    ASSUME OneHolderPerStep, HInv, NEW p \in Sessions, sess[p].op \in {"update", "submit", "remove"},
           NEW q \in Sessions, q # p
    PROVE  sess[q].op = "idle"
  <1>1. Holds(Owner[p], sess[p]) /\ Holds(Owner[q], sess[q]) /\ sess[q] \in CallType
    BY DEF HInv, CallsHold, SIInv, CallsTyped
  <1>2. status = "DRAFT" /\ Owner[p] = Drafter /\ Owner[q] # Drafter
    BY <1>1 DEF Holds, OneHolderPerStep
  <1>3. sess[q].op \notin {"cancel", "recall", "forceDelete"}
    BY <1>1 DEF Holds, OneHolderPerStep
  <1> QED
    BY <1>1, <1>2, <1>3 DEF Holds, CallType, ApproveGuard, PreApproveGuard, ReturnGuard

\* What leaves the flow rows alone leaves the conditions of every call alone.
LEMMA SameFlowHolds ==
    ASSUME HInv, status' = status, docNumber' = docNumber, proxies' = proxies,
           FlowRows(line)' = FlowRows(line), \A j \in FlowRows(line) : st'[j] = st[j],
           \A j \in DOMAIN line : j \in DOMAIN line' /\ line'[j] = line[j],
           line' = line \/ status # "DRAFT",
           NEW e, NEW c, Holds(e, c)
    PROVE  Holds(e, c)'
  <1>1. FlowRows(line) \subseteq DOMAIN line
    BY DEF FlowRows
  <1>2. \A i : ApproveGuard(i, e) => ApproveGuard(i, e)' /\ ProxyOf(i, e)' = ProxyOf(i, e)
    <2> SUFFICES ASSUME NEW i, ApproveGuard(i, e)
                 PROVE  ApproveGuard(i, e)' /\ ProxyOf(i, e)' = ProxyOf(i, e)
      OBVIOUS
    <2>1. i \in FlowRows(line) /\ i \in DOMAIN line /\ line'[i] = line[i] /\ st'[i] = st[i]
      BY DEF ApproveGuard, Actionable, FlowRows
    <2> QED
      BY <2>1 DEF ApproveGuard, Actionable, resolveActor, ActsInPerson, ProxyOf, RequestManaged
  <1>3. \A i : PreApproveGuard(i, e) => PreApproveGuard(i, e)' /\ ProxyOf(i, e)' = ProxyOf(i, e)
    <2> SUFFICES ASSUME NEW i, PreApproveGuard(i, e)
                 PROVE  PreApproveGuard(i, e)' /\ ProxyOf(i, e)' = ProxyOf(i, e)
      OBVIOUS
    <2>1. i \in FlowRows(line) /\ i \in DOMAIN line /\ line'[i] = line[i] /\ st'[i] = st[i]
      BY DEF PreApproveGuard, Actionable, FlowRows, APPROVAL_FLOW_ROLES
    <2> QED
      BY <2>1 DEF PreApproveGuard, Actionable, resolveActor, ActsInPerson, ProxyOf, RequestManaged
  <1>4. \A i, n : ApproveGuard(i, e) /\ IsNext(i, n) => IsNext(i, n)'
    <2> SUFFICES ASSUME NEW i, NEW n, IsNext(i, n)
                 PROVE  IsNext(i, n)'
      OBVIOUS
    <2>1. NextRows(line, st, i)' = NextRows(line, st, i) /\ NextRows(line, st, i) \subseteq FlowRows(line)
      BY DEF NextRows
    <2> QED
      BY <1>1, <2>1 DEF IsNext, Lowest
  <1>5. \A i, p : ReturnGuard(i, e, p) => ReturnGuard(i, e, p)'
    <2> SUFFICES ASSUME NEW i, NEW p, ReturnGuard(i, e, p)
                 PROVE  ReturnGuard(i, e, p)'
      OBVIOUS
    <2>1. ApproveGuard(i, e) /\ ApproveGuard(i, e)' /\ i \in DOMAIN line /\ line'[i] = line[i]
      BY <1>2 DEF ReturnGuard, ApproveGuard, Actionable
    <2>2. PreviousRows(line, st, i)' = PreviousRows(line, st, i) /\ PreviousRows(line, st, i) \subseteq DOMAIN line
      BY <1>1, <2>1 DEF PreviousRows
    <2> QED
      BY <2>1, <2>2 DEF ReturnGuard, Highest
  <1>6. c.op \in {"update", "submit"} => line' = line
    BY DEF Holds
  <1>7. c.op = "update" => c.steps \in Lines /\ UpdateGuard(c.steps)'
    BY DEF Holds, UpdateGuard, RequestManaged
  <1>8. c.op = "submit" => SubmitGuard(c.steps)' /\ c.other = docNumber'
    BY <1>6 DEF Holds, SubmitGuard, SubmitLines, RequestManaged
  <1> QED
    BY <1>2, <1>3, <1>4, <1>5, <1>7, <1>8 DEF Holds


LEMMA OnStepParts ==
    ASSUME NEW op, NEW i, NEW e, NEW other, NEW c, c = OnStep(op, i, e, other)
    PROVE  c.op = op /\ c.row = i /\ c.proxy = ProxyOf(i, e) /\ c.other = other
  <1>1. c = [op |-> op, row |-> i, proxy |-> ProxyOf(i, e), other |-> other, steps |-> <<>>, stale |-> FALSE]
    BY OnStepFields
  <1> QED
    BY <1>1

\* What Load keeps is what the handler has just checked.
LEMMA StepCallsHold ==
    ASSUME OneHolderPerStep, HInv, NEW e \in Employees, NEW i \in DOMAIN line, NEW call \in StepCalls(e, i),
           call.op \in Ops
    PROVE  Holds(e, call)
  <1> DEFINE rows == {0} \cup DOMAIN line
  <1>2. CASE \E n \in rows : call = OnStep("approve", i, e, n) /\ ApproveGuard(i, e) /\ IsNext(i, n)
    <2>1. PICK n \in rows : call = OnStep("approve", i, e, n) /\ ApproveGuard(i, e) /\ IsNext(i, n)
      BY <1>2
    <2>2. call.op = "approve" /\ call.row = i /\ call.proxy = ProxyOf(i, e) /\ call.other = n
      BY <2>1, OnStepParts
    <2> QED
      BY <2>1, <2>2 DEF Holds
  <1>3. CASE \E p \in DOMAIN line : call = OnStep("return", i, e, p) /\ ReturnGuard(i, e, p)
    <2>1. PICK p \in DOMAIN line : call = OnStep("return", i, e, p) /\ ReturnGuard(i, e, p)
      BY <1>3
    <2>2. call.op = "return" /\ call.row = i /\ call.other = p
      BY <2>1, OnStepParts
    <2> QED
      BY <2>1, <2>2 DEF Holds
  <1>4. CASE \E c \in rows : call = OnStep("cancel", i, e, c) /\ CancelGuard(i, e) /\ IsCurrentPendingNext(i, c)
    <2>1. PICK c \in rows : call = OnStep("cancel", i, e, c)
      BY <1>4
    <2> QED
      BY <2>1, OnStepParts DEF OneHolderPerStep
  <1>5. CASE ApproveGuard(i, e) /\ call = OnStep("reject", i, e, 0)
    <2>1. call.op = "reject" /\ call.row = i /\ call.proxy = ProxyOf(i, e)
      BY <1>5, OnStepParts
    <2> QED
      BY <1>5, <2>1 DEF Holds
  <1>6. CASE PreApproveGuard(i, e) /\ call = OnStep("preApprove", i, e, 0)
    <2>1. call.op = "preApprove" /\ call.row = i /\ call.proxy = ProxyOf(i, e)
      BY <1>6, OnStepParts
    <2> QED
      BY <1>6, <2>1 DEF Holds
  <1>7. CASE Actionable(i, CC_ROLES, e) /\ call = OnStep("view", i, e, 0)
    <2>1. status \notin {"NONE", "DRAFT"}
      BY <1>7 DEF Actionable, HInv, IInv, DraftIsUntouched
    <2>2. call.op = "view"
      BY <1>7, OnStepParts
    <2> QED
      BY <2>1, <2>2 DEF Holds
  <1>8. CASE status = "APPROVED" /\ Actionable(i, RECEIVER_ROLES, e) /\ call = OnStep("receive", i, e, 0)
    <2>1. call.op = "receive"
      BY <1>8, OnStepParts
    <2> QED
      BY <1>8, <2>1 DEF Holds
  <1>9. CASE status = "APPROVED" /\ Actionable(i, {"DEPT_RECEIVER"}, e) /\ call = OnStep("bounce", i, e, 0)
    <2>1. call.op = "bounce"
      BY <1>9, OnStepParts
    <2> QED
      BY <1>9, <2>1 DEF Holds
  <1> QED
    BY <1>2, <1>3, <1>4, <1>5, <1>6, <1>7, <1>8, <1>9, Zenon DEF StepCalls

LEMMA DocCallsHold ==
    ASSUME OneHolderPerStep, HInv, NEW e, NEW call \in DocCalls(e), call.op \in Ops
    PROVE  Holds(e, call)
  <1>1. CASE \E l \in Lines : call = [Idle EXCEPT !.op = "update", !.steps = l] /\ e = Drafter /\ UpdateGuard(l)
    BY <1>1 DEF Idle, Holds, UpdateGuard, EDITABLE_STATUSES
  <1>2. CASE \E l \in SubmitLines : call = [Idle EXCEPT !.op = "submit", !.steps = l, !.other = docNumber]
                                    /\ e = Drafter /\ SubmitGuard(l)
    BY <1>2 DEF Idle, Holds, SubmitGuard, EDITABLE_STATUSES
  <1>3. CASE \E fresh \in CcInputs : \E m \in {0} \cup {line[i].stepOrder : i \in DOMAIN line} :
                  call = [Idle EXCEPT !.op = "addCc", !.steps = fresh, !.other = m] /\ AddCcGuard(e, fresh)
    BY <1>3 DEF Idle, Holds, AddCcGuard
  <1>4. CASE call = [Idle EXCEPT !.op = "recall"] \/ call = [Idle EXCEPT !.op = "forceDelete"]
    BY <1>4 DEF Idle, OneHolderPerStep
  <1>5. CASE e = Drafter /\ status = "DRAFT" /\ call = [Idle EXCEPT !.op = "remove"]
    BY <1>5 DEF Idle, Holds
  <1> QED
    <2>1. \/ call \in {[Idle EXCEPT !.op = "update", !.steps = l] : l \in {l \in Lines : e = Drafter /\ UpdateGuard(l)}}
          \/ call \in {[Idle EXCEPT !.op = "submit", !.steps = l, !.other = docNumber] :
                          l \in {l \in SubmitLines : e = Drafter /\ SubmitGuard(l)}}
          \/ call \in UNION {{[Idle EXCEPT !.op = "addCc", !.steps = fresh, !.other = m] :
                                 m \in {m \in {0} \cup {line[i].stepOrder : i \in DOMAIN line} : IsMaxOrder(line, m)}} :
                              fresh \in {f \in CcInputs : AddCcGuard(e, f)}}
          \/ call \in IF e = Drafter /\ RecallGuard THEN {[Idle EXCEPT !.op = "recall"]} ELSE {}
          \/ call \in IF e = Drafter /\ status = "DRAFT" THEN {[Idle EXCEPT !.op = "remove"]} ELSE {}
          \/ call \in IF e \in Admins /\ status \in DocStatus THEN {[Idle EXCEPT !.op = "forceDelete"]} ELSE {}
      BY Zenon DEF DocCalls
    <2> QED
      BY <1>1, <1>2, <1>3, <1>4, <1>5, <2>1, Zenon

LEMMA SameDocKeepsIInv ==
    ASSUME IInv, UNCHANGED vars
    PROVE  IInv'
  <1>1. history' \subseteq HistoryAction /\ proxies' \in ProxyChoices
    BY DEF vars, IInv, TypeOK
  <1> QED
    BY <1>1, SameRowsKeepIInv DEF vars

\* Load and Abort change no document.
LEMMA LoadKeepsHInv ==
    ASSUME OneHolderPerStep, HInv, NEW p \in Sessions, Load(p)
    PROVE  HInv' /\ UNCHANGED vars
  <1>1. Owner[p] \in Employees
    BY SessionConstants
  <1>2. PICK call \in DocCalls(Owner[p]) \cup UNION {StepCalls(Owner[p], i) : i \in DOMAIN line} :
              call.op \in Ops /\ sess' = [sess EXCEPT ![p] = call]
    BY DEF Load
  <1>3. Holds(Owner[p], call)
    <2>1. CASE call \in DocCalls(Owner[p])
      BY <1>2, <2>1, DocCallsHold
    <2>2. CASE call \notin DocCalls(Owner[p])
      <3>1. PICK i \in DOMAIN line : call \in StepCalls(Owner[p], i)
        BY <2>2
      <3> QED
        BY <1>1, <1>2, <3>1, StepCallsHold
    <2> QED
      BY <2>1, <2>2
  <1>4. UNCHANGED vars
    BY DEF Load, docVars, vars
  <1>5. SIInv'
    BY LoadKeepsSIInv DEF HInv
  <1>6. IInv' /\ HoldersKnown'
    BY <1>4, SameDocKeepsIInv DEF HInv, vars, HoldersKnown
  <1>7. \A e, c : Holds(e, c) => Holds(e, c)'
    BY <1>4, SameFlowHolds DEF vars, FlowRows
  <1>8. CallsHold'
    <2> SUFFICES ASSUME NEW q \in Sessions PROVE Holds(Owner[q], sess[q])'
      BY DEF CallsHold
    <2>1. PICK c : c = sess'[q]
      OBVIOUS
    <2>2. Holds(Owner[q], c)
      BY <1>2, <1>3, <2>1 DEF HInv, CallsHold, SIInv, CallsTyped
    <2> QED
      BY <1>7, <2>1, <2>2 DEF Holds
  <1> QED
    BY <1>4, <1>5, <1>6, <1>8 DEF HInv

LEMMA IdleHolds ==
    ASSUME NEW e
    PROVE  Holds(e, Idle)'
  BY DEF Holds, Idle

LEMMA AbortKeepsHInv ==
    ASSUME OneHolderPerStep, HInv, NEW p \in Sessions, Abort(p)
    PROVE  HInv' /\ UNCHANGED vars
  <1>1. sess' = [sess EXCEPT ![p] = Idle] /\ UNCHANGED vars
    BY DEF Abort, Finish, docVars, vars
  <1>2. SIInv'
    BY AbortKeepsSIInv DEF HInv
  <1>3. IInv' /\ HoldersKnown'
    BY <1>1, SameDocKeepsIInv DEF HInv, vars, HoldersKnown
  <1>4. \A e, c : Holds(e, c) => Holds(e, c)'
    BY <1>1, SameFlowHolds DEF vars, FlowRows
  <1>5. CallsHold'
    <2> SUFFICES ASSUME NEW q \in Sessions PROVE Holds(Owner[q], sess[q])'
      BY DEF CallsHold
    <2>1. PICK c : c = sess'[q]
      OBVIOUS
    <2>2. Holds(Owner[q], c) \/ c = Idle
      BY <1>1, <2>1 DEF HInv, CallsHold, SIInv, CallsTyped
    <2> QED
      BY <1>4, <2>1, <2>2, IdleHolds DEF Holds
  <1> QED
    BY <1>1, <1>2, <1>3, <1>5 DEF HInv


-----------------------------------------------------------------------------
(* Commit: every transaction is a step of the handlers one after another,  *)
(* or one that leaves the flow alone.                                      *)

\* Marks and new cc rows leave the status and the flow rows alone.
KeepsFlow ==
    /\ UNCHANGED <<status, docNumber, proxies>>
    /\ FlowRows(line)' = FlowRows(line)
    /\ \A j \in FlowRows(line) : st'[j] = st[j]
    /\ \A j \in DOMAIN line : j \in DOMAIN line' /\ line'[j] = line[j]

LEMMA DecisionCommits ==
    ASSUME OneHolderPerStep, HInv, NEW p \in Sessions, Commit(p),
           sess[p].op \in {"approve", "reject", "preApprove", "return"}
    PROVE  Next /\ IInv' /\ HoldersKnown' /\ CallsHold'
  <1> DEFINE c == sess[p]
             e == Owner[p]
  <1>1. Holds(e, c) /\ e \in Employees /\ c \in CallType
    BY SessionConstants DEF HInv, CallsHold, SIInv, CallsTyped
  <1>2. CommitStep(p) /\ Finish(p) /\ UNCHANGED proxies
    BY DEF Commit, CommitStep, CommitLine
  <1>3. status = "PENDING" /\ Actionable(c.row, APPROVAL_FLOW_ROLES, e) /\ c.row \in DOMAIN line
    BY <1>1 DEF Holds, ApproveGuard, PreApproveGuard, ReturnGuard, Actionable, APPROVAL_FLOW_ROLES
  <1>4. StepNext(c.row, e) /\ status' \in {"PENDING", "APPROVED", "REJECTED"} /\ line' = line
    <2>1. CASE c.op = "approve" /\ ApproveTx(c.row, c.proxy, c.other)
      <3>1. ApproveGuard(c.row, e) /\ IsNext(c.row, c.other) /\ c.proxy = ProxyOf(c.row, e)
        BY <1>1, <2>1 DEF Holds
      <3>2. c.other \in {0} \cup DOMAIN line
        BY <3>1 DEF IsNext, Lowest, NextRows, FlowRows
      <3> QED
        BY <1>2, <1>3, <2>1, <3>1, <3>2 DEF StepNext, approveFlowStep, ApproveTx
    <2>2. CASE c.op = "reject" /\ RejectTx(c.row, c.proxy)
      BY <1>1, <1>2, <2>2 DEF Holds, StepNext, reject, RejectTx
    <2>3. CASE c.op = "preApprove" /\ PreApproveTx(c.row, c.proxy)
      BY <1>1, <1>2, <2>3 DEF Holds, StepNext, preApprove, PreApproveTx
    <2>4. CASE c.op = "return" /\ ReturnTx(c.row, c.other)
      <3>1. ReturnGuard(c.row, e, c.other)
        BY <1>1, <2>4 DEF Holds
      <3>2. c.other \in DOMAIN line
        BY <3>1 DEF ReturnGuard, Highest, PreviousRows, FlowRows
      <3> QED
        BY <1>2, <1>3, <2>4, <3>1, <3>2 DEF StepNext, returnToPrevious, ReturnTx
    <2> QED
      BY <1>2, <2>1, <2>2, <2>3, <2>4 DEF CommitStep
  <1>5. Next /\ IInv'
    BY <1>1, <1>3, <1>4, StepNextKeepsIInv DEF Next, HInv
  <1>6. HoldersKnown'
    BY <1>4 DEF HInv, HoldersKnown, FlowRows
  <1>7. CallsHold'
    <2> SUFFICES ASSUME NEW q \in Sessions PROVE Holds(Owner[q], sess[q])'
      BY DEF CallsHold
    <2>1. CASE q = p
      <3>1. sess'[q] = Idle
        BY <1>2, <2>1 DEF Finish, HInv, SIInv, CallsTyped
      <3> QED
        BY <3>1, IdleHolds DEF Holds
    <2>2. CASE q # p
      <3>1. PICK d : d = sess[q]
        OBVIOUS
      <3>2. sess'[q] = d
        BY <1>2, <2>2, <3>1 DEF Finish, HInv, SIInv, CallsTyped
      <3>3. Holds(Owner[q], d) /\ d.op \notin {"approve", "reject", "preApprove", "return"}
        BY <2>2, <3>1, OneDecides DEF HInv, CallsHold
      <3>4. Holds(Owner[q], d)'
        BY <1>3, <1>4, <3>3 DEF Holds
      <3> QED
        BY <3>2, <3>4 DEF Holds
    <2> QED
      BY <2>1, <2>2
  <1> QED
    BY <1>5, <1>6, <1>7

LEMMA DraftCommits ==
    ASSUME OneHolderPerStep, HInv, NEW p \in Sessions, Commit(p),
           sess[p].op \in {"update", "submit", "remove"}
    PROVE  Next /\ IInv' /\ HoldersKnown' /\ CallsHold'
  <1> DEFINE c == sess[p]
  <1>1. Holds(Owner[p], c) /\ IInv /\ HoldersKnown
    BY DEF HInv, CallsHold
  <1>2. CommitLine(p) /\ FinishReplacing(p) /\ UNCHANGED proxies
    BY DEF Commit, CommitStep, CommitLine
  <1>3. ASSUME c.op = "update" /\ UpdateTx(c.steps)
        PROVE  Next /\ IInv' /\ HoldersKnown'
    <2>1. c.steps \in Lines /\ Update(c.steps)
      BY <1>1, <1>2, <1>3 DEF Holds, Update
    <2>2. OneManager(c.steps) /\ c.steps \in Seq(Step) /\ line' = resolveSteps(c.steps)
      BY <2>1, ConstantTypes DEF OneHolderPerStep, Update, UpdateTx
    <2> QED
      BY <1>1, <2>1, <2>2, UpdateKeepsIInv, ResolvedHolders DEF Next, DraftNext
  <1>4. ASSUME c.op = "submit" /\ SubmitTx(c.steps, c.other # 0)
        PROVE  Next /\ IInv' /\ HoldersKnown'
    <2>1. c.steps \in SubmitLines /\ Submit(c.steps)
      BY <1>1, <1>2, <1>4 DEF Holds, Submit, SubmitGuard
    <2>2. OneManager(c.steps) /\ c.steps \in Seq(Step)
      BY <1>1, <2>1, SubmitLineFacts DEF OneHolderPerStep, SubmitLines, HoldersKnown
    <2>3. line' = resolveSteps(c.steps)
      BY <1>4 DEF SubmitTx
    <2> QED
      BY <1>1, <2>1, <2>2, <2>3, SubmitKeepsIInv, ResolvedHolders DEF Next, DraftNext
  <1>5. ASSUME c.op = "remove" /\ DeleteTx
        PROVE  Next /\ IInv' /\ HoldersKnown'
    <2>1. Remove
      BY <1>1, <1>2, <1>5 DEF Holds, Remove
    <2>2. FlowRows(line)' = {}
      BY <1>5 DEF DeleteTx, FlowRows
    <2> QED
      BY <1>1, <1>2, <1>5, <2>1, <2>2, DeleteKeepsIInv DEF Next, DraftNext, HoldersKnown, OneManager
  <1>6. Next /\ IInv' /\ HoldersKnown'
    BY <1>2, <1>3, <1>4, <1>5 DEF CommitLine
  <1>7. CallsHold'
    <2> SUFFICES ASSUME NEW q \in Sessions PROVE Holds(Owner[q], sess[q])'
      BY DEF CallsHold
    <2>1. sess'[q].op = "idle"
      <3>1. CASE q = p
        BY <1>2, <3>1 DEF FinishReplacing, Idle
      <3>2. CASE q # p
        <4>1. sess[q].op = "idle" /\ sess[q] \in CallType
          BY <3>2, DrafterAlone DEF HInv, SIInv, CallsTyped
        <4>2. sess'[q] = [sess[q] EXCEPT !.stale = TRUE] \/ sess'[q] = sess[q]
          BY <1>2, <3>2 DEF FinishReplacing
        <4> QED
          BY <4>1, <4>2 DEF CallType
      <3> QED
        BY <3>1, <3>2
    <2> QED
      BY <2>1 DEF Holds
  <1> QED
    BY <1>6, <1>7

LEMMA SideCommits ==
    ASSUME OneHolderPerStep, HInv, NEW p \in Sessions, Commit(p),
           sess[p].op \in {"view", "receive", "bounce", "addCc"}
    PROVE  KeepsFlow /\ IInv' /\ HoldersKnown' /\ CallsHold'
  <1> DEFINE c == sess[p]
  <1>1. /\ Holds(Owner[p], c) /\ IInv /\ c \in CallType /\ StepsTyped(c) /\ NamesRows(line, history, c)
        /\ ~c.stale /\ c.proxy \in Employees \cup {NoOne} /\ c.other \in Nat
    BY DEF HInv, CallsHold, SIInv, CallsTyped, CallsNameRows, CallType, Commit
  <1>2. CommitStep(p) /\ Finish(p) /\ UNCHANGED proxies
    BY DEF Commit, CommitStep, CommitLine
  <1>3. status \notin {"NONE", "DRAFT"}
    BY <1>1 DEF Holds
  <1>4. ASSUME c.op = "addCc" /\ AddCcTx(c.steps, c.other)
        PROVE  KeepsFlow /\ IInv'
    <2>1. c.steps \in Seq(CcTarget)
      BY <1>1, <1>4 DEF StepsTyped
    <2>2. IInv'
      BY <1>1, <1>2, <1>3, <1>4, <2>1, AddCcTxKeepsIInv
    <2>3. KeepsFlow
      BY <1>1, <1>2, <1>4, <2>1, AddCcTxKeepsFlow DEF KeepsFlow, AddCcTx
    <2> QED
      BY <2>2, <2>3
  <1>5. ASSUME NEW to, NEW a \in HistoryAction, MarkTx(c.row, c.proxy, to, a), c.row \in DOMAIN line,
               \/ line[c.row].role \in CC_ROLES /\ to = "VIEWED"
               \/ line[c.row].role \in RECEIVER_ROLES /\ status = "APPROVED" /\ to \in {"RECEIVED", "BOUNCED"}
        PROVE  KeepsFlow /\ IInv'
    <2>1. IInv'
      BY <1>1, <1>2, <1>3, <1>5, MarkKeepsIInv
    <2>2. UNCHANGED <<status, line, docNumber>> /\ st' = [st EXCEPT ![c.row] = to]
      BY <1>5 DEF MarkTx
    <2>3. c.row \notin FlowRows(line) /\ FlowRows(line)' = FlowRows(line)
      BY <1>5, <2>2, RoleGroups DEF FlowRows
    <2> QED
      BY <1>2, <2>1, <2>2, <2>3 DEF KeepsFlow
  <1>6. ASSUME c.op = "view" /\ MarkTx(c.row, c.proxy, "VIEWED", "VIEW")
        PROVE  KeepsFlow /\ IInv'
    <2>1. c.row \in DOMAIN line /\ line[c.row].role \in CC_ROLES /\ "VIEW" \in HistoryAction
      BY <1>1, <1>6 DEF NamesRows, HistoryAction
    <2> QED
      BY <1>5, <1>6, <2>1
  <1>7. ASSUME \/ c.op = "receive" /\ MarkTx(c.row, c.proxy, "RECEIVED", "RECEIVE")
               \/ c.op = "bounce" /\ MarkTx(c.row, c.proxy, "BOUNCED", "BOUNCE")
        PROVE  KeepsFlow /\ IInv'
    <2>1. c.row \in DOMAIN line /\ line[c.row].role \in RECEIVER_ROLES /\ status = "APPROVED"
      BY <1>1, <1>7 DEF NamesRows, Holds
    <2>2. "RECEIVE" \in HistoryAction /\ "BOUNCE" \in HistoryAction
      BY DEF HistoryAction
    <2> QED
      BY <1>5, <1>7, <2>1, <2>2
  <1>8. KeepsFlow /\ IInv'
    BY <1>2, <1>4, <1>6, <1>7 DEF CommitStep
  <1>9. HoldersKnown'
    <2>1. FlowRows(line) \subseteq DOMAIN line
      BY DEF FlowRows
    <2> QED
      BY <1>8, <2>1 DEF HInv, HoldersKnown, OneManager, KeepsFlow
  <1>10. \A f, d : Holds(f, d) => Holds(f, d)'
    BY <1>3, <1>8, SameFlowHolds DEF KeepsFlow
  <1>11. CallsHold'
    <2> SUFFICES ASSUME NEW q \in Sessions PROVE Holds(Owner[q], sess[q])'
      BY DEF CallsHold
    <2>1. PICK d : d = sess'[q]
      OBVIOUS
    <2>2. Holds(Owner[q], d) \/ d = Idle
      BY <1>2, <2>1 DEF Finish, HInv, CallsHold, SIInv, CallsTyped
    <2> QED
      BY <1>10, <2>1, <2>2, IdleHolds DEF Holds
  <1> QED
    BY <1>8, <1>9, <1>11


-----------------------------------------------------------------------------
(* The theorems on holders of different steps.                             *)

\* Under OneHolderPerStep overlapping calls do to the document what the same
\* calls do one after another, but for marks and cc rows, which leave the flow
\* alone.
LEMMA HoldersStep ==
    ASSUME OneHolderPerStep, HInv, [SNext]_svars
    PROVE  HInv' /\ ([Next]_vars \/ KeepsFlow)
  <1>0. SIInv'
    BY NextKeepsSIInv DEF HInv
  <1>1. CASE \E p \in Sessions : Load(p)
    BY <1>1, LoadKeepsHInv
  <1>2. CASE \E p \in Sessions : Abort(p)
    BY <1>2, AbortKeepsHInv
  <1>3. CASE \E p \in Sessions : Commit(p)
    <2>1. PICK p \in Sessions : Commit(p)
      BY <1>3
    <2>2. Holds(Owner[p], sess[p]) /\ sess[p] \in CallType
      BY DEF HInv, CallsHold, SIInv, CallsTyped
    <2>3. sess[p].op \notin {"idle", "cancel", "recall", "forceDelete"}
      BY <2>1, <2>2 DEF Holds, OneHolderPerStep, Commit, CommitStep, CommitLine
    <2>4. \/ sess[p].op \in {"approve", "reject", "preApprove", "return"}
          \/ sess[p].op \in {"update", "submit", "remove"}
          \/ sess[p].op \in {"view", "receive", "bounce", "addCc"}
      BY <2>2, <2>3 DEF CallType
    <2> QED
      BY <1>0, <2>1, <2>4, DecisionCommits, DraftCommits, SideCommits DEF HInv
  <1>4. CASE Others
    <2>1. sess' = sess
      BY <1>4 DEF Others
    <2>2. CASE \E l \in Lines \cup {<<>>} : Create(l)
      <3>1. PICK l \in Lines \cup {<<>>} : Create(l)
        BY <2>2
      <3>2. IInv' /\ Next
        BY <3>1, CreateKeepsIInv DEF HInv, Next, DraftNext
      <3>3. l \in Seq(Step) /\ line' = resolveSteps(l)
        BY <3>1, DraftLineFacts DEF Create
      <3>4. OneManager(l)
        BY <3>1, EmptySeq DEF OneHolderPerStep, OneManager, FlowRows
      <3>5. HoldersKnown'
        BY <3>3, <3>4, ResolvedHolders
      <3>6. \A p \in Sessions : sess'[p] = Idle
        BY <2>1, <3>1 DEF HInv, SIInv, NothingBeforeCreate, Create
      <3>7. CallsHold'
        BY <3>6, IdleHolds DEF CallsHold, Holds
      <3> QED
        BY <1>0, <3>2, <3>5, <3>7 DEF HInv
    <2>3. CASE \E e \in Employees : AddOpinion(e)
      <3>1. IInv' /\ Next
        BY <2>3, AddOpinionKeepsIInv DEF HInv, Next
      <3>2. UNCHANGED <<status, line, st, proxyId, docNumber, proxies>>
        BY <2>3 DEF AddOpinion
      <3>3. HoldersKnown'
        BY <3>2 DEF HInv, HoldersKnown
      <3>4. \A e, c : Holds(e, c) => Holds(e, c)'
        BY <3>2, SameFlowHolds DEF FlowRows
      <3>5. CallsHold'
        <4> SUFFICES ASSUME NEW p \in Sessions PROVE Holds(Owner[p], sess[p])'
          BY DEF CallsHold
        <4>1. PICK c : c = sess[p]
          OBVIOUS
        <4>2. sess'[p] = c /\ Holds(Owner[p], c)'
          BY <2>1, <3>4, <4>1 DEF HInv, CallsHold
        <4> QED
          BY <4>2 DEF Holds
      <3> QED
        BY <1>0, <3>1, <3>3, <3>5 DEF HInv
    <2>4. CASE ChangeProxies
      <3>1. proxies = {} /\ proxies' = {}
        BY <2>4 DEF ChangeProxies, OneHolderPerStep, HInv, IInv, TypeOK
      <3> QED
        BY <2>4, <3>1 DEF ChangeProxies
    <2> QED
      BY <1>4, <2>2, <2>3, <2>4 DEF Others
  <1>5. CASE UNCHANGED svars
    <2>1. UNCHANGED vars /\ sess' = sess
      BY <1>5 DEF svars, vars
    <2>2. IInv' /\ HoldersKnown'
      BY <2>1, SameDocKeepsIInv DEF HInv, vars, HoldersKnown
    <2>3. \A e, c : Holds(e, c) => Holds(e, c)'
      BY <2>1, SameFlowHolds DEF vars, FlowRows
    <2>4. CallsHold'
      <3> SUFFICES ASSUME NEW p \in Sessions PROVE Holds(Owner[p], sess[p])'
        BY DEF CallsHold
      <3>1. PICK c : c = sess[p]
        OBVIOUS
      <3>2. sess'[p] = c /\ Holds(Owner[p], c)'
        BY <2>1, <2>3, <3>1 DEF HInv, CallsHold
      <3> QED
        BY <3>2 DEF Holds
    <2> QED
      BY <1>0, <2>1, <2>2, <2>4 DEF HInv
  <1> QED
    BY <1>1, <1>2, <1>3, <1>4, <1>5 DEF SNext

LEMMA HoldersInit ==
    ASSUME OneHolderPerStep, SInit
    PROVE  HInv
  <1>1. SIInv /\ IInv
    BY InitSIInv, InitIInv DEF SInit
  <1>2. HoldersKnown
    BY DEF SInit, Init, HoldersKnown, OneManager, FlowRows
  <1>3. CallsHold
    BY DEF SInit, CallsHold, Holds, Idle
  <1> QED
    BY <1>1, <1>2, <1>3 DEF HInv

\* Overlapping calls of people who hold different steps keep the invariant of
\* calls that do not overlap, and every call finds what it has checked.
THEOREM HoldersInvariance == OneHolderPerStep => (SSpec => []HInv)
  <1> SUFFICES ASSUME OneHolderPerStep PROVE SSpec => []HInv
    OBVIOUS
  <1>1. SInit => HInv
    BY HoldersInit
  <1>2. HInv /\ [SNext]_svars => HInv'
    BY HoldersStep
  <1> QED
    BY <1>1, <1>2, PTL DEF SSpec

\* The turn is neither lost nor doubled by overlapping calls of different holders.
THEOREM HoldersKeepTurn == OneHolderPerStep => (SSpec => []OneTurn)
  <1> SUFFICES ASSUME OneHolderPerStep PROVE SSpec => []OneTurn
    OBVIOUS
  <1>1. HInv => OneTurn
    BY DEF HInv, IInv
  <1>2. SSpec => []HInv
    BY HoldersInvariance
  <1> QED
    BY <1>1, <1>2, PTL

\* Their overlapping calls approve no document past a step that did not approve.
THEOREM HoldersComplete == OneHolderPerStep => (SSpec => []ApprovedMeansComplete)
  <1> SUFFICES ASSUME OneHolderPerStep PROVE SSpec => []ApprovedMeansComplete
    OBVIOUS
  <1>1. HInv => ApprovedMeansComplete
    BY DEF HInv, IInv
  <1>2. SSpec => []HInv
    BY HoldersInvariance
  <1> QED
    BY <1>1, <1>2, PTL

\* No late call of theirs revises a decision.
THEOREM HoldersFinal == OneHolderPerStep => (SSpec => FinalIsFinal)
  <1> SUFFICES ASSUME OneHolderPerStep PROVE SSpec => FinalIsFinal
    OBVIOUS
  <1>1. HInv /\ [SNext]_svars =>
          [(status \in {"APPROVED", "REJECTED", "RECALLED"}) => status' = "DELETED" \/ DecisionKept]_vars
    <2> SUFFICES ASSUME HInv, [SNext]_svars, status \in {"APPROVED", "REJECTED", "RECALLED"}
                 PROVE  status' = "DELETED" \/ DecisionKept
      OBVIOUS
    <2>1. CASE [Next]_vars
      BY <2>1, FinalStep DEF HInv
    <2>2. CASE KeepsFlow
      BY <2>2 DEF KeepsFlow, DecisionKept
    <2> QED
      BY <2>1, <2>2, HoldersStep
  <1>2. SSpec => []HInv
    BY HoldersInvariance
  <1> QED
    BY <1>1, <1>2, PTL DEF SSpec, FinalIsFinal

\* Their overlapping calls implement TurnPassing, as calls in sequence do.
THEOREM HoldersPassTurns == OneHolderPerStep => (SSpec => ImplementsTurnPassing)
  <1> SUFFICES ASSUME OneHolderPerStep PROVE SSpec => ImplementsTurnPassing
    OBVIOUS
  <1>1. HInv /\ HInv' /\ [SNext]_svars => [TP!Next]_(TP!tvars)
    <2> SUFFICES ASSUME HInv, HInv', [SNext]_svars
                 PROVE  [TP!Next]_(TP!tvars)
      OBVIOUS
    <2>1. CASE [Next]_vars
      BY <2>1, NextImplements DEF HInv
    <2>2. CASE KeepsFlow
      BY <2>2, SameFlowImplements DEF KeepsFlow
    <2> QED
      BY <2>1, <2>2, HoldersStep
  <1>2. SInit => TP!Init
    BY InitImplements DEF SInit
  <1>3. SSpec => []HInv
    BY HoldersInvariance
  <1> QED
    BY <1>1, <1>2, <1>3, PTL DEF SSpec, ImplementsTurnPassing, TP!Spec


\* Whoever gets the turn from an overlapping call is told, as in sequence.
THEOREM HoldersAnnounced == OneHolderPerStep => (SSpec => TurnIsAnnounced)
  <1> SUFFICES ASSUME OneHolderPerStep PROVE SSpec => TurnIsAnnounced
    OBVIOUS
  <1>1. HInv /\ HInv' /\ [SNext]_svars => [TurnGivenAloud]_vars
    <2> SUFFICES ASSUME HInv, HInv', [SNext]_svars
                 PROVE  [TurnGivenAloud]_vars
      OBVIOUS
    <2>1. CASE [Next]_vars
      BY <2>1, TurnStep DEF HInv
    <2>2. CASE KeepsFlow
      <3>1. \A j \in FlowRows(line) : j \in DOMAIN st
        BY RowFacts DEF HInv, IInv, FlowRows
      <3> QED
        BY <2>2, <3>1, TurnGivenAloudSame DEF KeepsFlow
    <2> QED
      BY <2>1, <2>2, HoldersStep
  <1>2. SSpec => []HInv
    BY HoldersInvariance
  <1> QED
    BY <1>1, <1>2, PTL DEF SSpec, TurnIsAnnounced

=============================================================================
