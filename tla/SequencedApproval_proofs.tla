---------------------- MODULE SequencedApproval_proofs ----------------------
(***************************************************************************)
(* Proofs, for every set of employees, departments, lines, cc targets and  *)
(* proxy settings, that the handlers keep the approval flow in order.      *)
(***************************************************************************)
EXTENDS SequencedApproval, FiniteSetTheorems, SequenceTheorems, TLAPS

-----------------------------------------------------------------------------
(* Facts about types and lines.                                            *)

\* What TypeOK says of the rows, in the form the other proofs use it: the three
\* columns share one domain and every row is a Step (approval-support's StepRecord).
LEMMA RowFacts ==
    ASSUME TypeOK
    PROVE  /\ DOMAIN line = 1 .. Len(line)
           /\ DOMAIN st = DOMAIN line
           /\ DOMAIN proxyId = DOMAIN line
           /\ Len(line) \in Nat
           /\ \A i \in DOMAIN line :
                /\ line[i] \in Step
                /\ line[i].role \in StepRole
                /\ line[i].stepOrder \in Nat
                /\ st[i] \in StepStatus
                /\ proxyId[i] \in Employees \cup {NoOne}
  BY DEF TypeOK, Step

\* resolveSteps fills in assignees and leaves everything the flow depends on.
LEMMA ResolveFacts ==
    ASSUME NEW l \in Seq(Step), Resolvable(l)
    PROVE  /\ resolveSteps(l) \in Seq(Step)
           /\ DOMAIN resolveSteps(l) = DOMAIN l
           /\ Len(resolveSteps(l)) = Len(l)
           /\ \A i \in DOMAIN l : /\ resolveSteps(l)[i].role = l[i].role
                                  /\ resolveSteps(l)[i].stepOrder = l[i].stepOrder
           /\ DistinctFlowOrders(l) => DistinctFlowOrders(resolveSteps(l))
  <1> DEFINE r == resolveSteps(l)
  <1>1. \A i \in 1 .. Len(l) : l[i] \in Step
    OBVIOUS
  <1>0. DOMAIN l = 1 .. Len(l) /\ Len(l) \in Nat
    OBVIOUS
  <1>2. \A i \in 1 .. Len(l) : r[i] \in Step /\ r[i].role = l[i].role /\ r[i].stepOrder = l[i].stepOrder
    <2> SUFFICES ASSUME NEW i \in 1 .. Len(l)
                 PROVE  r[i] \in Step /\ r[i].role = l[i].role /\ r[i].stepOrder = l[i].stepOrder
      OBVIOUS
    <2>1. CASE l[i].role \notin DEPT_ROLES
      BY <1>1, <2>1 DEF resolveSteps
    <2>2. CASE l[i].role \in DEPT_ROLES
      <3>1. l[i].organizationId \in Organizations
        BY <1>1, <2>2 DEF Step
      <3>2. DeptAssignee(l[i].organizationId) \in Employees \cup {NoOne}
        BY <3>1, ConstantTypes DEF DeptAssignee
      <3>3. r[i] = [l[i] EXCEPT !.assigneeId = DeptAssignee(l[i].organizationId)]
        BY <2>2 DEF resolveSteps
      <3> QED
        BY <1>1, <3>2, <3>3 DEF Step
    <2> QED
      BY <2>1, <2>2
  <1>3. r \in [1 .. Len(l) -> Step]
    <2>1. DOMAIN r = 1 .. Len(l) /\ r = [i \in DOMAIN r |-> r[i]]
      BY <1>0 DEF resolveSteps
    <2> QED
      BY <1>2, <2>1
  <1>4. r \in Seq(Step) /\ Len(r) = Len(l) /\ DOMAIN r = DOMAIN l
    BY <1>3
  <1> QED
    BY <1>0, <1>2, <1>4 DEF DistinctFlowOrders, FlowRows

\* A line a caller can submit has its flow steps in a strict order.
LEMMA SubmitLineFacts ==
    ASSUME IInv, NEW l \in SubmitLines
    PROVE  l \in Seq(Step) /\ DistinctFlowOrders(l)
  BY ConstantTypes, SequencedLines DEF SubmitLines, IInv, TypeOK

LEMMA DraftLineFacts ==
    ASSUME NEW l \in Lines \cup {<<>>}
    PROVE  l \in Seq(Step) /\ DistinctFlowOrders(l)
  <1>1. CASE l \in Lines
    BY <1>1, ConstantTypes, SequencedLines
  <1>2. CASE l = <<>>
    BY <1>2, EmptySeq DEF DistinctFlowOrders, FlowRows
  <1> QED
    BY <1>1, <1>2

\* Roles fall into the three groups the handlers treat alike.
LEMMA RoleGroups ==
    /\ StepRole = APPROVAL_FLOW_ROLES \cup RECEIVER_ROLES \cup CC_ROLES
    /\ APPROVAL_FLOW_ROLES \cap RECEIVER_ROLES = {}
    /\ APPROVAL_FLOW_ROLES \cap CC_ROLES = {}
    /\ RECEIVER_ROLES \cap CC_ROLES = {}
  BY DEF StepRole, APPROVAL_FLOW_ROLES, RECEIVER_ROLES, CC_ROLES

-----------------------------------------------------------------------------
(* DocumentsService keeps the invariant.                                   *)

\* A draft line, as create and update store it, meets the invariant.
LEMMA DraftLineKeepsIInv ==
    ASSUME IInv, NEW l \in Seq(Step), DistinctFlowOrders(l), Resolvable(l),
           status' = "DRAFT", line' = resolveSteps(l), st' = AllWaiting(l),
           proxyId' = NoProxies(l), docNumber' = 0, history' = history,
           proxies' \in ProxyChoices
    PROVE  IInv'
  <1>1. /\ line' \in Seq(Step) /\ DOMAIN line' = DOMAIN l /\ Len(line') = Len(l)
        /\ DistinctFlowOrders(line')
    BY ResolveFacts
  <1>2. DOMAIN l = 1 .. Len(l)
    OBVIOUS
  <1>3. \A i \in DOMAIN line' : st'[i] = "WAITING" /\ proxyId'[i] = NoOne
    BY <1>1 DEF AllWaiting, NoProxies
  <1>4. TypeOK'
    BY <1>1, <1>2 DEF IInv, TypeOK, DocStatus, AllWaiting, NoProxies, StepStatus
  <1>5. DistinctFlowOrders(line)'
    BY <1>1 DEF DistinctFlowOrders, FlowRows
  <1> QED
    BY <1>1, <1>3, <1>4, <1>5
    DEF IInv, DraftIsUntouched, CcRowsOnlyViewed, OneTurn, ApprovedMeansComplete,
        ReceiversFollowDocument, ProxyAttribution, NumberedOnce

LEMMA CreateKeepsIInv ==
    ASSUME IInv, NEW l \in Lines \cup {<<>>}, Create(l)
    PROVE  IInv'
  <1>1. l \in Seq(Step) /\ DistinctFlowOrders(l)
    BY DraftLineFacts
  <1>2. docNumber = 0 /\ proxies \in ProxyChoices
    BY DEF IInv, NumberedOnce, Create, TypeOK
  <1> QED
    BY <1>1, <1>2, DraftLineKeepsIInv DEF Create

LEMMA UpdateKeepsIInv ==
    ASSUME IInv, NEW l \in Lines \cup {<<>>}, Update(l)
    PROVE  IInv'
  <1>1. l \in Seq(Step) /\ DistinctFlowOrders(l)
    BY DraftLineFacts
  <1>2. status = "DRAFT" /\ docNumber = 0 /\ proxies \in ProxyChoices
    BY DEF IInv, NumberedOnce, Update, UpdateGuard, EDITABLE_STATUSES, TypeOK
  <1> QED
    BY <1>1, <1>2, DraftLineKeepsIInv DEF Update, UpdateGuard, UpdateTx

LEMMA DeleteKeepsIInv ==
    ASSUME IInv, DeleteTx, UNCHANGED proxies
    PROVE  IInv'
  BY DEF IInv, DeleteTx, TypeOK, DistinctFlowOrders, FlowRows, DraftIsUntouched,
         CcRowsOnlyViewed, OneTurn, ApprovedMeansComplete, ReceiversFollowDocument,
         ProxyAttribution, NumberedOnce

LEMMA SubmitKeepsIInv ==
    ASSUME IInv, NEW l \in SubmitLines, Submit(l)
    PROVE  IInv'
  <1> DEFINE rows == resolveSteps(l)
  <1>1. l \in Seq(Step) /\ DistinctFlowOrders(l) /\ Resolvable(l)
    BY SubmitLineFacts DEF Submit, SubmitGuard, Submittable
  <1>2. rows \in Seq(Step) /\ DistinctFlowOrders(rows)
    BY <1>1, ResolveFacts
  <1>3. PICK first \in FlowRows(rows) :
          /\ Lowest(rows, FlowRows(rows), first)
          /\ status' = "PENDING"
          /\ line' = rows
          /\ st' = [i \in DOMAIN rows |-> initialStepStatus(rows, i)]
          /\ proxyId' = NoProxies(rows)
    BY DEF Submit, SubmitTx
  <1>4. docNumber = 0 /\ docNumber' = 1
    BY DEF IInv, NumberedOnce, Submit, SubmitGuard, SubmitTx, EDITABLE_STATUSES
  <1>5. history' \in SUBSET HistoryAction /\ proxies' \in ProxyChoices
    BY DEF IInv, TypeOK, Submit, SubmitTx, HistoryAction
  <1>6. \A i \in DOMAIN rows :
          /\ rows[i] \in Step /\ rows[i].role \in StepRole /\ rows[i].stepOrder \in Nat
          /\ initialStepStatus(rows, i) \in {"WAITING", "PENDING"}
          /\ rows[i].role \in RECEIVER_ROLES => initialStepStatus(rows, i) = "WAITING"
          /\ rows[i].role \in APPROVAL_FLOW_ROLES =>
               initialStepStatus(rows, i) = IF i = first THEN "PENDING" ELSE "WAITING"
    <2> SUFFICES ASSUME NEW i \in DOMAIN rows
                 PROVE  /\ rows[i] \in Step /\ rows[i].role \in StepRole /\ rows[i].stepOrder \in Nat
                        /\ initialStepStatus(rows, i) \in {"WAITING", "PENDING"}
                        /\ rows[i].role \in RECEIVER_ROLES => initialStepStatus(rows, i) = "WAITING"
                        /\ rows[i].role \in APPROVAL_FLOW_ROLES =>
                             initialStepStatus(rows, i) = IF i = first THEN "PENDING" ELSE "WAITING"
      OBVIOUS
    <2>1. \A k \in DOMAIN rows : rows[k] \in Step /\ rows[k].role \in StepRole /\ rows[k].stepOrder \in Nat
      BY <1>2 DEF Step
    <2>2. CASE rows[i].role \in APPROVAL_FLOW_ROLES
      <3>1. Lowest(rows, FlowRows(rows), i) <=> i = first
        BY <1>2, <1>3, <2>1, <2>2 DEF Lowest, FlowRows, DistinctFlowOrders
      <3> QED
        BY <2>1, <2>2, <3>1, RoleGroups DEF initialStepStatus
    <2>3. CASE rows[i].role \notin APPROVAL_FLOW_ROLES
      BY <2>1, <2>3, RoleGroups DEF initialStepStatus
    <2> QED
      BY <2>2, <2>3
  <1>7. TypeOK'
    BY <1>2, <1>3, <1>4, <1>5, <1>6 DEF TypeOK, DocStatus, NoProxies, StepStatus
  <1>8. OneTurn'
    <2>1. HasTurn(first)'
      BY <1>2, <1>3, <1>6 DEF HasTurn, FlowRows, Lowest, DistinctFlowOrders, Resumable
    <2> QED
      BY <1>3, <2>1 DEF OneTurn, FlowRows
  <1>9. ReceiversFollowDocument' /\ CcRowsOnlyViewed' /\ ProxyAttribution'
    BY <1>3, <1>6 DEF ReceiversFollowDocument, CcRowsOnlyViewed, ProxyAttribution, NoProxies
  <1> QED
    BY <1>2, <1>3, <1>4, <1>7, <1>8, <1>9
    DEF IInv, DraftIsUntouched, ApprovedMeansComplete, NumberedOnce, DistinctFlowOrders, FlowRows

LEMMA RecallKeepsIInv ==
    ASSUME IInv, Recall
    PROVE  IInv'
  <1> USE DEF Recall, RecallGuard, RecallTx
  <1>1. TypeOK'
    BY DEF IInv, TypeOK, DocStatus, HistoryAction
  <1> QED
    BY <1>1 DEF IInv, DistinctFlowOrders, FlowRows, DraftIsUntouched, CcRowsOnlyViewed, OneTurn,
                ApprovedMeansComplete, ReceiversFollowDocument, ProxyAttribution, NumberedOnce

\* Steps that leave the document, its rows and its number alone.
LEMMA SameRowsKeepIInv ==
    ASSUME IInv, UNCHANGED <<status, line, st, proxyId, docNumber>>,
           history' \subseteq HistoryAction, proxies' \in ProxyChoices
    PROVE  IInv'
  <1>1. TypeOK'
    BY DEF IInv, TypeOK
  <1> QED
    BY <1>1 DEF IInv, DistinctFlowOrders, FlowRows, DraftIsUntouched, CcRowsOnlyViewed, OneTurn,
                HasTurn, ApprovedMeansComplete, ReceiversFollowDocument, ProxyAttribution, NumberedOnce

LEMMA AddOpinionKeepsIInv ==
    ASSUME IInv, NEW e \in Employees, AddOpinion(e)
    PROVE  IInv'
  <1>1. history' \subseteq HistoryAction /\ proxies' \in ProxyChoices
    BY DEF IInv, TypeOK, AddOpinion, HistoryAction
  <1> QED
    BY <1>1, SameRowsKeepIInv DEF AddOpinion

\* New cc rows disturb nothing, at whatever order they are put.
LEMMA AddCcTxKeepsIInv ==
    ASSUME IInv, NEW fresh \in Seq(CcTarget), NEW m \in Nat, AddCcTx(fresh, m), UNCHANGED proxies,
           status \notin {"NONE", "DRAFT"}
    PROVE  IInv'
  <1> DEFINE n == Len(line)
             ids == 1 .. (n + Len(fresh))
  <1>2. /\ DOMAIN line = 1 .. n /\ n \in Nat
        /\ \A i \in 1 .. n : line[i] \in Step /\ line[i].stepOrder \in Nat /\ st[i] \in StepStatus
                              /\ proxyId[i] \in Employees \cup {NoOne}
    BY RowFacts DEF IInv
  <1>4. Len(fresh) \in Nat /\ \A k \in 1 .. Len(fresh) : fresh[k] \in CcTarget
    OBVIOUS
  <1>5. /\ DOMAIN line' = ids /\ line' = [i \in ids |-> line'[i]]
        /\ st' = [i \in ids |-> st'[i]] /\ proxyId' = [i \in ids |-> proxyId'[i]]
        /\ DOMAIN st' = ids /\ DOMAIN proxyId' = ids
    BY DEF AddCcTx
  <1>6. \A i \in 1 .. n : line'[i] = line[i] /\ st'[i] = st[i] /\ proxyId'[i] = proxyId[i]
    BY <1>2, <1>4 DEF AddCcTx
  <1>7. \A i \in ids \ (1 .. n) :
          /\ line'[i] \in Step /\ line'[i].role \in CC_ROLES
          /\ st'[i] = "PENDING" /\ proxyId'[i] = NoOne
    <2> SUFFICES ASSUME NEW i \in ids \ (1 .. n)
                 PROVE  /\ line'[i] \in Step /\ line'[i].role \in CC_ROLES
                        /\ st'[i] = "PENDING" /\ proxyId'[i] = NoOne
      OBVIOUS
    <2>1. i - n \in 1 .. Len(fresh) /\ ~(i <= n) /\ m + (i - n) \in Nat
      BY <1>2, <1>4
    <2>2. /\ line'[i] = [role |-> fresh[i - n].role, assigneeId |-> fresh[i - n].assigneeId,
                         organizationId |-> NoOne, stepOrder |-> m + (i - n)]
          /\ st'[i] = "PENDING" /\ proxyId'[i] = NoOne
      BY <2>1 DEF AddCcTx
    <2> QED
      BY <1>4, <2>1, <2>2 DEF CcTarget, Step, CC_ROLES, DEPT_ROLES, StepRole
  <1>8. UNCHANGED <<status, docNumber, history, proxies>>
    BY DEF AddCcTx
  <1>9. ids = (1 .. n) \cup (ids \ (1 .. n))
    BY <1>2, <1>4
  <1>10. TypeOK'
    <2>1. line' \in [1 .. (n + Len(fresh)) -> Step] /\ n + Len(fresh) \in Nat
      BY <1>2, <1>4, <1>5, <1>6, <1>7, <1>9
    <2>2. line' \in Seq(Step) /\ Len(line') = n + Len(fresh)
      BY <2>1
    <2>3. st' \in [ids -> StepStatus] /\ proxyId' \in [ids -> Employees \cup {NoOne}]
      BY <1>2, <1>5, <1>6, <1>7, <1>9 DEF StepStatus
    <2> QED
      BY <1>8, <2>2, <2>3 DEF IInv, TypeOK
  <1>11. FlowRows(line)' = FlowRows(line) /\ FlowRows(line) \subseteq 1 .. n
    BY <1>2, <1>5, <1>6, <1>7, <1>9, RoleGroups DEF FlowRows
  <1>12. DistinctFlowOrders(line)'
    BY <1>2, <1>6, <1>11 DEF IInv, DistinctFlowOrders
  <1>13. OneTurn' /\ ApprovedMeansComplete'
    BY <1>6, <1>8, <1>11 DEF IInv, OneTurn, HasTurn, ApprovedMeansComplete
  <1>14. CcRowsOnlyViewed'
    BY <1>2, <1>5, <1>6, <1>7, <1>9 DEF IInv, CcRowsOnlyViewed
  <1>15. ReceiversFollowDocument'
    BY <1>2, <1>5, <1>6, <1>7, <1>8, <1>9, RoleGroups DEF IInv, ReceiversFollowDocument
  <1>16. ProxyAttribution'
    BY <1>2, <1>5, <1>6, <1>7, <1>9 DEF IInv, ProxyAttribution
  <1> QED
    BY <1>8, <1>10, <1>12, <1>13, <1>14, <1>15, <1>16 DEF IInv, DraftIsUntouched, NumberedOnce

LEMMA AddCcStepsKeepsIInv ==
    ASSUME IInv, NEW e \in Employees, NEW fresh \in CcInputs, AddCcSteps(e, fresh)
    PROVE  IInv'
  <1>1. PICK m \in {0} \cup {line[i].stepOrder : i \in DOMAIN line} : AddCcTx(fresh, m)
    BY DEF AddCcSteps
  <1>2. m \in Nat
    BY RowFacts DEF IInv
  <1>3. fresh \in Seq(CcTarget) /\ UNCHANGED proxies /\ status \notin {"NONE", "DRAFT"}
    BY ConstantTypes DEF AddCcSteps, AddCcGuard
  <1> QED
    BY <1>1, <1>2, <1>3, AddCcTxKeepsIInv

-----------------------------------------------------------------------------
(* ApprovalActionsService keeps the invariant.                             *)

\* Whoever passes the guards of a flow handler acts on the step with the turn.
LEMMA GuardFindsTurn ==
    ASSUME IInv, NEW i, NEW e, status = "PENDING", Actionable(i, APPROVAL_FLOW_ROLES, e)
    PROVE  i \in FlowRows(line) /\ HasTurn(i) /\ i \in DOMAIN line
  <1>1. i \in FlowRows(line) /\ st[i] = "PENDING" /\ i \in DOMAIN line
    BY DEF Actionable, FlowRows
  <1>2. PICK p \in FlowRows(line) : HasTurn(p)
    BY DEF IInv, OneTurn
  <1>3. i = p
    BY <1>1, <1>2 DEF HasTurn, Passed, Resumable
  <1> QED
    BY <1>1, <1>2, <1>3

LEMMA ProxyOfType ==
    ASSUME NEW i, NEW e \in Employees
    PROVE  ProxyOf(i, e) \in Employees \cup {NoOne}
  BY DEF ProxyOf

\* The shape every handler that rewrites statuses has: rows stay, the columns
\* keep their types.
LEMMA RewriteKeepsTypes ==
    ASSUME IInv, UNCHANGED <<line, docNumber, proxies>>,
           status' \in DocStatus \cup {"NONE", "DELETED"}, NEW a \in HistoryAction,
           history' = history \cup {a}, DOMAIN st' = DOMAIN st, st' = [j \in DOMAIN st |-> st'[j]],
           \A j \in DOMAIN st : st'[j] \in StepStatus,
           NEW i \in DOMAIN line, NEW x \in Employees \cup {NoOne}, proxyId' = [proxyId EXCEPT ![i] = x]
    PROVE  TypeOK' /\ DistinctFlowOrders(line)'
  <1>1. DOMAIN st = 1 .. Len(line) /\ st' \in [1 .. Len(line) -> StepStatus]
    BY RowFacts DEF IInv
  <1>2. proxyId' \in [1 .. Len(line) -> Employees \cup {NoOne}]
    BY RowFacts DEF IInv, TypeOK
  <1> QED
    BY <1>1, <1>2 DEF IInv, TypeOK, DistinctFlowOrders, FlowRows

LEMMA ApproveKeepsIInv ==
    ASSUME IInv, NEW i \in DOMAIN line, NEW e \in Employees, approveFlowStep(i, e)
    PROVE  IInv'
  <1> DEFINE x == ProxyOf(i, e)
             how == IF x = NoOne THEN "APPROVED" ELSE "PROXY_APPROVED"
             passed == [st EXCEPT ![i] = how]
  <1>1. /\ DOMAIN st = DOMAIN line /\ DOMAIN proxyId = DOMAIN line
        /\ \A j \in DOMAIN line : line[j].role \in StepRole /\ line[j].stepOrder \in Nat /\ st[j] \in StepStatus
    BY RowFacts DEF IInv
  <1>2. i \in FlowRows(line) /\ HasTurn(i) /\ status = "PENDING"
    BY GuardFindsTurn DEF approveFlowStep, ApproveGuard
  <1>3. PICK next \in {0} \cup DOMAIN line : IsNext(i, next) /\ ApproveTx(i, x, next)
    BY DEF approveFlowStep
  <1>4. /\ UNCHANGED <<line, docNumber, proxies>>
        /\ proxyId' = [proxyId EXCEPT ![i] = x] /\ x \in Employees \cup {NoOne}
    BY <1>3, ProxyOfType DEF ApproveTx, approveFlowStep
  <1>5. PICK a \in HistoryAction : history' = history \cup {a}
    BY <1>3 DEF ApproveTx, ApprovalRecord, HistoryAction
  <1>6. how \in Passed /\ passed[i] = how /\ \A j \in DOMAIN line \ {i} : passed[j] = st[j]
    BY <1>1 DEF Passed
  <1>7. CASE NextRows(line, st, i) = {}
    <2>1. status' = "APPROVED" /\ st' = ActivateReceivers(line, passed)
      BY <1>3, <1>7 DEF IsNext, ApproveTx
    <2>2. \A j \in DOMAIN line :
            st'[j] = IF line[j].role \in RECEIVER_ROLES /\ passed[j] = "WAITING" THEN "PENDING" ELSE passed[j]
      BY <1>1, <2>1 DEF ActivateReceivers
    <2>3. TypeOK' /\ DistinctFlowOrders(line)'
      <3>1. DOMAIN st' = DOMAIN st /\ st' = [j \in DOMAIN st |-> st'[j]]
        BY <2>1 DEF ActivateReceivers
      <3>2. \A j \in DOMAIN st : st'[j] \in StepStatus
        BY <1>1, <1>6, <2>2 DEF StepStatus, Passed
      <3> QED
        BY <1>4, <1>5, <2>1, <3>1, <3>2, RewriteKeepsTypes DEF DocStatus
    <2>4. ApprovedMeansComplete'
      <3>1. \A j \in FlowRows(line) : st'[j] \in Passed
        BY <1>2, <1>6, <1>7, <2>2, RoleGroups DEF NextRows, HasTurn, FlowRows, Resumable, Passed
      <3> QED
        BY <1>4, <3>1 DEF ApprovedMeansComplete, FlowRows
    <2>5. ReceiversFollowDocument'
      BY <1>1, <1>2, <1>4, <1>6, <2>1, <2>2, RoleGroups DEF IInv, ReceiversFollowDocument, FlowRows
    <2>6. CcRowsOnlyViewed'
      BY <1>1, <1>2, <1>4, <1>6, <2>2, RoleGroups DEF IInv, CcRowsOnlyViewed, FlowRows
    <2>7. ProxyAttribution'
      BY <1>1, <1>4, <1>6, <2>2 DEF IInv, ProxyAttribution
    <2> QED
      BY <1>2, <1>4, <2>1, <2>3, <2>4, <2>5, <2>6, <2>7
      DEF IInv, DraftIsUntouched, OneTurn, NumberedOnce
  <1>8. CASE NextRows(line, st, i) # {}
    <2>1. Lowest(line, NextRows(line, st, i), next)
      BY <1>3, <1>8 DEF IsNext
    <2>2. /\ next \in FlowRows(line) /\ next # i /\ st[next] \in Resumable /\ next \in DOMAIN line
          /\ \A j \in NextRows(line, st, i) : line[next].stepOrder <= line[j].stepOrder
      BY <2>1 DEF Lowest, NextRows, FlowRows
    <2>3. next # 0
      BY <2>2, RowFacts DEF IInv
    <2>4. st' = [passed EXCEPT ![next] = "PENDING"] /\ UNCHANGED status
      BY <1>3, <2>3 DEF ApproveTx
    <2>5. \A j \in DOMAIN line :
            st'[j] = IF j = next THEN "PENDING" ELSE IF j = i THEN how ELSE st[j]
      BY <1>1, <2>2, <2>4
    <2>6. TypeOK' /\ DistinctFlowOrders(line)'
      <3>1. DOMAIN st' = DOMAIN st /\ st' = [j \in DOMAIN st |-> st'[j]]
        BY <2>4
      <3>2. \A j \in DOMAIN st : st'[j] \in StepStatus
        BY <1>1, <2>5 DEF StepStatus
      <3> QED
        BY <1>2, <1>4, <1>5, <2>4, <3>1, <3>2, RewriteKeepsTypes DEF DocStatus
    <2>7. HasTurn(next)'
      <3>1. \A j \in FlowRows(line) \ {next} :
              \/ line[j].stepOrder < line[next].stepOrder /\ st'[j] \in Passed
              \/ line[j].stepOrder > line[next].stepOrder /\ st'[j] \in Resumable
        <4> SUFFICES ASSUME NEW j \in FlowRows(line) \ {next}
                     PROVE  \/ line[j].stepOrder < line[next].stepOrder /\ st'[j] \in Passed
                            \/ line[j].stepOrder > line[next].stepOrder /\ st'[j] \in Resumable
          OBVIOUS
        <4>1. line[next].stepOrder > line[i].stepOrder
          BY <1>2, <2>2 DEF HasTurn, Passed, Resumable
        <4>2. /\ j \in DOMAIN line /\ line[j].stepOrder \in Nat /\ line[next].stepOrder \in Nat
              /\ line[i].stepOrder \in Nat /\ i \in DOMAIN line
          BY <1>1, <2>2 DEF FlowRows
        <4>3. CASE j = i
          BY <1>6, <2>5, <4>1, <4>2, <4>3
        <4>4. CASE j # i /\ line[j].stepOrder < line[i].stepOrder
          BY <1>2, <2>5, <4>1, <4>2, <4>4 DEF HasTurn
        <4>5. CASE j # i /\ line[j].stepOrder > line[i].stepOrder
          <5>1. j \in NextRows(line, st, i) /\ st[j] \in Resumable
            BY <1>2, <4>2, <4>5 DEF HasTurn, NextRows
          <5>2. line[next].stepOrder # line[j].stepOrder
            BY <2>2 DEF IInv, DistinctFlowOrders
          <5> QED
            BY <2>2, <2>5, <4>2, <4>5, <5>1, <5>2
        <4> QED
          BY <1>2, <4>2, <4>3, <4>4, <4>5 DEF HasTurn
      <3> QED
        BY <1>4, <2>2, <2>5, <3>1 DEF HasTurn, FlowRows
    <2>8. OneTurn'
      BY <1>4, <2>2, <2>7 DEF OneTurn, FlowRows
    <2>9. ReceiversFollowDocument' /\ CcRowsOnlyViewed'
      BY <1>1, <1>2, <1>4, <2>2, <2>4, <2>5, RoleGroups
      DEF IInv, ReceiversFollowDocument, CcRowsOnlyViewed, FlowRows
    <2>10. ProxyAttribution'
      BY <1>1, <1>4, <1>6, <2>2, <2>5 DEF IInv, ProxyAttribution, Resumable
    <2> QED
      BY <1>2, <1>4, <2>4, <2>6, <2>8, <2>9, <2>10
      DEF IInv, DraftIsUntouched, ApprovedMeansComplete, NumberedOnce
  <1> QED
    BY <1>7, <1>8

LEMMA RejectKeepsIInv ==
    ASSUME IInv, NEW i \in DOMAIN line, NEW e \in Employees, reject(i, e)
    PROVE  IInv'
  <1> DEFINE x == ProxyOf(i, e)
  <1>1. /\ DOMAIN st = DOMAIN line /\ DOMAIN proxyId = DOMAIN line
        /\ \A j \in DOMAIN line : line[j].role \in StepRole /\ st[j] \in StepStatus
    BY RowFacts DEF IInv
  <1>2. i \in FlowRows(line) /\ status = "PENDING"
    BY GuardFindsTurn DEF reject, ApproveGuard
  <1>3. /\ UNCHANGED <<line, docNumber, proxies>> /\ status' = "REJECTED"
        /\ history' = history \cup {"REJECT"}
        /\ proxyId' = [proxyId EXCEPT ![i] = x] /\ x \in Employees \cup {NoOne}
        /\ st' = CancelOpenRows(line, [st EXCEPT ![i] = "REJECTED"], i)
    BY ProxyOfType DEF reject, RejectTx
  <1>4. \A j \in DOMAIN line :
          st'[j] = IF j = i THEN "REJECTED"
                   ELSE IF line[j].role \in CANCEL_ON_REJECT_ROLES /\ st[j] \in {"WAITING", "PENDING"}
                   THEN "CANCELLED" ELSE st[j]
    BY <1>1, <1>3 DEF CancelOpenRows
  <1>5. TypeOK' /\ DistinctFlowOrders(line)'
    <2>1. DOMAIN st' = DOMAIN st /\ st' = [j \in DOMAIN st |-> st'[j]]
      BY <1>3 DEF CancelOpenRows
    <2>2. \A j \in DOMAIN st : st'[j] \in StepStatus
      BY <1>1, <1>4 DEF StepStatus
    <2>3. "REJECT" \in HistoryAction /\ status' \in DocStatus
      BY <1>3 DEF HistoryAction, DocStatus
    <2> QED
      BY <1>3, <2>1, <2>2, <2>3, RewriteKeepsTypes
  <1>6. ReceiversFollowDocument'
    BY <1>1, <1>2, <1>3, <1>4, RoleGroups
    DEF IInv, ReceiversFollowDocument, FlowRows, CANCEL_ON_REJECT_ROLES
  <1>7. CcRowsOnlyViewed'
    BY <1>1, <1>2, <1>3, <1>4, RoleGroups DEF IInv, CcRowsOnlyViewed, FlowRows, CANCEL_ON_REJECT_ROLES
  <1>8. ProxyAttribution'
    BY <1>1, <1>3, <1>4 DEF IInv, ProxyAttribution
  <1> QED
    BY <1>2, <1>3, <1>5, <1>6, <1>7, <1>8
    DEF IInv, DraftIsUntouched, OneTurn, ApprovedMeansComplete, NumberedOnce

LEMMA PreApproveKeepsIInv ==
    ASSUME IInv, NEW i \in DOMAIN line, NEW e \in Employees, preApprove(i, e)
    PROVE  IInv'
  <1> DEFINE x == ProxyOf(i, e)
  <1>1. /\ DOMAIN st = DOMAIN line /\ DOMAIN proxyId = DOMAIN line
        /\ \A j \in DOMAIN line : line[j].role \in StepRole /\ st[j] \in StepStatus
    BY RowFacts DEF IInv
  <1>2. i \in FlowRows(line) /\ HasTurn(i) /\ status = "PENDING"
    <2>1. status = "PENDING" /\ Actionable(i, APPROVAL_FLOW_ROLES, e)
      BY DEF preApprove, PreApproveGuard, Actionable, APPROVAL_FLOW_ROLES
    <2> QED
      BY <2>1, GuardFindsTurn
  <1>3. /\ UNCHANGED <<line, docNumber, proxies>> /\ status' = "APPROVED"
        /\ history' = history \cup {"PRE_APPROVE"}
        /\ proxyId' = [proxyId EXCEPT ![i] = x] /\ x \in Employees \cup {NoOne}
        /\ st' = ActivateReceivers(line, SkipRemainingRows(line, [st EXCEPT ![i] = "PRE_APPROVED"]))
    BY ProxyOfType DEF preApprove, PreApproveTx
  <1>4. \A j \in DOMAIN line :
          /\ j = i => st'[j] = "PRE_APPROVED"
          /\ j # i /\ line[j].role \in APPROVAL_FLOW_ROLES =>
                st'[j] = IF st[j] \in Resumable THEN "SKIPPED" ELSE st[j]
          /\ line[j].role \in RECEIVER_ROLES =>
                st'[j] = IF st[j] = "WAITING" THEN "PENDING" ELSE st[j]
          /\ line[j].role \in CC_ROLES => st'[j] = st[j]
    BY <1>1, <1>2, <1>3, RoleGroups DEF ActivateReceivers, SkipRemainingRows, FlowRows, Resumable
  <1>5. TypeOK' /\ DistinctFlowOrders(line)'
    <2>1. DOMAIN st' = DOMAIN st /\ st' = [j \in DOMAIN st |-> st'[j]]
      BY <1>3 DEF ActivateReceivers, SkipRemainingRows
    <2>2. \A j \in DOMAIN st : st'[j] \in StepStatus
      BY <1>1, <1>4, RoleGroups DEF StepStatus
    <2>3. "PRE_APPROVE" \in HistoryAction /\ status' \in DocStatus
      BY <1>3 DEF HistoryAction, DocStatus
    <2> QED
      BY <1>3, <2>1, <2>2, <2>3, RewriteKeepsTypes
  <1>6. ApprovedMeansComplete'
    <2>1. \A j \in FlowRows(line) \ {i} :
            \/ line[j].stepOrder < line[i].stepOrder /\ st'[j] \in Passed
            \/ line[j].stepOrder > line[i].stepOrder /\ st'[j] = "SKIPPED"
      BY <1>2, <1>4 DEF HasTurn, FlowRows, Passed, Resumable
    <2> QED
      BY <1>2, <1>3, <1>4, <2>1 DEF ApprovedMeansComplete, FlowRows
  <1>7. ReceiversFollowDocument' /\ CcRowsOnlyViewed'
    BY <1>1, <1>2, <1>3, <1>4 DEF IInv, ReceiversFollowDocument, CcRowsOnlyViewed
  <1>8. ProxyAttribution'
    BY <1>1, <1>3, <1>4, RoleGroups DEF IInv, ProxyAttribution, Resumable
  <1> QED
    BY <1>2, <1>3, <1>5, <1>6, <1>7, <1>8 DEF IInv, DraftIsUntouched, OneTurn, NumberedOnce

LEMMA ReturnKeepsIInv ==
    ASSUME IInv, NEW i \in DOMAIN line, NEW e \in Employees, NEW p \in DOMAIN line,
           returnToPrevious(i, e, p)
    PROVE  IInv'
  <1>1. /\ DOMAIN st = DOMAIN line /\ DOMAIN proxyId = DOMAIN line
        /\ \A j \in DOMAIN line : line[j].role \in StepRole /\ line[j].stepOrder \in Nat /\ st[j] \in StepStatus
    BY RowFacts DEF IInv
  <1>2. i \in FlowRows(line) /\ HasTurn(i) /\ status = "PENDING"
    BY GuardFindsTurn DEF returnToPrevious, ReturnGuard, ApproveGuard
  <1>3. /\ UNCHANGED <<status, line, docNumber, proxies>>
        /\ history' = history \cup {"RETURN_PREV"}
        /\ proxyId' = [proxyId EXCEPT ![p] = NoOne]
        /\ st' = [st EXCEPT ![i] = "RETURNED", ![p] = "PENDING"]
    BY DEF returnToPrevious, ReturnTx
  <1>4. /\ p \in FlowRows(line) /\ line[p].stepOrder < line[i].stepOrder /\ st[p] \in Passed
        /\ \A j \in PreviousRows(line, st, i) : line[j].stepOrder <= line[p].stepOrder
    BY DEF returnToPrevious, ReturnGuard, Highest, PreviousRows
  <1>5. p # i
    BY <1>1, <1>4
  <1>6. \A j \in DOMAIN line :
          st'[j] = IF j = p THEN "PENDING" ELSE IF j = i THEN "RETURNED" ELSE st[j]
    BY <1>1, <1>3, <1>5
  <1>7. TypeOK' /\ DistinctFlowOrders(line)'
    <2>1. DOMAIN st' = DOMAIN st /\ st' = [j \in DOMAIN st |-> st'[j]]
      BY <1>3
    <2>2. \A j \in DOMAIN st : st'[j] \in StepStatus
      BY <1>1, <1>6 DEF StepStatus
    <2>3. "RETURN_PREV" \in HistoryAction /\ status' \in DocStatus
      BY <1>2, <1>3 DEF HistoryAction, DocStatus
    <2> QED
      BY <1>3, <2>1, <2>2, <2>3, RewriteKeepsTypes
  <1>8. HasTurn(p)'
    <2>1. \A j \in FlowRows(line) \ {p} :
            \/ line[j].stepOrder < line[p].stepOrder /\ st'[j] \in Passed
            \/ line[j].stepOrder > line[p].stepOrder /\ st'[j] \in Resumable
      <3> SUFFICES ASSUME NEW j \in FlowRows(line) \ {p}
                   PROVE  \/ line[j].stepOrder < line[p].stepOrder /\ st'[j] \in Passed
                          \/ line[j].stepOrder > line[p].stepOrder /\ st'[j] \in Resumable
        OBVIOUS
      <3>1. /\ j \in DOMAIN line /\ line[j].stepOrder \in Nat /\ line[p].stepOrder \in Nat
            /\ line[i].stepOrder \in Nat
        BY <1>1 DEF FlowRows
      <3>2. CASE j = i
        BY <1>4, <1>6, <3>1, <3>2 DEF Resumable
      <3>3. CASE j # i /\ line[j].stepOrder > line[i].stepOrder
        BY <1>2, <1>4, <1>6, <3>1, <3>3 DEF HasTurn
      <3>4. CASE j # i /\ line[j].stepOrder < line[i].stepOrder
        <4>1. j \in PreviousRows(line, st, i) /\ st[j] \in Passed
          BY <1>2, <3>1, <3>4 DEF HasTurn, PreviousRows
        <4>2. line[j].stepOrder # line[p].stepOrder
          BY <1>4 DEF IInv, DistinctFlowOrders
        <4> QED
          BY <1>4, <1>6, <3>1, <3>4, <4>1, <4>2
      <3> QED
        BY <1>2, <3>1, <3>2, <3>3, <3>4 DEF HasTurn
    <2> QED
      BY <1>3, <1>4, <1>6, <2>1 DEF HasTurn, FlowRows
  <1>9. ReceiversFollowDocument' /\ CcRowsOnlyViewed'
    BY <1>1, <1>2, <1>3, <1>4, <1>6, RoleGroups
    DEF IInv, ReceiversFollowDocument, CcRowsOnlyViewed, FlowRows
  <1>10. ProxyAttribution'
    <2>1. proxyId[i] = NoOne
      BY <1>2 DEF IInv, ProxyAttribution, HasTurn
    <2> QED
      BY <1>1, <1>3, <1>5, <1>6, <2>1 DEF IInv, ProxyAttribution
  <1> QED
    BY <1>2, <1>3, <1>4, <1>7, <1>8, <1>9, <1>10
    DEF IInv, DraftIsUntouched, OneTurn, ApprovedMeansComplete, NumberedOnce, FlowRows

LEMMA CancelKeepsIInv ==
    ASSUME IInv, NEW i \in DOMAIN line, NEW e \in Employees, cancelApproval(i, e)
    PROVE  IInv'
  <1>1. /\ DOMAIN st = DOMAIN line /\ DOMAIN proxyId = DOMAIN line /\ 0 \notin DOMAIN line
        /\ \A j \in DOMAIN line : line[j].role \in StepRole /\ line[j].stepOrder \in Nat /\ st[j] \in StepStatus
    BY RowFacts DEF IInv
  <1>2. /\ status = "PENDING" /\ st[i] \in Passed
        /\ \A j \in LaterFlowRows(line, i) : st[j] \in {"WAITING", "PENDING"}
    BY DEF cancelApproval, CancelGuard
  <1>3. i \in FlowRows(line)
    BY <1>1, <1>2, RoleGroups DEF IInv, ReceiversFollowDocument, CcRowsOnlyViewed, FlowRows, Passed
  <1>4. PICK p \in FlowRows(line) : HasTurn(p)
    BY <1>2 DEF IInv, OneTurn
  <1>5. p # i /\ line[i].stepOrder < line[p].stepOrder /\ p \in DOMAIN line
    BY <1>2, <1>3, <1>4 DEF HasTurn, Passed, Resumable, FlowRows
  <1>6. PICK cur \in {0} \cup DOMAIN line : IsCurrentPendingNext(i, cur) /\ CancelTx(i, cur)
    BY DEF cancelApproval
  <1>7. cur = p
    <2> DEFINE open == {j \in LaterFlowRows(line, i) : st[j] = "PENDING"}
    <2>1. open = {p}
      BY <1>4, <1>5 DEF LaterFlowRows, HasTurn, Passed, Resumable
    <2>2. open # {}
      BY <2>1
    <2>3. Lowest(line, open, cur)
      BY <1>6, <2>2 DEF IsCurrentPendingNext
    <2> QED
      BY <2>1, <2>3 DEF Lowest
  <1>8. /\ UNCHANGED <<status, line, docNumber, proxies>>
        /\ history' = history \cup {"CANCEL_APPROVAL"}
        /\ proxyId' = [proxyId EXCEPT ![i] = NoOne]
        /\ st' = [[st EXCEPT ![i] = "PENDING"] EXCEPT ![p] = "WAITING"]
    <2>1. cur # 0
      BY <1>1, <1>5, <1>7
    <2> QED
      BY <1>6, <1>7, <2>1 DEF cancelApproval, CancelTx
  <1>9. \A j \in DOMAIN line :
          st'[j] = IF j = p THEN "WAITING" ELSE IF j = i THEN "PENDING" ELSE st[j]
    BY <1>1, <1>5, <1>8
  <1>10. TypeOK' /\ DistinctFlowOrders(line)'
    <2>1. DOMAIN st' = DOMAIN st /\ st' = [j \in DOMAIN st |-> st'[j]]
      BY <1>8
    <2>2. \A j \in DOMAIN st : st'[j] \in StepStatus
      BY <1>1, <1>9 DEF StepStatus
    <2>3. "CANCEL_APPROVAL" \in HistoryAction /\ status' \in DocStatus
      BY <1>2, <1>8 DEF HistoryAction, DocStatus
    <2> QED
      BY <1>8, <2>1, <2>2, <2>3, RewriteKeepsTypes
  <1>11. HasTurn(i)'
    <2>1. \A j \in FlowRows(line) \ {i} :
            \/ line[j].stepOrder < line[i].stepOrder /\ st'[j] \in Passed
            \/ line[j].stepOrder > line[i].stepOrder /\ st'[j] \in Resumable
      <3> SUFFICES ASSUME NEW j \in FlowRows(line) \ {i}
                   PROVE  \/ line[j].stepOrder < line[i].stepOrder /\ st'[j] \in Passed
                          \/ line[j].stepOrder > line[i].stepOrder /\ st'[j] \in Resumable
        OBVIOUS
      <3>1. /\ j \in DOMAIN line /\ line[j].stepOrder \in Nat /\ line[p].stepOrder \in Nat
            /\ line[i].stepOrder \in Nat /\ line[j].stepOrder # line[i].stepOrder
        BY <1>1, <1>3, <1>5 DEF FlowRows, IInv, DistinctFlowOrders
      <3>2. CASE j = p
        BY <1>5, <1>9, <3>1, <3>2 DEF Resumable
      <3>3. CASE j # p /\ line[j].stepOrder < line[i].stepOrder
        BY <1>4, <1>5, <1>9, <3>1, <3>3 DEF HasTurn
      <3>4. CASE j # p /\ line[j].stepOrder > line[i].stepOrder
        <4>1. st[j] \notin Passed
          BY <1>2, <3>4 DEF LaterFlowRows, Passed
        <4> QED
          BY <1>4, <1>9, <3>1, <3>4, <4>1 DEF HasTurn
      <3> QED
        BY <3>1, <3>2, <3>3, <3>4
    <2> QED
      BY <1>3, <1>5, <1>8, <1>9, <2>1 DEF HasTurn, FlowRows
  <1>12. ReceiversFollowDocument' /\ CcRowsOnlyViewed'
    BY <1>1, <1>3, <1>4, <1>8, <1>9, RoleGroups
    DEF IInv, ReceiversFollowDocument, CcRowsOnlyViewed, FlowRows
  <1>13. ProxyAttribution'
    <2>1. proxyId[p] = NoOne
      BY <1>4, <1>5 DEF IInv, ProxyAttribution, HasTurn
    <2> QED
      BY <1>1, <1>5, <1>8, <1>9, <2>1 DEF IInv, ProxyAttribution
  <1> QED
    BY <1>2, <1>3, <1>8, <1>10, <1>11, <1>12, <1>13
    DEF IInv, DraftIsUntouched, OneTurn, ApprovedMeansComplete, NumberedOnce, FlowRows

\* view, receive and bounce: a row outside the flow gets a final mark.
LEMMA MarkKeepsIInv ==
    ASSUME IInv, NEW i \in DOMAIN line, NEW x \in Employees \cup {NoOne}, NEW to, NEW a \in HistoryAction,
           MarkTx(i, x, to, a), UNCHANGED proxies, status \notin {"NONE", "DRAFT"},
           \/ line[i].role \in CC_ROLES /\ to = "VIEWED"
           \/ line[i].role \in RECEIVER_ROLES /\ status = "APPROVED" /\ to \in {"RECEIVED", "BOUNCED"}
    PROVE  IInv'
  <1>1. /\ DOMAIN st = DOMAIN line /\ DOMAIN proxyId = DOMAIN line
        /\ \A j \in DOMAIN line : line[j].role \in StepRole /\ st[j] \in StepStatus
    BY RowFacts DEF IInv
  <1>2. /\ UNCHANGED <<status, line, docNumber, proxies>> /\ history' = history \cup {a}
        /\ st' = [st EXCEPT ![i] = to] /\ proxyId' = [proxyId EXCEPT ![i] = x]
    BY DEF MarkTx
  <1>3. \A j \in DOMAIN line : st'[j] = IF j = i THEN to ELSE st[j]
    BY <1>1, <1>2
  <1>4. i \notin FlowRows(line)
    BY RoleGroups DEF FlowRows
  <1>5. status \in DocStatus \cup {"NONE", "DELETED"}
    BY DEF IInv, TypeOK
  <1>6. TypeOK' /\ DistinctFlowOrders(line)'
    <2>1. DOMAIN st' = DOMAIN st /\ st' = [j \in DOMAIN st |-> st'[j]]
      BY <1>2
    <2>2. \A j \in DOMAIN st : st'[j] \in StepStatus
      BY <1>1, <1>3 DEF StepStatus
    <2> QED
      BY <1>2, <1>5, <2>1, <2>2, RewriteKeepsTypes
  <1>7. OneTurn' /\ ApprovedMeansComplete'
    BY <1>2, <1>3, <1>4 DEF IInv, OneTurn, HasTurn, ApprovedMeansComplete, FlowRows
  <1>8. DraftIsUntouched'
    BY <1>2 DEF DraftIsUntouched
  <1>9. CcRowsOnlyViewed'
    BY <1>2, <1>3, RoleGroups DEF IInv, CcRowsOnlyViewed
  <1>10. ReceiversFollowDocument'
    BY <1>2, <1>3, RoleGroups DEF IInv, ReceiversFollowDocument
  <1>11. ProxyAttribution'
    BY <1>1, <1>2, <1>3 DEF IInv, ProxyAttribution
  <1> QED
    BY <1>2, <1>6, <1>7, <1>8, <1>9, <1>10, <1>11 DEF IInv, NumberedOnce

-----------------------------------------------------------------------------
(* The invariant holds in every reachable state.                           *)

LEMMA InitIInv == Init => IInv
  BY EmptySeq
  DEF Init, IInv, TypeOK, DistinctFlowOrders, FlowRows, DraftIsUntouched, CcRowsOnlyViewed,
      OneTurn, ApprovedMeansComplete, ReceiversFollowDocument, ProxyAttribution, NumberedOnce

LEMMA StepNextKeepsIInv ==
    ASSUME IInv, NEW i \in DOMAIN line, NEW e \in Employees, StepNext(i, e)
    PROVE  IInv'
  <1>1. CASE approveFlowStep(i, e)
    BY <1>1, ApproveKeepsIInv
  <1>2. CASE reject(i, e)
    BY <1>2, RejectKeepsIInv
  <1>3. CASE preApprove(i, e)
    BY <1>3, PreApproveKeepsIInv
  <1>4. CASE \E p \in DOMAIN line : returnToPrevious(i, e, p)
    BY <1>4, ReturnKeepsIInv
  <1>5. CASE cancelApproval(i, e)
    BY <1>5, CancelKeepsIInv
  <1>6. CASE view(i, e)
    BY <1>6, MarkKeepsIInv, ProxyOfType DEF view, Actionable, HistoryAction, IInv, DraftIsUntouched
  <1>7. CASE receive(i, e)
    BY <1>7, MarkKeepsIInv, ProxyOfType DEF receive, Actionable, HistoryAction
  <1>8. CASE bounce(i, e)
    BY <1>8, MarkKeepsIInv, ProxyOfType DEF bounce, Actionable, HistoryAction, RECEIVER_ROLES
  <1> QED
    BY <1>1, <1>2, <1>3, <1>4, <1>5, <1>6, <1>7, <1>8 DEF StepNext

LEMMA NextKeepsIInv == IInv /\ [Next]_vars => IInv'
  <1> SUFFICES ASSUME IInv, [Next]_vars
               PROVE  IInv'
    OBVIOUS
  <1>1. CASE DraftNext
    <2>1. CASE \E l \in Lines \cup {<<>>} : Create(l) \/ Update(l)
      BY <2>1, CreateKeepsIInv, UpdateKeepsIInv
    <2>2. CASE \E l \in SubmitLines : Submit(l)
      BY <2>2, SubmitKeepsIInv
    <2>3. CASE Remove
      BY <2>3, DeleteKeepsIInv DEF Remove
    <2>4. CASE Recall
      BY <2>4, RecallKeepsIInv
    <2> QED
      BY <1>1, <2>1, <2>2, <2>3, <2>4 DEF DraftNext
  <1>2. CASE \E e \in Employees : ForceDelete(e) \/ BulkForceDelete(e) \/ AddOpinion(e)
    BY <1>2, DeleteKeepsIInv, AddOpinionKeepsIInv DEF ForceDelete, BulkForceDelete
  <1>3. CASE \E e \in Employees, fresh \in CcInputs : AddCcSteps(e, fresh)
    BY <1>3, AddCcStepsKeepsIInv
  <1>4. CASE \E i \in DOMAIN line, e \in Employees : StepNext(i, e)
    BY <1>4, StepNextKeepsIInv
  <1>5. CASE ChangeProxies
    BY <1>5, SameRowsKeepIInv DEF ChangeProxies, IInv, TypeOK
  <1>6. CASE UNCHANGED vars
    BY <1>6, SameRowsKeepIInv DEF vars, IInv, TypeOK
  <1> QED
    BY <1>1, <1>2, <1>3, <1>4, <1>5, <1>6 DEF Next

\* The inductive invariant, for all constants that satisfy the assumptions.
THEOREM Invariance == Spec => []IInv
  BY InitIInv, NextKeepsIInv, PTL DEF Spec

\* Types: the columns of the document and its rows always hold legal values.
THEOREM TypeCorrectness == Spec => []TypeOK
  <1>1. IInv => TypeOK
    BY DEF IInv
  <1> QED
    BY <1>1, Invariance, PTL

\* A pending document always has exactly one step whose turn it is, with all
\* earlier flow steps approved and all later ones still to come, whatever the
\* approvers, proxies and the drafter do with the handlers.
THEOREM TurnCorrectness == Spec => []OneTurn
  <1>1. IInv => OneTurn
    BY DEF IInv
  <1> QED
    BY <1>1, Invariance, PTL

\* No document is approved past a flow step that did not approve.
THEOREM ApprovalCorrectness == Spec => []ApprovedMeansComplete
  <1>1. IInv => ApprovedMeansComplete
    BY DEF IInv
  <1> QED
    BY <1>1, Invariance, PTL

\* Receivers become active with the final approval and only then.
THEOREM ReceiverCorrectness == Spec => []ReceiversFollowDocument
  <1>1. IInv => ReceiversFollowDocument
    BY DEF IInv
  <1> QED
    BY <1>1, Invariance, PTL

\* A proxy is named on a row exactly as long as what the proxy did stands.
THEOREM ProxyCorrectness == Spec => []ProxyAttribution
  <1>1. IInv => ProxyAttribution
    BY DEF IInv
  <1> QED
    BY <1>1, Invariance, PTL

\* The handlers that still act on a finished document (delete, opinion, cc, view,
\* receive, bounce) leave its status and its flow steps as they were decided.
LEMMA FinalStep ==
    ASSUME IInv, [Next]_vars, status \in {"APPROVED", "REJECTED", "RECALLED"}
    PROVE  status' = "DELETED" \/ DecisionKept
  <1>1. \A i \in FlowRows(line) : i \in DOMAIN line /\ line[i].role \notin RECEIVER_ROLES \cup CC_ROLES
    BY RoleGroups DEF FlowRows
  <1>2. DOMAIN st = DOMAIN line /\ DOMAIN line = 1 .. Len(line) /\ Len(line) \in Nat
    BY RowFacts DEF IInv
  <1>3. CASE DraftNext
    BY <1>3 DEF DraftNext, Create, Update, UpdateGuard, Submit, SubmitGuard, EDITABLE_STATUSES,
                Remove, Recall, RecallGuard
  <1>4. CASE \E e \in Employees : ForceDelete(e) \/ BulkForceDelete(e) \/ AddOpinion(e)
    BY <1>4 DEF ForceDelete, BulkForceDelete, DeleteTx, AddOpinion, DecisionKept
  <1>5. CASE \E e \in Employees, fresh \in CcInputs : AddCcSteps(e, fresh)
    <2>1. PICK fresh \in CcInputs, m \in {0} \cup {line[i].stepOrder : i \in DOMAIN line} :
                AddCcTx(fresh, m)
      BY <1>5 DEF AddCcSteps
    <2>2. Len(fresh) \in Nat
      BY ConstantTypes
    <2>3. \A i \in DOMAIN line : st'[i] = st[i]
      BY <1>2, <2>1, <2>2 DEF AddCcTx
    <2> QED
      BY <1>1, <2>1, <2>3 DEF AddCcTx, DecisionKept
  <1>6. CASE \E i \in DOMAIN line, e \in Employees : StepNext(i, e)
    <2>1. PICK i \in DOMAIN line, e \in Employees : StepNext(i, e)
      BY <1>6
    <2>2. CASE \/ approveFlowStep(i, e) \/ reject(i, e) \/ preApprove(i, e) \/ cancelApproval(i, e)
               \/ \E p \in DOMAIN line : returnToPrevious(i, e, p)
      BY <2>2 DEF approveFlowStep, reject, preApprove, cancelApproval, returnToPrevious,
                  ApproveGuard, PreApproveGuard, CancelGuard, ReturnGuard
    <2>3. CASE view(i, e) \/ receive(i, e) \/ bounce(i, e)
      <3>1. /\ line[i].role \in RECEIVER_ROLES \cup CC_ROLES
            /\ \E to : st' = [st EXCEPT ![i] = to]
            /\ status' = status
        BY <2>3 DEF view, receive, bounce, Actionable, MarkTx, RECEIVER_ROLES
      <3> QED
        BY <1>1, <3>1 DEF DecisionKept
    <2> QED
      BY <2>1, <2>2, <2>3 DEF StepNext
  <1>7. CASE ChangeProxies \/ UNCHANGED vars
    BY <1>7 DEF ChangeProxies, vars, DecisionKept
  <1> QED
    BY <1>3, <1>4, <1>5, <1>6, <1>7 DEF Next

\* A decision, once reached, is never revised.
THEOREM Finality == Spec => FinalIsFinal
  <1>1. IInv /\ [Next]_vars =>
          [(status \in {"APPROVED", "REJECTED", "RECALLED"}) => status' = "DELETED" \/ DecisionKept]_vars
    BY FinalStep
  <1> QED
    BY <1>1, Invariance, PTL DEF Spec, FinalIsFinal

-----------------------------------------------------------------------------
(* The handlers implement TurnPassing: what each does to the set of rows   *)
(* that have passed, whose number is the turn.                             *)

PassedRows == {i \in FlowRows(line) : st[i] \in Passed}

\* The steps of a line are finitely many, so turn and total are numbers.
LEMMA FlowRowsFinite ==
    ASSUME NEW l \in Seq(Step)
    PROVE  IsFiniteSet(FlowRows(l)) /\ Cardinality(FlowRows(l)) \in Nat
  <1>1. Len(l) \in Int /\ FlowRows(l) \subseteq 1 .. Len(l)
    BY DEF FlowRows
  <1>2. IsFiniteSet(1 .. Len(l))
    BY <1>1, FS_Interval
  <1> QED
    BY <1>1, <1>2, FS_Subset, FS_CardinalityType

LEMMA RowCounts ==
    ASSUME IInv
    PROVE  /\ IsFiniteSet(FlowRows(line)) /\ Cardinality(FlowRows(line)) \in Nat
           /\ IsFiniteSet(PassedRows) /\ Cardinality(PassedRows) \in Nat
           /\ turnBar = Cardinality(PassedRows)
  <1>1. IsFiniteSet(FlowRows(line)) /\ Cardinality(FlowRows(line)) \in Nat
    BY FlowRowsFinite DEF IInv, TypeOK
  <1>2. IsFiniteSet(PassedRows)
    BY <1>1, FS_Subset DEF PassedRows
  <1> QED
    BY <1>1, <1>2, FS_CardinalityType DEF turnBar, PassedRows

\* A step that leaves phase, turn and total alone is a stutter of TurnPassing.
LEMMA StutterStep ==
    ASSUME phaseBar' = phaseBar, turnBar' = turnBar, totalBar' = totalBar
    PROVE  [TP!Next]_(TP!tvars)
  BY DEF TP!tvars

\* approveFlowStep adds the acting row to the rows that have passed, and the
\* document is approved exactly when no flow row is left.
LEMMA ApproveMovesTurn ==
    ASSUME IInv, NEW i \in DOMAIN line, NEW e \in Employees, approveFlowStep(i, e)
    PROVE  /\ status = "PENDING" /\ line' = line /\ i \in FlowRows(line) \ PassedRows
           /\ PassedRows' = PassedRows \cup {i}
           /\ NextRows(line, st, i) = FlowRows(line) \ (PassedRows \cup {i})
           /\ status' = IF NextRows(line, st, i) = {} THEN "APPROVED" ELSE "PENDING"
  <1> DEFINE x == ProxyOf(i, e)
             how == IF x = NoOne THEN "APPROVED" ELSE "PROXY_APPROVED"
             passed == [st EXCEPT ![i] = how]
  <1>1. DOMAIN st = DOMAIN line /\ 0 \notin DOMAIN line
    BY RowFacts DEF IInv
  <1>2. i \in FlowRows(line) /\ HasTurn(i) /\ status = "PENDING" /\ i \in DOMAIN line
    BY GuardFindsTurn DEF approveFlowStep, ApproveGuard
  <1>3. PICK next \in {0} \cup DOMAIN line : IsNext(i, next) /\ ApproveTx(i, x, next)
    BY DEF approveFlowStep
  <1>4. line' = line
    BY <1>3 DEF ApproveTx
  <1>5. how \in Passed /\ DOMAIN passed = DOMAIN line /\ \A j \in DOMAIN line : passed[j] = IF j = i THEN how ELSE st[j]
    BY <1>1 DEF Passed
  <1>6. NextRows(line, st, i) = FlowRows(line) \ (PassedRows \cup {i})
    BY <1>2 DEF NextRows, PassedRows, HasTurn, Passed, Resumable
  <1>7. i \notin PassedRows
    BY <1>2 DEF HasTurn, PassedRows, Passed
  <1> HIDE DEF passed, how
  <1>8. CASE NextRows(line, st, i) = {}
    <2>1. status' = "APPROVED" /\ st' = ActivateReceivers(line, passed)
      BY <1>3, <1>8 DEF IsNext, ApproveTx, passed, how
    <2>2. \A j \in FlowRows(line) : st'[j] = passed[j]
      BY <1>5, <2>1, RoleGroups DEF ActivateReceivers, FlowRows
    <2>3. PassedRows' = PassedRows \cup {i}
      BY <1>2, <1>4, <1>5, <2>2 DEF PassedRows, FlowRows
    <2> QED
      BY <1>2, <1>4, <1>6, <1>7, <1>8, <2>1, <2>3
  <1>9. CASE NextRows(line, st, i) # {}
    <2>1. Lowest(line, NextRows(line, st, i), next)
      BY <1>3, <1>9 DEF IsNext
    <2>2. next \in FlowRows(line) \ {i} /\ st[next] \notin Passed /\ next \in DOMAIN line
      BY <2>1 DEF Lowest, NextRows, FlowRows, Passed, Resumable
    <2>3. next # 0
      BY <1>1, <2>2
    <2>4. st' = [passed EXCEPT ![next] = "PENDING"] /\ status' = "PENDING"
      BY <1>2, <1>3, <2>3 DEF ApproveTx, passed, how
    <2>5. \A j \in FlowRows(line) : st'[j] = IF j = next THEN "PENDING" ELSE passed[j]
      BY <1>5, <2>2, <2>4 DEF FlowRows
    <2>6. PassedRows' = PassedRows \cup {i}
      BY <1>2, <1>4, <1>5, <2>2, <2>5 DEF PassedRows, FlowRows, Passed
    <2> QED
      BY <1>2, <1>4, <1>6, <1>7, <1>9, <2>4, <2>6
  <1> QED
    BY <1>8, <1>9

\* An approval is an Advance of the turn, or the Finish of the document.
LEMMA ApproveImplements ==
    ASSUME IInv, NEW i \in DOMAIN line, NEW e \in Employees, approveFlowStep(i, e)
    PROVE  TP!Next
  <1> DEFINE F == FlowRows(line)
             P == PassedRows
  <1>1. /\ status = "PENDING" /\ line' = line /\ i \in F \ P /\ PassedRows' = P \cup {i}
        /\ NextRows(line, st, i) = F \ (P \cup {i})
        /\ status' = IF NextRows(line, st, i) = {} THEN "APPROVED" ELSE "PENDING"
    BY ApproveMovesTurn
  <1>2. IsFiniteSet(F) /\ IsFiniteSet(P) /\ Cardinality(F) \in Nat /\ Cardinality(P) \in Nat
    BY RowCounts
  <1>3. /\ turnBar = Cardinality(P) /\ turnBar' = Cardinality(P \cup {i})
        /\ phaseBar = "pending" /\ totalBar = Cardinality(F) /\ totalBar' = Cardinality(F)
    <2>1. turnBar' = Cardinality(PassedRows')
      BY DEF turnBar, PassedRows
    <2>2. status' \notin {"NONE", "DRAFT"}
      BY <1>1
    <2> QED
      BY <1>1, <2>1, <2>2, RowCounts DEF phaseBar, totalBar
  <1>4. Cardinality(P \cup {i}) = Cardinality(P) + 1
    BY <1>1, <1>2, FS_AddElement
  <1>5. P \cup {i} \subseteq F
    BY <1>1 DEF PassedRows
  <1>6. Cardinality(P) + 1 <= Cardinality(F) /\ (Cardinality(F) = Cardinality(P) + 1 => F = P \cup {i})
    BY <1>2, <1>4, <1>5, FS_Subset
  <1>7. CASE F = P \cup {i}
    <2>1. phaseBar' = "approved"
      BY <1>1, <1>7 DEF phaseBar
    <2> QED
      BY <1>3, <1>4, <1>7, <2>1 DEF TP!Next, TP!Finish
  <1>8. CASE F # P \cup {i}
    <2>1. phaseBar' = "pending"
      BY <1>1, <1>5, <1>8 DEF phaseBar
    <2>2. Cardinality(P) + 1 < Cardinality(F)
      BY <1>2, <1>6, <1>8
    <2> QED
      BY <1>3, <1>4, <2>1, <2>2 DEF TP!Next, TP!Advance
  <1> QED
    BY <1>7, <1>8

\* Returns and cancelled approvals take one row from the rows that have passed.
LEMMA BackwardStep ==
    ASSUME IInv, status = "PENDING", status' = "PENDING", line' = line,
           NEW p \in PassedRows, PassedRows' = PassedRows \ {p}
    PROVE  TP!Next
  <1>1. IsFiniteSet(PassedRows) /\ Cardinality(PassedRows) \in Nat /\ turnBar = Cardinality(PassedRows)
    BY RowCounts
  <1>2. Cardinality(PassedRows \ {p}) = Cardinality(PassedRows) - 1
    BY <1>1, FS_RemoveElement
  <1>3. Cardinality(PassedRows) # 0
    BY <1>1, FS_EmptySet
  <1>4. turnBar' = Cardinality(PassedRows')
    BY DEF turnBar, PassedRows
  <1>5. phaseBar = "pending" /\ phaseBar' = "pending" /\ totalBar' = totalBar
    BY DEF phaseBar, totalBar
  <1> QED
    BY <1>1, <1>2, <1>3, <1>4, <1>5 DEF TP!Next, TP!StepBack

LEMMA ReturnImplements ==
    ASSUME IInv, NEW i \in DOMAIN line, NEW e \in Employees, NEW p \in DOMAIN line,
           returnToPrevious(i, e, p)
    PROVE  TP!Next
  <1>1. DOMAIN st = DOMAIN line /\ i \in FlowRows(line) /\ HasTurn(i) /\ status = "PENDING"
    BY GuardFindsTurn, RowFacts DEF returnToPrevious, ReturnGuard, ApproveGuard, IInv
  <1>2. status' = status /\ line' = line /\ st' = [st EXCEPT ![i] = "RETURNED", ![p] = "PENDING"]
    BY DEF returnToPrevious, ReturnTx
  <1>3. p \in PassedRows /\ i \notin PassedRows
    BY <1>1 DEF returnToPrevious, ReturnGuard, Highest, PreviousRows, PassedRows, HasTurn, Passed
  <1>4. \A j \in DOMAIN line :
          st'[j] = IF j = p THEN "PENDING" ELSE IF j = i THEN "RETURNED" ELSE st[j]
    BY <1>1, <1>2, <1>3
  <1>5. PassedRows' = PassedRows \ {p}
    <2>1. \A j \in FlowRows(line) : st'[j] \in Passed <=> st[j] \in Passed /\ j # p
      BY <1>1, <1>3, <1>4 DEF PassedRows, FlowRows, Passed
    <2> QED
      BY <1>2, <2>1 DEF PassedRows
  <1> QED
    BY <1>1, <1>2, <1>3, <1>5, BackwardStep

LEMMA CancelImplements ==
    ASSUME IInv, NEW i \in DOMAIN line, NEW e \in Employees, cancelApproval(i, e)
    PROVE  TP!Next
  <1>1. DOMAIN st = DOMAIN line /\ 0 \notin DOMAIN line /\ \A j \in DOMAIN line : line[j].role \in StepRole
    BY RowFacts DEF IInv
  <1>2. status = "PENDING" /\ st[i] \in Passed
    BY DEF cancelApproval, CancelGuard
  <1>3. i \in FlowRows(line)
    BY <1>1, <1>2, RoleGroups DEF IInv, ReceiversFollowDocument, CcRowsOnlyViewed, FlowRows, Passed
  <1>4. PICK cur \in {0} \cup DOMAIN line : IsCurrentPendingNext(i, cur) /\ CancelTx(i, cur)
    BY DEF cancelApproval
  <1>5. cur = 0 \/ (cur \in DOMAIN line /\ cur # 0 /\ st[cur] = "PENDING")
    BY <1>1, <1>4 DEF IsCurrentPendingNext, Lowest
  <1>6. status' = "PENDING" /\ line' = line
    BY <1>2, <1>4 DEF CancelTx
  <1>7. \A j \in DOMAIN line :
          st'[j] = IF j = cur THEN "WAITING" ELSE IF j = i THEN "PENDING" ELSE st[j]
    BY <1>1, <1>4, <1>5 DEF CancelTx
  <1>8. PassedRows' = PassedRows \ {i}
    BY <1>1, <1>2, <1>5, <1>6, <1>7 DEF PassedRows, FlowRows, Passed
  <1> QED
    BY <1>2, <1>3, <1>6, <1>8, BackwardStep DEF PassedRows

\* A rejection and a pre-approval end the document where it stands.
LEMMA RejectImplements ==
    ASSUME IInv, NEW i \in DOMAIN line, NEW e \in Employees, reject(i, e)
    PROVE  TP!Next
  <1>1. DOMAIN st = DOMAIN line /\ i \in FlowRows(line) /\ HasTurn(i) /\ status = "PENDING"
    BY GuardFindsTurn, RowFacts DEF reject, ApproveGuard, IInv
  <1>2. status' = "REJECTED" /\ line' = line /\ st' = CancelOpenRows(line, [st EXCEPT ![i] = "REJECTED"], i)
    BY DEF reject, RejectTx
  <1>3. \A j \in DOMAIN line : j # i => st'[j] = st[j] \/ (st[j] \notin Passed /\ st'[j] = "CANCELLED")
    BY <1>1, <1>2 DEF CancelOpenRows, Passed
  <1>4. st[i] \notin Passed /\ st'[i] = "REJECTED"
    BY <1>1, <1>2 DEF CancelOpenRows, HasTurn, Passed, FlowRows
  <1>5. PassedRows' = PassedRows
    BY <1>2, <1>3, <1>4 DEF PassedRows, FlowRows, Passed
  <1>6. turnBar' = turnBar /\ totalBar' = totalBar
    BY <1>1, <1>2, <1>5 DEF turnBar, PassedRows, totalBar
  <1>7. phaseBar = "pending" /\ phaseBar' = "rejected"
    BY <1>1, <1>2 DEF phaseBar
  <1> QED
    BY <1>6, <1>7 DEF TP!Next, TP!Reject

LEMMA PreApproveImplements ==
    ASSUME IInv, NEW i \in DOMAIN line, NEW e \in Employees, preApprove(i, e)
    PROVE  TP!Next
  <1>1. DOMAIN st = DOMAIN line /\ i \in FlowRows(line) /\ HasTurn(i) /\ status = "PENDING"
    <2>1. status = "PENDING" /\ Actionable(i, APPROVAL_FLOW_ROLES, e)
      BY DEF preApprove, PreApproveGuard, Actionable, APPROVAL_FLOW_ROLES
    <2> QED
      BY <2>1, GuardFindsTurn, RowFacts DEF IInv
  <1>2. /\ status' = "APPROVED" /\ line' = line
        /\ st' = ActivateReceivers(line, SkipRemainingRows(line, [st EXCEPT ![i] = "PRE_APPROVED"]))
    BY DEF preApprove, PreApproveTx
  <1>3. \A j \in FlowRows(line) :
          st'[j] = IF j = i THEN "PRE_APPROVED" ELSE IF st[j] \in Resumable THEN "SKIPPED" ELSE st[j]
    BY <1>1, <1>2, RoleGroups DEF ActivateReceivers, SkipRemainingRows, FlowRows, Resumable
  <1>4. PassedRows' = PassedRows
    BY <1>1, <1>2, <1>3 DEF PassedRows, FlowRows, HasTurn, Passed, Resumable
  <1>5. turnBar' = turnBar /\ totalBar' = totalBar
    BY <1>1, <1>2, <1>4 DEF turnBar, PassedRows, totalBar
  <1>6. phaseBar = "pending" /\ phaseBar' = "approved"
    BY <1>1, <1>2 DEF phaseBar
  <1> QED
    BY <1>5, <1>6 DEF TP!Next, TP!PreApprove

\* Recall finds that nobody has approved, so the turn is 0.
LEMMA RecallImplements ==
    ASSUME IInv, Recall
    PROVE  TP!Next
  <1>1. status = "PENDING" /\ status' = "RECALLED" /\ UNCHANGED <<line, st>>
    BY DEF Recall, RecallGuard, RecallTx
  <1>2. PassedRows = {}
    BY RowFacts DEF IInv, Recall, RecallGuard, PassedRows, FlowRows, Passed, ACTED_STEP_STATUSES
  <1>3. turnBar = 0
    BY <1>2, RowCounts, FS_EmptySet
  <1>4. turnBar' = turnBar /\ totalBar' = totalBar
    BY <1>1 DEF turnBar, totalBar, FlowRows
  <1>5. phaseBar = "pending" /\ phaseBar' = "recalled"
    BY <1>1 DEF phaseBar
  <1> QED
    BY <1>3, <1>4, <1>5 DEF TP!Next, TP!Recall

\* Before the submission no row has passed.
LEMMA DraftTurn ==
    ASSUME IInv, status \in {"NONE", "DRAFT"}
    PROVE  phaseBar = "draft" /\ turnBar = 0 /\ totalBar = 0
  <1>1. PassedRows = {}
    BY DEF IInv, DraftIsUntouched, PassedRows, FlowRows, Passed
  <1> QED
    BY <1>1, RowCounts, FS_EmptySet DEF phaseBar, totalBar

LEMMA SubmitImplements ==
    ASSUME IInv, IInv', NEW l \in SubmitLines, Submit(l)
    PROVE  TP!Next
  <1> DEFINE rows == resolveSteps(l)
  <1>1. PICK first \in FlowRows(rows) :
          /\ Lowest(rows, FlowRows(rows), first)
          /\ status' = "PENDING"
          /\ line' = rows
          /\ st' = [i \in DOMAIN rows |-> initialStepStatus(rows, i)]
    BY DEF Submit, SubmitTx
  <1>2. phaseBar = "draft"
    BY DraftTurn DEF Submit, SubmitGuard, EDITABLE_STATUSES
  <1>3. phaseBar' = "pending"
    BY <1>1 DEF phaseBar
  <1>4. FlowRows(line)' # {} /\ totalBar' = Cardinality(FlowRows(line)')
    BY <1>1 DEF totalBar
  <1>5. PassedRows' = {}
    <2>1. \A i \in FlowRows(rows) : st'[i] \in {"PENDING", "WAITING"}
      BY <1>1, RoleGroups DEF FlowRows, initialStepStatus
    <2> QED
      BY <1>1, <2>1 DEF PassedRows, FlowRows, Passed
  <1>6. /\ IsFiniteSet(FlowRows(line)') /\ Cardinality(FlowRows(line)') \in Nat
        /\ turnBar' = Cardinality(PassedRows')
    <2>1. line' \in Seq(Step)
      BY DEF IInv, TypeOK
    <2> QED
      BY <2>1, FlowRowsFinite DEF turnBar, PassedRows
  <1>7. Cardinality(FlowRows(line)') # 0
    BY <1>4, <1>6, FS_EmptySet
  <1>8. turnBar' = 0
    BY <1>5, <1>6, FS_EmptySet
  <1> QED
    BY <1>2, <1>3, <1>4, <1>6, <1>7, <1>8 DEF TP!Next, TP!Submit

\* DeleteTx takes the rows away, whatever the document had become.
LEMMA DeleteImplements ==
    ASSUME DeleteTx
    PROVE  TP!Next
  <1>1. status' = "DELETED" /\ FlowRows(line)' = {}
    BY DEF DeleteTx, FlowRows
  <1>2. phaseBar' = "gone"
    BY <1>1 DEF phaseBar
  <1>3. turnBar' = 0 /\ totalBar' = 0
    BY <1>1, FS_EmptySet DEF turnBar, totalBar
  <1> QED
    BY <1>2, <1>3 DEF TP!Next, TP!Delete

\* Before the submission drafts come and go without a turn.
LEMMA DraftImplements ==
    ASSUME IInv, IInv', status \in {"NONE", "DRAFT"}, status' = "DRAFT"
    PROVE  [TP!Next]_(TP!tvars)
  <1>1. phaseBar = "draft" /\ turnBar = 0 /\ totalBar = 0
    BY DraftTurn
  <1>2. phaseBar' = "draft" /\ totalBar' = 0
    BY DEF phaseBar, totalBar
  <1>3. {i \in FlowRows(line') : st'[i] \in Passed} = {}
    BY DEF IInv, DraftIsUntouched, FlowRows, Passed
  <1>4. turnBar' = 0
    BY <1>3, FS_EmptySet DEF turnBar
  <1> QED
    BY <1>1, <1>2, <1>4, StutterStep

\* Steps that keep the status, the flow rows and what they say are stutters:
\* opinions, cc rows, views, receipts, bounces, proxy settings.
LEMMA SameFlowImplements ==
    ASSUME status' = status, FlowRows(line)' = FlowRows(line),
           \A j \in FlowRows(line) : st'[j] = st[j]
    PROVE  [TP!Next]_(TP!tvars)
  <1>1. phaseBar' = phaseBar /\ totalBar' = totalBar
    BY DEF phaseBar, totalBar
  <1>2. turnBar' = turnBar
    <2>1. {i \in FlowRows(line)' : st'[i] \in Passed} = {i \in FlowRows(line) : st[i] \in Passed}
      OBVIOUS
    <2> QED
      BY <2>1 DEF turnBar
  <1> QED
    BY <1>1, <1>2, StutterStep

\* addCcSteps appends rows that are no flow steps.
LEMMA AddCcTxKeepsFlow ==
    ASSUME IInv, NEW fresh \in Seq(CcTarget), NEW m, AddCcTx(fresh, m)
    PROVE  /\ status' = status /\ FlowRows(line)' = FlowRows(line)
           /\ \A j \in FlowRows(line) : st'[j] = st[j]
           /\ \A j \in DOMAIN line : j \in DOMAIN line' /\ line'[j] = line[j]
  <1> DEFINE n == Len(line)
             ids == 1 .. (n + Len(fresh))
  <1>2. DOMAIN line = 1 .. n /\ n \in Nat /\ FlowRows(line) \subseteq 1 .. n
    BY RowFacts DEF IInv, FlowRows
  <1>3. Len(fresh) \in Nat /\ \A k \in 1 .. Len(fresh) : fresh[k].role \in CC_ROLES
    <2>1. Len(fresh) \in Nat /\ \A k \in 1 .. Len(fresh) : fresh[k] \in CcTarget
      OBVIOUS
    <2> QED
      BY <2>1 DEF CcTarget
  <1>4. status' = status /\ DOMAIN line' = ids
    BY DEF AddCcTx
  <1>5. \A i \in 1 .. n : line'[i] = line[i] /\ st'[i] = st[i]
    BY <1>2, <1>3 DEF AddCcTx
  <1>6. \A i \in ids \ (1 .. n) : line'[i].role \in CC_ROLES
    <2> SUFFICES ASSUME NEW i \in ids \ (1 .. n)
                 PROVE  line'[i].role \in CC_ROLES
      OBVIOUS
    <2>1. i - n \in 1 .. Len(fresh) /\ ~(i <= n)
      BY <1>2, <1>3
    <2>2. line'[i].role = fresh[i - n].role
      BY <2>1 DEF AddCcTx
    <2> QED
      BY <1>3, <2>1, <2>2
  <1>7. 1 .. n \subseteq ids
    BY <1>2, <1>3
  <1>8. FlowRows(line') = FlowRows(line)
    BY <1>2, <1>4, <1>5, <1>6, <1>7, RoleGroups DEF FlowRows
  <1> QED
    BY <1>2, <1>4, <1>5, <1>7, <1>8

LEMMA AddCcKeepsFlow ==
    ASSUME IInv, NEW e \in Employees, NEW fresh \in CcInputs, AddCcSteps(e, fresh)
    PROVE  /\ status' = status /\ FlowRows(line)' = FlowRows(line)
           /\ \A j \in FlowRows(line) : line'[j] = line[j] /\ st'[j] = st[j]
  <1>1. PICK m \in {0} \cup {line[i].stepOrder : i \in DOMAIN line} : AddCcTx(fresh, m)
    BY DEF AddCcSteps
  <1>2. fresh \in Seq(CcTarget)
    BY ConstantTypes
  <1> QED
    BY <1>1, <1>2, AddCcTxKeepsFlow DEF FlowRows

\* view, receive and bounce mark a row that is no flow step.
LEMMA MarkKeepsFlow ==
    ASSUME IInv, NEW i \in DOMAIN line, NEW e \in Employees, view(i, e) \/ receive(i, e) \/ bounce(i, e)
    PROVE  /\ status' = status /\ line' = line /\ i \notin FlowRows(line)
           /\ \A j \in FlowRows(line) : st'[j] = st[j]
  <1>1. line[i].role \in RECEIVER_ROLES \cup CC_ROLES
    BY DEF view, receive, bounce, Actionable, RECEIVER_ROLES
  <1>2. \E to : st' = [st EXCEPT ![i] = to] /\ status' = status /\ line' = line
    BY DEF view, receive, bounce, MarkTx
  <1> QED
    BY <1>1, <1>2, RoleGroups, RowFacts DEF IInv, FlowRows

LEMMA NextImplements ==
    ASSUME IInv, IInv', [Next]_vars
    PROVE  [TP!Next]_(TP!tvars)
  <1>1. CASE DraftNext
    <2>1. CASE \E l \in Lines \cup {<<>>} : Create(l) \/ Update(l)
      BY <2>1, DraftImplements DEF Create, Update, UpdateGuard, UpdateTx, EDITABLE_STATUSES
    <2>2. CASE \E l \in SubmitLines : Submit(l)
      BY <2>2, SubmitImplements
    <2>3. CASE Remove
      BY <2>3, DeleteImplements DEF Remove
    <2>4. CASE Recall
      BY <2>4, RecallImplements
    <2> QED
      BY <1>1, <2>1, <2>2, <2>3, <2>4 DEF DraftNext
  <1>2. CASE \E e \in Employees : ForceDelete(e) \/ BulkForceDelete(e) \/ AddOpinion(e)
    <2>1. PICK e \in Employees : ForceDelete(e) \/ BulkForceDelete(e) \/ AddOpinion(e)
      BY <1>2
    <2>2. CASE ForceDelete(e) \/ BulkForceDelete(e)
      BY <2>2, DeleteImplements DEF ForceDelete, BulkForceDelete
    <2>3. CASE AddOpinion(e)
      BY <2>3, SameFlowImplements DEF AddOpinion
    <2> QED
      BY <2>1, <2>2, <2>3
  <1>3. CASE \E e \in Employees, fresh \in CcInputs : AddCcSteps(e, fresh)
    BY <1>3, AddCcKeepsFlow, SameFlowImplements
  <1>4. CASE \E i \in DOMAIN line, e \in Employees : StepNext(i, e)
    <2>1. PICK i \in DOMAIN line, e \in Employees : StepNext(i, e)
      BY <1>4
    <2>2. CASE approveFlowStep(i, e)
      BY <2>2, ApproveImplements
    <2>3. CASE reject(i, e)
      BY <2>3, RejectImplements
    <2>4. CASE preApprove(i, e)
      BY <2>4, PreApproveImplements
    <2>5. CASE \E p \in DOMAIN line : returnToPrevious(i, e, p)
      BY <2>5, ReturnImplements
    <2>6. CASE cancelApproval(i, e)
      BY <2>6, CancelImplements
    <2>7. CASE view(i, e) \/ receive(i, e) \/ bounce(i, e)
      BY <2>7, MarkKeepsFlow, SameFlowImplements
    <2> QED
      BY <2>1, <2>2, <2>3, <2>4, <2>5, <2>6, <2>7 DEF StepNext
  <1>5. CASE ChangeProxies
    BY <1>5, SameFlowImplements DEF ChangeProxies
  <1>6. CASE UNCHANGED vars
    BY <1>6, SameFlowImplements DEF vars
  <1> QED
    BY <1>1, <1>2, <1>3, <1>4, <1>5, <1>6 DEF Next

LEMMA InitImplements == Init => TP!Init
  <1> SUFFICES ASSUME Init
               PROVE  TP!Init
    OBVIOUS
  <1>1. IInv
    BY InitIInv
  <1> QED
    BY <1>1, DraftTurn DEF Init, TP!Init

\* The handlers, for every line, every proxy setting and every order of calls,
\* implement the row-free specification: each moves the turn by one step, ends
\* the document, or leaves phase, turn and total alone.
THEOREM Refinement == Spec => ImplementsTurnPassing
  <1>1. IInv /\ IInv' /\ [Next]_vars => [TP!Next]_(TP!tvars)
    BY NextImplements
  <1> QED
    BY <1>1, InitImplements, Invariance, PTL DEF Spec, ImplementsTurnPassing, TP!Spec

-----------------------------------------------------------------------------
(* Who gets the turn is told.                                              *)

LEMMA TurnGivenAloudSame ==
    ASSUME FlowRows(line)' = FlowRows(line),
           \A j \in FlowRows(line) : j \in DOMAIN st /\ (st'[j] = "PENDING" => st[j] = "PENDING")
    PROVE  TurnGivenAloud
  BY DEF TurnGivenAloud

\* submit, approveFlowStep and returnToPrevious open one flow row each and
\* announce it; the other handlers open none, or give the turn to their caller.
LEMMA TurnStep ==
    ASSUME IInv, IInv', [Next]_vars
    PROVE  [TurnGivenAloud]_vars
  <1>0. /\ DOMAIN st = DOMAIN line /\ 0 \notin DOMAIN line
        /\ \A j \in FlowRows(line) : j \in DOMAIN line /\ line[j].role \notin RECEIVER_ROLES \cup CC_ROLES
    BY RowFacts, RoleGroups DEF IInv, FlowRows
  <1>1. CASE DraftNext
    <2>1. CASE \E l \in Lines \cup {<<>>} : Create(l) \/ Update(l)
      <3>1. status' = "DRAFT"
        BY <2>1 DEF Create, Update, UpdateGuard, UpdateTx, EDITABLE_STATUSES
      <3> QED
        BY <3>1 DEF TurnGivenAloud, IInv, DraftIsUntouched, FlowRows
    <2>2. CASE \E l \in SubmitLines : Submit(l)
      <3>1. PICK l \in SubmitLines : Submit(l)
        BY <2>2
      <3> DEFINE rows == resolveSteps(l)
      <3>2. PICK first \in FlowRows(rows) :
              /\ Lowest(rows, FlowRows(rows), first)
              /\ line' = rows
              /\ st' = [i \in DOMAIN rows |-> initialStepStatus(rows, i)]
              /\ emitted' = {<<"DOCUMENT_SUBMITTED", Drafter>>,
                             <<"DOCUMENT_STEP_PENDING", rows[first].assigneeId>>}
        BY <3>1 DEF Submit, SubmitTx
      <3>3. DistinctFlowOrders(rows) /\ rows \in Seq(Step)
        BY <3>2 DEF IInv, TypeOK
      <3>4. \A i \in FlowRows(rows) : st'[i] = "PENDING" => i = first
        <4> SUFFICES ASSUME NEW i \in FlowRows(rows), st'[i] = "PENDING"
                     PROVE  i = first
          OBVIOUS
        <4>1. Lowest(rows, FlowRows(rows), i)
          BY <3>2 DEF initialStepStatus, FlowRows
        <4>2. rows[i].stepOrder \in Nat /\ rows[first].stepOrder \in Nat
          BY <3>3 DEF FlowRows, Step
        <4> QED
          BY <3>2, <3>3, <4>1, <4>2 DEF Lowest, DistinctFlowOrders
      <3> QED
        BY <3>2, <3>4 DEF TurnGivenAloud
    <2>3. CASE Remove
      BY <2>3 DEF Remove, DeleteTx, TurnGivenAloud, FlowRows
    <2>4. CASE Recall
      BY <1>0, <2>4, TurnGivenAloudSame DEF Recall, RecallTx
    <2> QED
      BY <1>1, <2>1, <2>2, <2>3, <2>4 DEF DraftNext
  <1>2. CASE \E e \in Employees : ForceDelete(e) \/ BulkForceDelete(e) \/ AddOpinion(e)
    <2>1. PICK e \in Employees : ForceDelete(e) \/ BulkForceDelete(e) \/ AddOpinion(e)
      BY <1>2
    <2>2. CASE ForceDelete(e) \/ BulkForceDelete(e)
      BY <2>2 DEF ForceDelete, BulkForceDelete, DeleteTx, TurnGivenAloud, FlowRows
    <2>3. CASE AddOpinion(e)
      BY <1>0, <2>3, TurnGivenAloudSame DEF AddOpinion
    <2> QED
      BY <2>1, <2>2, <2>3
  <1>3. CASE \E e \in Employees, fresh \in CcInputs : AddCcSteps(e, fresh)
    BY <1>0, <1>3, AddCcKeepsFlow, TurnGivenAloudSame
  <1>4. CASE \E i \in DOMAIN line, e \in Employees : StepNext(i, e)
    <2>1. PICK i \in DOMAIN line, e \in Employees : StepNext(i, e)
      BY <1>4
    <2>2. CASE approveFlowStep(i, e)
      <3> DEFINE x == ProxyOf(i, e)
                 how == IF x = NoOne THEN "APPROVED" ELSE "PROXY_APPROVED"
                 passed == [st EXCEPT ![i] = how]
      <3>1. PICK next \in {0} \cup DOMAIN line : IsNext(i, next) /\ ApproveTx(i, x, next)
        BY <2>2 DEF approveFlowStep
      <3>2. line' = line /\ \A j \in DOMAIN line : passed[j] = "PENDING" => st[j] = "PENDING"
        BY <1>0, <3>1 DEF ApproveTx
      <3>3. CASE next = 0
        <4>1. st' = ActivateReceivers(line, passed) /\ DOMAIN passed = DOMAIN line
          BY <1>0, <3>1, <3>3 DEF ApproveTx
        <4> HIDE DEF passed
        <4>2. \A j \in FlowRows(line) : st'[j] = passed[j]
          BY <1>0, <4>1 DEF ActivateReceivers
        <4> QED
          BY <1>0, <3>2, <4>2, TurnGivenAloudSame
      <3>4. CASE next # 0
        <4>1. /\ st' = [passed EXCEPT ![next] = "PENDING"] /\ DOMAIN passed = DOMAIN line
              /\ <<"DOCUMENT_STEP_PENDING", line[next].assigneeId>> \in emitted'
          BY <1>0, <3>1, <3>4 DEF ApproveTx
        <4> HIDE DEF passed
        <4>2. \A j \in FlowRows(line) : j # next => st'[j] = passed[j]
          BY <1>0, <4>1
        <4> QED
          BY <1>0, <3>2, <4>1, <4>2 DEF TurnGivenAloud
      <3> QED
        BY <3>3, <3>4
    <2>3. CASE reject(i, e)
      <3>1. line' = line /\ st' = CancelOpenRows(line, [st EXCEPT ![i] = "REJECTED"], i)
        BY <2>3 DEF reject, RejectTx
      <3>2. \A j \in FlowRows(line) : st'[j] = "PENDING" => st[j] = "PENDING"
        BY <1>0, <3>1 DEF CancelOpenRows
      <3> QED
        BY <1>0, <3>1, <3>2, TurnGivenAloudSame
    <2>4. CASE preApprove(i, e)
      <3>1. /\ line' = line
            /\ st' = ActivateReceivers(line, SkipRemainingRows(line, [st EXCEPT ![i] = "PRE_APPROVED"]))
        BY <2>4 DEF preApprove, PreApproveTx
      <3>2. \A j \in FlowRows(line) : st'[j] = "PENDING" => st[j] = "PENDING"
        BY <1>0, <3>1 DEF ActivateReceivers, SkipRemainingRows
      <3> QED
        BY <1>0, <3>1, <3>2, TurnGivenAloudSame
    <2>5. CASE \E p \in DOMAIN line : returnToPrevious(i, e, p)
      <3>1. PICK p \in DOMAIN line : ReturnTx(i, p)
        BY <2>5 DEF returnToPrevious
      <3>2. \A j \in DOMAIN line : j # p => st'[j] = "RETURNED" \/ st'[j] = st[j]
        BY <1>0, <3>1 DEF ReturnTx
      <3> QED
        BY <1>0, <3>1, <3>2 DEF TurnGivenAloud, ReturnTx
    <2>6. CASE cancelApproval(i, e)
      <3>1. PICK cur \in {0} \cup DOMAIN line : CancelTx(i, cur)
        BY <2>6 DEF cancelApproval
      <3>2. line' = line /\ \A j \in DOMAIN line : j # i => st'[j] = "WAITING" \/ st'[j] = st[j]
        BY <1>0, <3>1 DEF CancelTx
      <3>3. \A j \in FlowRows(line') : st'[j] = "PENDING" /\ ~(j \in DOMAIN st /\ st[j] = "PENDING") => j = i
        BY <1>0, <3>2
      <3> QED
        BY <2>6, <3>3 DEF TurnGivenAloud
    <2>7. CASE view(i, e) \/ receive(i, e) \/ bounce(i, e)
      BY <1>0, <2>7, MarkKeepsFlow, TurnGivenAloudSame
    <2> QED
      BY <2>1, <2>2, <2>3, <2>4, <2>5, <2>6, <2>7 DEF StepNext
  <1>5. CASE ChangeProxies
    BY <1>0, <1>5, TurnGivenAloudSame DEF ChangeProxies
  <1>6. CASE UNCHANGED vars
    BY <1>6
  <1> QED
    BY <1>1, <1>2, <1>3, <1>4, <1>5, <1>6 DEF Next

\* Whoever gets the turn from somebody else is told of it, in the same handler.
THEOREM TurnAnnounced == Spec => TurnIsAnnounced
  <1>1. IInv /\ IInv' /\ [Next]_vars => [TurnGivenAloud]_vars
    BY TurnStep
  <1> QED
    BY <1>1, Invariance, PTL DEF Spec, TurnIsAnnounced
=============================================================================
