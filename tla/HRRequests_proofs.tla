------------------------- MODULE HRRequests_proofs -------------------------
(***************************************************************************)
(* Proofs, for every set of people, levels, rules and rule edits, that a   *)
(* request's approvals, decision, effect and document agree.               *)
(***************************************************************************)
EXTENDS HRRequests, SequenceTheorems, FiniteSetTheorems, TLAPS

-----------------------------------------------------------------------------
(* Largest numbers: getMaxRounds and roundRequiredCount take Math.max of   *)
(* the details of a rule, which exists because there are finitely many.    *)

\* A set of naturals has a least element.
LEMMA LeastNatural ==
    ASSUME NEW T, T \subseteq Nat, T # {}
    PROVE  \E x \in T : \A y \in T : x <= y
  <1>1. IsWellFoundedOn(OpToRel(<, Nat), Nat)
    BY NatLessThanWellFounded
  <1>2. \E x \in T : \A y \in T : <<y, x>> \notin OpToRel(<, Nat)
    BY <1>1, WFMin
  <1>3. \A x, y \in T : <<y, x>> \notin OpToRel(<, Nat) => x <= y
    BY DEF OpToRel
  <1> QED
    BY <1>2, <1>3

\* A function from 1 .. n to the naturals is bounded.
LEMMA Bounded ==
    ASSUME NEW n \in Nat, NEW f \in [1 .. n -> Nat]
    PROVE  \E m \in Nat : \A k \in 1 .. n : f[k] <= m
  <1> DEFINE bad == {j \in 0 .. n : \A m \in Nat : \E k \in 1 .. j : ~(f[k] <= m)}
  <1>1. CASE bad = {}
    <2>1. n \in 0 .. n
      OBVIOUS
    <2>2. n \notin bad
      BY <1>1
    <2>3. ~ \A m \in Nat : \E k \in 1 .. n : ~(f[k] <= m)
      BY <2>1, <2>2
    <2> QED
      BY <2>3
  <1>2. CASE bad # {}
    <2>1. bad \subseteq Nat
      OBVIOUS
    <2>2. PICK j \in bad : \A i \in bad : j <= i
      BY <1>2, <2>1, LeastNatural
    <2>3. j # 0
      <3>1. 1 .. 0 = {}
        OBVIOUS
      <3>2. 0 \in Nat /\ \A k \in 1 .. 0 : f[k] <= 0
        BY <3>1
      <3> QED
        BY <2>2, <3>2
    <2>4. j - 1 \in 0 .. n /\ j - 1 \notin bad
      <3>1. j \in 0 .. n
        OBVIOUS
      <3>2. j - 1 \in 0 .. n /\ ~(j <= j - 1)
        BY <2>3, <3>1
      <3> QED
        BY <2>2, <3>2
    <2>5. PICK m \in Nat : \A k \in 1 .. (j - 1) : f[k] <= m
      BY <2>4
    <2>6. j \in 1 .. n /\ f[j] \in Nat
      BY <2>3
    <2>7. PICK u \in Nat : m <= u /\ f[j] <= u
      <3>1. CASE m <= f[j]
        BY <2>6, <3>1
      <3>2. CASE f[j] <= m
        BY <2>6, <3>2
      <3> QED
        BY <2>6, <3>1, <3>2
    <2>8. \A k \in 1 .. j : f[k] <= u
      <3> TAKE k \in 1 .. j
      <3>1. CASE k = j
        BY <2>7, <3>1
      <3>2. CASE k # j
        <4>1. k \in 1 .. (j - 1) /\ f[k] \in Nat
          BY <2>6, <3>2
        <4> QED
          BY <2>5, <2>7, <4>1
      <3> QED
        BY <3>1, <3>2
    <2> QED
      BY <2>2, <2>7, <2>8
  <1> QED
    BY <1>1, <1>2

\* A bounded set of naturals has a largest element, which MaxOf chooses.
LEMMA MaxOfFacts ==
    ASSUME NEW S, S \subseteq Nat, S # {}, NEW m \in Nat, \A x \in S : x <= m
    PROVE  MaxOf(S) \in S /\ \A x \in S : x <= MaxOf(S)
  <1> DEFINE upper == {u \in Nat : \A x \in S : x <= u}
  <1>1. PICK u \in upper : \A v \in upper : u <= v
    BY LeastNatural
  <1>2. u \in Nat /\ \A x \in S : x <= u
    BY <1>1
  <1>3. u \in S
    <2> SUFFICES ASSUME u \notin S PROVE FALSE
      OBVIOUS
    <2>1. PICK x0 \in S : x0 \in Nat
      OBVIOUS
    <2>2. \A x \in S : x <= u - 1
      BY <1>2
    <2>3. u - 1 \in Nat
      BY <1>2, <2>1, <2>2
    <2>4. u - 1 \in upper
      BY <2>2, <2>3
    <2> QED
      BY <1>1, <1>2, <2>4
  <1> QED
    BY <1>2, <1>3 DEF MaxOf

\* A function on 1 .. n is a sequence.
LEMMA FunctionIsSeq ==
    ASSUME NEW S, NEW n \in Nat, NEW f \in [1 .. n -> S]
    PROVE  f \in Seq(S) /\ Len(f) = n
  OBVIOUS

\* The counts of a rule are positive numbers (getMaxRounds, roundRequiredCount).
LEMMA RoundNumbers ==
    ASSUME NEW rule \in Rule
    PROVE  /\ getMaxRounds(rule) \in Nat \ {0}
           /\ \A round : roundRequiredCount(rule, round) \in Nat \ {0}
  <1> DEFINE n == Len(rule.details)
  <1>1. rule.details \in Seq(Detail) /\ rule.maxApprovalRounds \in Nat \ {0}
    BY DEF Rule
  <1>2. n \in Nat /\ DOMAIN rule.details = 1 .. n /\ \A k \in 1 .. n : rule.details[k] \in Detail
    BY <1>1
  <1>3. \A k \in 1 .. n : rule.details[k].round \in Nat \ {0} /\ rule.details[k].requiredCount \in Nat \ {0}
    BY <1>2 DEF Detail
  <1>4. getMaxRounds(rule) \in Nat \ {0}
    <2> DEFINE S == {1, rule.maxApprovalRounds} \cup {rule.details[k].round : k \in DOMAIN rule.details}
               f == [k \in 1 .. n |-> rule.details[k].round]
    <2>1. f \in [1 .. n -> Nat]
      BY <1>3
    <2>2. PICK b \in Nat : \A k \in 1 .. n : f[k] <= b
      BY <1>2, <2>1, Bounded
    <2>3. \A k \in 1 .. n : rule.details[k].round <= b
      BY <2>2
    <2>4. S \subseteq Nat /\ S # {} /\ 0 \notin S
      BY <1>1, <1>2, <1>3
    <2>5. 1 + rule.maxApprovalRounds + b \in Nat /\ \A x \in S : x <= 1 + rule.maxApprovalRounds + b
      BY <1>1, <1>2, <1>3, <2>2, <2>3
    <2>6. MaxOf(S) \in S
      BY <2>4, <2>5, MaxOfFacts
    <2> QED
      BY <2>4, <2>6 DEF getMaxRounds
  <1>5. ASSUME NEW round PROVE roundRequiredCount(rule, round) \in Nat \ {0}
    <2> DEFINE K == {k \in DOMAIN rule.details : rule.details[k].round = round}
               S == {1} \cup {rule.details[k].requiredCount : k \in K}
               f == [k \in 1 .. n |-> rule.details[k].requiredCount]
    <2>1. f \in [1 .. n -> Nat]
      BY <1>3
    <2>2. PICK b \in Nat : \A k \in 1 .. n : f[k] <= b
      BY <1>2, <2>1, Bounded
    <2>3. \A k \in 1 .. n : rule.details[k].requiredCount <= b
      BY <2>2
    <2>4. S \subseteq Nat /\ S # {} /\ 0 \notin S
      BY <1>2, <1>3
    <2>5. 1 + b \in Nat /\ \A x \in S : x <= 1 + b
      BY <1>2, <1>3, <2>2, <2>3
    <2>6. MaxOf(S) \in S
      BY <2>4, <2>5, MaxOfFacts
    <2> QED
      BY <2>4, <2>6 DEF roundRequiredCount
  <1> QED
    BY <1>4, <1>5

\* The rule that a request is judged by, or the default without one, is a rule.
LEMMA RuleOfType ==
    ASSUME RequestTypeOK, NEW r \in RuleIds \cup {NoRuleId}
    PROVE  RuleOf(r) \in Rule
  <1>1. NoRule \in Rule
    BY DEF NoRule, Rule
  <1>2. CASE r = NoRuleId
    BY <1>1, <1>2 DEF RuleOf
  <1>3. CASE r # NoRuleId
    BY <1>3 DEF RuleOf, RequestTypeOK
  <1> QED
    BY <1>2, <1>3

\* createRequest makes a step for every detail; with REQUEST_NO_APPROVER checked,
\* every step has an assignee.
LEMMA FirstStepsType ==
    ASSUME NEW rule \in Rule,
           \A k \in DOMAIN FirstSteps(rule) : FirstSteps(rule)[k].assigneeId # NoOne
    PROVE  FirstSteps(rule) \in Seq([round : Nat, assigneeId : People,
                                     status : {"WAITING", "PENDING", "VIEWED"}])
  <1> DEFINE d == LineDetails(rule)
             n == Len(d)
             RowType == [round : Nat, assigneeId : People, status : {"WAITING", "PENDING", "VIEWED"}]
  <1>1. d \in Seq(Detail)
    <2>1. rule.details \in Seq(Detail)
      BY DEF Rule
    <2>2. [round |-> 1, requiredCount |-> 1, approver |-> NoOne] \in Detail
      BY DEF Detail
    <2> QED
      BY <2>1, <2>2 DEF LineDetails
  <1>2. n \in Nat /\ DOMAIN d = 1 .. n
    BY <1>1
  <1>3. \A k \in 1 .. n : d[k].round \in Nat /\ d[k].approver \in People \cup {NoOne}
    <2> HIDE DEF d
    <2>1. \A k \in 1 .. n : d[k] \in Detail
      BY <1>1, <1>2
    <2> QED
      BY <2>1 DEF Detail
  <1>4. \A k \in 1 .. n : FirstSteps(rule)[k] \in RowType
    <2> SUFFICES ASSUME NEW k \in 1 .. n PROVE FirstSteps(rule)[k] \in RowType
      OBVIOUS
    <2>1. FirstSteps(rule)[k] = [round |-> d[k].round, assigneeId |-> StepAssignee(d[k].approver),
                                 status |-> IF d[k].round = 1 THEN "PENDING" ELSE "WAITING"]
      BY <1>2 DEF FirstSteps
    <2>2. StepAssignee(d[k].approver) \in People \cup {NoOne}
      BY <1>3, RequestConstants DEF StepAssignee
    <2>3. k \in DOMAIN FirstSteps(rule)
      BY <1>2 DEF FirstSteps
    <2>4. FirstSteps(rule)[k].assigneeId # NoOne
      BY <2>3
    <2> QED
      BY <1>3, <2>1, <2>2, <2>4
  <1>5. FirstSteps(rule) \in [1 .. n -> RowType]
    <2>1. DOMAIN FirstSteps(rule) = 1 .. n
          /\ FirstSteps(rule) = [k \in DOMAIN FirstSteps(rule) |-> FirstSteps(rule)[k]]
      BY <1>2 DEF FirstSteps
    <2> QED
      BY <1>4, <2>1
  <1> HIDE DEF d
  <1> QED
    BY <1>2, <1>5, FunctionIsSeq

-----------------------------------------------------------------------------
(* Type correctness.                                                       *)

ApprovalRow == [round : Nat, approverId : People,
                status : {"APPROVED", "REJECTED", "FORCE_APPROVED", "FORCE_REJECTED"}]
StepRow == [round : Nat, assigneeId : People, status : {"WAITING", "PENDING", "VIEWED"}]

\* requestApproval.create adds one typed row.
LEMMA RecordType ==
    ASSUME RequestTypeOK, NEW round \in Nat, NEW e \in People,
           NEW s \in {"APPROVED", "REJECTED", "FORCE_APPROVED", "FORCE_REJECTED"},
           Record(round, e, s)
    PROVE  approvals' \in Seq(ApprovalRow)
  <1>1. approvals \in Seq(ApprovalRow)
    BY DEF RequestTypeOK, ApprovalRow
  <1>2. [round |-> round, approverId |-> e, status |-> s] \in ApprovalRow
    BY DEF ApprovalRow
  <1> QED
    BY <1>1, <1>2 DEF Record

\* Opening a round changes the status of steps, nothing else.
LEMMA ActivateRoundType ==
    ASSUME RequestTypeOK, NEW round
    PROVE  ActivateRound(round) \in Seq(StepRow)
  <1>1. steps \in Seq(StepRow)
    BY DEF RequestTypeOK, StepRow
  <1>2. Len(steps) \in Nat /\ DOMAIN steps = 1 .. Len(steps) /\ \A k \in 1 .. Len(steps) : steps[k] \in StepRow
    BY <1>1
  <1>3. \A k \in 1 .. Len(steps) : [steps[k] EXCEPT !.status = "PENDING"] \in StepRow
    BY <1>2 DEF StepRow
  <1>4. ActivateRound(round) \in [1 .. Len(steps) -> StepRow]
    BY <1>2, <1>3 DEF ActivateRound
  <1> QED
    BY <1>2, <1>4, FunctionIsSeq

\* The round an approver acts in is a number.
LEMMA RoundType ==
    ASSUME RequestTypeOK, NEW r \in RuleIds \cup {NoRuleId}, NEW round \in 1 .. getMaxRounds(RuleOf(r))
    PROVE  round \in Nat
  <1>1. getMaxRounds(RuleOf(r)) \in Nat
    BY RuleOfType, RoundNumbers
  <1> QED
    BY <1>1

LEMMA TypeInit == RInit => RequestTypeOK
  <1> SUFFICES ASSUME RInit PROVE RequestTypeOK
    OBVIOUS
  <1>1. rules \in [RuleIds -> Rule]
    BY RequestConstants DEF RInit
  <1> QED
    BY <1>1 DEF RInit, RequestTypeOK, RequestStatus

LEMMA CreateType ==
    ASSUME RequestTypeOK, NEW r \in RuleIds \cup {NoRuleId}, NEW p \in Payloads, createRequest(r, p)
    PROVE  RequestTypeOK'
  <1>0. /\ reqStatus' \in RequestStatus /\ docStatus' \in RequestStatus \cup {"RECALLED"}
        /\ payload' \in Payloads /\ content' \in Payloads /\ ruleId' \in RuleIds \cup {NoRuleId}
        /\ approvals' = approvals /\ rules' = rules /\ applied' \in Seq(Payloads)
    <2>1. payload' = p /\ ruleId' = r /\ approvals' = approvals /\ rules' = rules
      BY DEF createRequest
    <2>2. CASE CreateAutoApproved(r, p)
      <3>1. <<p>> \in Seq(Payloads)
        OBVIOUS
      <3> QED
        BY <2>1, <2>2, <3>1 DEF CreateAutoApproved, RequestTypeOK, RequestStatus
    <2>3. CASE CreateWithoutDocument(r)
      BY <2>1, <2>3 DEF CreateWithoutDocument, RequestTypeOK, RequestStatus
    <2>4. CASE CreateWithDocument(r, p)
      BY <2>1, <2>4 DEF CreateWithDocument, RequestTypeOK, RequestStatus
    <2> QED
      BY <2>2, <2>3, <2>4 DEF createRequest
  <1>1. steps' \in Seq(StepRow)
    <2>1. CASE CreateWithDocument(r, p)
      BY <2>1, RuleOfType, FirstStepsType DEF CreateWithDocument, StepRow
    <2>2. CASE CreateAutoApproved(r, p) \/ CreateWithoutDocument(r)
      BY <2>2 DEF CreateAutoApproved, CreateWithoutDocument, RequestTypeOK, StepRow
    <2> QED
      BY <2>1, <2>2 DEF createRequest
  <1> QED
    BY <1>0, <1>1 DEF RequestTypeOK, StepRow

LEMMA ApproverType ==
    ASSUME RequestTypeOK, NEW e \in People, ApproverNext(e)
    PROVE  RequestTypeOK'
  <1>1. \A s \in RequestStatus : SetStatus(s) =>
            reqStatus' \in RequestStatus /\ docStatus' \in RequestStatus \cup {"RECALLED"}
    BY DEF SetStatus, RequestTypeOK
  <1>2. FinalApproval => /\ reqStatus' \in RequestStatus /\ docStatus' \in RequestStatus \cup {"RECALLED"}
                         /\ applied' \in Seq(Payloads) /\ steps' = steps
    BY <1>1 DEF FinalApproval, RequestTypeOK, RequestStatus
  <1>3. CASE approve(e)
    <2>1. PICK r \in RuleIds \cup {NoRuleId} : \E round \in 1 .. getMaxRounds(RuleOf(r)) :
              ApproveTx(e, round, RoundComplete(RuleOf(r), round), round >= getMaxRounds(RuleOf(r)))
      BY <1>3 DEF approve
    <2>2. PICK round \in 1 .. getMaxRounds(RuleOf(r)) :
              ApproveTx(e, round, RoundComplete(RuleOf(r), round), round >= getMaxRounds(RuleOf(r)))
      BY <2>1
    <2>3. approvals' \in Seq(ApprovalRow)
      BY <2>2, RoundType, RecordType DEF ApproveTx
    <2>4. /\ reqStatus' \in RequestStatus /\ docStatus' \in RequestStatus \cup {"RECALLED"}
          /\ applied' \in Seq(Payloads) /\ steps' \in Seq(StepRow)
      BY <1>2, <2>2, ActivateRoundType DEF ApproveTx, RequestTypeOK, StepRow
    <2>5. UNCHANGED <<payload, ruleId, content, rules>>
      BY <2>2 DEF ApproveTx
    <2> QED
      BY <2>3, <2>4, <2>5 DEF RequestTypeOK, ApprovalRow, StepRow
  <1>4. CASE reject(e)
    <2>1. PICK r \in RuleIds \cup {NoRuleId} : \E round \in 1 .. getMaxRounds(RuleOf(r)) : RejectTx(e, round)
      BY <1>4 DEF reject
    <2>2. PICK round \in 1 .. getMaxRounds(RuleOf(r)) : RejectTx(e, round)
      BY <2>1
    <2>3. approvals' \in Seq(ApprovalRow)
      BY <2>2, RoundType, RecordType DEF RejectTx
    <2>4. reqStatus' \in RequestStatus /\ docStatus' \in RequestStatus \cup {"RECALLED"}
      BY <1>1, <2>2 DEF RejectTx, RequestStatus
    <2>5. UNCHANGED <<payload, ruleId, applied, content, steps, rules>>
      BY <2>2 DEF RejectTx
    <2> QED
      BY <2>3, <2>4, <2>5 DEF RequestTypeOK, ApprovalRow
  <1>5. CASE forceApprove(e)
    <2>1. approvals' \in Seq(ApprovalRow)
      BY <1>5, RecordType DEF forceApprove, ForceApproveTx
    <2> QED
      BY <1>2, <1>5, <2>1 DEF forceApprove, ForceApproveTx, RequestTypeOK, ApprovalRow
  <1>6. CASE forceReject(e)
    <2>1. approvals' \in Seq(ApprovalRow)
      BY <1>6, RecordType DEF forceReject, ForceRejectTx
    <2>2. reqStatus' \in RequestStatus /\ docStatus' \in RequestStatus \cup {"RECALLED"}
      BY <1>1, <1>6 DEF forceReject, ForceRejectTx, RequestStatus
    <2> QED
      BY <1>6, <2>1, <2>2 DEF forceReject, ForceRejectTx, RequestTypeOK, ApprovalRow
  <1> QED
    BY <1>3, <1>4, <1>5, <1>6 DEF ApproverNext

LEMMA ViewerType ==
    ASSUME RequestTypeOK, NEW e \in CcTargets, addViewer(e)
    PROVE  RequestTypeOK'
  <1>1. e \in People /\ steps \in Seq(StepRow)
    BY RequestConstants DEF RequestTypeOK, StepRow
  <1>2. [round |-> 0, assigneeId |-> e, status |-> "PENDING"] \in StepRow
    BY <1>1 DEF StepRow
  <1>3. steps' \in Seq(StepRow)
    BY <1>1, <1>2 DEF addViewer
  <1> QED
    BY <1>3 DEF addViewer, RequestTypeOK, StepRow

LEMMA ViewType ==
    ASSUME RequestTypeOK, NEW k \in DOMAIN steps, viewDocument(k)
    PROVE  RequestTypeOK'
  <1>1. steps \in Seq(StepRow) /\ k \in 1 .. Len(steps)
    BY DEF RequestTypeOK, StepRow
  <1>2. steps[k] \in StepRow
    BY <1>1
  <1>3. [steps[k] EXCEPT !.status = "VIEWED"] \in StepRow
    BY <1>2 DEF StepRow
  <1>4. steps' = [steps EXCEPT ![k] = [steps[k] EXCEPT !.status = "VIEWED"]]
    BY DEF viewDocument
  <1>5. steps' \in Seq(StepRow)
    BY <1>1, <1>3, <1>4, ExceptSeq
  <1> QED
    BY <1>5 DEF viewDocument, RequestTypeOK, StepRow

LEMMA RuleEditType ==
    ASSUME RequestTypeOK, NEW r \in RuleIds, RuleNext(r)
    PROVE  RequestTypeOK'
  <1>1. rules' \in [RuleIds -> Rule]
    <2>1. CASE deleteApprovalRule(r)
      <3>1. rules[r] \in Rule
        BY DEF RequestTypeOK
      <3>2. [rules[r] EXCEPT !.isActive = FALSE] \in Rule
        BY <3>1 DEF Rule
      <3> QED
        BY <2>1, <3>2 DEF deleteApprovalRule, RequestTypeOK
    <2>2. CASE \E v \in RuleEdits[r] : saveApprovalRule(r, v)
      BY <2>2, RequestConstants DEF saveApprovalRule, RequestTypeOK
    <2> QED
      BY <2>1, <2>2 DEF RuleNext
  <1> QED
    BY <1>1 DEF RuleNext, deleteApprovalRule, saveApprovalRule, RequestTypeOK

LEMMA TypeStep ==
    ASSUME RequestTypeOK, [RNext]_rvars
    PROVE  RequestTypeOK'
  <1>1. CASE RequesterNext
    <2>1. ASSUME NEW p \in Payloads, updateRequest(p) PROVE RequestTypeOK'
      BY <2>1 DEF updateRequest, UpdateTx, RequestTypeOK
    <2>2. CASE cancel
      BY <2>2 DEF cancel, CancelTx, SetStatus, RequestTypeOK, RequestStatus
    <2>3. CASE recallDocument
      BY <2>3 DEF recallDocument, RecallTx, RequestTypeOK
    <2> QED
      BY <1>1, <2>1, <2>2, <2>3, CreateType, ViewerType, ViewType DEF RequesterNext
  <1>2. CASE \E e \in People : ApproverNext(e)
    BY <1>2, ApproverType
  <1>3. CASE \E r \in RuleIds : RuleNext(r)
    BY <1>3, RuleEditType
  <1>4. CASE UNCHANGED rvars
    BY <1>4 DEF rvars, RequestTypeOK
  <1> QED
    BY <1>1, <1>2, <1>3, <1>4 DEF RNext

\* Every reachable request, with its document, approvals and rules, is well typed.
THEOREM RequestTypeCorrectness == RSpec => []RequestTypeOK
  BY TypeInit, TypeStep, PTL DEF RSpec

-----------------------------------------------------------------------------
(* Effect, document and approvals.                                         *)

\* What the handlers keep of a request: its effect, its document, and who approved.
RInv == RequestTypeOK /\ EffectsExactlyOnce /\ DocumentMirrorsRequest /\ DistinctApprovers

\* applyApprovedRequest runs on a pending request, so for the first time, and the
\* mirror update is in the same transaction.
LEMMA FinalApprovalKeeps ==
    ASSUME RInv, reqStatus = "PENDING", FinalApproval, UNCHANGED <<payload, content>>
    PROVE  EffectsExactlyOnce' /\ DocumentMirrorsRequest'
  <1>1. applied = <<>>
    BY DEF RInv, EffectsExactlyOnce
  <1>2. applied' = <<payload>> /\ payload' = payload /\ reqStatus' = "APPROVED"
    BY <1>1 DEF FinalApproval, SetStatus
  <1>3. docStatus' = IF HasDocument THEN "APPROVED" ELSE docStatus
    BY DEF FinalApproval, SetStatus
  <1> QED
    BY <1>2, <1>3 DEF EffectsExactlyOnce, DocumentMirrorsRequest, RInv, HasDocument

\* Closing a pending request otherwise.
LEMMA ClosingKeeps ==
    ASSUME RInv, reqStatus = "PENDING", NEW s \in {"REJECTED", "CANCELLED"}, SetStatus(s),
           UNCHANGED <<payload, applied, content>>
    PROVE  EffectsExactlyOnce' /\ DocumentMirrorsRequest'
  BY DEF RInv, EffectsExactlyOnce, DocumentMirrorsRequest, HasDocument, SetStatus

\* A record of another kind than an approval disturbs no round.
LEMMA OtherRecordKeeps ==
    ASSUME RInv, NEW round \in Nat, NEW e \in People,
           NEW s \in {"REJECTED", "FORCE_APPROVED", "FORCE_REJECTED"}, Record(round, e, s)
    PROVE  DistinctApprovers'
  <1> DEFINE row == [round |-> round, approverId |-> e, status |-> s]
  <1>1. approvals \in Seq(ApprovalRow) /\ row \in ApprovalRow
    BY DEF RInv, RequestTypeOK, ApprovalRow
  <1>2. /\ Len(approvals) \in Nat
        /\ DOMAIN approvals = 1 .. Len(approvals)
        /\ DOMAIN approvals' = 1 .. (Len(approvals) + 1)
        /\ \A k \in 1 .. Len(approvals) : approvals'[k] = approvals[k]
        /\ approvals'[Len(approvals) + 1] = row
    BY <1>1 DEF Record
  <1>3. \A i \in DOMAIN approvals' : approvals'[i].status = "APPROVED" =>
            i \in DOMAIN approvals /\ approvals'[i] = approvals[i]
    BY <1>2
  <1>4. DistinctApprovers
    BY DEF RInv
  <1> QED
    BY <1>3, <1>4 DEF DistinctApprovers

\* An approval is recorded for someone else than the requester who has not yet
\* approved in this round.
LEMMA ApprovalKeeps ==
    ASSUME RInv, NEW round \in Nat, NEW e \in People, e # Requester,
           ~AlreadyApproved(e, round), Record(round, e, "APPROVED")
    PROVE  DistinctApprovers'
  <1> DEFINE row == [round |-> round, approverId |-> e, status |-> "APPROVED"]
             n == Len(approvals)
  <1>1. approvals \in Seq(ApprovalRow) /\ row \in ApprovalRow
    BY DEF RInv, RequestTypeOK, ApprovalRow
  <1>2. /\ n \in Nat
        /\ DOMAIN approvals = 1 .. n
        /\ DOMAIN approvals' = 1 .. (n + 1)
        /\ \A k \in 1 .. n : approvals[k] \in ApprovalRow /\ approvals'[k] = approvals[k]
        /\ approvals'[n + 1] = row
    BY <1>1 DEF Record
  <1>3. \A k \in 1 .. n : approvals[k] # row
    BY <1>2 DEF AlreadyApproved
  <1>4. \A k \in 1 .. n : ~ /\ approvals[k].round = round
                            /\ approvals[k].approverId = e
                            /\ approvals[k].status = "APPROVED"
    BY <1>2, <1>3 DEF ApprovalRow
  <1>5. SUFFICES ASSUME NEW i \in 1 .. (n + 1), NEW j \in 1 .. (n + 1),
                        approvals'[i].status = "APPROVED", approvals'[j].status = "APPROVED",
                        approvals'[i].round = approvals'[j].round,
                        approvals'[i].approverId = approvals'[j].approverId
                 PROVE  i = j /\ approvals'[i].approverId # Requester
    BY <1>2 DEF DistinctApprovers
  <1>6. CASE i = n + 1 /\ j = n + 1
    BY <1>2, <1>6
  <1>7. CASE i \in 1 .. n /\ j = n + 1
    BY <1>2, <1>4, <1>5, <1>7
  <1>8. CASE i = n + 1 /\ j \in 1 .. n
    BY <1>2, <1>4, <1>5, <1>8
  <1>9. CASE i \in 1 .. n /\ j \in 1 .. n
    <2>1. DistinctApprovers
      BY DEF RInv
    <2> QED
      BY <1>2, <1>5, <1>9, <2>1 DEF DistinctApprovers
  <1> QED
    BY <1>2, <1>6, <1>7, <1>8, <1>9

LEMMA RInvInit == RInit => RInv
  <1> SUFFICES ASSUME RInit PROVE RInv
    OBVIOUS
  <1>1. RequestTypeOK
    BY TypeInit
  <1>2. DOMAIN approvals = {} /\ ~HasDocument
    BY DEF RInit, HasDocument
  <1> QED
    BY <1>1, <1>2 DEF RInit, RInv, EffectsExactlyOnce, DocumentMirrorsRequest, DistinctApprovers

LEMMA ApproverKeeps ==
    ASSUME RInv, NEW e \in People, ApproverNext(e)
    PROVE  EffectsExactlyOnce' /\ DocumentMirrorsRequest' /\ DistinctApprovers'
  <1>0. RequestTypeOK
    BY DEF RInv
  <1>1. CASE approve(e)
    <2>1. reqStatus = "PENDING" /\ e # Requester
      BY <1>1 DEF approve, assertRequestPending, assertIsApprover
    <2>2. PICK r \in RuleIds \cup {NoRuleId} : \E round \in 1 .. getMaxRounds(RuleOf(r)) :
              /\ ~AlreadyApproved(e, round)
              /\ ApproveTx(e, round, RoundComplete(RuleOf(r), round), round >= getMaxRounds(RuleOf(r)))
      BY <1>1 DEF approve, ApproveRound
    <2>3. PICK round \in 1 .. getMaxRounds(RuleOf(r)) :
              /\ ~AlreadyApproved(e, round)
              /\ ApproveTx(e, round, RoundComplete(RuleOf(r), round), round >= getMaxRounds(RuleOf(r)))
      BY <2>2
    <2>4. round \in Nat
      BY <1>0, RoundType
    <2>5. DistinctApprovers'
      BY <2>1, <2>3, <2>4, ApprovalKeeps DEF ApproveTx
    <2>6. UNCHANGED <<payload, content>>
      BY <2>3 DEF ApproveTx
    <2>7. CASE FinalApproval
      BY <2>1, <2>5, <2>6, <2>7, FinalApprovalKeeps
    <2>8. CASE UNCHANGED <<reqStatus, docStatus, applied>>
      BY <2>5, <2>6, <2>8 DEF RInv, EffectsExactlyOnce, DocumentMirrorsRequest, HasDocument
    <2> QED
      BY <2>3, <2>7, <2>8 DEF ApproveTx
  <1>2. CASE reject(e)
    <2>1. reqStatus = "PENDING"
      BY <1>2 DEF reject, assertRequestPending
    <2>2. PICK r \in RuleIds \cup {NoRuleId} : \E round \in 1 .. getMaxRounds(RuleOf(r)) : RejectTx(e, round)
      BY <1>2 DEF reject
    <2>3. PICK round \in 1 .. getMaxRounds(RuleOf(r)) : RejectTx(e, round)
      BY <2>2
    <2>4. round \in Nat
      BY <1>0, RoundType
    <2> QED
      BY <2>1, <2>3, <2>4, OtherRecordKeeps, ClosingKeeps DEF RejectTx
  <1>3. CASE forceApprove(e)
    <2>1. reqStatus = "PENDING" /\ ForceApproveTx(e)
      BY <1>3 DEF forceApprove, ForceGuard, assertRequestPending
    <2> QED
      BY <2>1, OtherRecordKeeps, FinalApprovalKeeps DEF ForceApproveTx
  <1>4. CASE forceReject(e)
    <2>1. reqStatus = "PENDING" /\ ForceRejectTx(e)
      BY <1>4 DEF forceReject, ForceGuard, assertRequestPending
    <2> QED
      BY <2>1, OtherRecordKeeps, ClosingKeeps DEF ForceRejectTx
  <1> QED
    BY <1>1, <1>2, <1>3, <1>4 DEF ApproverNext

LEMMA RequesterKeeps ==
    ASSUME RInv, RequesterNext
    PROVE  EffectsExactlyOnce' /\ DocumentMirrorsRequest' /\ DistinctApprovers'
  <1>1. UNCHANGED approvals
    BY DEF RequesterNext, createRequest, updateRequest, UpdateTx, cancel, CancelTx, recallDocument, RecallTx, addViewer, viewDocument
  <1>2. DistinctApprovers'
    BY <1>1 DEF RInv, DistinctApprovers
  <1>3. ASSUME NEW r \in RuleIds \cup {NoRuleId}, NEW p \in Payloads, createRequest(r, p)
        PROVE  EffectsExactlyOnce' /\ DocumentMirrorsRequest'
    <2>1. reqStatus = "NONE" /\ applied = <<>> /\ payload' = p
      BY <1>3 DEF createRequest, RInv, EffectsExactlyOnce
    <2>2. docStatus = "NONE"
      BY <2>1 DEF RInv, DocumentMirrorsRequest, HasDocument
    <2> QED
      BY <1>3, <2>1, <2>2 DEF createRequest, CreateAutoApproved, CreateWithoutDocument, CreateWithDocument,
            EffectsExactlyOnce, DocumentMirrorsRequest, HasDocument
  <1>4. ASSUME NEW p \in Payloads, updateRequest(p)
        PROVE  EffectsExactlyOnce' /\ DocumentMirrorsRequest'
    <2>1. /\ reqStatus = "PENDING" /\ reqStatus' = reqStatus
          /\ applied' = applied /\ docStatus' = docStatus
          /\ payload' = p /\ content' = IF HasDocument THEN p ELSE content
      BY <1>4 DEF updateRequest, UpdateTx, assertRequestPending
    <2>2. applied = <<>>
      BY <2>1 DEF RInv, EffectsExactlyOnce
    <2>3. EffectsExactlyOnce'
      BY <2>1, <2>2 DEF EffectsExactlyOnce
    <2>4. DocumentMirrorsRequest'
      BY <2>1 DEF DocumentMirrorsRequest, HasDocument
    <2> QED
      BY <2>3, <2>4
  <1>5. CASE cancel
    BY <1>2, <1>5, ClosingKeeps DEF cancel, CancelTx, assertRequestPending
  <1>6. CASE recallDocument
    <2>1. /\ docStatus = "PENDING" /\ reqStatus' = reqStatus
          /\ applied' = applied /\ payload' = payload /\ content' = content
      BY <1>6 DEF recallDocument, RecallTx
    <2>2. reqStatus = "PENDING" /\ content = payload /\ applied = <<>>
      BY <2>1 DEF RInv, DocumentMirrorsRequest, EffectsExactlyOnce, HasDocument
    <2>3. EffectsExactlyOnce'
      BY <2>1, <2>2 DEF EffectsExactlyOnce
    <2>4. DocumentMirrorsRequest'
      BY <2>1, <2>2 DEF DocumentMirrorsRequest
    <2> QED
      BY <1>2, <2>3, <2>4
  <1>7. ASSUME UNCHANGED <<reqStatus, payload, applied, docStatus, content>>
        PROVE  EffectsExactlyOnce' /\ DocumentMirrorsRequest'
    BY <1>7 DEF RInv, EffectsExactlyOnce, DocumentMirrorsRequest, HasDocument
  <1> QED
    BY <1>2, <1>3, <1>4, <1>5, <1>6, <1>7 DEF RequesterNext, addViewer, viewDocument

LEMMA RInvStep ==
    ASSUME RInv, [RNext]_rvars
    PROVE  RInv'
  <1>1. RequestTypeOK'
    BY TypeStep DEF RInv
  <1>2. CASE UNCHANGED <<reqStatus, payload, applied, docStatus, content, approvals>>
    BY <1>1, <1>2 DEF RInv, EffectsExactlyOnce, DocumentMirrorsRequest, DistinctApprovers, HasDocument
  <1>3. (\E r \in RuleIds : RuleNext(r)) \/ UNCHANGED rvars
            => UNCHANGED <<reqStatus, payload, applied, docStatus, content, approvals>>
    BY DEF RuleNext, deleteApprovalRule, saveApprovalRule, rvars
  <1> QED
    BY <1>1, <1>2, <1>3, RequesterKeeps, ApproverKeeps DEF RNext, RInv

LEMMA RInvariance == RSpec => []RInv
  BY RInvInit, RInvStep, PTL DEF RSpec

\* In every reachable state the effects are those of the request: one, as it reads,
\* if it is approved, none otherwise (applyApprovedRequest).
THEOREM EffectCorrectness == RSpec => []EffectsExactlyOnce
  BY RInvariance, PTL DEF RInv

\* The document of a request has its content and, once decided, its status.
THEOREM MirrorCorrectness == RSpec => []DocumentMirrorsRequest
  BY RInvariance, PTL DEF RInv

\* No one fills a round's quorum twice, and the requester never counts.
THEOREM ApproverCorrectness == RSpec => []DistinctApprovers
  BY RInvariance, PTL DEF RInv

-----------------------------------------------------------------------------
(* Decisions.                                                              *)

\* No step of the system changes the decision, the content, the effects or the
\* approvals of a decided request (assertRequestPending in every handler).
THEOREM DecisionFinality == RSpec => DecidedIsFinal
  <1>1. ASSUME [RNext]_rvars, reqStatus \in {"APPROVED", "REJECTED", "CANCELLED"}
        PROVE  UNCHANGED <<reqStatus, payload, applied, approvals>>
    <2>1. ~assertRequestPending /\ reqStatus # "NONE"
      BY <1>1 DEF assertRequestPending
    <2>2. CASE RequesterNext
      BY <2>1, <2>2 DEF RequesterNext, createRequest, updateRequest, cancel, recallDocument, RecallTx, addViewer, viewDocument
    <2>3. CASE \E e \in People : ApproverNext(e)
      BY <2>1, <2>3 DEF ApproverNext, approve, reject, forceApprove, forceReject, ForceGuard
    <2>4. CASE \E r \in RuleIds : RuleNext(r)
      BY <2>4 DEF RuleNext, deleteApprovalRule, saveApprovalRule
    <2> QED
      BY <1>1, <2>2, <2>3, <2>4 DEF RNext, rvars
  <1>2. [RNext]_rvars => [(reqStatus \in {"APPROVED", "REJECTED", "CANCELLED"}) =>
                             UNCHANGED <<reqStatus, payload, applied, approvals>>]_rvars
    BY <1>1
  <1> QED
    BY <1>2, PTL DEF RSpec, DecidedIsFinal

\* isRoundComplete counts what it counted before, and one more in the round of the
\* new approval.
LEMMA CountAfterApproval ==
    ASSUME RequestTypeOK, NEW round \in Nat, NEW e \in People, Record(round, e, "APPROVED"), NEW n
    PROVE  /\ CountApproved(n) \in Nat /\ CountApproved(n)' \in Nat
           /\ CountApproved(n) <= CountApproved(n)'
           /\ n = round => CountApproved(n)' = CountApproved(n) + 1
           /\ n # round => CountApproved(n)' = CountApproved(n)
  <1> DEFINE row == [round |-> round, approverId |-> e, status |-> "APPROVED"]
             l == Len(approvals)
             Before == {k \in DOMAIN approvals : approvals[k].round = n /\ approvals[k].status = "APPROVED"}
             After == {k \in DOMAIN approvals' : approvals'[k].round = n /\ approvals'[k].status = "APPROVED"}
  <1>1. approvals \in Seq(ApprovalRow) /\ row \in ApprovalRow
    BY DEF RequestTypeOK, ApprovalRow
  <1>2. /\ l \in Nat
        /\ DOMAIN approvals = 1 .. l
        /\ DOMAIN approvals' = 1 .. (l + 1)
        /\ \A k \in 1 .. l : approvals'[k] = approvals[k]
        /\ approvals'[l + 1] = row
    BY <1>1 DEF Record
  <1>3. IsFiniteSet(Before) /\ IsFiniteSet(After)
    <2>1. IsFiniteSet(1 .. l) /\ IsFiniteSet(1 .. (l + 1))
      BY <1>2, FS_Interval
    <2>2. Before \in SUBSET (1 .. l) /\ After \in SUBSET (1 .. (l + 1))
      BY <1>2
    <2> QED
      BY <2>1, <2>2, FS_Subset
  <1>4. Before \subseteq After /\ l + 1 \notin Before /\ (n = round => l + 1 \in After)
    BY <1>2
  <1>5. Cardinality(Before) \in Nat /\ Cardinality(After) \in Nat /\ Cardinality(Before) <= Cardinality(After)
    BY <1>3, <1>4, FS_Subset, FS_CardinalityType
  <1>6. ASSUME n = round PROVE Cardinality(After) = Cardinality(Before) + 1
    <2>1. After = Before \cup {l + 1}
      BY <1>2, <1>6
    <2> QED
      BY <1>3, <1>4, <2>1, FS_AddElement
  <1>7. n # round => After = Before
    BY <1>2
  <1>8. CountApproved(n) = Cardinality(Before) /\ CountApproved(n)' = Cardinality(After)
    BY DEF CountApproved
  <1> HIDE DEF Before, After
  <1> QED
    BY <1>5, <1>6, <1>7, <1>8

\* An approval that completes the last round finds every earlier round complete.
LEMMA LastRoundCompletes ==
    ASSUME RequestTypeOK, NEW e \in People, NEW r \in RuleIds \cup {NoRuleId},
           NEW round \in 1 .. getMaxRounds(RuleOf(r)), ApproveRound(e, r, round),
           Record(round, e, "APPROVED"), RoundComplete(RuleOf(r), round), round >= getMaxRounds(RuleOf(r))
    PROVE  \A n \in 1 .. getMaxRounds(RuleOf(r)) : roundRequiredCount(RuleOf(r), n) <= CountApproved(n)'
  <1> DEFINE max == getMaxRounds(RuleOf(r))
             required(n) == roundRequiredCount(RuleOf(r), n)
             lacking == {n \in 1 .. max : CountApproved(n) < required(n)}
  <1>1. max \in Nat /\ \A n : required(n) \in Nat
    BY RuleOfType, RoundNumbers
  <1>2. round \in Nat /\ round = max
    BY <1>1
  <1>3. \A n : /\ CountApproved(n) \in Nat /\ CountApproved(n)' \in Nat
               /\ CountApproved(n) <= CountApproved(n)'
               /\ n = round => CountApproved(n)' = CountApproved(n) + 1
    BY <1>2, CountAfterApproval
  <1>4. \A n \in lacking : round <= n
    BY DEF ApproveRound, getCurrentRound
  <1>5. CountApproved(round) + 1 >= required(round)
    BY DEF RoundComplete
  <1> SUFFICES ASSUME NEW n \in 1 .. max PROVE required(n) <= CountApproved(n)'
    OBVIOUS
  <1>6. CASE n = round
    BY <1>1, <1>3, <1>5, <1>6
  <1>7. CASE n # round
    <2>1. n \notin lacking
      BY <1>1, <1>2, <1>4, <1>7
    <2>2. required(n) <= CountApproved(n)
      BY <1>1, <1>3, <2>1
    <2> QED
      BY <1>1, <1>3, <2>2
  <1> QED
    BY <1>6, <1>7

\* A request that becomes APPROVED has, unless an administrator forced it, all the
\* approvals that each round of the rule in force requires.
THEOREM QuorumCorrectness == RSpec => QuorumDecides
  <1> DEFINE Decided ==
               \/ \E e \in People : forceApprove(e)
               \/ \E r \in RuleIds \cup {NoRuleId} :
                     /\ findApplicableRule(r)
                     /\ \A n \in 1 .. getMaxRounds(RuleOf(r)) :
                           roundRequiredCount(RuleOf(r), n) <=
                               Cardinality({k \in DOMAIN approvals' :
                                   approvals'[k].round = n /\ approvals'[k].status = "APPROVED"})
  <1>1. ASSUME RequestTypeOK, RNext, reqStatus = "PENDING", reqStatus' = "APPROVED"
        PROVE  Decided
    <2>1. PICK e \in People : ApproverNext(e)
      <3>1. ~RequesterNext
        BY <1>1 DEF RequesterNext, createRequest, updateRequest, UpdateTx, cancel, CancelTx, SetStatus,
              recallDocument, RecallTx, addViewer, viewDocument
      <3>2. ~ \E r \in RuleIds : RuleNext(r)
        BY <1>1 DEF RuleNext, deleteApprovalRule, saveApprovalRule
      <3> QED
        BY <1>1, <3>1, <3>2 DEF RNext
    <2>2. CASE approve(e)
      <3>1. PICK r \in RuleIds \cup {NoRuleId} : \E round \in 1 .. getMaxRounds(RuleOf(r)) :
                /\ ApproveRound(e, r, round)
                /\ ApproveTx(e, round, RoundComplete(RuleOf(r), round), round >= getMaxRounds(RuleOf(r)))
        BY <2>2 DEF approve
      <3>2. PICK round \in 1 .. getMaxRounds(RuleOf(r)) :
                /\ ApproveRound(e, r, round)
                /\ ApproveTx(e, round, RoundComplete(RuleOf(r), round), round >= getMaxRounds(RuleOf(r)))
        BY <3>1
      <3>3. /\ Record(round, e, "APPROVED")
            /\ RoundComplete(RuleOf(r), round) /\ round >= getMaxRounds(RuleOf(r))
        BY <1>1, <3>2 DEF ApproveTx
      <3>4. \A n \in 1 .. getMaxRounds(RuleOf(r)) : roundRequiredCount(RuleOf(r), n) <= CountApproved(n)'
        BY <1>1, <3>2, <3>3, LastRoundCompletes
      <3>5. findApplicableRule(r)
        BY <3>2 DEF ApproveRound
      <3>6. \A n \in 1 .. getMaxRounds(RuleOf(r)) :
               roundRequiredCount(RuleOf(r), n) <=
                   Cardinality({k \in DOMAIN approvals' :
                       approvals'[k].round = n /\ approvals'[k].status = "APPROVED"})
        BY <3>4 DEF CountApproved
      <3> QED
        BY <3>5, <3>6
    <2>3. ~reject(e) /\ ~forceReject(e)
      BY <1>1 DEF reject, RejectTx, forceReject, ForceRejectTx, SetStatus
    <2> QED
      BY <2>1, <2>2, <2>3 DEF ApproverNext
  <1>2. RequestTypeOK /\ [RNext]_rvars => [(reqStatus = "PENDING" /\ reqStatus' = "APPROVED") => Decided]_rvars
    BY <1>1
  <1> QED
    BY <1>2, RequestTypeCorrectness, PTL DEF RSpec, QuorumDecides


-----------------------------------------------------------------------------
(* Rounds.                                                                 *)

Lacks(r, n) == CountApproved(n) < roundRequiredCount(RuleOf(r), n)
EarlierFull(r, n) == \A j \in 1 .. (n - 1) : ~Lacks(r, j)

\* The request is somewhere in the rounds of rule r: the steps of the rounds that
\* have begun are open, some round lacks approvals, and those after it have none.
InRounds(r) ==
    /\ \A k \in DOMAIN steps : steps[k].round > 0 => (steps[k].status = "PENDING" <=> EarlierFull(r, steps[k].round))
    /\ \E n \in 1 .. getMaxRounds(RuleOf(r)) : Lacks(r, n)
    /\ \A n, m \in Nat \ {0} : n < m /\ Lacks(r, n) => CountApproved(m) = 0

JudgedBy(r) == reqStatus = "PENDING" /\ findApplicableRule(r)

\* What the steps are like before and without a document.
StepsOfRounds ==
    /\ reqStatus = "NONE" => approvals = <<>> /\ ~HasDocument
    /\ ~HasDocument => steps = <<>>
    /\ \A k \in DOMAIN steps : steps[k].round > 0 => steps[k].status \in {"WAITING", "PENDING"}

HandOverInv == StepsOfRounds /\ (OneRuleLeads => \A r \in RuleIds \cup {NoRuleId} : JudgedBy(r) => InRounds(r))

LEMMA CountsAreNatural == ASSUME RequestTypeOK PROVE \A n : CountApproved(n) \in Nat
  <1> TAKE n
  <1>1. approvals \in Seq(ApprovalRow)
    BY DEF RequestTypeOK, ApprovalRow
  <1>2. Len(approvals) \in Nat /\ DOMAIN approvals = 1 .. Len(approvals)
    BY <1>1
  <1>3. IsFiniteSet(1 .. Len(approvals))
    BY <1>2, FS_Interval
  <1>4. {k \in DOMAIN approvals : approvals[k].round = n /\ approvals[k].status = "APPROVED"} \in SUBSET (1 .. Len(approvals))
    BY <1>2
  <1> QED
    BY <1>3, <1>4, FS_Subset, FS_CardinalityType DEF CountApproved

\* The invariant says what the property does.
LEMMA InRoundsSuffices ==
    ASSUME RequestTypeOK, HandOverInv, OneRuleLeads
    PROVE  RoundsInOrder /\ PendingLacksApproval
  <1>1. ASSUME NEW r \in RuleIds \cup {NoRuleId}, JudgedBy(r)
        PROVE  InRounds(r)
    BY <1>1 DEF HandOverInv
  <1>2. \A n : CountApproved(n) \in Nat
    BY CountsAreNatural
  <1>3. \A r \in RuleIds \cup {NoRuleId} : \A n :
            Lacks(r, n) <=> ~(CountApproved(n) >= roundRequiredCount(RuleOf(r), n))
    <2>1. \A r \in RuleIds \cup {NoRuleId} : \A n : roundRequiredCount(RuleOf(r), n) \in Nat
      BY RuleOfType, RoundNumbers
    <2> QED
      BY <1>2, <2>1 DEF Lacks
  <1>4. RoundsInOrder
    <2> SUFFICES ASSUME NEW r \in RuleIds \cup {NoRuleId}, reqStatus = "PENDING", findApplicableRule(r),
                        NEW k \in DOMAIN steps, steps[k].round > 0
                 PROVE  (steps[k].status = "PENDING") =
                            \A n \in 1 .. (steps[k].round - 1) :
                                CountApproved(n) >= roundRequiredCount(RuleOf(r), n)
      BY DEF RoundsInOrder
    <2>1. steps[k].status = "PENDING" <=> EarlierFull(r, steps[k].round)
      BY <1>1 DEF JudgedBy, InRounds
    <2>2. EarlierFull(r, steps[k].round) <=>
              \A n \in 1 .. (steps[k].round - 1) : CountApproved(n) >= roundRequiredCount(RuleOf(r), n)
      BY <1>3 DEF EarlierFull
    <2> QED
      BY <2>1, <2>2
  <1>5. PendingLacksApproval
    BY <1>1 DEF PendingLacksApproval, JudgedBy, InRounds, Lacks
  <1> QED
    BY <1>4, <1>5

\* Counting one more approval of the round that is open: either it still lacks
\* some, or the next round begins.
LEMMA NextRoundBegins ==
    ASSUME NEW max \in Nat \ {0}, NEW q \in [Nat -> Nat \ {0}], NEW c \in [Nat -> Nat], NEW d \in [Nat -> Nat],
           NEW round \in 1 .. max,
           c[round] < q[round], \A n \in 1 .. max : c[n] < q[n] => round <= n,
           \A n, m \in Nat \ {0} : n < m /\ c[n] < q[n] => c[m] = 0,
           d[round] = c[round] + 1, \A n \in Nat : n # round => d[n] = c[n],
           d[round] < q[round] \/ round < max
    PROVE  /\ \E n \in 1 .. max : d[n] < q[n]
           /\ \A n, m \in Nat \ {0} : n < m /\ d[n] < q[n] => d[m] = 0
           /\ \A n \in Nat \ {0} :
                 (\A j \in 1 .. (n - 1) : ~(d[j] < q[j])) <=>
                     \/ \A j \in 1 .. (n - 1) : ~(c[j] < q[j])
                     \/ n = round + 1 /\ ~(d[round] < q[round])
  <1>1. /\ \A n \in Nat : c[n] \in Nat /\ d[n] \in Nat /\ q[n] \in Nat /\ q[n] > 0
        /\ round \in Nat \ {0} /\ round <= max /\ round + 1 \in Nat \ {0}
    OBVIOUS
  <1>2. \A n \in 1 .. (round - 1) : ~(c[n] < q[n]) /\ ~(d[n] < q[n])
    <2> TAKE n \in 1 .. (round - 1)
    <2>1. n \in 1 .. max /\ ~(round <= n) /\ n \in Nat /\ n # round
      BY <1>1
    <2> QED
      BY <1>1, <2>1
  <1>3. c[round + 1] = 0 /\ d[round + 1] = 0 /\ d[round + 1] < q[round + 1]
    <2>1. round < round + 1 /\ round + 1 \in Nat /\ round + 1 # round
      BY <1>1
    <2> QED
      BY <1>1, <2>1
  <1>4. \E n \in 1 .. max : d[n] < q[n]
    <2>1. CASE d[round] < q[round]
      BY <2>1
    <2>2. CASE round < max
      <3>1. round + 1 \in 1 .. max
        BY <1>1, <2>2
      <3> QED
        BY <1>3, <3>1
    <2> QED
      BY <2>1, <2>2
  <1>5. ASSUME NEW n \in Nat \ {0}, NEW m \in Nat \ {0}, n < m, d[n] < q[n] PROVE d[m] = 0
    <2>1. ~(n < round)
      <3>1. n < round => n \in 1 .. (round - 1)
        BY <1>1
      <3> QED
        BY <1>2, <1>5, <3>1
    <2>2. m # round /\ m \in Nat /\ d[m] = c[m]
      BY <1>1, <1>5, <2>1
    <2>3. round < m
      BY <1>1, <1>5, <2>1, <2>2
    <2> QED
      BY <1>1, <2>2, <2>3
  <1>6. ASSUME NEW n \in Nat \ {0}
        PROVE  (\A j \in 1 .. (n - 1) : ~(d[j] < q[j])) <=>
                   \/ \A j \in 1 .. (n - 1) : ~(c[j] < q[j])
                   \/ n = round + 1 /\ ~(d[round] < q[round])
    <2>1. CASE n <= round
      <3>1. \A j \in 1 .. (n - 1) : j \in 1 .. (round - 1)
        BY <1>1, <2>1
      <3> QED
        BY <1>2, <3>1
    <2>2. CASE n = round + 1
      <3>1. round \in 1 .. (n - 1)
        BY <1>1, <2>2
      <3>2. ~ \A j \in 1 .. (n - 1) : ~(c[j] < q[j])
        BY <3>1
      <3>3. \A j \in 1 .. (n - 1) : j = round \/ j \in 1 .. (round - 1)
        BY <1>1, <2>2
      <3> QED
        BY <1>2, <2>2, <3>1, <3>2, <3>3
    <2>3. CASE n > round + 1
      <3>1. round \in 1 .. (n - 1) /\ round + 1 \in 1 .. (n - 1) /\ n # round + 1
        BY <1>1, <2>3
      <3> QED
        BY <1>3, <3>1
    <2> QED
      BY <1>1, <2>1, <2>2, <2>3
  <1> QED
    BY <1>4, <1>5, <1>6

\* An approval that leaves the request pending keeps it in its rounds, and
\* ActivateRound opens the steps of the round that begins.
LEMMA ApprovalHandsOver ==
    ASSUME RequestTypeOK, StepsOfRounds, NEW e \in People, NEW r \in RuleIds \cup {NoRuleId},
           NEW round \in 1 .. getMaxRounds(RuleOf(r)), ApproveRound(e, r, round), InRounds(r),
           ApproveTx(e, round, RoundComplete(RuleOf(r), round), round >= getMaxRounds(RuleOf(r))),
           reqStatus = "PENDING", reqStatus' = "PENDING"
    PROVE  InRounds(r)' /\ StepsOfRounds'
  <1> DEFINE max == getMaxRounds(RuleOf(r))
             complete == RoundComplete(RuleOf(r), round)
  <1>1. /\ max \in Nat \ {0} /\ \A n : roundRequiredCount(RuleOf(r), n) \in Nat \ {0}
        /\ round \in Nat \ {0} /\ round <= max
    BY RuleOfType, RoundNumbers
  <1>2. /\ Record(round, e, "APPROVED") /\ ~(complete /\ round >= max)
        /\ steps' = (IF complete /\ HasDocument THEN ActivateRound(round + 1) ELSE steps)
        /\ UNCHANGED <<docStatus, rules>>
    BY DEF ApproveTx, FinalApproval, SetStatus
  <1>3. PICK c \in [Nat -> Nat] : \A n \in Nat : c[n] = CountApproved(n)
    <2>1. [n \in Nat |-> CountApproved(n)] \in [Nat -> Nat]
      BY CountsAreNatural
    <2> QED
      BY <2>1
  <1>4. \A n : /\ CountApproved(n)' \in Nat
               /\ n = round => CountApproved(n)' = CountApproved(n) + 1
               /\ n # round => CountApproved(n)' = CountApproved(n)
    BY <1>1, <1>2, CountAfterApproval
  <1>5. PICK d \in [Nat -> Nat] : \A n \in Nat : d[n] = CountApproved(n)'
    <2>1. [n \in Nat |-> CountApproved(n)'] \in [Nat -> Nat]
      BY <1>4
    <2> QED
      BY <2>1
  <1>6. PICK q \in [Nat -> Nat \ {0}] : \A n \in Nat : q[n] = roundRequiredCount(RuleOf(r), n)
    <2>1. [n \in Nat |-> roundRequiredCount(RuleOf(r), n)] \in [Nat -> Nat \ {0}]
      BY <1>1
    <2> QED
      BY <2>1
  <1>7. RuleOf(r)' = RuleOf(r) /\ getMaxRounds(RuleOf(r))' = max
    BY <1>2 DEF RuleOf
  <1>8. \A n \in Nat : (Lacks(r, n) <=> c[n] < q[n]) /\ (Lacks(r, n)' <=> d[n] < q[n])
    <2>1. \A n \in Nat : roundRequiredCount(RuleOf(r), n)' = roundRequiredCount(RuleOf(r), n)
      BY <1>7
    <2> QED
      BY <1>3, <1>5, <1>6, <2>1 DEF Lacks
  <1>9. c[round] < q[round] /\ \A n \in 1 .. max : c[n] < q[n] => round <= n
    <2>1. PICK n \in 1 .. max : Lacks(r, n)
      BY DEF InRounds
    <2>2. \A m \in 1 .. max : m \in Nat
      BY <1>1
    <2> DEFINE lacking == {m \in 1 .. max : CountApproved(m) < roundRequiredCount(RuleOf(r), m)}
    <2>3. n \in lacking /\ lacking # {}
      BY <2>1 DEF Lacks
    <2>4. round \in lacking /\ \A m \in lacking : round <= m
      BY <2>3 DEF ApproveRound, getCurrentRound
    <2> QED
      BY <1>8, <2>2, <2>4 DEF Lacks
  <1>10. complete <=> ~(d[round] < q[round])
    BY <1>1, <1>3, <1>4, <1>5, <1>6 DEF RoundComplete
  <1>11. /\ d[round] = c[round] + 1 /\ \A n \in Nat : n # round => d[n] = c[n]
         /\ d[round] < q[round] \/ round < max
    BY <1>1, <1>2, <1>3, <1>4, <1>5, <1>10
  <1>12. \A n, m \in Nat \ {0} : n < m /\ c[n] < q[n] => c[m] = 0
    BY <1>3, <1>8 DEF InRounds
  <1>13. /\ \E n \in 1 .. max : d[n] < q[n]
         /\ \A n, m \in Nat \ {0} : n < m /\ d[n] < q[n] => d[m] = 0
         /\ \A n \in Nat \ {0} :
               (\A j \in 1 .. (n - 1) : ~(d[j] < q[j])) <=>
                   \/ \A j \in 1 .. (n - 1) : ~(c[j] < q[j])
                   \/ n = round + 1 /\ ~(d[round] < q[round])
    <2> HIDE DEF max
    <2>1. max \in Nat \ {0} /\ round \in 1 .. max
      BY <1>1 DEF max
    <2> QED
      BY <1>9, <1>11, <1>12, <2>1, NextRoundBegins
  <1>14. \A n \in Nat \ {0} : EarlierFull(r, n)' <=> EarlierFull(r, n) \/ (complete /\ n = round + 1)
    <2> TAKE n \in Nat \ {0}
    <2>1. \A j \in 1 .. (n - 1) : j \in Nat
      OBVIOUS
    <2>2. EarlierFull(r, n) <=> \A j \in 1 .. (n - 1) : ~(c[j] < q[j])
      BY <1>8, <2>1 DEF EarlierFull
    <2>3. EarlierFull(r, n)' <=> \A j \in 1 .. (n - 1) : ~(d[j] < q[j])
      BY <1>8, <2>1 DEF EarlierFull
    <2> QED
      BY <1>10, <1>13, <2>2, <2>3
  <1>15. /\ steps \in Seq(StepRow) /\ DOMAIN steps' = DOMAIN steps
         /\ \A k \in DOMAIN steps :
               /\ steps[k] \in StepRow /\ steps'[k].round = steps[k].round
               /\ steps'[k].status = IF complete /\ steps[k].round = round + 1 /\ steps[k].status = "WAITING"
                                     THEN "PENDING" ELSE steps[k].status
    <2>1. steps \in Seq(StepRow) /\ \A k \in DOMAIN steps : steps[k] \in StepRow
      <3>1. steps \in Seq(StepRow)
        BY DEF RequestTypeOK, StepRow
      <3> QED
        BY <3>1
    <2>2. CASE complete /\ HasDocument
      <3>1. steps' = ActivateRound(round + 1)
        BY <1>2, <2>2
      <3> QED
        BY <2>1, <2>2, <3>1 DEF ActivateRound, StepRow
    <2>3. CASE ~complete
      BY <1>2, <2>1, <2>3
    <2>4. CASE ~HasDocument
      BY <1>2, <2>1, <2>4 DEF StepsOfRounds
    <2> QED
      BY <2>2, <2>3, <2>4
  <1>16. ASSUME NEW k \in DOMAIN steps', steps'[k].round > 0
         PROVE  steps'[k].status = "PENDING" <=> EarlierFull(r, steps[k].round)'
    <2>1. PICK n \in Nat \ {0} : n = steps[k].round
      <3>1. k \in DOMAIN steps /\ steps[k] \in StepRow /\ steps[k].round > 0
        BY <1>15, <1>16
      <3>2. steps[k].round \in Nat
        BY <3>1 DEF StepRow
      <3> QED
        BY <3>1, <3>2
    <2>2. /\ k \in DOMAIN steps /\ n > 0 /\ steps'[k].round = n /\ steps[k].round = n
          /\ steps[k].status \in {"WAITING", "PENDING"}
      BY <1>15, <1>16, <2>1 DEF StepsOfRounds
    <2>3. steps[k].status = "PENDING" <=> EarlierFull(r, n)
      BY <2>2 DEF InRounds
    <2>4. steps'[k].status = "PENDING" <=> steps[k].status = "PENDING" \/ (complete /\ n = round + 1)
      BY <1>15, <2>2
    <2>5. EarlierFull(r, n)' <=> EarlierFull(r, n) \/ (complete /\ n = round + 1)
      BY <1>14
    <2>6. EarlierFull(r, steps[k].round)' <=> EarlierFull(r, n)'
      BY <2>2 DEF EarlierFull
    <2> HIDE DEF complete
    <2> QED
      BY <2>3, <2>4, <2>5, <2>6
  <1>17. \A n, m \in Nat \ {0} : n < m /\ Lacks(r, n)' => CountApproved(m)' = 0
    BY <1>5, <1>8, <1>13
  <1>18. \E n \in 1 .. max : Lacks(r, n)'
    <2>1. \A n \in 1 .. max : n \in Nat
      BY <1>1
    <2> QED
      BY <1>8, <1>13, <2>1
  <1>19. InRounds(r)'
    <2>1. \A k \in DOMAIN steps' : steps'[k].round > 0 => (steps'[k].status = "PENDING" <=> EarlierFull(r, steps[k].round)')
      BY <1>16
    <2>2. \E n \in 1 .. getMaxRounds(RuleOf(r))' : Lacks(r, n)'
      BY <1>7, <1>18
    <2> QED
      BY <1>17, <2>1, <2>2 DEF InRounds
  <1>20. StepsOfRounds'
    <2>1. HasDocument' <=> HasDocument
      BY <1>2 DEF HasDocument
    <2>2. ~HasDocument => steps' = <<>>
      BY <1>2 DEF StepsOfRounds
    <2>3. \A k \in DOMAIN steps' : steps'[k].round > 0 => steps'[k].status \in {"WAITING", "PENDING"}
      BY <1>15 DEF StepsOfRounds
    <2> QED
      BY <2>1, <2>2, <2>3 DEF StepsOfRounds
  <1> QED
    BY <1>19, <1>20


\* Calls that touch neither the approvals nor the steps of rounds change nothing.
LEMMA OtherStepsKeepRounds ==
    ASSUME RequestTypeOK, HandOverInv, UNCHANGED <<reqStatus, approvals, rules>>,
           HasDocument' <=> HasDocument, steps' # steps => HasDocument,
           \A k \in DOMAIN steps' : steps'[k].round > 0 => k \in DOMAIN steps /\ steps'[k].round = steps[k].round /\ steps'[k].status = steps[k].status
    PROVE  HandOverInv'
  <1>1. StepsOfRounds'
    BY DEF HandOverInv, StepsOfRounds
  <1>2. (OneRuleLeads' <=> OneRuleLeads) /\ \A r \in RuleIds \cup {NoRuleId} : JudgedBy(r)' <=> JudgedBy(r)
    BY DEF OneRuleLeads, JudgedBy, findApplicableRule, IsTop
  <1>3. ASSUME NEW r \in RuleIds \cup {NoRuleId}, InRounds(r) PROVE InRounds(r)'
    <2>1. \A n : /\ Lacks(r, n)' <=> Lacks(r, n)
                 /\ CountApproved(n)' = CountApproved(n)
                 /\ EarlierFull(r, n)' <=> EarlierFull(r, n)
      BY DEF Lacks, EarlierFull, CountApproved, RuleOf
    <2>2. getMaxRounds(RuleOf(r))' = getMaxRounds(RuleOf(r))
      BY DEF RuleOf
    <2>3. \A k \in DOMAIN steps' : steps'[k].round > 0 => (steps'[k].status = "PENDING" <=> EarlierFull(r, steps[k].round)')
      <3> SUFFICES ASSUME NEW k \in DOMAIN steps', steps'[k].round > 0
                   PROVE  steps'[k].status = "PENDING" <=> EarlierFull(r, steps[k].round)'
        OBVIOUS
      <3>1. PICK n : n = steps[k].round
        OBVIOUS
      <3>2. k \in DOMAIN steps /\ steps'[k].round = n /\ n > 0 /\ steps'[k].status = steps[k].status
        BY <3>1
      <3>3. steps[k].status = "PENDING" <=> EarlierFull(r, n)
        BY <1>3, <3>1, <3>2 DEF InRounds
      <3>4. EarlierFull(r, steps[k].round)' <=> EarlierFull(r, n)'
        BY <3>2 DEF EarlierFull
      <3> QED
        BY <2>1, <3>2, <3>3, <3>4
    <2>4. \E n \in 1 .. getMaxRounds(RuleOf(r))' : Lacks(r, n)'
      BY <1>3, <2>1, <2>2 DEF InRounds
    <2>5. \A n, m \in Nat \ {0} : n < m /\ Lacks(r, n)' => CountApproved(m)' = 0
      BY <1>3, <2>1 DEF InRounds
    <2> QED
      BY <2>3, <2>4, <2>5 DEF InRounds
  <1> QED
    BY <1>1, <1>2, <1>3 DEF HandOverInv

\* A request begins in the first round of every rule.
LEMMA CreateOpensFirstRound ==
    ASSUME RequestTypeOK, HandOverInv, NEW q \in RuleIds \cup {NoRuleId}, NEW p \in Payloads, createRequest(q, p)
    PROVE  HandOverInv'
  <1>1. /\ reqStatus = "NONE" /\ approvals = <<>> /\ ~HasDocument /\ steps = <<>>
        /\ UNCHANGED <<approvals, rules>>
    BY DEF createRequest, HandOverInv, StepsOfRounds
  <1>2. \A n : CountApproved(n)' = 0
    <2> TAKE n
    <2>1. {k \in DOMAIN approvals' : approvals'[k].round = n /\ approvals'[k].status = "APPROVED"} = {}
      BY <1>1
    <2> QED
      BY <2>1, FS_EmptySet DEF CountApproved
  <1>3. /\ reqStatus' # "NONE" /\ (~HasDocument' => steps' = <<>>)
        /\ \A k \in DOMAIN steps' : steps'[k].status = IF steps'[k].round = 1 THEN "PENDING" ELSE "WAITING"
    <2>1. CASE CreateAutoApproved(q, p)
      BY <1>1, <2>1 DEF CreateAutoApproved
    <2>2. CASE CreateWithoutDocument(q)
      BY <1>1, <2>2 DEF CreateWithoutDocument
    <2>3. CASE CreateWithDocument(q, p)
      <3>1. steps' = FirstSteps(RuleOf(q)) /\ HasDocument' /\ reqStatus' = "PENDING"
        BY <2>3 DEF CreateWithDocument, HasDocument
      <3>2. \A k \in DOMAIN FirstSteps(RuleOf(q)) :
                FirstSteps(RuleOf(q))[k].status = IF FirstSteps(RuleOf(q))[k].round = 1 THEN "PENDING" ELSE "WAITING"
        BY DEF FirstSteps
      <3> QED
        BY <3>1, <3>2
    <2> QED
      BY <2>1, <2>2, <2>3 DEF createRequest
  <1>4. StepsOfRounds'
    BY <1>3 DEF StepsOfRounds
  <1>5. ASSUME NEW r \in RuleIds \cup {NoRuleId} PROVE InRounds(r)'
    <2>1. getMaxRounds(RuleOf(r)) \in Nat \ {0} /\ \A n : roundRequiredCount(RuleOf(r), n) \in Nat \ {0}
      BY RuleOfType, RoundNumbers
    <2>2. RuleOf(r)' = RuleOf(r)
      BY <1>1 DEF RuleOf
    <2>3. \A n : Lacks(r, n)'
      <3>1. \A n : roundRequiredCount(RuleOf(r), n)' = roundRequiredCount(RuleOf(r), n)
        BY <2>2
      <3>2. \A n \in Nat \ {0} : 0 < n
        OBVIOUS
      <3> QED
        BY <1>2, <2>1, <3>1, <3>2 DEF Lacks
    <2>4. ASSUME NEW k \in DOMAIN steps', steps'[k].round > 0
          PROVE  steps'[k].status = "PENDING" <=> EarlierFull(r, steps[k].round)'
      <3>1. PICK n : n = steps'[k].round
        OBVIOUS
      <3>2. n \in Nat \ {0}
        <4>1. RequestTypeOK'
          BY CreateType
        <4>2. steps' \in Seq(StepRow)
          BY <4>1 DEF RequestTypeOK, StepRow
        <4>3. steps'[k] \in StepRow
          BY <4>2
        <4>4. steps'[k].round \in Nat
          BY <4>3 DEF StepRow
        <4> QED
          BY <2>4, <3>1, <4>4
      <3>3. EarlierFull(r, n)' <=> n = 1
        <4>1. CASE n = 1
          <5>1. 1 .. (n - 1) = {}
            BY <4>1
          <5> QED
            BY <4>1, <5>1 DEF EarlierFull
        <4>2. CASE n # 1
          <5>1. 1 \in 1 .. (n - 1)
            BY <3>2, <4>2
          <5> QED
            BY <2>3, <4>2, <5>1 DEF EarlierFull
        <4> QED
          BY <4>1, <4>2
      <3>4. EarlierFull(r, steps[k].round)' <=> EarlierFull(r, n)'
        BY <3>1 DEF EarlierFull
      <3> QED
        BY <1>3, <3>1, <3>3, <3>4
    <2>5. \E n \in 1 .. getMaxRounds(RuleOf(r))' : Lacks(r, n)'
      <3>1. 1 \in 1 .. getMaxRounds(RuleOf(r))'
        BY <2>1, <2>2
      <3> QED
        BY <2>3, <3>1
    <2>6. \A n, m \in Nat \ {0} : n < m /\ Lacks(r, n)' => CountApproved(m)' = 0
      BY <1>2
    <2> QED
      BY <2>4, <2>5, <2>6 DEF InRounds
  <1> QED
    BY <1>4, <1>5 DEF HandOverInv

LEMMA RoundsStep ==
    ASSUME RequestTypeOK, HandOverInv, [RNext]_rvars, rules' = rules
    PROVE  HandOverInv'
  <1>1. (OneRuleLeads' <=> OneRuleLeads) /\ \A r : findApplicableRule(r)' <=> findApplicableRule(r)
    BY DEF OneRuleLeads, findApplicableRule, IsTop
  <1>2. ASSUME reqStatus = "PENDING", reqStatus' \notin {"NONE", "PENDING"}, steps' = steps, HasDocument' <=> HasDocument
        PROVE  HandOverInv'
    BY <1>2 DEF HandOverInv, StepsOfRounds, JudgedBy
  <1>3. \A s \in RequestStatus \ {"NONE"} : SetStatus(s) => (HasDocument' <=> HasDocument) /\ reqStatus' = s
    BY DEF SetStatus, HasDocument
  <1>4. CASE RequesterNext
    <2>1. CASE \E r \in RuleIds \cup {NoRuleId}, p \in Payloads : createRequest(r, p)
      BY <2>1, CreateOpensFirstRound
    <2>2. CASE \E p \in Payloads : updateRequest(p)
      BY <2>2, OtherStepsKeepRounds DEF updateRequest, UpdateTx, HasDocument
    <2>3. CASE cancel
      BY <1>2, <1>3, <2>3 DEF cancel, CancelTx, assertRequestPending, RequestStatus
    <2>4. CASE recallDocument
      BY <2>4, OtherStepsKeepRounds DEF recallDocument, RecallTx, HasDocument
    <2>5. CASE \E e \in CcTargets : addViewer(e)
      <3>1. PICK e \in CcTargets : addViewer(e)
        BY <2>5
      <3> DEFINE row == [round |-> 0, assigneeId |-> e, status |-> "PENDING"]
      <3>2. steps \in Seq(StepRow) /\ row \in StepRow
        BY RequestConstants DEF RequestTypeOK, StepRow
      <3>3. /\ HasDocument /\ UNCHANGED <<reqStatus, approvals, rules, docStatus>>
            /\ steps' = Append(steps, row) /\ row.round = 0
        BY <3>1 DEF addViewer, HasDocument
      <3> HIDE DEF row
      <3>4. /\ DOMAIN steps = 1 .. Len(steps) /\ DOMAIN steps' = 1 .. (Len(steps) + 1) /\ Len(steps) \in Nat
            /\ \A k \in 1 .. Len(steps) : steps'[k] = steps[k]
            /\ steps'[Len(steps) + 1] = row
        BY <3>2, <3>3
      <3>5. \A k \in DOMAIN steps' : steps'[k].round > 0 => k \in DOMAIN steps /\ steps'[k] = steps[k]
        <4> TAKE k \in DOMAIN steps'
        <4>1. CASE k = Len(steps) + 1
          <5>1. ~(steps'[k].round > 0)
            BY <3>3, <3>4, <4>1
          <5> QED
            BY <5>1
        <4>2. CASE k # Len(steps) + 1
          BY <3>4, <4>2
        <4> QED
          BY <4>1, <4>2
      <3> QED
        BY <3>3, <3>5, OtherStepsKeepRounds DEF HasDocument
    <2>6. CASE \E k \in DOMAIN steps : viewDocument(k)
      <3>1. PICK j \in DOMAIN steps : viewDocument(j)
        BY <2>6
      <3>2. steps \in Seq(StepRow) /\ steps # <<>>
        BY <3>1 DEF RequestTypeOK, StepRow
      <3>3. /\ HasDocument /\ UNCHANGED <<reqStatus, approvals, rules, docStatus>>
            /\ DOMAIN steps' = DOMAIN steps /\ steps[j].round = 0
            /\ \A k \in DOMAIN steps : k # j => steps'[k] = steps[k]
        BY <3>1, <3>2 DEF viewDocument, HandOverInv, StepsOfRounds
      <3>4. ~(steps'[j].round > 0)
        <4>1. steps[j] \in StepRow
          BY <3>2
        <4>2. steps'[j].round = 0
          BY <3>1, <4>1 DEF viewDocument, StepRow
        <4> QED
          BY <4>2
      <3>5. \A k \in DOMAIN steps' : steps'[k].round > 0 => k \in DOMAIN steps /\ steps'[k] = steps[k]
        BY <3>3, <3>4
      <3> QED
        BY <3>3, <3>5, OtherStepsKeepRounds DEF HasDocument
    <2> QED
      BY <1>4, <2>1, <2>2, <2>3, <2>4, <2>5, <2>6 DEF RequesterNext
  <1>5. CASE \E e \in People : approve(e)
    <2>1. PICK e \in People : approve(e)
      BY <1>5
    <2>2. PICK r \in RuleIds \cup {NoRuleId} : \E round \in 1 .. getMaxRounds(RuleOf(r)) :
              /\ ApproveRound(e, r, round)
              /\ ApproveTx(e, round, RoundComplete(RuleOf(r), round), round >= getMaxRounds(RuleOf(r)))
      BY <2>1 DEF approve
    <2>3. PICK round \in 1 .. getMaxRounds(RuleOf(r)) :
              /\ ApproveRound(e, r, round)
              /\ ApproveTx(e, round, RoundComplete(RuleOf(r), round), round >= getMaxRounds(RuleOf(r)))
      BY <2>2
    <2>4. reqStatus = "PENDING" /\ JudgedBy(r)
      BY <2>1, <2>3 DEF approve, assertRequestPending, ApproveRound, JudgedBy
    <2>5. CASE reqStatus' # "PENDING"
      <3>1. FinalApproval
        BY <2>3, <2>4, <2>5 DEF ApproveTx
      <3> QED
        BY <1>2, <1>3, <2>4, <3>1 DEF FinalApproval, RequestStatus
    <2>6. CASE reqStatus' = "PENDING" /\ ~OneRuleLeads
      <3>1. /\ UNCHANGED docStatus
            /\ steps' = steps \/ steps' = ActivateRound(round + 1)
        BY <2>3, <2>6 DEF ApproveTx, FinalApproval, SetStatus
      <3>2. StepsOfRounds'
        <4>1. /\ reqStatus' # "NONE" /\ (HasDocument' <=> HasDocument)
              /\ (steps = <<>> => steps' = steps)
          BY <2>6, <3>1 DEF HasDocument, ActivateRound
        <4>2. \A k \in DOMAIN steps' :
                  /\ k \in DOMAIN steps /\ steps'[k].round = steps[k].round
                  /\ steps'[k].status \in {steps[k].status, "PENDING"}
          <5>1. steps \in Seq(StepRow)
            BY DEF RequestTypeOK, StepRow
          <5>2. \A k \in DOMAIN steps : steps[k] \in StepRow
            BY <5>1
          <5> QED
            BY <3>1, <5>2 DEF ActivateRound, StepRow
        <4> QED
          BY <4>1, <4>2 DEF HandOverInv, StepsOfRounds
      <3> QED
        BY <1>1, <2>6, <3>2 DEF HandOverInv
    <2>7. CASE reqStatus' = "PENDING" /\ OneRuleLeads
      <3>1. InRounds(r) /\ StepsOfRounds
        BY <2>4, <2>7 DEF HandOverInv
      <3>2. InRounds(r)' /\ StepsOfRounds'
        BY <2>3, <2>4, <2>7, <3>1, ApprovalHandsOver
      <3>3. \A s \in RuleIds \cup {NoRuleId} : JudgedBy(s)' => s = r
        BY <1>1, <2>4, <2>7 DEF OneRuleLeads, JudgedBy
      <3>4. ASSUME NEW s \in RuleIds \cup {NoRuleId}, JudgedBy(s)' PROVE InRounds(s)'
        BY <3>2, <3>3, <3>4
      <3> QED
        BY <3>2, <3>4 DEF HandOverInv
    <2> QED
      BY <2>5, <2>6, <2>7
  <1>6. CASE \E e \in People : reject(e) \/ forceApprove(e) \/ forceReject(e)
    <2>1. PICK e \in People : reject(e) \/ forceApprove(e) \/ forceReject(e)
      BY <1>6
    <2>2. reqStatus = "PENDING"
      BY <2>1 DEF reject, forceApprove, forceReject, ForceGuard, assertRequestPending
    <2>3. /\ SetStatus("REJECTED") \/ SetStatus("APPROVED")
          /\ steps' = steps
      BY <2>1 DEF reject, RejectTx, forceApprove, ForceApproveTx, FinalApproval, forceReject, ForceRejectTx
    <2> QED
      BY <1>2, <1>3, <2>2, <2>3 DEF RequestStatus
  <1>7. CASE (\E r \in RuleIds : RuleNext(r)) \/ UNCHANGED rvars
    <2>1. UNCHANGED <<reqStatus, approvals, rules, steps, docStatus>>
      BY <1>7 DEF RuleNext, deleteApprovalRule, saveApprovalRule, rvars
    <2> QED
      BY <2>1, OtherStepsKeepRounds DEF HasDocument
  <1> QED
    BY <1>4, <1>5, <1>6, <1>7 DEF RNext, ApproverNext

LEMMA RoundsInit == RInit => HandOverInv
  BY DEF RInit, HandOverInv, StepsOfRounds, HasDocument, JudgedBy

\* Under rules that stay, with one that leads, the steps of a round are open exactly
\* when the earlier rounds have their approvals (ActivateRound), and a pending
\* request lacks one (getCurrentRound, isRoundComplete).
THEOREM RoundCorrectness == RSpec => RoundsHandOver
  <1>1. ASSUME RequestTypeOK, HandOverInv, OneRuleLeads, [RNext]_rvars, rules = InitRules, (rules = InitRules)'
        PROVE  HandOverInv' /\ OneRuleLeads'
    <2>1. rules' = rules
      BY <1>1
    <2>2. OneRuleLeads'
      BY <1>1, <2>1 DEF OneRuleLeads, findApplicableRule, IsTop
    <2> QED
      BY <1>1, <2>1, <2>2, RoundsStep
  <1>2. RequestTypeOK /\ HandOverInv /\ OneRuleLeads => RoundsInOrder /\ PendingLacksApproval
    BY InRoundsSuffices
  <1>3. RSpec /\ RulesStand /\ OneRuleLeads => [](HandOverInv /\ OneRuleLeads)
    BY <1>1, RoundsInit, RequestTypeCorrectness, PTL DEF RSpec, RulesStand
  <1>4. RSpec => []RequestTypeOK
    BY RequestTypeCorrectness
  <1> QED
    BY <1>2, <1>3, <1>4, PTL DEF RoundsHandOver

=============================================================================
