------------------------ MODULE RequestSessions_proofs ------------------------
(***************************************************************************)
(* Proofs, for every set of callers, calls in flight, rules and payloads,  *)
(* that overlapping calls on a request keep it together with its document  *)
(* and never approve it before its rounds are complete.                    *)
(***************************************************************************)
EXTENDS RequestSessions, HRRequests_proofs

-----------------------------------------------------------------------------
(* The inductive invariant.                                                *)

CallOps == {"idle", "approve", "reject", "forceApprove", "forceReject", "cancel", "update", "recall"}

CallRecord == [op : CallOps, decided : BOOLEAN, round : Nat, complete : BOOLEAN, last : BOOLEAN,
               payload : Payloads \cup {NoOne}]

\* Calls are records of their type, and an edit carries what it writes.
CallsTyped ==
    /\ call \in [Sessions -> CallRecord]
    /\ \A s \in Sessions : call[s].op = "update" => call[s].payload \in Payloads

\* Before createRequest there is nothing to call anything on, and on a request
\* that createRequest approved by itself no call passes its first check.
NothingBeforeCreate ==
    /\ reqStatus = "NONE" => approvals = <<>>
    /\ (reqStatus = "NONE" \/ (reqStatus = "APPROVED" /\ approvals = <<>>))
          => docStatus = "NONE" /\ \A s \in Sessions : call[s] = Free

\* Round n is complete once the call of the given round has committed its approval.
CompleteWith(round, rule, n) ==
    roundRequiredCount(rule, n) <= IF n = round THEN CountApproved(n) + 1 ELSE CountApproved(n)

\* A call that will close the request knows that, with its own approval, every
\* round of a rule in force is complete.  Approvals are only ever added, so what
\* it read stays true while other calls commit.
CallKnows(c) ==
    (c.op = "approve" /\ c.decided /\ c.complete /\ c.last)
    => \E r \in RuleIds \cup {NoRuleId} :
          /\ findApplicableRule(r)
          /\ \A n \in 1 .. getMaxRounds(RuleOf(r)) : CompleteWith(c.round, RuleOf(r), n)

ClosersKnow == \A s \in Sessions : CallKnows(call[s])

\* A recall has seen a document, and documents stay.
RecallsHaveDocument == \A s \in Sessions : call[s].op = "recall" => HasDocument

CInv ==
    /\ RequestTypeOK
    /\ CallsTyped
    /\ NothingBeforeCreate
    /\ ClosersKnow
    /\ RecallsHaveDocument
    /\ WritesStayTogether
    /\ RacesNeverApproveEarly

-----------------------------------------------------------------------------
(* Facts about the rules in force and the approvals.                       *)

\* No handler in this module changes a rule, so its rounds mean the same later.
LEMMA RulesKeepMeaning ==
    ASSUME rules' = rules, NEW r
    PROVE  /\ RuleOf(r)' = RuleOf(r)
           /\ findApplicableRule(r)' <=> findApplicableRule(r)
  BY DEF RuleOf, findApplicableRule, IsTop

\* The numbers of a round can be compared.
LEMMA RoundTypes ==
    ASSUME RequestTypeOK, NEW r \in RuleIds \cup {NoRuleId}
    PROVE  \A n : roundRequiredCount(RuleOf(r), n) \in Nat
  BY RuleOfType, RoundNumbers

LEMMA CountType ==
    ASSUME RequestTypeOK, NEW n
    PROVE  CountApproved(n) \in Nat
  <1> DEFINE S == {k \in DOMAIN approvals : approvals[k].round = n /\ approvals[k].status = "APPROVED"}
  <1>1. Len(approvals) \in Int /\ S \in SUBSET (1 .. Len(approvals))
    BY DEF RequestTypeOK
  <1>2. IsFiniteSet(1 .. Len(approvals))
    BY <1>1, FS_Interval
  <1>3. IsFiniteSet(S)
    BY <1>1, <1>2, FS_Subset
  <1> QED
    BY <1>3, FS_CardinalityType DEF CountApproved

\* A record of whatever kind takes no approval away, and leaves the records
\* there were where they were.
LEMMA RecordsOnlyGrow ==
    ASSUME RequestTypeOK, NEW round \in Nat, NEW e \in People,
           NEW x \in {"APPROVED", "REJECTED", "FORCE_APPROVED", "FORCE_REJECTED"},
           Record(round, e, x)
    PROVE  /\ \A n : /\ CountApproved(n)' \in Nat /\ CountApproved(n) <= CountApproved(n)'
                     /\ (x = "APPROVED" /\ n = round) => CountApproved(n) + 1 <= CountApproved(n)'
           /\ \A k \in DOMAIN approvals : k \in DOMAIN approvals' /\ approvals'[k] = approvals[k]
           /\ \E k \in DOMAIN approvals' : approvals'[k].status = x
           /\ approvals' # <<>>
  <1> DEFINE row == [round |-> round, approverId |-> e, status |-> x]
             l == Len(approvals)
  <1>1. approvals \in Seq(ApprovalRow) /\ row \in ApprovalRow
    BY DEF RequestTypeOK, ApprovalRow
  <1>2. /\ l \in Nat
        /\ DOMAIN approvals = 1 .. l
        /\ DOMAIN approvals' = 1 .. (l + 1)
        /\ \A k \in 1 .. l : approvals'[k] = approvals[k]
        /\ approvals'[l + 1] = row
        /\ approvals' # <<>>
    BY <1>1 DEF Record
  <1>3. \A k \in DOMAIN approvals : k \in DOMAIN approvals' /\ approvals'[k] = approvals[k]
    BY <1>2
  <1>4. l + 1 \in DOMAIN approvals' /\ approvals'[l + 1].status = x
    BY <1>2
  <1>5. ASSUME NEW n
        PROVE  /\ CountApproved(n)' \in Nat /\ CountApproved(n) <= CountApproved(n)'
               /\ (x = "APPROVED" /\ n = round) => CountApproved(n) + 1 <= CountApproved(n)'
    <2>1. CASE x = "APPROVED"
      BY <2>1, CountAfterApproval
    <2>2. CASE x # "APPROVED"
      <3> DEFINE Before == {k \in DOMAIN approvals : approvals[k].round = n /\ approvals[k].status = "APPROVED"}
                 After == {k \in DOMAIN approvals' : approvals'[k].round = n /\ approvals'[k].status = "APPROVED"}
      <3>1. After = Before
        BY <1>2, <2>2
      <3>2. CountApproved(n)' = CountApproved(n)
        BY <3>1 DEF CountApproved
      <3>3. CountApproved(n) \in Nat
        BY CountType
      <3> QED
        BY <2>2, <3>2, <3>3
    <2> QED
      BY <2>1, <2>2
  <1> QED
    BY <1>2, <1>3, <1>4, <1>5

\* What a call knows about a rule's rounds outlives the records of other calls.
LEMMA KnowledgeLasts ==
    ASSUME RequestTypeOK, rules' = rules, NEW c, CallKnows(c),
           \A n : CountApproved(n)' \in Nat /\ CountApproved(n) <= CountApproved(n)'
    PROVE  CallKnows(c)'
  <1> SUFFICES ASSUME c.op = "approve" /\ c.decided /\ c.complete /\ c.last
               PROVE  \E r \in RuleIds \cup {NoRuleId} :
                         /\ findApplicableRule(r)'
                         /\ \A n \in 1 .. getMaxRounds(RuleOf(r))' : CompleteWith(c.round, RuleOf(r), n)'
    BY DEF CallKnows
  <1>1. PICK r \in RuleIds \cup {NoRuleId} :
          /\ findApplicableRule(r)
          /\ \A n \in 1 .. getMaxRounds(RuleOf(r)) : CompleteWith(c.round, RuleOf(r), n)
    BY DEF CallKnows
  <1>2. RuleOf(r)' = RuleOf(r) /\ findApplicableRule(r)'
    BY <1>1, RulesKeepMeaning
  <1>3. ASSUME NEW n \in 1 .. getMaxRounds(RuleOf(r))
        PROVE  CompleteWith(c.round, RuleOf(r), n)'
    <2>1. roundRequiredCount(RuleOf(r), n) \in Nat /\ CountApproved(n) \in Nat
      BY RoundTypes, CountType
    <2>2. CountApproved(n)' \in Nat /\ CountApproved(n) <= CountApproved(n)'
      OBVIOUS
    <2>3. roundRequiredCount(RuleOf(r), n) <= IF n = c.round THEN CountApproved(n) + 1 ELSE CountApproved(n)
      BY <1>1 DEF CompleteWith
    <2>4. roundRequiredCount(RuleOf(r), n) <= IF n = c.round THEN CountApproved(n)' + 1 ELSE CountApproved(n)'
      BY <2>1, <2>2, <2>3
    <2> QED
      BY <1>2, <2>4 DEF CompleteWith
  <1> QED
    BY <1>1, <1>2, <1>3

-----------------------------------------------------------------------------
(* Types.                                                                  *)

LEMMA CallTypes ==
    ASSUME CallsTyped, NEW s \in Sessions
    PROVE  /\ call[s] \in CallRecord /\ call[s].op \in CallOps /\ call[s].round \in Nat
           /\ call[s].decided \in BOOLEAN /\ call[s].complete \in BOOLEAN /\ call[s].last \in BOOLEAN
           /\ call[s].op = "update" => call[s].payload \in Payloads
  BY DEF CallsTyped, CallRecord

LEMMA FreeTyped == Free \in CallRecord /\ Free.op = "idle" /\ Free.decided = FALSE
  BY DEF Free, CallRecord, CallOps

LEMMA CallOpTyped ==
    ASSUME NEW op \in CallOps
    PROVE  Call(op) \in CallRecord /\ Call(op).op = op /\ Call(op).decided = FALSE
  BY FreeTyped DEF Call, Free, CallRecord

\* Every transaction leaves columns of the right types, whatever the status it
\* finds: the checks before it play no part in this.
LEMMA CommitTypes ==
    ASSUME RequestTypeOK, CallsTyped, NEW s \in Sessions, Commit(s)
    PROVE  RequestTypeOK'
  <1> DEFINE c == call[s]
             e == Owner[s]
  <1>0. e \in People /\ c.round \in Nat /\ (c.op = "update" => c.payload \in Payloads)
    BY CallTypes, RequestSessionConstants
  <1>1. \A x \in RequestStatus : SetStatus(x) =>
            reqStatus' \in RequestStatus /\ docStatus' \in RequestStatus \cup {"RECALLED"}
    BY DEF SetStatus, RequestTypeOK
  <1>2. FinalApproval => /\ reqStatus' \in RequestStatus /\ docStatus' \in RequestStatus \cup {"RECALLED"}
                         /\ applied' \in Seq(Payloads) /\ steps' = steps
    BY <1>1 DEF FinalApproval, RequestTypeOK, RequestStatus
  <1>3. CASE ApproveTx(e, c.round, c.complete, c.last)
    <2>1. approvals' \in Seq(ApprovalRow)
      BY <1>0, <1>3, RecordType DEF ApproveTx
    <2>2. /\ reqStatus' \in RequestStatus /\ docStatus' \in RequestStatus \cup {"RECALLED"}
          /\ applied' \in Seq(Payloads) /\ steps' \in Seq(StepRow)
      BY <1>2, <1>3, ActivateRoundType DEF ApproveTx, RequestTypeOK, StepRow
    <2>3. UNCHANGED <<payload, ruleId, content, rules>>
      BY <1>3 DEF ApproveTx
    <2> QED
      BY <2>1, <2>2, <2>3 DEF RequestTypeOK, ApprovalRow, StepRow
  <1>4. CASE RejectTx(e, c.round)
    <2>1. approvals' \in Seq(ApprovalRow)
      BY <1>0, <1>4, RecordType DEF RejectTx
    <2>2. reqStatus' \in RequestStatus /\ docStatus' \in RequestStatus \cup {"RECALLED"}
      BY <1>1, <1>4 DEF RejectTx, RequestStatus
    <2>3. UNCHANGED <<payload, ruleId, applied, content, steps, rules>>
      BY <1>4 DEF RejectTx
    <2> QED
      BY <2>1, <2>2, <2>3 DEF RequestTypeOK, ApprovalRow
  <1>5. CASE ForceApproveTx(e)
    <2>1. approvals' \in Seq(ApprovalRow)
      BY <1>0, <1>5, RecordType DEF ForceApproveTx
    <2> QED
      BY <1>2, <1>5, <2>1 DEF ForceApproveTx, RequestTypeOK, ApprovalRow
  <1>6. CASE ForceRejectTx(e)
    <2>1. approvals' \in Seq(ApprovalRow)
      BY <1>0, <1>6, RecordType DEF ForceRejectTx
    <2>2. reqStatus' \in RequestStatus /\ docStatus' \in RequestStatus \cup {"RECALLED"}
      BY <1>1, <1>6 DEF ForceRejectTx, RequestStatus
    <2> QED
      BY <1>6, <2>1, <2>2 DEF ForceRejectTx, RequestTypeOK, ApprovalRow
  <1>7. CASE CancelTx
    BY <1>7 DEF CancelTx, SetStatus, RequestTypeOK, RequestStatus
  <1>8. CASE c.op = "update" /\ UpdateTx(c.payload)
    BY <1>0, <1>8 DEF UpdateTx, RequestTypeOK
  <1>9. CASE RecallTx
    BY <1>9 DEF RecallTx, RequestTypeOK
  <1> QED
    BY <1>3, <1>4, <1>5, <1>6, <1>7, <1>8, <1>9 DEF Commit

-----------------------------------------------------------------------------
(* The steps keep the invariant.                                           *)

LEMMA CInvInit == CInit => CInv
  <1> SUFFICES ASSUME CInit PROVE CInv
    OBVIOUS
  <1>1. RequestTypeOK
    BY TypeInit DEF CInit
  <1>2. CallsTyped
    BY FreeTyped DEF CInit, CallsTyped
  <1>3. \A s \in Sessions : call[s] = Free
    BY DEF CInit
  <1>4. ClosersKnow
    BY <1>3, FreeTyped DEF ClosersKnow, CallKnows
  <1>5. RecallsHaveDocument
    BY <1>3, FreeTyped DEF RecallsHaveDocument
  <1> QED
    BY <1>1, <1>2, <1>3, <1>4, <1>5
    DEF CInv, CInit, RInit, NothingBeforeCreate, WritesStayTogether, RacesNeverApproveEarly, HasDocument

\* createRequest writes request, document and, with an automatic rule, the effect.
LEMMA CreationKeepsCInv ==
    ASSUME CInv, Creation
    PROVE  CInv'
  <1>1. PICK r \in RuleIds \cup {NoRuleId}, p \in Payloads : createRequest(r, p) /\ UNCHANGED call
    BY DEF Creation
  <1>2. RequestTypeOK'
    BY <1>1, CreateType DEF CInv
  <1>3. /\ reqStatus = "NONE" /\ approvals = <<>> /\ approvals' = approvals /\ rules' = rules
        /\ payload' = p /\ \A s \in Sessions : call[s] = Free
    BY <1>1 DEF createRequest, CInv, NothingBeforeCreate
  <1>4. docStatus = "NONE"
    BY <1>3 DEF CInv, NothingBeforeCreate
  <1>5. reqStatus' \in {"PENDING", "APPROVED"}
    BY <1>1 DEF createRequest, CreateAutoApproved, CreateWithoutDocument, CreateWithDocument
  <1>6. WritesStayTogether'
    <2>1. CASE CreateAutoApproved(r, p)
      BY <1>4, <2>1 DEF CreateAutoApproved, WritesStayTogether, HasDocument
    <2>2. CASE CreateWithoutDocument(r)
      BY <1>4, <2>2 DEF CreateWithoutDocument, WritesStayTogether, HasDocument
    <2>3. CASE CreateWithDocument(r, p)
      BY <1>3, <2>3 DEF CreateWithDocument, WritesStayTogether, HasDocument
    <2> QED
      BY <1>1, <2>1, <2>2, <2>3 DEF createRequest
  <1>7. ClosersKnow'
    BY <1>1, <1>3, FreeTyped DEF ClosersKnow, CallKnows
  <1>8. CallsTyped' /\ RacesNeverApproveEarly'
    BY <1>1, <1>3, <1>5 DEF CInv, CallsTyped, RacesNeverApproveEarly
  <1>9. NothingBeforeCreate'
    <2>1. reqStatus' = "APPROVED" => docStatus' = docStatus
      BY <1>1 DEF createRequest, CreateAutoApproved, CreateWithoutDocument, CreateWithDocument
    <2> QED
      BY <1>1, <1>3, <1>4, <1>5, <2>1 DEF NothingBeforeCreate
  <1>10. RecallsHaveDocument'
    BY <1>1, <1>3, FreeTyped DEF RecallsHaveDocument
  <1> QED
    BY <1>2, <1>6, <1>7, <1>8, <1>9, <1>10 DEF CInv

\* Viewers change nothing but their own rows.
LEMMA ViewingKeepsCInv ==
    ASSUME CInv, Viewing
    PROVE  CInv'
  <1>1. UNCHANGED <<reqStatus, payload, ruleId, approvals, applied, docStatus, content, rules, call>>
    BY DEF Viewing, addViewer, viewDocument
  <1>2. RequestTypeOK'
    BY ViewerType, ViewType DEF Viewing, CInv
  <1>3. \A r : RuleOf(r)' = RuleOf(r) /\ (findApplicableRule(r)' <=> findApplicableRule(r))
    BY <1>1, RulesKeepMeaning
  <1>4. \A n : CountApproved(n)' = CountApproved(n)
    BY <1>1 DEF CountApproved
  <1>5. \A c : CallKnows(c)' <=> CallKnows(c)
    BY <1>3, <1>4 DEF CallKnows, CompleteWith
  <1>6. ClosersKnow'
    <2>1. \A t \in Sessions : CallKnows(call'[t])
      BY <1>1 DEF CInv, ClosersKnow
    <2>2. \A t \in Sessions : CallKnows(call[t])'
      BY <1>5, <2>1
    <2> QED
      BY <2>2 DEF ClosersKnow
  <1>7. CallsTyped' /\ NothingBeforeCreate' /\ RecallsHaveDocument' /\ WritesStayTogether'
    BY <1>1 DEF CInv, CallsTyped, NothingBeforeCreate, RecallsHaveDocument, WritesStayTogether, HasDocument
  <1>8. RacesNeverApproveEarly'
    BY <1>1, <1>3, <1>4 DEF CInv, RacesNeverApproveEarly
  <1> QED
    BY <1>2, <1>6, <1>7, <1>8 DEF CInv

\* Steps that only change a call.
LEMMA SameRequestKeeps ==
    ASSUME CInv, UNCHANGED rvars
    PROVE  /\ RequestTypeOK' /\ WritesStayTogether' /\ RacesNeverApproveEarly'
           /\ \A c : CallKnows(c)' <=> CallKnows(c)
  <1>1. /\ reqStatus' = reqStatus /\ payload' = payload /\ ruleId' = ruleId /\ approvals' = approvals
        /\ applied' = applied /\ docStatus' = docStatus /\ content' = content /\ steps' = steps
        /\ rules' = rules
    BY DEF rvars
  <1>2. \A r : RuleOf(r)' = RuleOf(r) /\ (findApplicableRule(r)' <=> findApplicableRule(r))
    BY <1>1, RulesKeepMeaning
  <1>3. \A n : CountApproved(n)' = CountApproved(n)
    BY <1>1 DEF CountApproved
  <1> QED
    BY <1>1, <1>2, <1>3
    DEF CInv, RequestTypeOK, WritesStayTogether, HasDocument, RacesNeverApproveEarly, CallKnows, CompleteWith

LEMMA LoadKeepsCInv ==
    ASSUME CInv, NEW s \in Sessions, Load(s)
    PROVE  CInv'
  <1>1. UNCHANGED rvars /\ call[s] = Free
    BY DEF Load
  <1>2. PICK c \in Admitted(Owner[s]) : call' = [call EXCEPT ![s] = c]
    BY DEF Load
  <1>3. /\ c \in CallRecord /\ c.decided = FALSE /\ (c.op = "update" => c.payload \in Payloads)
    <2>1. \/ \E op \in {"approve", "reject", "forceApprove", "forceReject", "cancel", "recall"} : c = Call(op)
          \/ \E p \in Payloads : c = [Call("update") EXCEPT !.payload = p]
      BY <1>2, Zenon DEF Admitted
    <2>2. CASE \E op \in {"approve", "reject", "forceApprove", "forceReject", "cancel", "recall"} : c = Call(op)
      BY <2>2, CallOpTyped DEF CallOps
    <2>3. CASE \E p \in Payloads : c = [Call("update") EXCEPT !.payload = p]
      BY <2>3, CallOpTyped DEF CallOps, CallRecord
    <2> QED
      BY <2>1, <2>2, <2>3
  <1>3a. reqStatus = "PENDING" \/ docStatus # "NONE"
    BY <1>2 DEF Admitted, assertRequestPending, ForceGuard
  <1>4. \A t \in Sessions : call'[t] = IF t = s THEN c ELSE call[t]
    BY <1>2 DEF CInv, CallsTyped
  <1>5. CallsTyped'
    BY <1>2, <1>3, <1>4 DEF CInv, CallsTyped
  <1>6. NothingBeforeCreate'
    BY <1>1, <1>3a DEF CInv, rvars, NothingBeforeCreate
  <1>7. ClosersKnow'
    <2>1. CallKnows(c)
      BY <1>3 DEF CallKnows
    <2>2. \A t \in Sessions : CallKnows(call'[t])
      BY <1>4, <2>1 DEF CInv, ClosersKnow
    <2>3. \A t \in Sessions : CallKnows(call[t])'
      BY <1>1, <2>2, SameRequestKeeps
    <2> QED
      BY <2>3 DEF ClosersKnow
  <1>8. RecallsHaveDocument'
    <2>1. c.op = "recall" => HasDocument
      <3>1. ASSUME NEW op \in CallOps PROVE Call(op).op = op
        BY CallOpTyped
      <3>2. \A q \in Payloads : [Call("update") EXCEPT !.payload = q].op = "update"
        BY CallOpTyped DEF CallOps, CallRecord
      <3> QED
        BY <1>2, <3>1, <3>2 DEF Admitted, HasDocument, CallOps
    <2>2. docStatus' = docStatus
      BY <1>1 DEF rvars
    <2> QED
      BY <1>4, <2>1, <2>2 DEF CInv, RecallsHaveDocument, HasDocument
  <1> QED
    BY <1>1, <1>5, <1>6, <1>7, <1>8, SameRequestKeeps DEF CInv

\* The transaction of approve reads the round that lacks approvals: every round
\* before it is complete, and with the caller's approval it is, if isRoundComplete.
LEMMA DecisionKnows ==
    ASSUME RequestTypeOK, NEW r \in RuleIds \cup {NoRuleId}, NEW round \in 1 .. getMaxRounds(RuleOf(r)),
           getCurrentRound(RuleOf(r), round), RoundComplete(RuleOf(r), round),
           round >= getMaxRounds(RuleOf(r))
    PROVE  \A n \in 1 .. getMaxRounds(RuleOf(r)) : CompleteWith(round, RuleOf(r), n)
  <1> DEFINE max == getMaxRounds(RuleOf(r))
             required(n) == roundRequiredCount(RuleOf(r), n)
             lacking == {n \in 1 .. max : CountApproved(n) < required(n)}
  <1>1. max \in Nat /\ \A n : required(n) \in Nat
    BY RuleOfType, RoundNumbers
  <1>2. round \in Nat /\ round = max
    BY <1>1
  <1>3. \A n : CountApproved(n) \in Nat
    BY CountType
  <1>4. \A n \in lacking : round <= n
    BY DEF getCurrentRound
  <1>5. CountApproved(round) + 1 >= required(round)
    BY DEF RoundComplete
  <1> SUFFICES ASSUME NEW n \in 1 .. max PROVE CompleteWith(round, RuleOf(r), n)
    OBVIOUS
  <1>6. CASE n = round
    BY <1>1, <1>3, <1>5, <1>6 DEF CompleteWith
  <1>7. CASE n # round
    <2>1. n \notin lacking
      BY <1>1, <1>2, <1>4, <1>7
    <2>2. required(n) <= CountApproved(n)
      BY <1>1, <1>3, <2>1
    <2> QED
      BY <1>7, <2>2 DEF CompleteWith
  <1> QED
    BY <1>6, <1>7

LEMMA DecideKeepsCInv ==
    ASSUME CInv, NEW s \in Sessions, Decide(s)
    PROVE  CInv'
  <1>0. RequestTypeOK /\ UNCHANGED rvars /\ reqStatus' = reqStatus /\ approvals' = approvals
    BY DEF Decide, CInv, rvars
  <1>1. PICK r \in RuleIds \cup {NoRuleId} : \E round \in 1 .. getMaxRounds(RuleOf(r)) :
          /\ findApplicableRule(r)
          /\ getCurrentRound(RuleOf(r), round)
          /\ call' = [call EXCEPT ![s] =
                IF call[s].op = "approve" /\ AlreadyApproved(Owner[s], round) THEN Free
                ELSE [@ EXCEPT !.decided = TRUE, !.round = round,
                               !.complete = RoundComplete(RuleOf(r), round),
                               !.last = round >= getMaxRounds(RuleOf(r))]]
    BY DEF Decide
  <1>2. PICK round \in 1 .. getMaxRounds(RuleOf(r)) :
          /\ findApplicableRule(r)
          /\ getCurrentRound(RuleOf(r), round)
          /\ call' = [call EXCEPT ![s] =
                IF call[s].op = "approve" /\ AlreadyApproved(Owner[s], round) THEN Free
                ELSE [call[s] EXCEPT !.decided = TRUE, !.round = round,
                               !.complete = RoundComplete(RuleOf(r), round),
                               !.last = round >= getMaxRounds(RuleOf(r))]]
    BY <1>1
  <1> DEFINE full == RoundComplete(RuleOf(r), round)
             final == round >= getMaxRounds(RuleOf(r))
             known == [call[s] EXCEPT !.decided = TRUE, !.round = round, !.complete = full, !.last = final]
             c == IF call[s].op = "approve" /\ AlreadyApproved(Owner[s], round) THEN Free ELSE known
  <1>3. round \in Nat /\ full \in BOOLEAN /\ final \in BOOLEAN
    <2>1. round \in Nat
      BY <1>0, RoundType
    <2>2. full \in BOOLEAN
      BY DEF RoundComplete
    <2> QED
      BY <2>1, <2>2
  <1>4. (full /\ final) => \A n \in 1 .. getMaxRounds(RuleOf(r)) : CompleteWith(round, RuleOf(r), n)
    BY <1>0, <1>2, DecisionKnows
  <1>5. \A t \in Sessions : call'[t] = IF t = s THEN c ELSE call[t]
    BY <1>2 DEF CInv, CallsTyped
  <1>5a. call' = [call EXCEPT ![s] = c]
    BY <1>2
  <1> HIDE DEF full, final
  <1>6. /\ known \in CallRecord /\ known.op = call[s].op /\ known.payload = call[s].payload
        /\ known.round = round /\ known.complete = full /\ known.last = final
    BY <1>3, CallTypes DEF CallRecord, CInv
  <1> HIDE DEF known
  <1>7. CallKnows(known)
    BY <1>2, <1>3, <1>4, <1>6 DEF CallKnows
  <1>8. CallKnows(Free)
    BY FreeTyped DEF CallKnows
  <1>9. c \in CallRecord /\ CallKnows(c) /\ (c.op = "update" => c.payload \in Payloads)
    <2>1. CASE c = Free
      BY <1>8, <2>1, FreeTyped
    <2>2. CASE c = known
      BY <1>6, <1>7, <2>2, CallTypes DEF CInv
    <2> QED
      BY <2>1, <2>2
  <1>10. call[s] # Free
    BY FreeTyped DEF Decide
  <1> HIDE DEF c
  <1>11. CallsTyped'
    BY <1>5, <1>5a, <1>9 DEF CInv, CallsTyped
  <1>12. NothingBeforeCreate'
    BY <1>0, <1>10 DEF CInv, NothingBeforeCreate
  <1>13. ClosersKnow'
    <2>1. \A t \in Sessions : CallKnows(call'[t])
      BY <1>5, <1>9 DEF CInv, ClosersKnow
    <2>2. \A t \in Sessions : CallKnows(call[t])'
      BY <1>0, <2>1, SameRequestKeeps
    <2> QED
      BY <2>2 DEF ClosersKnow
  <1>14. RecallsHaveDocument'
    <2>1. c.op = "recall" => call[s].op = "recall"
      BY <1>6, FreeTyped DEF c
    <2>2. docStatus' = docStatus
      BY <1>0 DEF rvars
    <2> QED
      BY <1>5, <2>1, <2>2 DEF CInv, RecallsHaveDocument, HasDocument
  <1> QED
    BY <1>0, <1>11, <1>12, <1>13, <1>14, SameRequestKeeps DEF CInv

\* Records are all a commit can do to the approvals, and none of them changes a rule.
LEMMA CommitRecords ==
    ASSUME CInv, NEW s \in Sessions, Commit(s)
    PROVE  /\ rules' = rules
           /\ \A n : /\ CountApproved(n) \in Nat /\ CountApproved(n)' \in Nat
                     /\ CountApproved(n) <= CountApproved(n)'
           /\ \A k \in DOMAIN approvals : k \in DOMAIN approvals' /\ approvals'[k] = approvals[k]
           /\ approvals # <<>> => approvals' # <<>>
  <1> DEFINE c == call[s]
             e == Owner[s]
  <1>0. RequestTypeOK /\ e \in People /\ c.round \in Nat /\ 0 \in Nat
    BY CallTypes, RequestSessionConstants DEF CInv
  <1>1. \A n : CountApproved(n) \in Nat
    BY <1>0, CountType
  <1>2. rules' = rules
    BY DEF Commit, ApproveTx, RejectTx, ForceApproveTx, ForceRejectTx, CancelTx, UpdateTx, RecallTx
  <1>3. CASE approvals' = approvals
    <2>1. \A n : CountApproved(n)' = CountApproved(n)
      BY <1>3 DEF CountApproved
    <2>2. \A n : CountApproved(n) <= CountApproved(n)
      BY <1>1
    <2> QED
      BY <1>1, <1>2, <1>3, <2>1, <2>2
  <1>4. CASE \E round \in Nat, x \in {"APPROVED", "REJECTED", "FORCE_APPROVED", "FORCE_REJECTED"} :
                Record(round, e, x)
    BY <1>0, <1>1, <1>2, <1>4, RecordsOnlyGrow
  <1>5. \/ approvals' = approvals
        \/ \E round \in Nat, x \in {"APPROVED", "REJECTED", "FORCE_APPROVED", "FORCE_REJECTED"} :
              Record(round, e, x)
    BY <1>0 DEF Commit, ApproveTx, RejectTx, ForceApproveTx, ForceRejectTx, CancelTx, UpdateTx, RecallTx
  <1> QED
    BY <1>3, <1>4, <1>5

\* Status and document are written together, content and payload are, and a
\* request is approved together with its effect.
LEMMA CommitWritesTogether ==
    ASSUME CInv, NEW s \in Sessions, Commit(s)
    PROVE  WritesStayTogether'
  <1> DEFINE c == call[s]
             e == Owner[s]
  <1>0. reqStatus # "NONE"
    BY FreeTyped DEF CInv, NothingBeforeCreate, Commit
  <1>1. WritesStayTogether /\ applied \in Seq(Payloads) /\ payload \in Payloads
    BY DEF CInv, RequestTypeOK
  <1>2. ASSUME NEW x \in {"REJECTED", "CANCELLED"}, SetStatus(x), UNCHANGED <<payload, content>>
        PROVE  WritesStayTogether'
    BY <1>1, <1>2 DEF SetStatus, WritesStayTogether, HasDocument
  <1>3. ASSUME FinalApproval, UNCHANGED <<payload, content>>
        PROVE  WritesStayTogether'
    <2>1. Append(applied, payload) # <<>>
      <3>1. DOMAIN Append(applied, payload) = 1 .. (Len(applied) + 1) /\ Len(applied) \in Nat
        BY <1>1
      <3>2. 1 \in DOMAIN Append(applied, payload)
        BY <3>1
      <3> QED
        BY <3>2
    <2> QED
      BY <1>1, <1>3, <2>1 DEF FinalApproval, SetStatus, WritesStayTogether, HasDocument
  <1>4. CASE ApproveTx(e, c.round, c.complete, c.last)
    <2>1. UNCHANGED <<payload, content>> /\ (FinalApproval \/ UNCHANGED <<reqStatus, docStatus, applied>>)
      BY <1>4 DEF ApproveTx
    <2> QED
      BY <1>1, <1>3, <2>1 DEF WritesStayTogether, HasDocument
  <1>5. CASE RejectTx(e, c.round) \/ ForceRejectTx(e) \/ CancelTx
    BY <1>2, <1>5 DEF RejectTx, ForceRejectTx, CancelTx
  <1>6. CASE ForceApproveTx(e)
    BY <1>3, <1>6 DEF ForceApproveTx
  <1>7. CASE UpdateTx(c.payload)
    BY <1>1, <1>7 DEF UpdateTx, WritesStayTogether, HasDocument
  <1>8. CASE c.op = "recall" /\ RecallTx
    <2>1. HasDocument
      BY <1>8, FreeTyped DEF CInv, RecallsHaveDocument
    <2> QED
      BY <1>1, <1>8, <2>1 DEF RecallTx, WritesStayTogether, HasDocument
  <1> QED
    BY <1>4, <1>5, <1>6, <1>7, <1>8 DEF Commit

\* A commit that approves the request unforced is that of a call that knows of
\* the rounds; one that finds it approved can only add to them.
LEMMA CommitNeverEarly ==
    ASSUME CInv, NEW s \in Sessions, Commit(s)
    PROVE  RacesNeverApproveEarly'
  <1> DEFINE c == call[s]
             e == Owner[s]
  <1>0. RequestTypeOK /\ e \in People /\ c.round \in Nat /\ c \in CallRecord
    BY CallTypes, RequestSessionConstants DEF CInv
  <1>1. SUFFICES ASSUME reqStatus' = "APPROVED", approvals' # <<>>,
                        \A k \in DOMAIN approvals' : approvals'[k].status # "FORCE_APPROVED"
                 PROVE  \E r \in RuleIds \cup {NoRuleId} :
                          /\ findApplicableRule(r)'
                          /\ \A n \in 1 .. getMaxRounds(RuleOf(r)') :
                                CountApproved(n)' >= roundRequiredCount(RuleOf(r)', n)
    BY DEF RacesNeverApproveEarly
  <1>2. \A r : RuleOf(r)' = RuleOf(r) /\ (findApplicableRule(r)' <=> findApplicableRule(r))
    BY CommitRecords, RulesKeepMeaning
  <1>3. SUFFICES \E r \in RuleIds \cup {NoRuleId} :
                   /\ findApplicableRule(r)
                   /\ \A n \in 1 .. getMaxRounds(RuleOf(r)) :
                         CountApproved(n)' >= roundRequiredCount(RuleOf(r), n)
    BY <1>2
  <1>4. CASE reqStatus = "APPROVED" /\ (approvals # <<>>)
    <2>1. \A k \in DOMAIN approvals : approvals[k].status # "FORCE_APPROVED"
      BY <1>1, CommitRecords
    <2>2. PICK r \in RuleIds \cup {NoRuleId} :
            /\ findApplicableRule(r)
            /\ \A n \in 1 .. getMaxRounds(RuleOf(r)) :
                  CountApproved(n) >= roundRequiredCount(RuleOf(r), n)
      BY <1>4, <2>1 DEF CInv, RacesNeverApproveEarly
    <2>3. ASSUME NEW n \in 1 .. getMaxRounds(RuleOf(r))
          PROVE  CountApproved(n)' >= roundRequiredCount(RuleOf(r), n)
      <3>1. CountApproved(n) \in Nat /\ CountApproved(n)' \in Nat /\ CountApproved(n) <= CountApproved(n)'
        BY CommitRecords
      <3>2. roundRequiredCount(RuleOf(r), n) \in Nat
        BY <1>0, RoundTypes
      <3> QED
        BY <2>2, <3>1, <3>2
    <2> QED
      BY <2>2, <2>3
  <1>5. CASE c.op = "approve" /\ c.decided /\ ApproveTx(e, c.round, c.complete, c.last)
    <2>1. Record(c.round, e, "APPROVED")
      BY <1>5 DEF ApproveTx
    <2>2. CASE c.complete /\ c.last
      <3>1. PICK r \in RuleIds \cup {NoRuleId} :
              /\ findApplicableRule(r)
              /\ \A n \in 1 .. getMaxRounds(RuleOf(r)) : CompleteWith(c.round, RuleOf(r), n)
        BY <1>5, <2>2 DEF CInv, ClosersKnow, CallKnows
      <3>2. ASSUME NEW n \in 1 .. getMaxRounds(RuleOf(r))
            PROVE  CountApproved(n)' >= roundRequiredCount(RuleOf(r), n)
        <4>1. /\ CountApproved(n) \in Nat /\ CountApproved(n)' \in Nat /\ CountApproved(n) <= CountApproved(n)'
              /\ n = c.round => CountApproved(n) + 1 <= CountApproved(n)'
          BY <1>0, <2>1, CountAfterApproval
        <4>2. roundRequiredCount(RuleOf(r), n) \in Nat
          BY <1>0, RoundTypes
        <4>3. roundRequiredCount(RuleOf(r), n) <= IF n = c.round THEN CountApproved(n) + 1 ELSE CountApproved(n)
          BY <3>1 DEF CompleteWith
        <4> QED
          BY <4>1, <4>2, <4>3
      <3> QED
        BY <3>1, <3>2
    <2>3. CASE ~(c.complete /\ c.last)
      <3>1. reqStatus = "APPROVED"
        BY <1>1, <1>5, <2>3 DEF ApproveTx
      <3>2. CASE approvals # <<>>
        BY <1>4, <3>1, <3>2
      <3>3. CASE approvals = <<>>
        BY <1>5, <3>1, <3>3, FreeTyped DEF CInv, NothingBeforeCreate
      <3> QED
        BY <3>2, <3>3
    <2> QED
      BY <2>2, <2>3
  <1>6. CASE ForceApproveTx(e)
    <2>1. \E k \in DOMAIN approvals' : approvals'[k].status = "FORCE_APPROVED"
      BY <1>0, <1>6, RecordsOnlyGrow DEF ForceApproveTx
    <2> QED
      BY <1>1, <2>1
  <1>7. CASE RejectTx(e, c.round) \/ ForceRejectTx(e) \/ CancelTx
    BY <1>1, <1>7 DEF RejectTx, ForceRejectTx, CancelTx, SetStatus
  <1>8. CASE UpdateTx(c.payload) \/ RecallTx
    <2>1. reqStatus = "APPROVED" /\ approvals # <<>>
      BY <1>1, <1>8 DEF UpdateTx, RecallTx
    <2> QED
      BY <1>4, <2>1
  <1> QED
    BY <1>5, <1>6, <1>7, <1>8 DEF Commit

LEMMA CommitKeepsCInv ==
    ASSUME CInv, NEW s \in Sessions, Commit(s)
    PROVE  CInv'
  <1> DEFINE c == call[s]
             e == Owner[s]
  <1>0. /\ RequestTypeOK /\ call' = [call EXCEPT ![s] = Free] /\ call[s] # Free
        /\ e \in People /\ c.round \in Nat /\ 0 \in Nat
    BY FreeTyped, CallTypes, RequestSessionConstants DEF CInv, Commit
  <1>1. \A t \in Sessions : call'[t] = IF t = s THEN Free ELSE call[t]
    BY <1>0 DEF CInv, CallsTyped
  <1>2. CallsTyped'
    BY <1>0, <1>1, FreeTyped DEF CInv, CallsTyped
  <1>3. reqStatus # "NONE" /\ ~(reqStatus = "APPROVED" /\ approvals = <<>>)
    BY <1>0 DEF CInv, NothingBeforeCreate
  <1>4. NothingBeforeCreate'
    <2>1. \/ reqStatus' = reqStatus /\ approvals' = approvals
          \/ reqStatus' \in {"REJECTED", "CANCELLED"}
          \/ reqStatus' \in {reqStatus, "APPROVED"}
             /\ \E round \in Nat, x \in {"APPROVED", "FORCE_APPROVED"} : Record(round, e, x)
      BY <1>0 DEF Commit, ApproveTx, RejectTx, ForceApproveTx, ForceRejectTx, CancelTx, UpdateTx, RecallTx,
            SetStatus, FinalApproval
    <2>2. (\E round \in Nat, x \in {"APPROVED", "FORCE_APPROVED"} : Record(round, e, x))
            => approvals' # <<>>
      BY <1>0, RecordsOnlyGrow
    <2> QED
      BY <1>3, <2>1, <2>2 DEF NothingBeforeCreate
  <1>5. ClosersKnow'
    <2>1. CallKnows(Free)'
      BY FreeTyped DEF CallKnows
    <2>2. \A t \in Sessions \ {s} : CallKnows(call[t])
      BY DEF CInv, ClosersKnow
    <2>3. ASSUME NEW d, CallKnows(d) PROVE CallKnows(d)'
      BY <1>0, <2>3, CommitRecords, KnowledgeLasts
    <2>4. \A t \in Sessions : call'[t] = Free \/ (t # s /\ call'[t] = call[t])
      BY <1>1
    <2>5. ASSUME NEW t \in Sessions PROVE CallKnows(call[t])'
      <3>1. CASE call'[t] = Free
        BY <3>1, FreeTyped DEF CallKnows
      <3>2. CASE t # s /\ call'[t] = call[t]
        <4>1. PICK d : d = call[t]
          OBVIOUS
        <4>2. CallKnows(d)'
          BY <2>2, <2>3, <3>2, <4>1
        <4> QED
          BY <3>2, <4>1, <4>2 DEF CallKnows
      <3> QED
        BY <2>4, <3>1, <3>2
    <2> QED
      BY <2>5 DEF ClosersKnow
  <1>6. RecallsHaveDocument'
    <2>1. HasDocument => HasDocument'
      BY DEF Commit, ApproveTx, RejectTx, ForceApproveTx, ForceRejectTx, CancelTx, UpdateTx, RecallTx,
             SetStatus, FinalApproval, HasDocument
    <2> QED
      BY <1>1, <2>1, FreeTyped DEF CInv, RecallsHaveDocument
  <1> QED
    BY <1>2, <1>4, <1>5, <1>6, CommitTypes, CommitWritesTogether, CommitNeverEarly DEF CInv

LEMMA CInvStep == CInv /\ [CNext]_cvars => CInv'
  <1> SUFFICES ASSUME CInv, [CNext]_cvars PROVE CInv'
    OBVIOUS
  <1>1. CASE UNCHANGED cvars
    <2>1. UNCHANGED rvars /\ call' = call /\ reqStatus' = reqStatus /\ approvals' = approvals
      BY <1>1 DEF cvars, rvars
    <2>2. CallsTyped' /\ NothingBeforeCreate' /\ RecallsHaveDocument'
      BY <2>1 DEF CInv, rvars, CallsTyped, NothingBeforeCreate, RecallsHaveDocument, HasDocument
    <2>3. ClosersKnow'
      <3>1. \A t \in Sessions : CallKnows(call'[t])
        BY <2>1 DEF CInv, ClosersKnow
      <3>2. \A t \in Sessions : CallKnows(call[t])'
        BY <2>1, <3>1, SameRequestKeeps
      <3> QED
        BY <3>2 DEF ClosersKnow
    <2> QED
      BY <2>1, <2>2, <2>3, SameRequestKeeps DEF CInv
  <1>2. CASE CNext
    BY <1>2, CreationKeepsCInv, ViewingKeepsCInv, LoadKeepsCInv, DecideKeepsCInv, CommitKeepsCInv DEF CNext
  <1> QED
    BY <1>1, <1>2

-----------------------------------------------------------------------------
\* The inductive invariant of requests under overlapping calls.
THEOREM RequestSessionInvariance == CSpec => []CInv
  BY CInvInit, CInvStep, PTL DEF CSpec

\* However calls overlap, the request, its document and its effect are written
\* together: the document never shows another content than its request, nor another
\* status but that of a recall, and nothing is approved without effect.
THEOREM RequestWrites == CSpec => []WritesStayTogether
  <1>1. CInv => WritesStayTogether
    BY DEF CInv
  <1> QED
    BY <1>1, RequestSessionInvariance, PTL

\* Approvals that overlap never approve a request before its rounds are complete,
\* for every rule, quorum and number of callers.
THEOREM NoEarlyApproval == CSpec => []RacesNeverApproveEarly
  <1>1. CInv => RacesNeverApproveEarly
    BY DEF CInv
  <1> QED
    BY <1>1, RequestSessionInvariance, PTL
=============================================================================
