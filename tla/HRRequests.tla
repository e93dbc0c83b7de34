------------------------------ MODULE HRRequests ------------------------------
(***************************************************************************)
(* One HR request (leave, shift, attendance, ...) from its creation to the *)
(* decision: RequestsService, RequestApprovalService and the approval      *)
(* rules that say how many approvals each round needs.                     *)
(*                                                                         *)
(* A request may have a document with one step per detail of its rule, so  *)
(* that the approvers see it in their boxes; the decision itself is taken  *)
(* from the RequestApproval records.  Handlers are written as in           *)
(* DocumentApproval: XGuard, XTx, and X for both at once.                  *)
(***************************************************************************)
EXTENDS Naturals, Sequences, FiniteSets

CONSTANTS
    People,        \* employees of the company
    NoOne,         \* null
    Requester,
    Level,         \* [People -> access levels]
    SharesOrg,     \* people with an organization in common with the requester
    DeptApprover,  \* resolveDeptApprover(requester), or NoOne
    FirstAdmin,    \* the oldest administrator other than the requester, or NoOne
    RuleIds,       \* approval rules of the request's type
    InitRules,     \* [RuleIds -> Rule], how they are at first
    RuleEdits,     \* [RuleIds -> SUBSET Rule], what administrators save
    FormStates,    \* SUBSET BOOLEAN: is a document form configured for the type?
    CcTargets,     \* people the requester may add as viewers of the document
    Payloads       \* what can be requested

\* A detail asks for requiredCount approvals in a round; approver is the
\* administrator who has the detail's position, NoOne if there is none.
Detail == [round : Nat \ {0}, requiredCount : Nat \ {0}, approver : People \cup {NoOne}]
Rule == [isActive : BOOLEAN, priority : Nat, inScope : BOOLEAN, isAutoApprove : BOOLEAN,
         maxApprovalRounds : Nat \ {0}, details : Seq(Detail)]
NoRule == [isActive |-> FALSE, priority |-> 0, inScope |-> TRUE, isAutoApprove |-> FALSE,
           maxApprovalRounds |-> 1, details |-> <<>>]
NoRuleId == "none"

AccessLevel == {"EMPLOYEE", "ORG_ADMIN", "GENERAL_ADMIN", "SUPER_ADMIN"}
RequestStatus == {"NONE", "PENDING", "APPROVED", "REJECTED", "CANCELLED"}

ASSUME RequestConstants ==
    /\ NoOne \notin People
    /\ NoRuleId \notin RuleIds
    /\ Requester \in People
    /\ Level \in [People -> AccessLevel]
    /\ SharesOrg \subseteq People
    /\ DeptApprover \in (People \cup {NoOne}) \ {Requester}
    /\ FirstAdmin \in (People \cup {NoOne}) \ {Requester}
    /\ InitRules \in [RuleIds -> Rule]
    /\ \A r \in RuleIds : RuleEdits[r] \subseteq Rule
    /\ FormStates \subseteq BOOLEAN
    /\ CcTargets \subseteq People

VARIABLES
    reqStatus,   \* Request.status, "NONE" before createRequest
    payload,     \* Request.payload
    ruleId,      \* Request.ruleId, the rule found when the request was made
    approvals,   \* the RequestApproval records, in the order of creation
    applied,     \* payloads applyApprovedRequest has put into effect
    docStatus,   \* status of the request's document, "NONE" without one
    content,     \* Document.content
    steps,       \* rows of the document: [round, assigneeId, status]; round 0 is a viewer
    rules        \* [RuleIds -> Rule]

rvars == <<reqStatus, payload, ruleId, approvals, applied, docStatus, content, steps, rules>>

HasDocument == docStatus # "NONE"

-----------------------------------------------------------------------------
(* Rules and rounds.                                                       *)

MaxOf(S) == CHOOSE m \in S : \A n \in S : n <= m

getMaxRounds(rule) ==
    MaxOf({1, rule.maxApprovalRounds} \cup {rule.details[k].round : k \in DOMAIN rule.details})

roundRequiredCount(rule, round) ==
    MaxOf({1} \cup {rule.details[k].requiredCount :
                       k \in {k \in DOMAIN rule.details : rule.details[k].round = round}})

\* r heads the list of the rules in S ordered by priority; NoRuleId if S is empty.
IsTop(S, r) ==
    IF S = {} THEN r = NoRuleId
    ELSE r \in S /\ \A q \in S : rules[q].priority <= rules[r].priority

RuleOf(r) == IF r = NoRuleId THEN NoRule ELSE rules[r]

\* createRequest looks at the rule's organizations and positions.
IsApplicableRule(r) == IsTop({q \in RuleIds : rules[q].isActive /\ rules[q].inScope}, r)

\* The decision does not, and does not look at Request.ruleId.
findApplicableRule(r) == IsTop({q \in RuleIds : rules[q].isActive}, r)

CountApproved(round) ==
    Cardinality({k \in DOMAIN approvals :
                    approvals[k].round = round /\ approvals[k].status = "APPROVED"})

\* MUTANT of getCurrentRound: the round never advances.
AlwaysFirstRound(rule, round) == round = 1

\* The lowest round that lacks approvals, the last one if none does.
getCurrentRound(rule, round) ==
    LET lacking == {n \in 1 .. getMaxRounds(rule) : CountApproved(n) < roundRequiredCount(rule, n)}
    IN  IF lacking = {} THEN round = getMaxRounds(rule)
        ELSE round \in lacking /\ \A n \in lacking : round <= n

-----------------------------------------------------------------------------
(* RequestsService.                                                        *)

StepAssignee(approver) ==
    IF approver # NoOne THEN approver
    ELSE IF DeptApprover # NoOne THEN DeptApprover ELSE FirstAdmin

\* Without details: one round, no position.
LineDetails(rule) ==
    IF rule.details = <<>> THEN <<[round |-> 1, requiredCount |-> 1, approver |-> NoOne]>>
    ELSE rule.details

FirstSteps(rule) ==
    [k \in DOMAIN LineDetails(rule) |->
        [round |-> LineDetails(rule)[k].round,
         assigneeId |-> StepAssignee(LineDetails(rule)[k].approver),
         status |-> IF LineDetails(rule)[k].round = 1 THEN "PENDING" ELSE "WAITING"]]

CreateAutoApproved(r, p) ==
    /\ RuleOf(r).isAutoApprove
    /\ reqStatus' = "APPROVED"
    /\ applied' = <<p>>
    /\ UNCHANGED <<docStatus, content, steps>>

CreateWithoutDocument(r) ==
    /\ ~RuleOf(r).isAutoApprove
    /\ FALSE \in FormStates
    /\ reqStatus' = "PENDING"
    /\ UNCHANGED <<applied, docStatus, content, steps>>

\* MUTANT of CreateWithDocument: no one is found for a step without position.
CreateWithoutFallback(r, p) ==
    /\ ~RuleOf(r).isAutoApprove
    /\ TRUE \in FormStates
    /\ reqStatus' = "PENDING"
    /\ docStatus' = "PENDING"
    /\ content' = p
    /\ steps' = [k \in DOMAIN LineDetails(RuleOf(r)) |->
                    [FirstSteps(RuleOf(r))[k] EXCEPT !.assigneeId = LineDetails(RuleOf(r))[k].approver]]
    /\ UNCHANGED applied

\* REQUEST_NO_APPROVER: every step must find an assignee.
CreateWithDocument(r, p) ==
    /\ ~RuleOf(r).isAutoApprove
    /\ TRUE \in FormStates
    /\ \A k \in DOMAIN FirstSteps(RuleOf(r)) : FirstSteps(RuleOf(r))[k].assigneeId # NoOne
    /\ reqStatus' = "PENDING"
    /\ docStatus' = "PENDING"
    /\ content' = p
    /\ steps' = FirstSteps(RuleOf(r))
    /\ UNCHANGED applied

createRequest(r, p) ==
    /\ reqStatus = "NONE"
    /\ IsApplicableRule(r)
    /\ payload' = p
    /\ ruleId' = r
    /\ CreateAutoApproved(r, p) \/ CreateWithoutDocument(r) \/ CreateWithDocument(r, p)
    /\ UNCHANGED <<approvals, rules>>

\* MUTANT of SetStatus: the document is forgotten.
SetStatusOfRequestOnly(s) == reqStatus' = s /\ UNCHANGED docStatus

\* Every handler that closes a request gives its document the same status.
SetStatus(s) ==
    /\ reqStatus' = s
    /\ docStatus' = IF HasDocument THEN s ELSE docStatus

\* MUTANT of assertRequestPending: an approved request can be processed again.
PendingOrApproved == reqStatus \in {"PENDING", "APPROVED"}

assertRequestPending == reqStatus = "PENDING"

CancelTx == SetStatus("CANCELLED") /\ UNCHANGED <<payload, ruleId, approvals, applied, content, steps, rules>>

cancel == assertRequestPending /\ CancelTx

UpdateTx(p) ==
    /\ payload' = p
    /\ content' = IF HasDocument THEN p ELSE content
    /\ UNCHANGED <<reqStatus, ruleId, approvals, applied, docStatus, steps, rules>>

\* MUTANT of updateRequest: a decided request can be edited.
updateAnyRequest(p) == reqStatus # "NONE" /\ UpdateTx(p)

updateRequest(p) == assertRequestPending /\ UpdateTx(p)

-----------------------------------------------------------------------------
(* RequestApprovalService.                                                 *)

assertIsApprover(e) ==
    /\ e # Requester
    /\ \/ Level[e] \in {"SUPER_ADMIN", "GENERAL_ADMIN"}
       \/ Level[e] = "ORG_ADMIN" /\ e \in SharesOrg
       \/ HasDocument /\ \E k \in DOMAIN steps : steps[k].assigneeId = e /\ steps[k].status = "PENDING"

\* MUTANT of AlreadyApproved: nobody checks for a second approval.
NeverApprovedBefore(e, round) == FALSE

AlreadyApproved(e, round) ==
    \E k \in DOMAIN approvals :
        approvals[k] = [round |-> round, approverId |-> e, status |-> "APPROVED"]

Record(round, e, s) == approvals' = Append(approvals, [round |-> round, approverId |-> e, status |-> s])

\* MUTANT of RoundComplete: the approval just created is not counted.
RoundCompleteBefore(rule, round) == CountApproved(round) >= roundRequiredCount(rule, round)

\* isRoundComplete counts the approval just created too.
RoundComplete(rule, round) == CountApproved(round) + 1 >= roundRequiredCount(rule, round)

ActivateRound(round) ==
    [k \in DOMAIN steps |-> IF steps[k].round = round /\ steps[k].status = "WAITING"
                            THEN [steps[k] EXCEPT !.status = "PENDING"] ELSE steps[k]]

\* An exception of applyApprovedRequest (no balance left, ...) rolls everything
\* back: then the call changes nothing.
FinalApproval ==
    /\ SetStatus("APPROVED")
    /\ applied' = Append(applied, payload)
    /\ UNCHANGED steps

\* MUTANT of ApproveTx: the next round opens with the first approval.
ApproveOpensNextRound(e, round, complete, last) ==
    /\ Record(round, e, "APPROVED")
    /\ IF complete /\ last THEN FinalApproval
       ELSE steps' = ActivateRound(round + 1) /\ UNCHANGED <<reqStatus, docStatus, applied>>
    /\ UNCHANGED <<payload, ruleId, content, rules>>

\* MUTANT of ApproveTx: any complete round approves the request.
ApproveInAnyRound(e, round, complete, last) ==
    /\ Record(round, e, "APPROVED")
    /\ IF complete THEN FinalApproval ELSE UNCHANGED <<reqStatus, docStatus, applied, steps>>
    /\ UNCHANGED <<payload, ruleId, content, rules>>

ApproveTx(e, round, complete, last) ==
    /\ Record(round, e, "APPROVED")
    /\ IF complete /\ last THEN FinalApproval
       ELSE /\ steps' = IF complete /\ HasDocument THEN ActivateRound(round + 1) ELSE steps
            /\ UNCHANGED <<reqStatus, docStatus, applied>>
    /\ UNCHANGED <<payload, ruleId, content, rules>>

ApproveRound(e, r, round) ==
    /\ findApplicableRule(r)
    /\ getCurrentRound(RuleOf(r), round)
    /\ ~AlreadyApproved(e, round)

\* bulkApprove is a sequence of such calls.
approve(e) ==
    /\ assertRequestPending
    /\ assertIsApprover(e)
    /\ \E r \in RuleIds \cup {NoRuleId} : \E round \in 1 .. getMaxRounds(RuleOf(r)) :
          /\ ApproveRound(e, r, round)
          /\ ApproveTx(e, round, RoundComplete(RuleOf(r), round), round >= getMaxRounds(RuleOf(r)))

RejectTx(e, round) ==
    /\ Record(round, e, "REJECTED")
    /\ SetStatus("REJECTED")
    /\ UNCHANGED <<payload, ruleId, applied, content, steps, rules>>

reject(e) ==
    /\ assertRequestPending
    /\ assertIsApprover(e)
    /\ \E r \in RuleIds \cup {NoRuleId} : \E round \in 1 .. getMaxRounds(RuleOf(r)) :
          findApplicableRule(r) /\ getCurrentRound(RuleOf(r), round) /\ RejectTx(e, round)

ForceGuard(e) == Level[e] = "SUPER_ADMIN" /\ assertRequestPending

ForceApproveTx(e) ==
    /\ Record(0, e, "FORCE_APPROVED")
    /\ FinalApproval
    /\ UNCHANGED <<payload, ruleId, content, rules>>

forceApprove(e) == ForceGuard(e) /\ ForceApproveTx(e)

ForceRejectTx(e) ==
    /\ Record(0, e, "FORCE_REJECTED")
    /\ SetStatus("REJECTED")
    /\ UNCHANGED <<payload, ruleId, applied, content, steps, rules>>

forceReject(e) == ForceGuard(e) /\ ForceRejectTx(e)

-----------------------------------------------------------------------------
(* ApprovalRulesService.                                                   *)

\* createApprovalRule and updateApprovalRule: no condition on pending requests.
saveApprovalRule(r, v) ==
    /\ rules' = [rules EXCEPT ![r] = v]
    /\ UNCHANGED <<reqStatus, payload, ruleId, approvals, applied, docStatus, content, steps>>

deleteApprovalRule(r) ==
    /\ RuleEdits[r] # {}
    /\ reqStatus # "PENDING"
    /\ rules' = [rules EXCEPT ![r].isActive = FALSE]
    /\ UNCHANGED <<reqStatus, payload, ruleId, approvals, applied, docStatus, content, steps>>

-----------------------------------------------------------------------------
(* The document endpoints that reach the request's document: nothing marks *)
(* it as managed by a request (Document.requestId has no writer), its rows *)
(* have no role of the approval flow, and none of them is ever approved.   *)

RecallTx ==
    /\ docStatus' = "RECALLED"
    /\ UNCHANGED <<reqStatus, payload, ruleId, approvals, applied, content, steps, rules>>

recallDocument == docStatus = "PENDING" /\ RecallTx

addViewer(e) ==
    /\ docStatus \in {"PENDING", "APPROVED"}
    /\ \A k \in DOMAIN steps : ~(steps[k].round = 0 /\ steps[k].assigneeId = e)
    /\ steps' = Append(steps, [round |-> 0, assigneeId |-> e, status |-> "PENDING"])
    /\ UNCHANGED <<reqStatus, payload, ruleId, approvals, applied, docStatus, content, rules>>

viewDocument(k) ==
    /\ steps[k].round = 0 /\ steps[k].status = "PENDING"
    /\ steps' = [steps EXCEPT ![k].status = "VIEWED"]
    /\ UNCHANGED <<reqStatus, payload, ruleId, approvals, applied, docStatus, content, rules>>

-----------------------------------------------------------------------------
RInit ==
    /\ reqStatus = "NONE"
    /\ payload \in Payloads
    /\ ruleId = NoRuleId
    /\ approvals = <<>>
    /\ applied = <<>>
    /\ docStatus = "NONE"
    /\ content = payload
    /\ steps = <<>>
    /\ rules = InitRules

RequesterNext ==
    \/ \E r \in RuleIds \cup {NoRuleId}, p \in Payloads : createRequest(r, p)
    \/ \E p \in Payloads : updateRequest(p)
    \/ cancel
    \/ recallDocument
    \/ \E e \in CcTargets : addViewer(e)
    \/ \E k \in DOMAIN steps : viewDocument(k)

ApproverNext(e) == approve(e) \/ reject(e) \/ forceApprove(e) \/ forceReject(e)

RuleNext(r) == deleteApprovalRule(r) \/ \E v \in RuleEdits[r] : saveApprovalRule(r, v)

RNext ==
    \/ RequesterNext
    \/ \E e \in People : ApproverNext(e)
    \/ \E r \in RuleIds : RuleNext(r)

RSpec == RInit /\ [][RNext]_rvars

\* Everyone who may approve a request eventually looks at it.
RFairSpec == RSpec /\ \A e \in People : WF_rvars(approve(e))

-----------------------------------------------------------------------------
(* Properties.                                                             *)

RequestTypeOK ==
    /\ reqStatus \in RequestStatus
    /\ payload \in Payloads /\ content \in Payloads
    /\ ruleId \in RuleIds \cup {NoRuleId}
    /\ approvals \in Seq([round : Nat, approverId : People,
                          status : {"APPROVED", "REJECTED", "FORCE_APPROVED", "FORCE_REJECTED"}])
    /\ applied \in Seq(Payloads)
    /\ docStatus \in RequestStatus \cup {"RECALLED"}
    /\ steps \in Seq([round : Nat, assigneeId : People, status : {"WAITING", "PENDING", "VIEWED"}])
    /\ rules \in [RuleIds -> Rule]

\* What was asked for takes effect exactly when the request is approved, once,
\* and in the version the request ends with (applyApprovedRequest runs in the
\* approving transaction and is not idempotent: it books leave).
EffectsExactlyOnce == applied = IF reqStatus = "APPROVED" THEN <<payload>> ELSE <<>>

\* The document shows what the request says, and a decided request's document
\* shows the decision, whatever the document endpoints did in between.
DocumentMirrorsRequest ==
    HasDocument => /\ content = payload
                   /\ reqStatus # "PENDING" => docStatus = reqStatus

\* Nobody counts twice: a round's approvals come from different people, none of
\* them the requester ("prevent one person from filling an M-of-N round").
DistinctApprovers ==
    \A i, j \in DOMAIN approvals :
        (approvals[i].status = "APPROVED" /\ approvals[j].status = "APPROVED"
            /\ approvals[i].round = approvals[j].round
            /\ approvals[i].approverId = approvals[j].approverId)
        => i = j /\ approvals[i].approverId # Requester

\* Without force, a request is approved only when every round of the rule in
\* force has the approvals it requires, however the rules were edited meanwhile.
QuorumDecides ==
    [][(reqStatus = "PENDING" /\ reqStatus' = "APPROVED") =>
          \/ \E e \in People : forceApprove(e)
          \/ \E r \in RuleIds \cup {NoRuleId} :
                /\ findApplicableRule(r)
                /\ \A n \in 1 .. getMaxRounds(RuleOf(r)) :
                      roundRequiredCount(RuleOf(r), n) <=
                          Cardinality({k \in DOMAIN approvals' :
                              approvals'[k].round = n /\ approvals'[k].status = "APPROVED"})]_rvars

\* A decided request keeps its decision, its content and its effects.
DecidedIsFinal ==
    [][(reqStatus \in {"APPROVED", "REJECTED", "CANCELLED"}) =>
          UNCHANGED <<reqStatus, payload, applied, approvals>>]_rvars

\* While a request is pending, the steps of a round are open exactly when every
\* earlier round has its approvals.
RoundsInOrder ==
    \A r \in RuleIds \cup {NoRuleId} : (reqStatus = "PENDING" /\ findApplicableRule(r)) =>
        \A k \in DOMAIN steps : steps[k].round > 0 =>
            (steps[k].status = "PENDING") =
                \A n \in 1 .. (steps[k].round - 1) :
                    CountApproved(n) >= roundRequiredCount(RuleOf(r), n)

\* A pending request lacks an approval in some round.
PendingLacksApproval ==
    \A r \in RuleIds \cup {NoRuleId} : (reqStatus = "PENDING" /\ findApplicableRule(r)) =>
        \E n \in 1 .. getMaxRounds(RuleOf(r)) : CountApproved(n) < roundRequiredCount(RuleOf(r), n)

\* No administrator saves, switches or deletes a rule.
RulesStand == [](rules = InitRules)

\* One active rule comes first: between two of the same priority the query has no
\* order, and each approval may be counted by another one.
OneRuleLeads ==
    \A q, r \in RuleIds \cup {NoRuleId} : findApplicableRule(q) /\ findApplicableRule(r) => q = r

\* When the rules stay as they are and one of them leads, rounds open one after the
\* other (with an edit in between, ActivateRound may find no step of the next round),
\* and the approval that completes the last round closes the request: none that has
\* all of them is pending.
RoundsHandOver == (RulesStand /\ OneRuleLeads) => [](RoundsInOrder /\ PendingLacksApproval)

\* If everyone who may approve does, a request under rules that stay is decided:
\* rounds hand over until the last one is complete.
RequestIsDecided == RulesStand => (reqStatus = "PENDING" ~> reqStatus # "PENDING")
=============================================================================
