---------------------------- MODULE RequestSessions ----------------------------
(***************************************************************************)
(* The handlers of HRRequests as concurrent API calls.  Load checks that   *)
(* the request is pending and that the caller may act; the transaction     *)
(* runs later.  The transaction of approve reads the rule, the round and   *)
(* the approvals first (Decide), and becomes visible to others at its      *)
(* commit: two of them that overlap do not see each other's approval.  The *)
(* recall of the request's document, which checks only the document before *)
(* its transaction, is a call too; viewers come and look in between.  The  *)
(* rules stay as they are.                                                 *)
(***************************************************************************)
EXTENDS HRRequests

CONSTANTS
    Sessions,   \* calls that can be in flight at the same time
    Owner,      \* [Sessions -> People]
    Ops         \* the handlers called in this instance

ASSUME RequestSessionConstants == Owner \in [Sessions -> People]

VARIABLE call   \* [Sessions -> what the call has read and decided]

cvars == <<reqStatus, payload, ruleId, approvals, applied, docStatus, content, steps, rules, call>>

Free == [op |-> "idle", decided |-> FALSE, round |-> 0, complete |-> FALSE, last |-> FALSE,
         payload |-> NoOne]
Call(op) == [Free EXCEPT !.op = op]

\* The calls of e that pass the conditions checked before the transaction.
Admitted(e) ==
    {c \in {Call("approve"), Call("reject")} : assertRequestPending /\ assertIsApprover(e)}
    \cup {c \in {Call("forceApprove"), Call("forceReject")} : ForceGuard(e)}
    \cup {c \in {Call("cancel")} \cup {[Call("update") EXCEPT !.payload = p] : p \in Payloads} :
              assertRequestPending /\ e = Requester}
    \cup {c \in {Call("recall")} : docStatus = "PENDING" /\ e = Requester}

Load(s) ==
    /\ call[s] = Free
    /\ \E c \in Admitted(Owner[s]) : c.op \in Ops /\ call' = [call EXCEPT ![s] = c]
    /\ UNCHANGED rvars

\* The reads of approve's and reject's transactions.
Decide(s) ==
    /\ call[s].op \in {"approve", "reject"} /\ ~call[s].decided
    /\ \E r \in RuleIds \cup {NoRuleId} : \E round \in 1 .. getMaxRounds(RuleOf(r)) :
          /\ findApplicableRule(r)
          /\ getCurrentRound(RuleOf(r), round)
          /\ call' = [call EXCEPT ![s] =
                IF call[s].op = "approve" /\ AlreadyApproved(Owner[s], round) THEN Free
                ELSE [@ EXCEPT !.decided = TRUE, !.round = round,
                               !.complete = RoundComplete(RuleOf(r), round),
                               !.last = round >= getMaxRounds(RuleOf(r))]]
    /\ UNCHANGED rvars

Commit(s) ==
    LET c == call[s]
        e == Owner[s]
    IN  /\ \/ c.op = "approve" /\ c.decided /\ ApproveTx(e, c.round, c.complete, c.last)
           \/ c.op = "reject" /\ c.decided /\ RejectTx(e, c.round)
           \/ c.op = "forceApprove" /\ ForceApproveTx(e)
           \/ c.op = "forceReject" /\ ForceRejectTx(e)
           \/ c.op = "cancel" /\ CancelTx
           \/ c.op = "update" /\ UpdateTx(c.payload)
           \/ c.op = "recall" /\ RecallTx
        /\ call' = [call EXCEPT ![s] = Free]

Creation == \E r \in RuleIds \cup {NoRuleId}, p \in Payloads : createRequest(r, p) /\ UNCHANGED call

Viewing ==
    /\ (\E e \in CcTargets : addViewer(e)) \/ (\E k \in DOMAIN steps : viewDocument(k))
    /\ UNCHANGED call

CInit == RInit /\ call = [s \in Sessions |-> Free]
CNext == Creation \/ Viewing \/ \E s \in Sessions : Load(s) \/ Decide(s) \/ Commit(s)
CSpec == CInit /\ [][CNext]_cvars

-----------------------------------------------------------------------------
Quiet == \A s \in Sessions : call[s] = Free

\* However calls overlap, an approved request was applied, and its document shows
\* the content of the request and its status: each transaction writes all of them.
\* Only a recall may say otherwise, when it comes between or after them.
WritesStayTogether ==
    /\ reqStatus = "APPROVED" => applied # <<>>
    /\ HasDocument => docStatus \in {reqStatus, "RECALLED"} /\ content = payload

\* Overlapping calls may lose the moment of completion but never approve early:
\* an approval given by the approvers, unforced, has all the approvals of every
\* round, because an approval decides on what was committed before it and its own
\* record.  (A request that createRequest approved by itself has no approvals.)
RacesNeverApproveEarly ==
    (reqStatus = "APPROVED" /\ approvals # <<>>
        /\ \A k \in DOMAIN approvals : approvals[k].status # "FORCE_APPROVED")
    => \E r \in RuleIds \cup {NoRuleId} :
          /\ findApplicableRule(r)
          /\ \A n \in 1 .. getMaxRounds(RuleOf(r)) :
                CountApproved(n) >= roundRequiredCount(RuleOf(r), n)

\* "An exception unless PENDING", for approve, cancel and update alike: when
\* nobody is in the middle of a call, an approved request has had its effect
\* once, as it reads, and any other request none.
EffectsWhenQuiet == Quiet => EffectsExactlyOnce
=============================================================================
