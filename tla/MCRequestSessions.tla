--------------------------- MODULE MCRequestSessions ---------------------------
(* Instances of RequestSessions for TLC. *)
EXTENDS RequestSessions, TLC

CONSTANTS e1, e2, e3, r1, p1, p2, s1, s2, s3

\* The requester, the manager of the department, an administrator.
MCPeople == {e1, e2, e3}
MCLevel == e1 :> "EMPLOYEE" @@ e2 :> "ORG_ADMIN" @@ e3 :> "SUPER_ADMIN"

Needs(count) ==
    [isActive |-> TRUE, priority |-> 1, inScope |-> TRUE, isAutoApprove |-> FALSE,
     maxApprovalRounds |-> 1,
     details |-> <<[round |-> 1, requiredCount |-> count, approver |-> NoOne]>>]
OneOfN == r1 :> Needs(1)
TwoOfN == r1 :> Needs(2)
\* Both approvers, then one of them again.
TwoRounds == r1 :> [Needs(2) EXCEPT !.details = Append(@, [round |-> 2, requiredCount |-> 1, approver |-> e3])]
NoEdits == r1 :> {}
OwnCalls == s1 :> e1 @@ s2 :> e2 @@ s3 :> e3
=============================================================================
