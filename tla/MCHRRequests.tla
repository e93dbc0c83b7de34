----------------------------- MODULE MCHRRequests -----------------------------
(* Instances of HRRequests for TLC. *)
EXTENDS HRRequests, TLC

CONSTANTS e1, e2, e3, e4, r1, r2, p1, p2

\* The requester, the manager of the department, two administrators.
MCPeople == {e1, e2, e3, e4}
MCLevel == e1 :> "EMPLOYEE" @@ e2 :> "ORG_ADMIN" @@ e3 :> "GENERAL_ADMIN" @@ e4 :> "SUPER_ADMIN"

D(round, count, approver) == [round |-> round, requiredCount |-> count, approver |-> approver]
R(priority, inScope, auto, details) ==
    [isActive |-> TRUE, priority |-> priority, inScope |-> inScope, isAutoApprove |-> auto,
     maxApprovalRounds |-> 1, details |-> details]

\* Two of the approvers, then the administrator e3.
TwoRounds == R(1, TRUE, FALSE, <<D(1, 2, NoOne), D(2, 1, e3)>>)
OneRound  == R(1, TRUE, FALSE, <<D(1, 1, NoOne)>>)
Automatic == R(1, TRUE, TRUE, <<>>)
\* A rule for other departments, looked up first.
Elsewhere == R(2, FALSE, FALSE, <<D(1, 1, NoOne)>>)
Off       == NoRule

FixedRules  == r1 :> TwoRounds @@ r2 :> Off
SomeEdits   == r1 :> {OneRound, TwoRounds, Automatic} @@ r2 :> {Elsewhere}
=============================================================================
