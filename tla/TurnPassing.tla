----------------------------- MODULE TurnPassing -----------------------------
(***************************************************************************)
(* What sequential approval promises, without rows, roles or people: a     *)
(* document has a fixed number of decision steps, "turn" of them have      *)
(* approved, and the next one decides.  The turn moves one step at a time, *)
(* the document is approved by its last step or by a pre-approval, and     *)
(* the drafter can take it back only before the first approval.            *)
(***************************************************************************)
EXTENDS Naturals

VARIABLES
    phase,   \* "draft", "pending", "approved", "rejected", "recalled" or "gone"
    turn,    \* how many steps have approved
    total    \* how many steps the submitted document has

tvars == <<phase, turn, total>>

Init == phase = "draft" /\ turn = 0 /\ total = 0

Submit == phase = "draft" /\ phase' = "pending" /\ total' \in Nat \ {0} /\ turn' = 0

Advance == phase = "pending" /\ turn + 1 < total /\ turn' = turn + 1 /\ UNCHANGED <<phase, total>>

Finish ==
    /\ phase = "pending" /\ turn + 1 = total
    /\ phase' = "approved" /\ turn' = total
    /\ UNCHANGED total

\* A return to the previous step, or an approver taking back the approval.
StepBack == phase = "pending" /\ turn > 0 /\ turn' = turn - 1 /\ UNCHANGED <<phase, total>>

PreApprove == phase = "pending" /\ phase' = "approved" /\ UNCHANGED <<turn, total>>

Reject == phase = "pending" /\ phase' = "rejected" /\ UNCHANGED <<turn, total>>

Recall == phase = "pending" /\ turn = 0 /\ phase' = "recalled" /\ UNCHANGED <<turn, total>>

Delete == phase' = "gone" /\ turn' = 0 /\ total' = 0

Next == Submit \/ Advance \/ Finish \/ StepBack \/ PreApprove \/ Reject \/ Recall \/ Delete

Spec == Init /\ [][Next]_tvars
=============================================================================
