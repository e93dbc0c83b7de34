-------------------------- MODULE SequencedApproval --------------------------
(***************************************************************************)
(* DocumentApproval for the lines the clients build: the web client        *)
(* renumbers the steps of a line 1, 2, ... before it sends them, so no two *)
(* flow steps have the same stepOrder.  The server does not check this.    *)
(***************************************************************************)
EXTENDS DocumentApproval, FiniteSets

DistinctFlowOrders(l) ==
    \A i, j \in FlowRows(l) : l[i].stepOrder = l[j].stepOrder => i = j

ASSUME SequencedLines == \A l \in Lines \cup {DefaultLine} : DistinctFlowOrders(l)

-----------------------------------------------------------------------------
(* The abstract view of a document.                                        *)

phaseBar ==
    CASE status \in {"NONE", "DRAFT"} -> "draft"
      [] status = "PENDING" -> "pending"
      [] status = "APPROVED" -> "approved"
      [] status = "REJECTED" -> "rejected"
      [] status = "RECALLED" -> "recalled"
      [] OTHER -> "gone"
turnBar == Cardinality({i \in FlowRows(line) : st[i] \in Passed})
totalBar == IF status \in {"NONE", "DRAFT"} THEN 0 ELSE Cardinality(FlowRows(line))

TP == INSTANCE TurnPassing WITH phase <- phaseBar, turn <- turnBar, total <- totalBar

\* The handlers implement turn passing: approvals move the turn to the next step
\* in stepOrder, returns and cancelled approvals move it back by one, no row of
\* the flow is added or lost, and recall finds nobody has approved.
ImplementsTurnPassing == TP!Spec

-----------------------------------------------------------------------------
(* The inductive invariant behind the properties of DocumentApproval.      *)

\* Before the submission every row waits and nothing is recorded.
DraftIsUntouched == status \in {"NONE", "DRAFT"} => \A i \in DOMAIN line : st[i] = "WAITING"

\* Rows outside the flow never carry an approval.
CcRowsOnlyViewed ==
    \A i \in DOMAIN line : line[i].role \in CC_ROLES => st[i] \in {"WAITING", "PENDING", "VIEWED"}

\* The invariant of the proofs: the properties of the runs together with the
\* facts that make them inductive.
IInv ==
    /\ TypeOK
    /\ DistinctFlowOrders(line)
    /\ DraftIsUntouched
    /\ CcRowsOnlyViewed
    /\ OneTurn
    /\ ApprovedMeansComplete
    /\ ReceiversFollowDocument
    /\ ProxyAttribution
    /\ NumberedOnce
=============================================================================
