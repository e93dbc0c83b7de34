---------------------------- MODULE MCLeaveBalance ----------------------------
(* Instances of LeaveBalance for TLC. *)
EXTENDS LeaveBalance, TLC

\* A full-day type, and one of half days that costs as much here.
MCDeduct == "day" :> 1 @@ "half" :> 1

Monthly(tenure, n, valid) == [tenure |-> tenure, monthly |-> TRUE, days |-> n, valid |-> valid]
Yearly(tenure, n, valid) == [tenure |-> tenure, monthly |-> FALSE, days |-> n, valid |-> valid]

\* One day per month; one day at once, two from the second month of tenure.
MCRules == {{Monthly(0, 1, 0)}, {Yearly(0, 1, 0), Yearly(1, 2, 0)}}
=============================================================================
