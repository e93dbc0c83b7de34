---------------------------- MODULE MCDocNumbering ----------------------------
(* Instances of DocNumbering for TLC: forms with a rule, and one without. *)
EXTENDS DocNumbering, TLC

CONSTANTS c1, c2, f1, f2, f3, f4, d1, d2, d3, d4, d5, d6, d7, s1, s2

OneCompany   == [f \in Forms |-> c1]
TwoCompanies == [f \in Forms |-> IF f = f1 THEN c1 ELSE c2]
DocForms     == [d \in Docs |-> CASE d \in {d1, d2} -> f1 [] d \in {d3, d4, d5} -> f2
                                   [] d = d6 -> f3 [] d = d7 -> f4]
\* The rules of f3 and f4 were given the same pattern, and f4's is never reset.
Resets       == [f \in Forms |-> f # f4]
Texts        == f1 :> {"HR", "HR2"} @@ f2 :> {"GEN"} @@ f3 :> {"PR"} @@ f4 :> {"PR"}

\* Sessions are alike, and so are the documents of one form.
SessionsAndDocs ==
    Permutations(Sessions) \cup Permutations({d1, d2}) \cup Permutations({d3, d4, d5})
=============================================================================
