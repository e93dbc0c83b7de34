---------------------------- MODULE MCOrganizations ----------------------------
(* Instances of Organizations for TLC. *)
EXTENDS Organizations, TLC

OrgSymmetry == Permutations(OrgIds)
=============================================================================
