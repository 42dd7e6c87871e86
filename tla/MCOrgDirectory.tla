--------------------------- MODULE MCOrgDirectory ---------------------------
(* Small instances of the list of organizations for TLC.                   *)
EXTENDS OrgDirectory, TLC

CONSTANTS q1, q2, q3

All == {Orgs}
AllOrFirst == {Orgs, {1}}
Symmetry == Permutations(Requests)
=============================================================================
