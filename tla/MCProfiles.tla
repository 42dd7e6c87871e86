----------------------------- MODULE MCProfiles -----------------------------
(* Small instances of the profile edits for TLC.                           *)
EXTENDS Profiles, TLC

CONSTANTS i1, i2, i3, d1, d2, s1, s2, s3

Symmetry == Permutations(Saves) \cup Permutations(Devices)
=============================================================================
