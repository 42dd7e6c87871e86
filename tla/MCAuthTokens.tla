---------------------------- MODULE MCAuthTokens ----------------------------
(* Small instances of accounts and refresh tokens for TLC.                 *)
EXTENDS AuthTokens, TLC

CONSTANTS ann, org, q1, q2, q3, q4

Symmetry == Permutations(Requests) \cup Permutations(Accounts)
=============================================================================
