--------------------------- MODULE MCJobMatching ---------------------------
(* Small instances of the job service for TLC.                             *)
EXTENDS JobMatching, TLC

CONSTANTS j1, j2, ann, bob, org, other, r1, r2, r3, q1, q2, q3

Owners == [j \in Jobs |-> IF j = j1 THEN org ELSE other]

\* org, which owns j1, decides on a volunteer or an organization for either job; other, which
\* owns j2, accepts for j1.
AskedUpdates ==
  {Update(org, u, j, s) : u \in {ann, bob, other}, j \in Jobs, s \in {"accepted", "rejected"}}
    \cup {Update(other, u, j1, "accepted") : u \in {ann, bob}}
    \cup {Update(org, ann, j1, s) : s \in {"pending", "finished", "unknown"}}

AnnApplied == {<<ann, j1>>}

\* Requests and rooms are interchangeable.
Symmetry == Permutations(Requests) \cup Permutations(Rooms)
=============================================================================
