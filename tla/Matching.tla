------------------------------ MODULE Matching ------------------------------
(***************************************************************************)
(* What the job service promises, one volunteer and one job at a time: a   *)
(* volunteer applies to an open job, is chosen, and only then joins the    *)
(* job's chat; closing a job forgets all of it, and it does not reopen.    *)
(* Past the application leads one way only: an organization invites a user *)
(* who has not applied, an organization's among them.                      *)
(***************************************************************************)
CONSTANTS Jobs, Volunteers, Orgs, InitJobs, InitApplied

VARIABLES
  unopened,  \* jobs that have not been published yet
  open,      \* published jobs
  applied,   \* <<volunteer, job>>: has applied
  chosen,    \* has been accepted at least once
  invited,   \* has been asked in without having applied
  joined     \* sits in the chat of the job

abstract == <<unopened, open, applied, chosen, invited, joined>>
Pairs == (Volunteers \cup Orgs) \X Jobs

Start ==
  /\ open = InitJobs /\ unopened = Jobs \ InitJobs
  /\ applied = InitApplied
  /\ chosen = {} /\ invited = {} /\ joined = {}

Publish(j) ==
  /\ j \in unopened
  /\ unopened' = unopened \ {j} /\ open' = open \cup {j}
  /\ UNCHANGED <<applied, chosen, invited, joined>>

Applies(p) ==
  /\ p[1] \in Volunteers /\ p[2] \in open /\ p \notin applied
  /\ applied' = applied \cup {p}
  /\ UNCHANGED <<unopened, open, chosen, invited, joined>>

IsChosen(p) ==
  /\ p \in applied /\ p \notin chosen
  /\ chosen' = chosen \cup {p}
  /\ UNCHANGED <<unopened, open, applied, invited, joined>>

Invites(p) ==
  /\ p[2] \in open /\ p \notin applied \cup invited
  /\ invited' = invited \cup {p}
  /\ UNCHANGED <<unopened, open, applied, chosen, joined>>

Joins(p) ==
  /\ p[2] \in open /\ p \in chosen \cup invited /\ p \notin joined
  /\ joined' = joined \cup {p}
  /\ UNCHANGED <<unopened, open, applied, chosen, invited>>

Without(S, j) == {p \in S : p[2] # j}

Close(j) ==
  /\ j \in open
  /\ open' = open \ {j}
  /\ applied' = Without(applied, j)
  /\ chosen' = Without(chosen, j)
  /\ invited' = Without(invited, j)
  /\ joined' = Without(joined, j)
  /\ UNCHANGED unopened

Progress ==
  \/ \E j \in Jobs : Publish(j) \/ Close(j)
  \/ \E p \in Pairs : Applies(p) \/ IsChosen(p) \/ Invites(p) \/ Joins(p)

MatchingSpec == Start /\ [][Progress]_abstract
=============================================================================
