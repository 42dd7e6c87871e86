----------------------------- MODULE RateLimit -----------------------------
(***************************************************************************)
(* middleware.RateLimit: a token bucket for every address, kept in a map   *)
(* that a goroutine sweeps.  A request's lookup and its Allow, and a whole *)
(* sweep, run under the mutex: each is one step.  The unit of time is the  *)
(* 1/rps s in which a bucket gains one token.                              *)
(***************************************************************************)
EXTENDS Integers, FiniteSets

CONSTANTS Addrs,
          Burst,     \* burst, 4 tokens
          Idle,      \* three minutes: 360 tokens' time
          Pause,     \* the goroutine's sleep, 30 s
          Slack,     \* how late the goroutine may wake
          MaxTime,   \* bound: the clock stops there
          MaxAsks    \* bound: requests of one address in one unit of time

ASSUME RateAssumption ==
  /\ Burst \in Nat \ {0} /\ Idle \in Nat /\ Burst <= Idle
  /\ Pause \in Nat \ {0} /\ Slack \in Nat
  /\ MaxTime \in Nat /\ MaxAsks \in Nat

VARIABLES
  now,
  clients,   \* addresses in the map
  tokens,    \* limiter: the tokens it had
  last,      \* limiter: when it last gave one
  lastSeen,  \* client.lastSeen
  wake,      \* when the goroutine's sleep is over
  asks,      \* history: requests of the address since the clock moved
  admitted,  \* history: admitted[a][t], a's requests admitted up to time t
  refused    \* history: <<address, time>> of the requests refused

bucket  == <<clients, tokens, last, lastSeen>>
history == <<asks, admitted, refused>>
vars    == <<now, bucket, wake, history>>

Time == 0..MaxTime

Init ==
  /\ now = 0 /\ wake = Pause
  /\ clients = {}
  /\ tokens = [a \in Addrs |-> 0]
  /\ last = [a \in Addrs |-> 0]
  /\ lastSeen = [a \in Addrs |-> 0]
  /\ asks = [a \in Addrs |-> 0]
  /\ admitted = [a \in Addrs |-> [t \in Time |-> 0]]
  /\ refused = {}
-----------------------------------------------------------------------------
AtMost(x, y) == IF x <= y THEN x ELSE y

\* limiter.Allow counts the time since the last token given.  LevelStale: a
\* bucket is never refilled.
LevelStale(a) == IF a \in clients THEN tokens[a] ELSE Burst
Level(a) == IF a \in clients THEN AtMost(Burst, tokens[a] + now - last[a]) ELSE Burst

Seen(a) ==
  /\ asks[a] < MaxAsks
  /\ asks' = [asks EXCEPT ![a] = @ + 1]
  /\ clients' = clients \cup {a}
  /\ lastSeen' = [lastSeen EXCEPT ![a] = now]
  /\ UNCHANGED <<now, wake>>

Admit(a) ==
  /\ Level(a) >= 1
  /\ Seen(a)
  /\ tokens' = [tokens EXCEPT ![a] = Level(a) - 1]
  /\ last' = [last EXCEPT ![a] = now]
  /\ admitted' = [admitted EXCEPT ![a] = [t \in Time |-> IF t < now THEN @[t] ELSE @[t] + 1]]
  /\ UNCHANGED refused

\* 429: the limiter is not touched, but the address was seen.
Refuse(a) ==
  /\ Level(a) < 1
  /\ Seen(a)
  /\ refused' = refused \cup {<<a, now>>}
  /\ UNCHANGED <<tokens, last, admitted>>

\* StaleSoon: an address is forgotten after one unit of time; StaleLate: only
\* after another round of the goroutine.
StaleSoon(a) == now > lastSeen[a]
StaleLate(a) == now - lastSeen[a] > Idle + Pause
Stale(a) == now - lastSeen[a] > Idle

Sweep ==
  /\ now >= wake
  /\ clients' = {a \in clients : ~Stale(a)}
  /\ wake' = now + Pause
  /\ UNCHANGED <<now, tokens, last, lastSeen, history>>

Tick ==
  /\ now < MaxTime /\ now < wake + Slack
  /\ now' = now + 1
  /\ asks' = [a \in Addrs |-> 0]
  /\ UNCHANGED <<bucket, wake, admitted, refused>>

Next == Tick \/ Sweep \/ \E a \in Addrs : Admit(a) \/ Refuse(a)

Spec == Init /\ [][Next]_vars
-----------------------------------------------------------------------------
\* Admitted after time s, up to now; and at s or later.
After(a, s) == admitted[a][now] - admitted[a][s]
Since(a, s) == admitted[a][now] - (IF s = 0 THEN 0 ELSE admitted[a][s - 1])

TypeOK ==
  /\ now \in Time /\ wake \in Nat
  /\ clients \subseteq Addrs
  /\ tokens \in [Addrs -> Nat] /\ last \in [Addrs -> Nat] /\ lastSeen \in [Addrs -> Nat]
  /\ asks \in [Addrs -> Nat]
  /\ admitted \in [Addrs -> [Time -> Nat]]
  /\ refused \subseteq Addrs \X Time

\* Over any stretch of time an address gets no more than a burst and one request
\* per unit of time, although the sweep forgets limiters and a forgotten address
\* starts over with a full one.
RateBound ==
  \A a \in Addrs : \A t \in 0..now : \A s \in 0..t :
    admitted[a][t] - admitted[a][s] <= Burst + (t - s)

\* Nobody is refused below that rate: a refusal ends a stretch of time in which
\* the address itself used up the burst and all that was refilled, whatever other
\* addresses, earlier refusals and the sweep did.
RefusedOnlyInExcess ==
  \A r \in refused : \E s \in 0..r[2] :
    admitted[r[1]][r[2]] - (IF s = 0 THEN 0 ELSE admitted[r[1]][s - 1])
      >= Burst + (r[2] - s)

\* The map holds no address that has been silent for longer than Idle and a round
\* of the goroutine.
ForgottenWhenIdle ==
  \A a \in clients : now <= lastSeen[a] + Idle + Pause + Slack
-----------------------------------------------------------------------------
(* The inductive invariant.                                                *)

\* The history: it stands still in the future and never falls.
HistoryOK ==
  \A a \in Addrs : \A t \in Time :
    /\ now <= t => admitted[a][t] = admitted[a][now]
    /\ t <= now => admitted[a][t] <= admitted[a][now]

BucketsOK ==
  /\ \A a \in Addrs : lastSeen[a] <= now
  /\ \A a \in clients : tokens[a] <= Burst /\ last[a] <= lastSeen[a]

\* What a bucket holds can still be asked for, now, on top of what was admitted
\* after any earlier moment.
Upper == \A a \in Addrs : \A s \in 0..now : After(a, s) + Level(a) <= Burst + (now - s)

\* A bucket that is not full was full at some moment, and all that is missing
\* was given to its address since.
Lower ==
  \A a \in Addrs :
    Level(a) = Burst \/ \E s \in 0..now : Since(a, s) + Level(a) >= Burst + (now - s)

\* The goroutine wakes in time for every address.
SweepOK ==
  /\ now <= wake + Slack /\ wake <= now + Pause
  /\ \A a \in clients : wake <= lastSeen[a] + Idle + Pause

\* The inductive invariant; ForgottenWhenIdle follows from SweepOK.
RateInv ==
  /\ TypeOK /\ HistoryOK /\ BucketsOK /\ Upper /\ Lower /\ SweepOK
  /\ RateBound /\ RefusedOnlyInExcess
=============================================================================
