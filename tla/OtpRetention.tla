---------------------------- MODULE OtpRetention ----------------------------
(***************************************************************************)
(* ws.RetentionMap: the one-time passwords that RenewOTP hands out and     *)
(* ServeWS takes back.  Every operation runs under the map's mutex and is  *)
(* one step.  A ticker wakes the retention goroutine every Interval; it    *)
(* may get to its sweep up to Slack later, and a tick that finds the       *)
(* previous one still waiting is dropped, as Go's tickers do.              *)
(* VerifyOTP does not look at the age of a key: only the sweep does.       *)
(***************************************************************************)
EXTENDS Integers

CONSTANTS Keys,
          Period,    \* retPeriod, 5 s
          Interval,  \* the ticker's period, 400 ms
          Slack,     \* how late the retention goroutine may sweep
          MaxTime    \* bound: the clock stops there

ASSUME OtpAssumption ==
  Period \in Nat /\ Interval \in Nat \ {0} /\ Slack \in Nat /\ MaxTime \in Nat

VARIABLES
  now,
  next,     \* when the ticker fires next
  waiting,  \* a tick is in the ticker's channel
  fired,    \* when that tick fired
  data,     \* keys of RetentionMap.data
  created,  \* OTP.Created, -1 for a key not handed out yet
  uses,     \* history: how often a key was accepted
  swept     \* history: when the last sweep ran

vars == <<now, next, waiting, fired, data, created, uses, swept>>

Init ==
  /\ now = 0 /\ next = Interval /\ waiting = FALSE /\ fired = 0
  /\ data = {} /\ created = [k \in Keys |-> -1]
  /\ uses = [k \in Keys |-> 0] /\ swept = 0

\* RenewOTP: uuid keys do not repeat.
NewOTP(k) ==
  /\ created[k] = -1
  /\ created' = [created EXCEPT ![k] = now]
  /\ data' = data \cup {k}
  /\ UNCHANGED <<now, next, waiting, fired, uses, swept>>

\* The map once k was accepted.  TakenNot: the key stays.
TakenNot(k) == data
Taken(k) == data \ {k}

\* ServeWS presents a key; a client may present the same one again.
VerifyOTP(k) ==
  /\ k \in data
  /\ data' = Taken(k)
  /\ uses' = [uses EXCEPT ![k] = @ + 1]
  /\ UNCHANGED <<now, next, waiting, fired, created, swept>>

\* Created.Add(period).Before(now).  ExpiredEarly: a key is gone when it is
\* exactly Period old; ExpiredLate: the ticker's interval is added.
ExpiredEarly(k) == created[k] + Period <= now
ExpiredLate(k) == created[k] + Period + Interval < now
Expired(k) == created[k] + Period < now

Retention ==
  /\ waiting
  /\ data' = {k \in data : ~Expired(k)}
  /\ waiting' = FALSE
  /\ swept' = now
  /\ UNCHANGED <<now, next, fired, created, uses>>

\* Time passes, but not beyond the Slack of a tick that waits.
Tick ==
  /\ now < MaxTime
  /\ waiting => now < fired + Slack
  /\ now' = now + 1
  /\ IF next = now + 1
       THEN /\ next' = next + Interval
            /\ waiting' = TRUE
            /\ fired' = IF waiting THEN fired ELSE now + 1
       ELSE UNCHANGED <<next, waiting, fired>>
  /\ UNCHANGED <<data, created, uses, swept>>

Next == Tick \/ Retention \/ \E k \in Keys : NewOTP(k) \/ VerifyOTP(k)

Spec == Init /\ [][Next]_vars
-----------------------------------------------------------------------------
Issued(k) == created[k] # -1

TypeOK ==
  /\ now \in Nat /\ next \in Nat /\ waiting \in BOOLEAN /\ fired \in Nat
  /\ data \subseteq Keys
  /\ created \in [Keys -> Nat \cup {-1}]
  /\ uses \in [Keys -> Nat]
  /\ swept \in Nat

\* The password opens one connection: two requests with the same key are never
\* both accepted, whatever the sweep does in between.
AcceptedOnce == \A k \in Keys : uses[k] <= 1

\* A key that was not used yet is accepted for at least Period: no sweep drops it
\* before.
KeptWhileFresh ==
  \A k \in Keys : Issued(k) /\ uses[k] = 0 /\ now <= created[k] + Period => k \in data

\* A key is accepted, and occupies memory, for no longer than Period plus one
\* interval plus the sweep's lateness, although VerifyOTP checks no time.
ForgottenInTime ==
  \A k \in data : now <= created[k] + Period + Interval + Slack

\* The ticker: the next tick is at most an interval after the last sweep, and a
\* waiting tick fired within that interval.
TickerOK ==
  /\ swept <= now
  /\ now < next
  /\ IF waiting
       THEN fired <= swept + Interval /\ now <= fired + Slack
       ELSE next <= swept + Interval
  /\ next <= now + Interval

\* The inductive invariant behind the three promises.
OtpInv ==
  /\ TypeOK /\ TickerOK
  /\ \A k \in data : /\ created[k] \in Nat /\ created[k] <= now /\ uses[k] = 0
                     /\ swept <= created[k] + Period
  /\ \A k \in Keys : ~Issued(k) => uses[k] = 0
  /\ AcceptedOnce
  /\ KeptWhileFresh
=============================================================================
