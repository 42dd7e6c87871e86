--------------------------- MODULE RateLimitProofs ---------------------------
(***************************************************************************)
(* The bounds of the rate limiter, for every set of addresses and every    *)
(* Burst, Idle, Pause and Slack; all they need is that a bucket is full    *)
(* again before its address is forgotten (Burst <= Idle).                  *)
(***************************************************************************)
EXTENDS RateLimit, TLAPS

\* A bucket holds between nothing and Burst.
LEMMA LevelType ==
  ASSUME RateInv, NEW a \in Addrs
  PROVE  Level(a) \in 0..Burst
BY RateAssumption DEF RateInv, TypeOK, BucketsOK, Level, AtMost, Time

\* The types a step's arithmetic needs.
LEMMA Types ==
  ASSUME TypeOK
  PROVE  /\ now \in Nat /\ now <= MaxTime /\ wake \in Nat /\ now \in Time /\ now \in 0..now
         /\ \A t \in 0..now : t \in Time /\ 0..t \subseteq 0..now
         /\ \A a \in Addrs : tokens[a] \in Nat /\ last[a] \in Nat /\ lastSeen[a] \in Nat
         /\ \A a \in Addrs, t \in Time : admitted[a][t] \in Nat
<1>1. /\ now \in Nat /\ now <= MaxTime /\ wake \in Nat /\ now \in Time /\ now \in 0..now
      /\ \A t \in 0..now : t \in Time /\ 0..t \subseteq 0..now
  BY RateAssumption DEF TypeOK, Time
<1>2. \A a \in Addrs : tokens[a] \in Nat /\ last[a] \in Nat /\ lastSeen[a] \in Nat
  BY DEF TypeOK
<1>3. ASSUME NEW a \in Addrs, NEW t \in Time PROVE admitted[a][t] \in Nat
  <2>1. admitted[a] \in [Time -> Nat]
    BY DEF TypeOK
  <2>. QED
    BY <2>1
<1>. QED
  BY <1>1, <1>2, <1>3

LEMMA InitOK == Init => RateInv
<1> SUFFICES ASSUME Init PROVE RateInv
  OBVIOUS
<1>. USE RateAssumption
<1>1. TypeOK
  BY DEF Init, TypeOK, Time
<1>2. HistoryOK /\ BucketsOK
  BY DEF Init, HistoryOK, BucketsOK, Time
<1>3. \A a \in Addrs : Level(a) = Burst
  BY DEF Init, Level
<1>4. Upper /\ Lower
  BY <1>3 DEF Init, Upper, Lower, After, Time
<1>5. SweepOK /\ RateBound /\ RefusedOnlyInExcess
  BY DEF Init, SweepOK, RateBound, RefusedOnlyInExcess, Time
<1>. QED
  BY <1>1, <1>2, <1>4, <1>5 DEF RateInv
-----------------------------------------------------------------------------
(* Admit: a bucket gives one token for one request admitted.               *)

LEMMA AdmitOK ==
  ASSUME RateInv, NEW b \in Addrs, Admit(b)
  PROVE  RateInv'
<1>. USE RateAssumption
<1>1. /\ now \in Nat /\ now <= MaxTime /\ wake \in Nat /\ now \in Time /\ now \in 0..now
      /\ \A t \in 0..now : t \in Time /\ 0..t \subseteq 0..now
      /\ \A a \in Addrs : tokens[a] \in Nat /\ last[a] \in Nat /\ lastSeen[a] \in Nat
      /\ \A a \in Addrs, t \in Time : admitted[a][t] \in Nat
  BY Types DEF RateInv
<1>2. Level(b) \in 1..Burst /\ \A a \in Addrs : Level(a) \in 0..Burst
  BY LevelType DEF Admit
<1>3. /\ now' = now /\ wake' = wake /\ refused' = refused /\ clients' = clients \cup {b}
      /\ lastSeen'[b] = now /\ tokens'[b] = Level(b) - 1 /\ last'[b] = now
      /\ \A a \in Addrs \ {b} :
           lastSeen'[a] = lastSeen[a] /\ tokens'[a] = tokens[a] /\ last'[a] = last[a]
  BY DEF Admit, Seen, RateInv, TypeOK
<1>4. /\ \A a \in Addrs \ {b} : admitted'[a] = admitted[a]
      /\ \A t \in Time : admitted'[b][t] = IF t < now THEN admitted[b][t] ELSE admitted[b][t] + 1
  BY DEF Admit, RateInv, TypeOK
<1>5. Level(b)' = Level(b) - 1
  <2>1. Level(b)' = AtMost(Burst, tokens'[b] + now' - last'[b])
    BY <1>3 DEF Level
  <2>. QED
    BY <1>1, <1>2, <1>3, <2>1 DEF AtMost
<1>6. \A a \in Addrs \ {b} : Level(a)' = Level(a)
  BY <1>3 DEF Level
<1>7. TypeOK'
  <2>1. admitted' \in [Addrs -> [Time -> Nat]]
    <3>1. [t \in Time |-> IF t < now THEN admitted[b][t] ELSE admitted[b][t] + 1] \in [Time -> Nat]
      BY <1>1
    <3>. QED
      BY <3>1 DEF Admit, RateInv, TypeOK
  <2>2. /\ tokens' \in [Addrs -> Nat] /\ last' \in [Addrs -> Nat]
        /\ lastSeen' \in [Addrs -> Nat] /\ asks' \in [Addrs -> Nat]
    <3>1. Level(b) - 1 \in Nat
      BY <1>2
    <3>. QED
      BY <1>1, <3>1 DEF Admit, Seen, RateInv, TypeOK
  <2>. QED
    BY <1>1, <1>3, <2>1, <2>2 DEF RateInv, TypeOK, Time
<1>8. HistoryOK'
  <2> SUFFICES ASSUME NEW a \in Addrs, NEW t \in Time
               PROVE  /\ now <= t => admitted'[a][t] = admitted'[a][now]
                      /\ t <= now => admitted'[a][t] <= admitted'[a][now]
    BY <1>3 DEF HistoryOK, Time
  <2>1. /\ now <= t => admitted[a][t] = admitted[a][now]
        /\ t <= now => admitted[a][t] <= admitted[a][now]
    BY DEF RateInv, HistoryOK
  <2>2. admitted[a][t] \in Nat /\ admitted[a][now] \in Nat /\ t \in Nat
    BY <1>1 DEF Time
  <2>3. CASE a # b
    BY <2>1, <2>3, <1>4
  <2>4. CASE a = b
    BY <2>1, <2>2, <2>4, <1>1, <1>4
  <2>. QED
    BY <2>3, <2>4
<1>9. BucketsOK' /\ SweepOK'
  <2>1. \A a \in Addrs : lastSeen'[a] <= now'
    BY <1>1, <1>3 DEF RateInv, BucketsOK
  <2>2. ASSUME NEW a \in clients'
        PROVE  tokens'[a] <= Burst /\ last'[a] <= lastSeen'[a] /\ wake <= lastSeen'[a] + Idle + Pause
    <3>1. CASE a = b
      BY <3>1, <1>1, <1>2, <1>3 DEF RateInv, SweepOK
    <3>2. CASE a # b
      BY <3>2, <1>3 DEF RateInv, TypeOK, SweepOK, BucketsOK
    <3>. QED
      BY <3>1, <3>2
  <2>. QED
    BY <1>3, <2>1, <2>2 DEF RateInv, BucketsOK, SweepOK
<1>10. Upper'
  <2> SUFFICES ASSUME NEW a \in Addrs, NEW s \in 0..now
               PROVE  (admitted'[a][now] - admitted'[a][s]) + Level(a)' <= Burst + (now - s)
    BY <1>3 DEF Upper, After
  <2>1. (admitted[a][now] - admitted[a][s]) + Level(a) <= Burst + (now - s)
    BY DEF RateInv, Upper, After
  <2>2. CASE a # b
    BY <2>1, <2>2, <1>4, <1>6
  <2>3. CASE a = b
    <3>1. admitted[b][now] \in Nat /\ admitted[b][s] \in Nat /\ s \in Time /\ s \in Nat
      BY <1>1
    <3>2. /\ admitted'[b][now] = admitted[b][now] + 1
          /\ s < now => admitted'[b][s] = admitted[b][s]
          /\ s = now => admitted'[b][s] = admitted[b][s] + 1
      BY <1>1, <1>4, <3>1
    <3>3. s = now => admitted[b][s] = admitted[b][now]
      OBVIOUS
    <3>. QED
      BY <2>1, <2>3, <3>1, <3>2, <3>3, <1>1, <1>2, <1>5
  <2>. QED
    BY <2>2, <2>3
<1>11. Lower'
  <2> SUFFICES ASSUME NEW a \in Addrs
               PROVE  \/ Level(a)' = Burst
                      \/ \E s \in 0..now : Since(a, s)' + Level(a)' >= Burst + (now - s)
    BY <1>3 DEF Lower
  <2>1. \/ Level(a) = Burst
        \/ \E s \in 0..now : Since(a, s) + Level(a) >= Burst + (now - s)
    BY DEF RateInv, Lower
  <2>2. CASE a # b
    BY <2>1, <2>2, <1>3, <1>4, <1>6 DEF Since
  <2>3. CASE a = b
    <3>1. ASSUME NEW s \in 0..now
          PROVE  Since(b, s)' = Since(b, s) + 1 /\ Since(b, s) \in Nat
      <4>1. admitted'[b][now] = admitted[b][now] + 1 /\ admitted[b][now] \in Nat
        BY <1>1, <1>4
      <4>2. CASE s = 0
        BY <4>1, <4>2, <1>3 DEF Since
      <4>3. CASE s # 0
        <5>1. s - 1 \in Time /\ s - 1 < now /\ s - 1 <= now
          BY <4>3, <1>1 DEF Time
        <5>2. admitted'[b][s - 1] = admitted[b][s - 1]
          BY <5>1, <1>4
        <5>3. admitted[b][s - 1] <= admitted[b][now] /\ admitted[b][s - 1] \in Nat
          BY <5>1, <1>1 DEF RateInv, HistoryOK
        <5>. QED
          BY <4>1, <4>3, <5>2, <5>3, <1>3 DEF Since
      <4>. QED
        BY <4>2, <4>3
    <3>2. CASE Level(b) = Burst
      <4>1. ASSUME NEW s \in 0..now, s = now
            PROVE  Since(b, s)' + Level(b)' >= Burst + (now - s)
        BY <4>1, <1>1, <1>2, <1>5, <3>1, <3>2
      <4>. QED
        BY <2>3, <1>1, <4>1
    <3>3. ASSUME NEW s \in 0..now, Since(b, s) + Level(b) >= Burst + (now - s)
          PROVE  Since(b, s)' + Level(b)' >= Burst + (now - s)
      BY <1>1, <1>2, <1>5, <3>1, <3>3
    <3>. QED
      BY <2>1, <2>3, <3>2, <3>3
  <2>. QED
    BY <2>2, <2>3
<1>12. RateBound'
  <2> SUFFICES ASSUME NEW a \in Addrs, NEW t \in 0..now, NEW s \in 0..t
               PROVE  admitted'[a][t] - admitted'[a][s] <= Burst + (t - s)
    BY <1>3 DEF RateBound
  <2>1. t \in Time /\ s \in Time /\ s \in 0..now /\ t \in Nat /\ s \in Nat /\ s <= t
    BY <1>1
  <2>2. CASE t = now
    <3>1. (admitted'[a][now] - admitted'[a][s]) + Level(a)' <= Burst + (now - s)
      BY <1>3, <1>10, <2>1 DEF Upper, After
    <3>2. Level(a)' \in Nat
      BY <1>2, <1>5, <1>6
    <3>3. admitted'[a][now] \in Nat /\ admitted'[a][s] \in Nat
      BY <1>1, <1>4, <2>1
    <3>. QED
      BY <1>1, <2>1, <2>2, <3>1, <3>2, <3>3
  <2>3. CASE t # now
    <3>1. admitted'[a][t] = admitted[a][t] /\ admitted'[a][s] = admitted[a][s]
      <4>1. t < now /\ s < now
        BY <2>1, <2>3, <1>1
      <4>. QED
        BY <4>1, <2>1, <1>4
    <3>. QED
      BY <3>1 DEF RateInv, RateBound
  <2>. QED
    BY <2>2, <2>3
<1>13. RefusedOnlyInExcess'
  <2> DEFINE Before(h, s) == IF s = 0 THEN 0 ELSE h[s - 1]
  <2> SUFFICES ASSUME NEW r \in refused
               PROVE  \E s \in 0..r[2] :
                        admitted'[r[1]][r[2]] - Before(admitted'[r[1]], s) >= Burst + (r[2] - s)
    BY <1>3 DEF RefusedOnlyInExcess
  <2>1. r[1] \in Addrs /\ r[2] \in Time /\ r[2] \in Nat
    BY DEF RateInv, TypeOK, Time
  <2>2. PICK s \in 0..r[2] :
          admitted[r[1]][r[2]] - Before(admitted[r[1]], s) >= Burst + (r[2] - s)
    BY DEF RateInv, RefusedOnlyInExcess
  <2>3. CASE r[1] # b
    BY <2>1, <2>2, <2>3, <1>4
  <2>4. CASE r[1] = b
    <3>1. /\ admitted[b][r[2]] \in Nat
          /\ admitted'[b][r[2]] = IF r[2] < now THEN admitted[b][r[2]] ELSE admitted[b][r[2]] + 1
      BY <2>1, <1>1, <1>4
    <3>2. CASE s = 0
      BY <2>1, <2>2, <2>4, <3>1, <3>2, <1>1
    <3>3. CASE s # 0
      <4>1. s - 1 \in Time /\ s - 1 < r[2]
        BY <2>1, <3>3 DEF Time
      <4>2. /\ admitted[b][s - 1] \in Nat
            /\ admitted'[b][s - 1] = IF s - 1 < now THEN admitted[b][s - 1] ELSE admitted[b][s - 1] + 1
        BY <4>1, <1>1, <1>4
      <4>3. admitted'[b][r[2]] - admitted'[b][s - 1] >= admitted[b][r[2]] - admitted[b][s - 1]
        BY <2>1, <3>1, <4>1, <4>2, <1>1 DEF Time
      <4>4. admitted'[b][r[2]] \in Nat /\ admitted'[b][s - 1] \in Nat
        BY <3>1, <4>2
      <4>. QED
        BY <2>1, <2>2, <2>4, <3>1, <3>3, <4>2, <4>3, <4>4, <1>1
    <3>. QED
      BY <3>2, <3>3
  <2>. QED
    BY <2>3, <2>4
<1>. QED
  BY <1>7, <1>8, <1>9, <1>10, <1>11, <1>12, <1>13 DEF RateInv
-----------------------------------------------------------------------------
(* Refuse: the history gains a refusal, and the buckets say why.           *)

LEMMA RefuseOK ==
  ASSUME RateInv, NEW b \in Addrs, Refuse(b)
  PROVE  RateInv'
<1>. USE RateAssumption
<1>1. /\ now \in Nat /\ now \in Time /\ now \in 0..now
      /\ \A t \in 0..now : t \in Time /\ 0..t \subseteq 0..now
      /\ \A a \in Addrs : tokens[a] \in Nat /\ last[a] \in Nat /\ lastSeen[a] \in Nat
  BY Types DEF RateInv
<1>2. /\ now' = now /\ wake' = wake /\ tokens' = tokens /\ last' = last /\ admitted' = admitted
      /\ clients' = clients \cup {b} /\ refused' = refused \cup {<<b, now>>}
      /\ lastSeen'[b] = now /\ \A a \in Addrs \ {b} : lastSeen'[a] = lastSeen[a]
  BY DEF Refuse, Seen, RateInv, TypeOK
<1>3. Level(b) = 0 /\ b \in clients
  BY LevelType DEF Refuse, Level
<1>4. \A a \in Addrs : Level(a)' = Level(a)
  BY <1>2, <1>3 DEF Level
<1>5. TypeOK'
  <2>1. lastSeen' \in [Addrs -> Nat] /\ asks' \in [Addrs -> Nat]
    BY <1>1 DEF Refuse, Seen, RateInv, TypeOK
  <2>. QED
    BY <1>1, <1>2, <2>1 DEF RateInv, TypeOK
<1>6. HistoryOK'
  BY <1>2 DEF RateInv, HistoryOK
<1>7. BucketsOK' /\ SweepOK'
  <2>1. \A a \in Addrs : lastSeen'[a] <= now'
    BY <1>1, <1>2 DEF RateInv, BucketsOK
  <2>2. ASSUME NEW a \in clients'
        PROVE  tokens'[a] <= Burst /\ last'[a] <= lastSeen'[a] /\ wake <= lastSeen'[a] + Idle + Pause
    <3>0. a \in clients /\ a \in Addrs
      BY <1>2, <1>3 DEF RateInv, TypeOK
    <3>1. /\ tokens[a] <= Burst /\ last[a] <= lastSeen[a] /\ lastSeen[a] <= now
          /\ wake <= lastSeen[a] + Idle + Pause /\ wake \in Nat
      BY <3>0 DEF RateInv, BucketsOK, SweepOK, TypeOK
    <3>2. CASE a = b
      BY <3>0, <3>1, <3>2, <1>1, <1>2
    <3>3. CASE a # b
      BY <3>0, <3>1, <3>3, <1>2
    <3>. QED
      BY <3>2, <3>3
  <2>. QED
    BY <1>2, <2>1, <2>2 DEF RateInv, BucketsOK, SweepOK
<1>8. Upper' /\ Lower' /\ RateBound'
  BY <1>2, <1>4 DEF RateInv, Upper, Lower, After, Since, RateBound
<1>9. RefusedOnlyInExcess'
  <2>1. PICK s \in 0..now : Since(b, s) >= Burst + (now - s)
    <3>1. \E s \in 0..now : Since(b, s) + Level(b) >= Burst + (now - s)
      BY <1>3 DEF RateInv, Lower
    <3>2. ASSUME NEW s \in 0..now PROVE Since(b, s) \in Int
      <4>1. admitted[b][now] \in Nat /\ \A t \in Time : admitted[b][t] \in Nat
        BY <1>1, Types DEF RateInv
      <4>2. s = 0 \/ s - 1 \in Time
        BY <1>1 DEF Time
      <4>. QED
        BY <4>1, <4>2 DEF Since
    <3>. QED
      BY <1>3, <3>1, <3>2
  <2>2. RefusedOnlyInExcess
    BY DEF RateInv
  <2>. QED
    BY <1>2, <2>1, <2>2 DEF RefusedOnlyInExcess, Since
<1>. QED
  BY <1>5, <1>6, <1>7, <1>8, <1>9 DEF RateInv
-----------------------------------------------------------------------------
(* Sweep: a limiter that is forgotten was full.                            *)

LEMMA SweepKeeps ==
  ASSUME RateInv, Sweep
  PROVE  RateInv'
<1>. USE RateAssumption
<1>1. /\ now \in Nat
      /\ \A a \in Addrs : tokens[a] \in Nat /\ last[a] \in Nat /\ lastSeen[a] \in Nat
  BY Types DEF RateInv
<1>2. /\ now' = now /\ tokens' = tokens /\ last' = last /\ admitted' = admitted
      /\ refused' = refused /\ lastSeen' = lastSeen /\ asks' = asks
      /\ clients' = {a \in clients : ~Stale(a)} /\ wake' = now + Pause /\ now >= wake
  BY DEF Sweep, history
<1>3. \A a \in Addrs : Level(a)' = Level(a)
  <2> SUFFICES ASSUME NEW a \in Addrs PROVE Level(a)' = Level(a)
    OBVIOUS
  <2>1. CASE a \in clients /\ Stale(a)
    <3>1. Level(a)' = Burst
      BY <2>1, <1>2 DEF Level
    <3>2. now - lastSeen[a] > Idle /\ last[a] <= lastSeen[a]
      BY <2>1 DEF Stale, RateInv, BucketsOK
    <3>3. tokens[a] + now - last[a] >= Burst
      BY <3>2, <1>1
    <3>4. Level(a) = Burst
      BY <2>1, <3>3, <1>1 DEF Level, AtMost
    <3>. QED
      BY <3>1, <3>4
  <2>2. CASE ~(a \in clients /\ Stale(a))
    BY <2>2, <1>2 DEF Level
  <2>. QED
    BY <2>1, <2>2
<1>4. TypeOK'
  BY <1>1, <1>2 DEF RateInv, TypeOK
<1>5. HistoryOK' /\ BucketsOK'
  BY <1>2 DEF RateInv, HistoryOK, BucketsOK
<1>6. SweepOK'
  <2>1. ASSUME NEW a \in clients' PROVE wake' <= lastSeen'[a] + Idle + Pause
    <3>1. a \in Addrs /\ ~(now - lastSeen[a] > Idle)
      BY <1>2 DEF Stale, RateInv, TypeOK
    <3>. QED
      BY <3>1, <1>1, <1>2
  <2>. QED
    BY <1>1, <1>2, <2>1 DEF SweepOK
<1>7. Upper' /\ Lower' /\ RateBound' /\ RefusedOnlyInExcess'
  BY <1>2, <1>3 DEF RateInv, Upper, Lower, After, Since, RateBound, RefusedOnlyInExcess
<1>. QED
  BY <1>4, <1>5, <1>6, <1>7 DEF RateInv
-----------------------------------------------------------------------------
(* Tick: every bucket that is not full gains a token.                      *)

LEMMA TickOK ==
  ASSUME RateInv, Tick
  PROVE  RateInv'
<1>. USE RateAssumption
<1>1. /\ now \in Nat /\ now \in Time /\ now < MaxTime /\ wake \in Nat
      /\ \A t \in 0..now : t \in Time /\ 0..t \subseteq 0..now
      /\ \A a \in Addrs : tokens[a] \in Nat /\ last[a] \in Nat /\ lastSeen[a] \in Nat
      /\ \A a \in Addrs, t \in Time : admitted[a][t] \in Nat
  BY Types DEF RateInv, Tick
<1>2. /\ now' = now + 1 /\ tokens' = tokens /\ last' = last /\ admitted' = admitted
      /\ refused' = refused /\ lastSeen' = lastSeen /\ wake' = wake /\ clients' = clients
      /\ now < wake + Slack
  BY DEF Tick, bucket
<1>3. /\ now + 1 \in Time /\ now + 1 \in Nat
      /\ \A a \in Addrs : admitted[a][now + 1] = admitted[a][now]
  BY <1>1 DEF RateInv, HistoryOK, Time
<1>4. ASSUME NEW a \in Addrs
      PROVE  /\ Level(a)' \in 0..Burst /\ Level(a) \in 0..Burst
             /\ Level(a) = Burst => Level(a)' = Burst
             /\ Level(a) < Burst => Level(a)' = Level(a) + 1
  <2>1. Level(a) \in 0..Burst
    BY LevelType
  <2>2. CASE a \in clients
    <3>1. /\ Level(a) = AtMost(Burst, tokens[a] + now - last[a])
          /\ Level(a)' = AtMost(Burst, tokens[a] + (now + 1) - last[a])
      BY <2>2, <1>2 DEF Level
    <3>. QED
      BY <2>1, <3>1, <1>1 DEF AtMost
  <2>3. CASE a \notin clients
    BY <2>3, <1>2 DEF Level
  <2>. QED
    BY <2>1, <2>2, <2>3
<1>5. TypeOK'
  <2>1. asks' \in [Addrs -> Nat]
    BY DEF Tick
  <2>. QED
    BY <1>2, <1>3, <2>1 DEF RateInv, TypeOK
<1>6. HistoryOK'
  <2> SUFFICES ASSUME NEW a \in Addrs, NEW t \in Time
               PROVE  /\ now + 1 <= t => admitted[a][t] = admitted[a][now + 1]
                      /\ t <= now + 1 => admitted[a][t] <= admitted[a][now + 1]
    BY <1>2 DEF HistoryOK, Time
  <2>1. /\ now <= t => admitted[a][t] = admitted[a][now]
        /\ t <= now => admitted[a][t] <= admitted[a][now]
    BY DEF RateInv, HistoryOK
  <2>2. t \in Nat /\ admitted[a][t] \in Nat
    BY <1>1 DEF Time
  <2>. QED
    BY <2>1, <2>2, <1>1, <1>3
<1>7. BucketsOK' /\ SweepOK'
  <2>1. \A a \in Addrs : lastSeen'[a] <= now'
    BY <1>1, <1>2 DEF RateInv, BucketsOK
  <2>. QED
    BY <1>1, <1>2, <2>1 DEF RateInv, BucketsOK, SweepOK
<1>8. ASSUME NEW a \in Addrs, NEW s \in 0..(now + 1)
      PROVE  (admitted[a][now + 1] - admitted[a][s]) + Level(a)' <= Burst + ((now + 1) - s)
  <2>1. CASE s = now + 1
    BY <2>1, <1>1, <1>3, <1>4
  <2>2. CASE s \in 0..now
    <3>1. (admitted[a][now] - admitted[a][s]) + Level(a) <= Burst + (now - s)
      BY <2>2 DEF RateInv, Upper, After
    <3>2. admitted[a][now] \in Nat /\ admitted[a][s] \in Nat
      BY <2>2, <1>1
    <3>3. Level(a)' <= Level(a) + 1 /\ Level(a)' \in Nat /\ Level(a) \in Nat
      BY <1>4
    <3>. QED
      BY <3>1, <3>2, <3>3, <2>2, <1>1, <1>3
  <2>. QED
    BY <2>1, <2>2, <1>1
<1>9. Upper'
  BY <1>2, <1>8 DEF Upper, After
<1>10. Lower'
  <2> SUFFICES ASSUME NEW a \in Addrs, Level(a) < Burst
               PROVE  \E s \in 0..(now + 1) : Since(a, s)' + Level(a)' >= Burst + ((now + 1) - s)
    BY <1>2, <1>4 DEF Lower
  <2>1. PICK s \in 0..now : Since(a, s) + Level(a) >= Burst + (now - s)
    BY <1>4 DEF RateInv, Lower
  <2>2. Since(a, s)' = Since(a, s)
    BY <1>2, <1>3 DEF Since
  <2>3. Since(a, s) \in Int
    <3>1. s = 0 \/ s - 1 \in Time
      BY <1>1 DEF Time
    <3>2. admitted[a][now] \in Nat /\ \A t \in Time : admitted[a][t] \in Nat
      BY <1>1
    <3>. QED
      BY <3>1, <3>2 DEF Since
  <2>4. Since(a, s)' + Level(a)' >= Burst + ((now + 1) - s)
    BY <1>1, <1>4, <2>1, <2>2, <2>3
  <2>5. s \in 0..(now + 1)
    BY <1>1
  <2>. QED
    BY <2>4, <2>5
<1>11. RateBound'
  <2> SUFFICES ASSUME NEW a \in Addrs, NEW t \in 0..(now + 1), NEW s \in 0..t
               PROVE  admitted[a][t] - admitted[a][s] <= Burst + (t - s)
    BY <1>2 DEF RateBound
  <2>1. CASE t = now + 1
    <3>1. (admitted[a][now + 1] - admitted[a][s]) + Level(a)' <= Burst + ((now + 1) - s)
      BY <1>8, <2>1
    <3>2. Level(a)' \in Nat
      BY <1>4
    <3>3. admitted[a][now + 1] \in Nat /\ admitted[a][s] \in Nat
      <4>1. s \in Time
        BY <2>1, <1>1, <1>3 DEF Time
      <4>. QED
        BY <4>1, <1>1, <1>3
    <3>. QED
      BY <2>1, <3>1, <3>2, <3>3, <1>1
  <2>2. CASE t \in 0..now
    BY <2>2 DEF RateInv, RateBound
  <2>. QED
    BY <2>1, <2>2, <1>1
<1>12. RefusedOnlyInExcess'
  BY <1>2 DEF RateInv, RefusedOnlyInExcess
<1>. QED
  BY <1>5, <1>6, <1>7, <1>9, <1>10, <1>11, <1>12 DEF RateInv
-----------------------------------------------------------------------------
\* The invariant of the rate limiter.
THEOREM RateInvariant == Spec => []RateInv
<1>1. RateInv /\ [Next]_vars => RateInv'
  <2> SUFFICES ASSUME RateInv, [Next]_vars PROVE RateInv'
    OBVIOUS
  <2>1. CASE Tick
    BY <2>1, TickOK
  <2>2. CASE Sweep
    BY <2>2, SweepKeeps
  <2>3. ASSUME NEW a \in Addrs, Admit(a) PROVE RateInv'
    BY <2>3, AdmitOK
  <2>4. ASSUME NEW a \in Addrs, Refuse(a) PROVE RateInv'
    BY <2>4, RefuseOK
  <2>5. CASE UNCHANGED vars
    BY <2>5 DEF vars, bucket, history, RateInv, TypeOK, HistoryOK, BucketsOK, Upper, Lower, After,
                Since, Level, SweepOK, RateBound, RefusedOnlyInExcess
  <2>. QED
    BY <2>1, <2>2, <2>3, <2>4, <2>5 DEF Next
<1>. QED
  BY InitOK, <1>1, PTL DEF Spec

\* middleware.RateLimit admits of no address more than a burst and one request per
\* unit of time, over any stretch of time, the sweep notwithstanding.
THEOREM RateIsBounded == Spec => []RateBound
<1>1. RateInv => RateBound
  BY DEF RateInv
<1>. QED
  BY RateInvariant, <1>1, PTL

\* An address is refused only when it has itself used up its burst and all that
\* was refilled since.
THEOREM RefusalsAreEarned == Spec => []RefusedOnlyInExcess
<1>1. RateInv => RefusedOnlyInExcess
  BY DEF RateInv
<1>. QED
  BY RateInvariant, <1>1, PTL

\* The goroutine forgets an address that has been silent for Idle within one of
\* its rounds.
THEOREM IdleAreForgotten == Spec => []ForgottenWhenIdle
<1>1. RateInv => ForgottenWhenIdle
  <2> SUFFICES ASSUME RateInv, NEW a \in clients
               PROVE  now <= lastSeen[a] + Idle + Pause + Slack
    BY DEF ForgottenWhenIdle
  <2>1. a \in Addrs /\ lastSeen[a] \in Nat /\ now \in Nat /\ wake \in Nat
    BY Types DEF RateInv, TypeOK
  <2>. QED
    BY <2>1, RateAssumption DEF RateInv, SweepOK
<1>. QED
  BY RateInvariant, <1>1, PTL
=============================================================================
