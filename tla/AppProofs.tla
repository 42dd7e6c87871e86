------------------------------ MODULE AppProofs ------------------------------
(***************************************************************************)
(* What the app and the server's one-time passwords promise: the passwords *)
(* for any Period, Interval and Slack, the app's session for any number of *)
(* logins and rounds, its chat page for any messages, rooms, logins and    *)
(* pages.                                                                  *)
(***************************************************************************)
EXTENDS AppSession, ChatView, TLAPS, FiniteSetTheorems
-----------------------------------------------------------------------------
(* OtpRetention: the passwords.                                            *)

LEMMA InitOtp == Init => OtpInv
<1> SUFFICES ASSUME Init PROVE OtpInv
  OBVIOUS
<1>1. TypeOK
  BY OtpAssumption DEF Init, TypeOK
<1>2. TickerOK
  BY OtpAssumption DEF Init, TickerOK
<1>3. \A k \in Keys : ~Issued(k) /\ uses[k] = 0
  BY DEF Init, Issued
<1>4. data = {}
  BY DEF Init
<1>. QED
  BY <1>1, <1>2, <1>3, <1>4 DEF OtpInv, AcceptedOnce, KeptWhileFresh

\* Every step preserves the invariant; time is the delicate one: it may not pass
\* the Slack of a waiting tick, which bounds the time since the last sweep.
LEMMA StepOtp ==
  ASSUME OtpInv, [Next]_vars
  PROVE  OtpInv'
<1>. USE OtpAssumption DEF OtpInv, TypeOK, TickerOK, AcceptedOnce, KeptWhileFresh, Issued
<1>1. ASSUME NEW k \in Keys, NewOTP(k) PROVE OtpInv'
  BY <1>1 DEF NewOTP
<1>2. ASSUME NEW k \in Keys, VerifyOTP(k) PROVE OtpInv'
  BY <1>2 DEF VerifyOTP, Taken
<1>3. CASE Retention
  <2>1. /\ data' = {k \in data : ~Expired(k)} /\ waiting' = FALSE /\ swept' = now
        /\ UNCHANGED <<now, next, fired, created, uses>>
    BY <1>3 DEF Retention
  <2>2. ASSUME NEW k \in data'
        PROVE  k \in data /\ now <= created[k] + Period
    <3>1. k \in data /\ ~(created[k] + Period < now)
      BY <2>1, <2>2 DEF Expired
    <3>. QED
      BY <3>1
  <2>3. \A k \in data : now <= created[k] + Period => k \in data'
    BY <2>1 DEF Expired
  <2>4. TypeOK' /\ TickerOK'
    <3>1. data' \subseteq Keys
      BY <2>2
    <3>2. TypeOK'
      BY <2>1, <3>1
    <3>3. TickerOK'
      BY <2>1
    <3>. QED
      BY <3>2, <3>3
  <2>5. KeptWhileFresh'
    BY <2>1, <2>3
  <2>. QED
    BY <2>1, <2>2, <2>4, <2>5
<1>4. CASE Tick
  <2>1. now' = now + 1 /\ UNCHANGED <<data, created, uses, swept>>
    BY <1>4 DEF Tick
  <2>2. now' \in Nat /\ swept <= now'
    BY <2>1
  <2>3. CASE next = now + 1
    BY <1>4, <2>1, <2>3 DEF Tick
  <2>4. CASE next # now + 1
    BY <1>4, <2>1, <2>4 DEF Tick
  <2>. QED
    BY <2>3, <2>4
<1>5. CASE UNCHANGED vars
  BY <1>5 DEF vars
<1>. QED
  BY <1>1, <1>2, <1>3, <1>4, <1>5 DEF Next

\* The inductive invariant of the retention map and its ticker.
THEOREM OtpInvariant == Spec => []OtpInv
BY InitOtp, StepOtp, PTL DEF Spec

\* A one-time password opens at most one connection.
THEOREM SingleUse == Spec => []AcceptedOnce
<1>1. OtpInv => AcceptedOnce
  BY DEF OtpInv
<1>. QED
  BY <1>1, OtpInvariant, PTL

\* An unused password is accepted for at least Period.
THEOREM FreshIsKept == Spec => []KeptWhileFresh
<1>1. OtpInv => KeptWhileFresh
  BY DEF OtpInv
<1>. QED
  BY <1>1, OtpInvariant, PTL

\* And for at most Period + Interval + Slack: the time since the last sweep is
\* bounded by the ticker, and no key older than Period survived that sweep.
THEOREM AgeBound == Spec => []ForgottenInTime
<1>1. OtpInv => ForgottenInTime
  <2>1. ASSUME OtpInv, NEW k \in data
        PROVE  now <= created[k] + Period + Interval + Slack
    <3>1. now <= swept + Interval + Slack
      BY <2>1, OtpAssumption DEF OtpInv, TypeOK, TickerOK
    <3>2. swept <= created[k] + Period
      BY <2>1 DEF OtpInv
    <3>. QED
      BY <2>1, <3>1, <3>2, OtpAssumption DEF OtpInv, TypeOK
  <2>. QED
    BY <2>1 DEF ForgottenInTime
<1>. QED
  BY <1>1, OtpInvariant, PTL
-----------------------------------------------------------------------------
(* AppSession: the app's session implements the passwords, and with their  *)
(* invariant keeps its own promises.                                       *)

\* Every step of the app and the server is one of the one-time passwords, or leaves
\* them alone.
LEMMA AppStepIsOtpStep == [AppNext]_appVars => [Next]_vars
<1> SUFFICES ASSUME [AppNext]_appVars PROVE [Next]_vars
  OBVIOUS
<1>1. CASE StoreToken \/ CheckToken \/ KickOut \/ EmitInitial
  BY <1>1 DEF StoreToken, CheckToken, KickOut, EmitInitial
<1>2. CASE ServerTime
  BY <1>2 DEF ServerTime, Next
<1>3. ASSUME NEW k \in Keys, LoggedIn(k) \/ Connect(k) PROVE [Next]_vars
  <2>1. CASE AskOTP(k)
    BY <2>1 DEF AskOTP, Next
  <2>2. CASE LoggedIn(k) \/ AskOTPFails(k) \/ ReadToken(k) \/ Dial(k) \/ DialThrows(k)
    BY <2>2 DEF LoggedIn, AskOTPFails, ReadToken, Dial, DialThrows
  <2>. QED
    BY <1>3, <2>1, <2>2 DEF Connect
<1>4. ASSUME NEW d \in Dials, Accepted(d[1], d[2]) \/ HandshakeFails(d[1], d[2]) PROVE [Next]_vars
  <2>1. d[1] \in Keys
    BY DEF Dials
  <2>. QED
    BY <1>4, <2>1 DEF Accepted, HandshakeFails, Next
<1>5. CASE UNCHANGED appVars
  BY <1>5 DEF appVars
<1>. QED
  BY <1>1, <1>2, <1>3, <1>4, <1>5 DEF AppNext

\* The app next to the server implements the one-time passwords: what is proved of
\* these holds with the app's logins, retries and lost answers around them.
THEOREM AppImplementsOtp == AppSpec => Spec
<1>1. AppInit => Init
  BY DEF AppInit
<1>. QED
  BY <1>1, AppStepIsOtpStep, PTL DEF AppSpec, Spec
-----------------------------------------------------------------------------
LEMMA AppInitOK == AppInit => AppInv
<1> SUFFICES ASSUME AppInit PROVE AppInv
  OBVIOUS
<1>1. 1 \in 1..Retries
  BY AppAssumption
<1>2. AppTypeOK
  BY <1>1 DEF AppInit, AppTypeOK
<1>3. accepted = {} /\ \A k \in Keys : pc[k] # "connected"
  BY DEF AppInit
<1>. QED
  BY <1>2, <1>3 DEF AppInv, OneConnectionPerLogin, ConnectedIsHeard

\* A password that was accepted is not in the map: nothing else is accepted with it.
LEMMA AcceptedKeeps ==
  ASSUME AppInv, OtpInv, NEW k \in Keys, NEW i \in 1..Retries, Accepted(k, i)
  PROVE  AppInv'
<1>1. /\ k \in data /\ uses' = [uses EXCEPT ![k] = @ + 1]
      /\ accepted' = accepted \cup {<<k, i>>} /\ flights' = flights \ {<<k, i>>}
      /\ UNCHANGED <<session, pc, try, heard>>
  BY DEF Accepted, VerifyOTP
<1>2. uses[k] = 0 /\ uses \in [Keys -> Nat]
  BY <1>1 DEF OtpInv, TypeOK
<1>3. \A d \in accepted : d[1] # k /\ d[1] \in Keys
  BY <1>2 DEF AppInv, AppTypeOK, Dials
<1>4. AppTypeOK' /\ ConnectedIsHeard'
  BY <1>1 DEF AppInv, AppTypeOK, ConnectedIsHeard, session, Dials
<1>5. \A d \in accepted' : uses'[d[1]] >= 1
  BY <1>1, <1>2, <1>3 DEF AppInv
<1>6. OneConnectionPerLogin'
  BY <1>1, <1>3 DEF AppInv, OneConnectionPerLogin
<1>. QED
  BY <1>4, <1>5, <1>6 DEF AppInv

\* connectCubit: only the first dial ever is heard, and only it is said to be
\* connected.
LEMMA ConnectKeeps ==
  ASSUME AppInv, OtpInv, NEW k \in Keys, LoggedIn(k) \/ Connect(k)
  PROVE  AppInv'
<1>1. accepted' = accepted /\ \A j \in Keys : uses'[j] = uses[j]
  BY DEF LoggedIn, Connect, AskOTP, AskOTPFails, ReadToken, Dial, DialThrows, NewOTP, vars
<1>2. (\A d \in accepted' : uses'[d[1]] >= 1) /\ OneConnectionPerLogin'
  BY <1>1 DEF AppInv, AppTypeOK, OneConnectionPerLogin, Dials
<1>3. CASE Dial(k)
  <2>1. \A j \in Keys : pc[j] # "connected"
    BY <1>3 DEF Dial, AppInv, ConnectedIsHeard
  <2>2. /\ heard' = {<<k, try[k]>>} /\ try[k] \in 1..Retries
        /\ pc' = [pc EXCEPT ![k] = "connected"] /\ UNCHANGED <<session, try>>
        /\ flights' = flights \cup {<<k, try[k]>>}
    BY <1>3 DEF Dial, Goes, AppInv, AppTypeOK
  <2>3. AppTypeOK'
    BY <1>1, <2>2 DEF AppInv, AppTypeOK, Dials, session
  <2>4. ConnectedIsHeard'
    BY <2>1, <2>2 DEF ConnectedIsHeard, AppInv, AppTypeOK
  <2>. QED
    BY <1>2, <2>3, <2>4 DEF AppInv
<1>4. CASE LoggedIn(k) \/ AskOTP(k) \/ AskOTPFails(k) \/ ReadToken(k)
  <2>1. /\ UNCHANGED <<try, flights, heard>>
        /\ \E to \in {"otp", "token", "dial", "failed"} : pc' = [pc EXCEPT ![k] = to]
        /\ token' \in BOOLEAN /\ checking' \in BOOLEAN /\ user' \in BOOLEAN /\ kicking' \in BOOLEAN
    BY <1>4 DEF LoggedIn, AskOTP, AskOTPFails, ReadToken, Goes, session, AppInv, AppTypeOK
  <2>2. AppTypeOK' /\ ConnectedIsHeard'
    BY <1>1, <2>1 DEF AppInv, AppTypeOK, ConnectedIsHeard
  <2>. QED
    BY <1>2, <2>2 DEF AppInv
<1>5. CASE DialThrows(k)
  <2>1. /\ UNCHANGED <<session, heard>> /\ try[k] \in 1..Retries
        /\ flights' = flights \cup {<<k, try[k]>>}
    BY <1>5 DEF DialThrows, AppInv, AppTypeOK
  <2>2. \/ pc' = [pc EXCEPT ![k] = "failed"] /\ try' = try
        \/ pc' = pc /\ try[k] # Retries /\ try' = [try EXCEPT ![k] = @ + 1]
    BY <1>5 DEF DialThrows, Retry, Goes
  <2>3. try' \in [Keys -> 1..Retries]
    BY <2>1, <2>2, AppAssumption DEF AppInv, AppTypeOK
  <2>4. AppTypeOK' /\ ConnectedIsHeard'
    BY <1>1, <2>1, <2>2, <2>3 DEF AppInv, AppTypeOK, ConnectedIsHeard, Dials, session
  <2>. QED
    BY <1>2, <2>4 DEF AppInv
<1>. QED
  BY <1>3, <1>4, <1>5 DEF Connect

LEMMA AppStepOK ==
  ASSUME AppInv, OtpInv, [AppNext]_appVars
  PROVE  AppInv'
<1>. USE DEF AppInv, AppTypeOK, OneConnectionPerLogin, ConnectedIsHeard
<1>1. CASE StoreToken \/ CheckToken \/ KickOut \/ EmitInitial
  BY <1>1 DEF StoreToken, CheckToken, KickOut, EmitInitial, connect, vars
<1>2. CASE ServerTime
  BY <1>2 DEF ServerTime, session, connect, Tick, Retention
<1>3. ASSUME NEW k \in Keys, LoggedIn(k) \/ Connect(k) PROVE AppInv'
  BY <1>3, ConnectKeeps
<1>4. ASSUME NEW d \in Dials, Accepted(d[1], d[2]) PROVE AppInv'
  <2>1. d[1] \in Keys /\ d[2] \in 1..Retries
    BY DEF Dials
  <2>. QED
    BY <1>4, <2>1, AcceptedKeeps
<1>5. ASSUME NEW d \in Dials, HandshakeFails(d[1], d[2]) PROVE AppInv'
  BY <1>5 DEF HandshakeFails, session, vars
<1>6. CASE UNCHANGED appVars
  BY <1>6 DEF appVars, session, connect, vars
<1>. QED
  BY <1>1, <1>2, <1>3, <1>4, <1>5, <1>6 DEF AppNext

\* The invariant of the app's session.
THEOREM AppInvariant == AppSpec => []AppInv
<1>1. AppSpec => []OtpInv
  BY AppImplementsOtp, OtpInvariant, PTL
<1>2. AppInv /\ OtpInv /\ [AppNext]_appVars => AppInv'
  BY AppStepOK
<1>. QED
  BY AppInitOK, <1>1, <1>2, PTL DEF AppSpec

\* However often a login dials, the server takes up one of its connections at most.
THEOREM LoginsConnectOnce == AppSpec => []OneConnectionPerLogin
<1>1. AppInv => OneConnectionPerLogin
  BY DEF AppInv
<1>. QED
  BY AppInvariant, <1>1, PTL

\* What the app calls connected is the connection it listens to.
THEOREM ConnectedIsTrue == AppSpec => []ConnectedIsHeard
<1>1. AppInv => ConnectedIsHeard
  BY DEF AppInv
<1>. QED
  BY AppInvariant, <1>1, PTL
-----------------------------------------------------------------------------
(* ChatView: the list of messages and its order.                           *)

LEMMA InitChat == ChatInit => ChatInv
<1> SUFFICES ASSUME ChatInit PROVE ChatInv
  OBVIOUS
<1>1. ViewTypeOK /\ ToldOnce
  BY DEF ChatInit, ViewTypeOK, ToldOnce
<1>2. ViewIsListingPlusLive
  <2> SUFFICES ASSUME NEW m \in Messages
               PROVE  list[m] = (IF m \in base THEN 1 ELSE 0)
                                  + Cardinality({l \in Logins : m \in live[l]})
    BY DEF ViewIsListingPlusLive
  <2>1. {l \in Logins : m \in live[l]} = {}
    BY DEF ChatInit
  <2>2. list[m] = 0 /\ base = {}
    BY DEF ChatInit
  <2>. QED
    BY <2>1, <2>2, FS_EmptySet
<1>3. \A l \in Logins : InOrder(l) /\ OnlyTold(l)
  BY DEF ChatInit, InOrder, OnlyTold
<1>. QED
  BY <1>1, <1>2, <1>3 DEF ChatInv

\* A login whose queue, lookup and history stay as they are keeps its order, whatever
\* else the stream is given.
LEMMA OtherLogin ==
  ASSUME NEW l \in Logins, InOrder(l), OnlyTold(l),
         told' = told \/ \E m \in Messages : told' = Append(told, m), told \in Seq(Messages),
         UNCHANGED <<queue[l], looking[l], passed[l]>>, live'[l] \subseteq live[l]
  PROVE  InOrder(l)' /\ OnlyTold(l)'
<1>1. \A m, n : Before(m, n) => Before(m, n)'
  <2>1. \A s \in DOMAIN told : s \in DOMAIN told' /\ told'[s] = told[s]
    OBVIOUS
  <2>. QED
    BY <2>1 DEF Before
<1>2. \A m : WasTold(m) => WasTold(m)'
  BY DEF WasTold
<1>3. InOrder(l)'
  BY <1>1 DEF InOrder
<1>4. OnlyTold(l)'
  BY <1>2 DEF OnlyTold
<1>. QED
  BY <1>3, <1>4

\* The list depends on the listing shown and on what the logins added.
LEMMA SameList ==
  ASSUME ViewIsListingPlusLive, UNCHANGED <<list, base, live>>
  PROVE  ViewIsListingPlusLive'
  BY DEF ViewIsListingPlusLive

LEMMA HandKeeps ==
  ASSUME ChatInv, NEW m \in Messages, Hand(m)
  PROVE  ChatInv'
<1>. USE DEF ChatInv
<1>1. /\ fate[m] = "new" /\ fate' = [fate EXCEPT ![m] = "handed"] /\ told' = Append(told, m)
      /\ queue' = [l \in Logins |-> IF l \in listening THEN Append(queue[l], m) ELSE queue[l]]
      /\ UNCHANGED <<online, listening, looking, loads, view>>
  BY DEF Hand
<1>2. ViewTypeOK'
  BY <1>1 DEF ViewTypeOK, loads, view
<1>3. told \in Seq(Messages) /\ fate \in [Messages -> {"new", "handed", "stored"}]
  BY DEF ViewTypeOK
<1>4. /\ DOMAIN told' = 1..Len(told) + 1 /\ told'[Len(told) + 1] = m
      /\ \A s \in DOMAIN told : told'[s] = told[s] /\ s < Len(told) + 1 /\ s \in DOMAIN told'
      /\ \A s \in DOMAIN told' : s \in DOMAIN told \/ s = Len(told) + 1
  BY <1>1, <1>3
<1>5. ToldOnce'
  <2>1. \A s \in DOMAIN told : told[s] \in Messages /\ told[s] # m
    BY <1>1, <1>3 DEF ToldOnce
  <2>2. \A s \in DOMAIN told' : fate'[told'[s]] # "new"
    BY <1>1, <1>3, <1>4, <2>1 DEF ToldOnce
  <2>3. \A s, t \in DOMAIN told' : told'[s] = told'[t] => s = t
    BY <1>4, <2>1 DEF ToldOnce
  <2>. QED
    BY <2>2, <2>3 DEF ToldOnce
<1>6. ViewIsListingPlusLive'
  BY <1>1, SameList DEF view
<1>7. ASSUME NEW l \in Logins PROVE InOrder(l)' /\ OnlyTold(l)'
  <2>1. UNCHANGED <<looking, passed, live>>
    BY <1>1 DEF view
  <2>2. CASE l \notin listening
    BY <1>1, <1>3, <2>1, <2>2, OtherLogin
  <2>3. CASE l \in listening
    <3>1. queue'[l] = Append(queue[l], m) /\ queue[l] \in Seq(Messages)
      BY <1>1, <2>3 DEF ViewTypeOK
    <3>2. /\ DOMAIN queue'[l] = 1..Len(queue[l]) + 1 /\ queue'[l][Len(queue[l]) + 1] = m
          /\ \A i \in DOMAIN queue[l] : queue'[l][i] = queue[l][i]
          /\ \A i \in DOMAIN queue'[l] : i \in DOMAIN queue[l] \/ i = Len(queue[l]) + 1
      BY <3>1
    <3>3. \A x, y : Before(x, y) => Before(x, y)'
      BY <1>4 DEF Before
    <3>4. \A x : WasTold(x) => Before(x, m)' /\ WasTold(x)'
      BY <1>4 DEF Before, WasTold
    <3>5. WasTold(m)'
      BY <1>4, <1>3 DEF WasTold
    <3>6. \A i, j \in DOMAIN queue'[l] : i < j => i \in DOMAIN queue[l]
      BY <3>1, <3>2
    <3>7. (\A i, j \in DOMAIN queue[l] : i < j => Before(queue[l][i], queue[l][j]))'
      BY <3>2, <3>3, <3>4, <3>6 DEF InOrder, OnlyTold
    <3>8. InOrder(l)'
      BY <2>1, <3>2, <3>3, <3>4, <3>7 DEF InOrder, OnlyTold
    <3>9. OnlyTold(l)'
      BY <2>1, <3>2, <3>4, <3>5 DEF OnlyTold
    <3>. QED
      BY <3>8, <3>9
  <2>. QED
    BY <2>2, <2>3
<1>. QED
  BY <1>2, <1>5, <1>6, <1>7

\* The listing replaces the list: what was added before it came does not count.
LEMMA LoadedKeeps ==
  ASSUME ChatInv, NEW p \in Pages, Loaded(p)
  PROVE  ChatInv'
<1>. USE DEF ChatInv
<1>1. /\ list' = Replaced(rows[p]) /\ base' = rows[p] /\ live' = [l \in Logins |-> {}]
      /\ UNCHANGED <<fate, told, queue, looking, passed>>
  BY DEF Loaded, socket, events
<1>2. ViewTypeOK'
  BY DEF Loaded, Replaced, ViewTypeOK, socket, events
<1>3. ToldOnce'
  BY <1>1 DEF ToldOnce
<1>4. ViewIsListingPlusLive'
  <2> SUFFICES ASSUME NEW m \in Messages
               PROVE  (list[m] = (IF m \in base THEN 1 ELSE 0)
                                   + Cardinality({l \in Logins : m \in live[l]}))'
    BY DEF ViewIsListingPlusLive
  <2>1. {l \in Logins : m \in live'[l]} = {}
    BY <1>1
  <2>2. list'[m] = IF m \in base' THEN 1 ELSE 0
    BY <1>1 DEF Replaced
  <2>3. Cardinality({l \in Logins : m \in live'[l]}) = 0
    BY <2>1, FS_EmptySet
  <2>. QED
    BY <2>2, <2>3
<1>5. \A l \in Logins : InOrder(l)' /\ OnlyTold(l)'
  BY <1>1, OtherLogin DEF ViewTypeOK
<1>. QED
  BY <1>2, <1>3, <1>4, <1>5

\* The event at the head of the queue is looked up.
LEMMA LookUpKeeps ==
  ASSUME ChatInv, NEW k \in Logins, LookUp(k)
  PROVE  ChatInv'
<1>. USE DEF ChatInv
<1>1. /\ looking[k] = None /\ 1 \in DOMAIN queue[k]
      /\ looking' = [looking EXCEPT ![k] = queue[k][1]]
      /\ queue' = [queue EXCEPT ![k] = SubSeq(@, 1, 0) \o SubSeq(@, 2, Len(@))]
      /\ UNCHANGED <<socket, listening, loads, view>>
  BY DEF LookUp, NextUp
<1>2. queue[k] \in Seq(Messages) /\ queue \in [Logins -> Seq(Messages)] /\ looking \in [Logins -> Messages \cup {None}]
  BY DEF ViewTypeOK
<1>3. queue'[k] = Tail(queue[k])
  <2>1. queue'[k] = SubSeq(queue[k], 1, 0) \o SubSeq(queue[k], 2, Len(queue[k]))
    BY <1>1, <1>2
  <2>2. Len(SubSeq(queue[k], 1, 0)) = 0 /\ SubSeq(queue[k], 1, 0) \in Seq(Messages)
    BY <1>2
  <2>. QED
    BY <1>1, <1>2, <2>1, <2>2
<1>4. queue'[k] \in Seq(Messages) /\ looking'[k] = queue[k][1] /\ queue[k][1] \in Messages
  BY <1>1, <1>2, <1>3
<1>5. ViewTypeOK'
  <2>1. queue' \in [Logins -> Seq(Messages)] /\ looking' \in [Logins -> Messages \cup {None}]
    BY <1>1, <1>2, <1>4
  <2>. QED
    BY <1>1, <2>1 DEF ViewTypeOK, socket, loads, view
<1>6. ToldOnce'
  BY <1>1 DEF ToldOnce, socket
<1>7. ViewIsListingPlusLive'
  BY <1>1, SameList DEF view
<1>8. UNCHANGED <<told, passed, live>>
  BY <1>1 DEF socket, view
<1>9. ASSUME NEW l \in Logins PROVE InOrder(l)' /\ OnlyTold(l)'
  <2>1. CASE l # k
    BY <1>1, <1>8, <2>1, OtherLogin DEF ViewTypeOK
  <2>2. CASE l = k
    <3>1. \A j \in DOMAIN queue'[k] : /\ queue'[k][j] = queue[k][j + 1]
                                      /\ j + 1 \in DOMAIN queue[k] /\ 1 < j + 1 /\ j \in Int
      BY <1>1, <1>2, <1>3
    <3>2. \A m, n : Before(m, n) <=> Before(m, n)'
      BY <1>8 DEF Before
    <3>3. InOrder(k)'
      <4>1. (\A i, j \in DOMAIN queue[k] : i < j => Before(queue[k][i], queue[k][j]))'
        BY <3>1, <3>2 DEF InOrder
      <4>. QED
        BY <1>1, <1>4, <1>8, <3>1, <3>2, <4>1 DEF InOrder
    <3>4. OnlyTold(k)'
      BY <1>1, <1>4, <1>8, <3>1 DEF OnlyTold, WasTold
    <3>. QED
      BY <2>2, <3>3, <3>4
  <2>. QED
    BY <2>1, <2>2
<1>. QED
  BY <1>5, <1>6, <1>7, <1>9

\* It is added to the list of that moment.
LEMMA AddMessageKeeps ==
  ASSUME ChatInv, NEW k \in Logins, AddMessage(k)
  PROVE  ChatInv'
<1>. USE DEF ChatInv
<1>. DEFINE n == looking[k]
<1>1. /\ n # None
      /\ list' = [list EXCEPT ![n] = @ + 1] /\ looking' = [looking EXCEPT ![k] = None]
      /\ live' = [live EXCEPT ![k] = @ \cup {n}] /\ passed' = [passed EXCEPT ![k] = Append(@, n)]
      /\ status' = "live"
      /\ UNCHANGED <<socket, listening, queue, loads, base>>
  BY DEF AddMessage
<1>2. n \in Messages /\ passed[k] \in Seq(Messages)
  BY <1>1 DEF ViewTypeOK
<1>3. ViewTypeOK'
  BY <1>1, <1>2 DEF ViewTypeOK, socket, loads
<1>4. ToldOnce'
  BY <1>1 DEF ToldOnce, socket
<1>5. n \notin live[k]
  <2>1. \A i \in DOMAIN passed[k] : passed[k][i] # n
    BY <1>1, <1>2 DEF InOrder, Before, ToldOnce, ViewTypeOK
  <2>. QED
    BY <2>1 DEF OnlyTold
<1>6. ViewIsListingPlusLive'
  <2> SUFFICES ASSUME NEW m \in Messages
               PROVE  (list[m] = (IF m \in base THEN 1 ELSE 0)
                                   + Cardinality({l \in Logins : m \in live[l]}))'
    BY DEF ViewIsListingPlusLive
  <2>. DEFINE S == {l \in Logins : m \in live[l]}
              T == {l \in Logins : m \in live'[l]}
  <2>1. list[m] = (IF m \in base THEN 1 ELSE 0) + Cardinality(S)
    BY DEF ViewIsListingPlusLive
  <2>2. IsFiniteSet(S) /\ Cardinality(S) \in Nat
    <3>1. IsFiniteSet(Logins)
      BY ChatAssumption, FS_Interval DEF Logins
    <3>. QED
      BY <3>1, FS_Subset, FS_CardinalityType
  <2>3. base' = base
    BY <1>1
  <2>4. CASE m = n
    <3>1. T = S \cup {k} /\ k \notin S
      BY <1>1, <1>5, <2>4 DEF ViewTypeOK
    <3>2. Cardinality(T) = Cardinality(S) + 1
      BY <2>2, <3>1, FS_AddElement
    <3>3. list'[m] = list[m] + 1
      BY <1>1, <1>2, <2>4 DEF ViewTypeOK
    <3>. QED
      BY <2>1, <2>2, <2>3, <3>2, <3>3
  <2>5. CASE m # n
    <3>1. T = S
      BY <1>1, <2>5 DEF ViewTypeOK
    <3>2. list'[m] = list[m]
      BY <1>1, <1>2, <2>5 DEF ViewTypeOK
    <3>. QED
      BY <2>1, <2>3, <3>1, <3>2
  <2>. QED
    BY <2>4, <2>5
<1>7. UNCHANGED <<told, queue>>
  BY <1>1 DEF socket
<1>8. ASSUME NEW l \in Logins PROVE InOrder(l)' /\ OnlyTold(l)'
  <2>1. CASE l # k
    BY <1>1, <1>7, <2>1, OtherLogin DEF ViewTypeOK
  <2>2. CASE l = k
    <3>1. looking'[k] = None /\ passed'[k] = Append(passed[k], n) /\ live'[k] = live[k] \cup {n}
      BY <1>1 DEF ViewTypeOK
    <3>2. /\ DOMAIN passed'[k] = 1..Len(passed[k]) + 1 /\ passed'[k][Len(passed[k]) + 1] = n
          /\ \A i \in DOMAIN passed[k] : passed'[k][i] = passed[k][i] /\ i \in DOMAIN passed'[k]
          /\ \A i \in DOMAIN passed'[k] : i \in DOMAIN passed[k] \/ i = Len(passed[k]) + 1
          /\ \A i, j \in DOMAIN passed'[k] : i < j => i \in DOMAIN passed[k]
          /\ Len(passed[k]) + 1 \in DOMAIN passed'[k]
      BY <1>2, <3>1
    <3>3. \A x, y : Before(x, y) <=> Before(x, y)'
      BY <1>7 DEF Before
    <3>4. (\A i, j \in DOMAIN passed[k] : i < j => Before(passed[k][i], passed[k][j]))'
      BY <1>1, <3>2, <3>3 DEF InOrder
    <3>5. (\A i \in DOMAIN passed[k], j \in DOMAIN queue[k] : Before(passed[k][i], queue[k][j]))'
      BY <1>1, <1>7, <3>2, <3>3 DEF InOrder
    <3>6. InOrder(k)'
      BY <1>7, <3>1, <3>3, <3>4, <3>5 DEF InOrder
    <3>7. OnlyTold(k)'
      <4>1. live'[k] \subseteq {passed'[k][i] : i \in DOMAIN passed'[k]}
        BY <3>1, <3>2 DEF OnlyTold
      <4>. QED
        BY <1>1, <1>7, <3>1, <3>2, <4>1 DEF OnlyTold, WasTold
    <3>. QED
      BY <2>2, <3>6, <3>7
  <2>. QED
    BY <2>1, <2>2
<1>. QED
  BY <1>3, <1>4, <1>6, <1>8

LEMMA LookUpFailsKeeps ==
  ASSUME ChatInv, NEW k \in Logins, LookUpFails(k)
  PROVE  ChatInv'
<1>. USE DEF ChatInv, LookUpFails, KeepListening
<1>1. UNCHANGED <<fate, told, queue, list, base, live, passed>>
      /\ looking' = [looking EXCEPT ![k] = None]
  BY DEF socket
<1>2. ViewTypeOK'
  BY DEF ViewTypeOK, socket, loads
<1>3. ToldOnce' /\ ViewIsListingPlusLive'
  BY <1>1, SameList DEF ToldOnce
<1>4. ASSUME NEW l \in Logins PROVE InOrder(l)' /\ OnlyTold(l)'
  <2>1. CASE l # k
    BY <1>1, <2>1, OtherLogin DEF ViewTypeOK
  <2>2. CASE l = k
    <3>1. looking'[l] = None
      BY <1>1, <2>2 DEF ViewTypeOK
    <3>. QED
      BY <1>1, <3>1 DEF InOrder, OnlyTold, Before, WasTold
  <2>. QED
    BY <2>1, <2>2
<1>. QED
  BY <1>2, <1>3, <1>4

\* Everything else leaves the stream, its events and the list alone.
LEMMA QuietKeeps ==
  ASSUME ChatInv, ViewTypeOK', fate' = fate \/ \E m \in Messages : Store(m),
         UNCHANGED <<told, queue, looking, list, base, live, passed>>
  PROVE  ChatInv'
<1>. USE DEF ChatInv
<1>1. ToldOnce'
  BY DEF ToldOnce, Store, ViewTypeOK
<1>2. ViewIsListingPlusLive'
  BY SameList
<1>3. \A l \in Logins : InOrder(l)' /\ OnlyTold(l)'
  BY OtherLogin DEF ViewTypeOK
<1>. QED
  BY <1>1, <1>2, <1>3

LEMMA StepChat == ChatInv /\ [ChatNext]_chatVars => ChatInv'
<1> SUFFICES ASSUME ChatInv, [ChatNext]_chatVars PROVE ChatInv'
  OBVIOUS
<1>. USE DEF socket, events, loads, view
<1>1. CASE \E m \in Messages : Hand(m)
  BY <1>1, HandKeeps
<1>2. CASE \E m \in Messages : Store(m)
  <2>1. ViewTypeOK'
    BY <1>2 DEF ChatInv, ViewTypeOK, Store
  <2>. QED
    BY <1>2, <2>1, QuietKeeps DEF Store
<1>3. CASE SendFails \/ Disconnect
  <2>1. ViewTypeOK'
    BY <1>3 DEF ChatInv, ViewTypeOK, SendFails, Disconnect
  <2>. QED
    BY <1>3, <2>1, QuietKeeps DEF SendFails, Disconnect
<1>4. ASSUME NEW p \in Pages, NEW r \in Rooms, OpenRoom(p, r) PROVE ChatInv'
  <2>1. ViewTypeOK'
    BY <1>4 DEF ChatInv, ViewTypeOK, OpenRoom
  <2>. QED
    BY <1>4, <2>1, QuietKeeps DEF OpenRoom
<1>5. ASSUME NEW p \in Pages, GetMessages(p) \/ LoadFails(p) PROVE ChatInv'
  <2>1. ViewTypeOK'
    BY <1>5 DEF ChatInv, ViewTypeOK, GetMessages, LoadFails, ShowError
  <2>. QED
    BY <1>5, <2>1, QuietKeeps DEF GetMessages, LoadFails
<1>6. ASSUME NEW l \in Logins, Listen(l) PROVE ChatInv'
  <2>1. ViewTypeOK'
    BY <1>6 DEF ChatInv, ViewTypeOK, Listen
  <2>. QED
    BY <1>6, <2>1, QuietKeeps DEF Listen
<1>8. ASSUME NEW l \in Logins, SocketError(l) PROVE ChatInv'
  <2>1. ViewTypeOK'
    BY <1>8 DEF ChatInv, ViewTypeOK, SocketError, KeepListening
  <2>. QED
    BY <1>8, <2>1, QuietKeeps DEF SocketError
<1>7. CASE UNCHANGED chatVars
  <2>1. ViewTypeOK'
    BY <1>7 DEF ChatInv, ViewTypeOK, chatVars
  <2>. QED
    BY <1>7, <2>1, QuietKeeps DEF chatVars
<1>. QED
  BY <1>1, <1>2, <1>3, <1>4, <1>5, <1>6, <1>7, <1>8,
     LoadedKeeps, LookUpKeeps, AddMessageKeeps, LookUpFailsKeeps
  DEF ChatNext, LoadEnds, LookUpEnds

\* The inductive invariant of the chat page: what was added, is looked up and waits
\* are one order.
THEOREM ChatInvariant == ChatSpec => []ChatInv
  BY InitChat, StepChat, PTL DEF ChatSpec

\* ChatBloc, for any number of messages, logins and overlapping loads: the list is the
\* last listing and what each login added since.
THEOREM ListIsWhole == ChatSpec => []ViewIsListingPlusLive
<1>1. ChatInv => ViewIsListingPlusLive
  BY DEF ChatInv
<1>. QED
  BY <1>1, ChatInvariant, PTL

\* asyncMap: lookups do not overtake each other.
THEOREM AddedInOrder == ChatSpec => []LiveInOrder
<1>1. ChatInv => LiveInOrder
  BY DEF ChatInv, InOrder, Before, LiveInOrder
<1>. QED
  BY <1>1, ChatInvariant, PTL
=============================================================================
