----------------------------- MODULE AppSession -----------------------------
(***************************************************************************)
(* The app's session next to the server's one-time passwords.  A login     *)
(* makes WebsocketCubit ask for a password and WsManager dial with it, up  *)
(* to three times; a 401, of whatever request, ends in kickOut, because    *)
(* the renewal goes to a route the server does not have.  Login k of this  *)
(* run of the app is given password k.                                     *)
(***************************************************************************)
EXTENDS OtpRetention

CONSTANT Retries    \* retries, 3

ASSUME AppAssumption == Retries \in Nat \ {0}

Dials == Keys \X (1..Retries)

VARIABLES
  token,     \* the secure storage holds an access token
  checking,  \* isUserAuthenticated has read it
  user,      \* the state is UserAuthIsLoggedIn
  kicking,   \* a kickOut has emptied the storage and emitted nothing yet
  pc,        \* connectCubit of a login
  try,       \* its round in connect's loop
  flights,   \* handshakes under way
  heard,     \* dials whose stream WsManager listens to
  accepted   \* history: dials the server took up

session == <<token, checking, user, kicking>>
connect == <<pc, try, flights, heard, accepted>>
appVars == <<vars, session, connect>>

AppInit ==
  /\ Init
  /\ token = FALSE /\ checking = FALSE /\ user = FALSE /\ kicking = FALSE
  /\ pc = [k \in Keys |-> "none"] /\ try = [k \in Keys |-> 1]
  /\ flights = {} /\ heard = {} /\ accepted = {}
-----------------------------------------------------------------------------
(* The session: the login page stores what the server gave it, then        *)
(* isUserAuthenticated reads it back.                                      *)

StoreToken ==
  /\ ~user /\ ~checking
  /\ token' = TRUE
  /\ UNCHANGED <<checking, user, kicking, connect, vars>>

CheckToken ==
  /\ ~user /\ ~checking /\ token
  /\ checking' = TRUE
  /\ UNCHANGED <<token, user, kicking, connect, vars>>

LoggedIn(k) ==
  /\ checking /\ pc[k] = "none"
  /\ user' = TRUE /\ checking' = FALSE
  /\ pc' = [pc EXCEPT ![k] = "otp"]
  /\ UNCHANGED <<token, kicking, try, flights, heard, accepted, vars>>

\* kickOut, from the drawer or, after a 401 of this or an earlier session, from the
\* interceptor: the storage, then the state.  Bound: one at a time.
KickOut ==
  /\ ~kicking /\ \E k \in Keys : pc[k] # "none"
  /\ token' = FALSE
  /\ kicking' = TRUE
  /\ UNCHANGED <<checking, user, connect, vars>>

EmitInitial ==
  /\ kicking
  /\ kicking' = FALSE /\ user' = FALSE
  /\ UNCHANGED <<token, checking, connect, vars>>
-----------------------------------------------------------------------------
(* connectCubit and WsManager.connect.                                     *)

Goes(k, to) == pc' = [pc EXCEPT ![k] = to]

\* GET /v1/otp; its answer may be lost, and it fails without a token.
AskOTP(k) ==
  /\ pc[k] = "otp" /\ token
  /\ NewOTP(k)
  /\ Goes(k, "token") \/ Goes(k, "failed")
  /\ UNCHANGED <<session, try, flights, heard, accepted>>

AskOTPFails(k) ==
  /\ pc[k] = "otp"
  /\ Goes(k, "failed")
  /\ UNCHANGED <<session, try, flights, heard, accepted, vars>>

ReadToken(k) ==
  /\ pc[k] = "token"
  /\ Goes(k, IF token THEN "dial" ELSE "failed")
  /\ UNCHANGED <<session, try, flights, heard, accepted, vars>>

\* The first dial of the process sets the late final _channel and is listened to.
Dial(k) ==
  /\ pc[k] = "dial" /\ heard = {}
  /\ flights' = flights \cup {<<k, try[k]>>}
  /\ heard' = heard \cup {<<k, try[k]>>}
  /\ Goes(k, "connected")
  /\ UNCHANGED <<session, try, accepted, vars>>

\* Later ones open a connection as well, before the assignment throws.  Swallow:
\* the last round does not rethrow; Endless: the loop has no last round.
Swallow(k) == IF try[k] = Retries
                THEN Goes(k, "connected") /\ UNCHANGED try
                ELSE UNCHANGED pc /\ try' = [try EXCEPT ![k] = @ + 1]
Endless(k) == UNCHANGED <<pc, try>>
Retry(k) == IF try[k] = Retries
              THEN Goes(k, "failed") /\ UNCHANGED try
              ELSE UNCHANGED pc /\ try' = [try EXCEPT ![k] = @ + 1]

DialThrows(k) ==
  /\ pc[k] = "dial" /\ heard # {}
  /\ flights' = flights \cup {<<k, try[k]>>}
  /\ Retry(k)
  /\ UNCHANGED <<session, heard, accepted, vars>>

\* ServeWS, or the network, answers a handshake.
Accepted(k, i) ==
  /\ <<k, i>> \in flights
  /\ VerifyOTP(k)
  /\ accepted' = accepted \cup {<<k, i>>}
  /\ flights' = flights \ {<<k, i>>}
  /\ UNCHANGED <<session, pc, try, heard>>

HandshakeFails(k, i) ==
  /\ <<k, i>> \in flights
  /\ flights' = flights \ {<<k, i>>}
  /\ UNCHANGED <<session, pc, try, heard, accepted, vars>>

ServerTime == (Tick \/ Retention) /\ UNCHANGED <<session, connect>>
-----------------------------------------------------------------------------
Connect(k) == AskOTP(k) \/ AskOTPFails(k) \/ ReadToken(k) \/ Dial(k) \/ DialThrows(k)

AppNext ==
  \/ StoreToken \/ CheckToken \/ KickOut \/ EmitInitial \/ ServerTime
  \/ \E k \in Keys : LoggedIn(k) \/ Connect(k)
  \/ \E d \in Dials : Accepted(d[1], d[2]) \/ HandshakeFails(d[1], d[2])

\* The app's event loop turns, and its requests time out.
AppSpec == AppInit /\ [][AppNext]_appVars /\ \A k \in Keys : WF_appVars(Connect(k))
-----------------------------------------------------------------------------
\* A login dials again and again with one password: however the handshakes overtake
\* each other, and whatever the sweep does, the server takes up one of them at most.
OneConnectionPerLogin == \A d, e \in accepted : d[1] = e[1] => d = e

\* "Connected" is said of the connection that is listened to, and of no other:
\* not of a later login, whose connections the late final _channel cannot hold.
ConnectedIsHeard ==
  \A k \in Keys : pc[k] = "connected" => \E i \in 1..Retries : heard = {<<k, i>>}

AppTypeOK ==
  /\ token \in BOOLEAN /\ checking \in BOOLEAN /\ user \in BOOLEAN /\ kicking \in BOOLEAN
  /\ pc \in [Keys -> {"none", "otp", "token", "dial", "connected", "failed"}]
  /\ try \in [Keys -> 1..Retries]
  /\ flights \subseteq Dials /\ heard \subseteq Dials /\ accepted \subseteq Dials

\* The inductive invariant, on top of that of the one-time passwords.
AppInv ==
  /\ AppTypeOK
  /\ \A d \in accepted : uses[d[1]] >= 1
  /\ OneConnectionPerLogin /\ ConnectedIsHeard

\* Every login ends up connected or told that it is not.
Connecting(k) == pc[k] \in {"otp", "token", "dial"}
ConnectsEnd == \A k \in Keys : Connecting(k) ~> ~Connecting(k)
=============================================================================
