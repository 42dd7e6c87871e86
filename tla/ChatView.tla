------------------------------ MODULE ChatView ------------------------------
(***************************************************************************)
(* The app's ChatBloc between two sources of messages: the listing of a    *)
(* room, which the server reads from its table, and the events of the      *)
(* socket, which it hands out before it stores them (WsHub).  The bloc's   *)
(* handlers run concurrently; every await is a step of its own.            *)
(***************************************************************************)
EXTENDS Naturals, Sequences, FiniteSets

CONSTANTS Messages, Rooms,
          RoomOf,   \* [Messages -> Rooms]
          MaxLogins, \* bound: logins of one run of the app
          MaxPages   \* bound: room pages opened

None == "none"
ASSUME ChatAssumption ==
  /\ RoomOf \in [Messages -> Rooms] /\ None \notin Messages \cup Rooms
  /\ MaxLogins \in Nat /\ MaxPages \in Nat

Logins == 1..MaxLogins
Pages == 1..MaxPages

VARIABLES
  fate,       \* of a message: "new", "handed" to the app, "stored"
  told,       \* WsManager._messageStream: what it was given, in order
  online,     \* the stream is open
  listening,  \* the logins whose NewMessageListening runs
  queue,      \* events that wait in the login's asyncMap
  looking,    \* the event whose sender it looks up, or None
  load,       \* ChatMessagesRequested of a page: "none", "asked", "answered", "over"
  room,       \* its room
  rows,       \* the listing under way to it
  list,       \* state.messages: how often it holds a message
  status,     \* the bloc's state
  base,       \* history: the last listing shown
  live,       \* history: events a login added since
  passed      \* history: events a login added, in order

socket   == <<fate, told, online>>
events   == <<listening, queue, looking>>
loads    == <<load, room, rows>>
view     == <<list, status, base, live, passed>>
chatVars == <<socket, events, loads, view>>

ChatInit ==
  /\ fate = [m \in Messages |-> "new"] /\ told = <<>> /\ online = TRUE
  /\ listening = {}
  /\ queue = [l \in Logins |-> <<>>] /\ looking = [l \in Logins |-> None]
  /\ load = [p \in Pages |-> "none"] /\ room = [p \in Pages |-> None]
  /\ rows = [p \in Pages |-> {}]
  /\ list = [m \in Messages |-> 0] /\ status = "initial"
  /\ base = {} /\ live = [l \in Logins |-> {}] /\ passed = [l \in Logins |-> <<>>]
-----------------------------------------------------------------------------
(* The server and the socket.                                              *)

\* A message of the app itself goes to the hub as everybody's do, and comes back; on
\* a closed channel sendMessage throws.
SendFails ==
  /\ ~online
  /\ status' = "error"
  /\ UNCHANGED <<socket, events, loads, list, base, live, passed>>

\* The hub hands out a message.
Hand(m) ==
  /\ online /\ fate[m] = "new"
  /\ fate' = [fate EXCEPT ![m] = "handed"]
  /\ told' = Append(told, m)
  /\ queue' = [l \in Logins |-> IF l \in listening THEN Append(queue[l], m) ELSE queue[l]]
  /\ UNCHANGED <<online, listening, looking, loads, view>>

Store(m) ==
  /\ fate[m] = "handed"
  /\ fate' = [fate EXCEPT ![m] = "stored"]
  /\ UNCHANGED <<told, online, events, loads, view>>

\* onDone closes the stream for good; an error of the socket goes ahead of that (SocketError).
Disconnect ==
  /\ online
  /\ online' = FALSE
  /\ UNCHANGED <<fate, told, events, loads, view>>
-----------------------------------------------------------------------------
(* ChatMessagesRequested.                                                  *)

OpenRoom(p, r) ==
  /\ load[p] = "none" /\ \A q \in 1..p - 1 : load[q] # "none"
  /\ load' = [load EXCEPT ![p] = "asked"]
  /\ room' = [room EXCEPT ![p] = r]
  /\ status' = "loading"
  /\ UNCHANGED <<socket, events, rows, list, base, live, passed>>

\* One SELECT.  Rows that are cut short by an error are answered as all of them:
\* nobody asks rows.Err.
GetMessages(p) ==
  /\ load[p] = "asked"
  /\ \E some \in SUBSET {m \in Messages : fate[m] = "stored" /\ RoomOf[m] = room[p]} :
       rows' = [rows EXCEPT ![p] = some]
  /\ load' = [load EXCEPT ![p] = "answered"]
  /\ UNCHANGED <<socket, events, room, view>>

\* The list is replaced, also by an answer to a page that has been left.  Added:
\* the answer goes on top of it.
Added(s) == [m \in Messages |-> list[m] + IF m \in s THEN 1 ELSE 0]
Replaced(s) == [m \in Messages |-> IF m \in s THEN 1 ELSE 0]

Loaded(p) ==
  /\ load[p] = "answered"
  /\ load' = [load EXCEPT ![p] = "over"]
  /\ list' = Replaced(rows[p]) /\ status' = "loaded"
  /\ base' = rows[p] /\ live' = [l \in Logins |-> {}]
  /\ rows' = [rows EXCEPT ![p] = {}] /\ room' = [room EXCEPT ![p] = None]
  /\ UNCHANGED <<socket, events, passed>>

\* The request fails or times out.  Silently: the bloc emits nothing.
Silently == UNCHANGED status
ShowError == status' = "error"

LoadFails(p) ==
  /\ load[p] \in {"asked", "answered"}
  /\ load' = [load EXCEPT ![p] = "over"]
  /\ ShowError
  /\ rows' = [rows EXCEPT ![p] = {}] /\ room' = [room EXCEPT ![p] = None]
  /\ UNCHANGED <<socket, events, list, base, live, passed>>
-----------------------------------------------------------------------------
(* NewMessageListening: events pass through an asyncMap that looks up the  *)
(* sender of one at a time, and are added to the list of that moment.      *)

Listen(l) ==
  /\ l \notin listening /\ 1..l - 1 \subseteq listening /\ online
  /\ listening' = listening \cup {l}
  /\ UNCHANGED <<socket, queue, looking, loads, view>>

\* AnyOrder: lookups overtake each other.
AnyOrder(l) == 1..Len(queue[l])
NextUp(l) == {1} \cap DOMAIN queue[l]

LookUp(l) ==
  /\ l \in listening /\ looking[l] = None
  /\ \E i \in NextUp(l) :
       /\ looking' = [looking EXCEPT ![l] = queue[l][i]]
       /\ queue' = [queue EXCEPT ![l] = SubSeq(@, 1, i - 1) \o SubSeq(@, i + 1, Len(@))]
  /\ UNCHANGED <<socket, listening, loads, view>>

AddMessage(l) ==
  /\ looking[l] # None
  /\ list' = [list EXCEPT ![looking[l]] = @ + 1]
  /\ status' = "live"
  /\ looking' = [looking EXCEPT ![l] = None]
  /\ live' = [live EXCEPT ![l] = @ \cup {looking[l]}]
  /\ passed' = [passed EXCEPT ![l] = Append(@, looking[l])]
  /\ UNCHANGED <<socket, listening, queue, loads, base>>

\* forEach has an onError; EndListening: without one, it would end.
EndListening(l) == listening' = listening \ {l}
KeepListening(l) == UNCHANGED listening

LookUpFails(l) ==
  /\ looking[l] # None
  /\ looking' = [looking EXCEPT ![l] = None]
  /\ status' = "error"
  /\ KeepListening(l)
  /\ UNCHANGED <<socket, queue, loads, list, base, live, passed>>

\* The error that the socket ends with comes behind its events, and reaches onError as a
\* lookup's does.  That it comes once only is left out: SendFails may show one again anyway.
SocketError(l) ==
  /\ ~online /\ l \in listening
  /\ queue[l] = <<>> /\ looking[l] = None
  /\ status' = "error"
  /\ KeepListening(l)
  /\ UNCHANGED <<socket, queue, looking, loads, list, base, live, passed>>
-----------------------------------------------------------------------------
LoadEnds(p) == Loaded(p) \/ LoadFails(p)
LookUpEnds(l) == AddMessage(l) \/ LookUpFails(l)

ChatNext ==
  \/ \E m \in Messages : Hand(m) \/ Store(m)
  \/ SendFails \/ Disconnect
  \/ \E p \in Pages : (\E r \in Rooms : OpenRoom(p, r)) \/ GetMessages(p) \/ LoadEnds(p)
  \/ \E l \in Logins : Listen(l) \/ LookUp(l) \/ LookUpEnds(l) \/ SocketError(l)

\* Requests time out after five seconds, and the app's event loop turns.
Fairness ==
  /\ \A p \in Pages : WF_chatVars(LoadEnds(p))
  /\ \A l \in Logins : WF_chatVars(LookUp(l)) /\ WF_chatVars(LookUpEnds(l))

ChatSpec == ChatInit /\ [][ChatNext]_chatVars /\ Fairness
-----------------------------------------------------------------------------
\* The list is the last listing and, once for every login of this run of the app,
\* what was looked up since: nothing else is lost, although lookups begin on an
\* older list and loads overlap, and nothing else is shown twice.
ViewIsListingPlusLive ==
  \A m \in Messages :
    list[m] = (IF m \in base THEN 1 ELSE 0) + Cardinality({l \in Logins : m \in live[l]})

\* However long the lookups take, a login adds messages in the order they came.
LiveInOrder ==
  \A l \in Logins : \A i, j \in DOMAIN passed[l] :
    i < j => \E s, t \in DOMAIN told :
               s < t /\ told[s] = passed[l][i] /\ told[t] = passed[l][j]

\* The spinner does not turn for ever.
LoadingEnds == (status = "loading") ~> (status # "loading")

\* A lookup that fails costs its own message only: those behind it are taken up.
EachIsTakenUp ==
  \A l \in Logins, m \in Messages :
    (\E i \in DOMAIN queue[l] : queue[l][i] = m)
      ~> ~(\E i \in DOMAIN queue[l] : queue[l][i] = m)
-----------------------------------------------------------------------------
ViewTypeOK ==
  /\ fate \in [Messages -> {"new", "handed", "stored"}]
  /\ told \in Seq(Messages) /\ online \in BOOLEAN
  /\ listening \subseteq Logins
  /\ queue \in [Logins -> Seq(Messages)] /\ looking \in [Logins -> Messages \cup {None}]
  /\ load \in [Pages -> {"none", "asked", "answered", "over"}]
  /\ room \in [Pages -> Rooms \cup {None}] /\ rows \in [Pages -> SUBSET Messages]
  /\ list \in [Messages -> Nat]
  /\ status \in {"initial", "loading", "loaded", "live", "error"}
  /\ base \subseteq Messages /\ live \in [Logins -> SUBSET Messages]
  /\ passed \in [Logins -> Seq(Messages)]

\* The stream gave m before n.
Before(m, n) == \E s, t \in DOMAIN told : s < t /\ told[s] = m /\ told[t] = n

\* The stream gives a message once, and none that is still to be handed out.
ToldOnce ==
  /\ \A s \in DOMAIN told : fate[told[s]] # "new"
  /\ \A s, t \in DOMAIN told : told[s] = told[t] => s = t

\* What a login added, looks up and has waiting are, in this order, what it was told.
InOrder(l) ==
  /\ \A i, j \in DOMAIN queue[l] : i < j => Before(queue[l][i], queue[l][j])
  /\ \A i, j \in DOMAIN passed[l] : i < j => Before(passed[l][i], passed[l][j])
  /\ \A i \in DOMAIN passed[l], j \in DOMAIN queue[l] : Before(passed[l][i], queue[l][j])
  /\ looking[l] # None =>
       /\ \A i \in DOMAIN passed[l] : Before(passed[l][i], looking[l])
       /\ \A j \in DOMAIN queue[l] : Before(looking[l], queue[l][j])

\* And each of them was told.
WasTold(m) == \E s \in DOMAIN told : told[s] = m
OnlyTold(l) ==
  /\ \A i \in DOMAIN queue[l] : WasTold(queue[l][i])
  /\ \A i \in DOMAIN passed[l] : WasTold(passed[l][i])
  /\ looking[l] # None => WasTold(looking[l])
  /\ live[l] \subseteq {passed[l][i] : i \in DOMAIN passed[l]}

\* The inductive invariant behind the list and its order.
ChatInv ==
  /\ ViewTypeOK /\ ToldOnce /\ ViewIsListingPlusLive
  /\ \A l \in Logins : InOrder(l) /\ OnlyTold(l)
=============================================================================
