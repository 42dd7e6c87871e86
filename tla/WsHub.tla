------------------------------- MODULE WsHub -------------------------------
(***************************************************************************)
(* The chat hub of internals/server/ws: the Manager's registry of clients  *)
(* behind its RWMutex, and for every WebSocket connection the goroutines   *)
(* ServeWS starts.  A connection c (one *Client) has five goroutines:      *)
(*   <<"serve", c>>   the ServeWS handler itself, up to its return         *)
(*   <<"reader", c>>  readMessages: routes events, and on exit removes c,  *)
(*                    tells the others and writes users.is_online = false  *)
(*   <<"writer", c>>  writeMessages: the only receiver of c.egress         *)
(*   <<"notify", c>>  go notifyOnlineStatusChange(c, true)                 *)
(*   <<"online", c>>  go UpdateOnlineStatus(r.Context(), user, true)       *)
(* egress is unbuffered, so handing an event to c is a rendezvous with     *)
(* c's writer, and a broadcast hands its events while it holds the read    *)
(* lock.  Program counters are named after the statement about to run.     *)
(***************************************************************************)
EXTENDS RWMutex, Integers, Sequences, Functions

CONSTANTS Conns,   \* WebSocket connections, each used for one session
          Users, UserOf,          \* UserOf[c]: the claims' subject of c
          Rooms,
          Msgs, RoomOf,           \* RoomOf[m]: ToRoomId of message m
          InitMember,             \* job_chat_members at the start
          Established,            \* bound: sessions open and announced at the start
          Leavers,                \* bound: sessions whose connection may fail
          MayRestart              \* bound: whether the process may die

ASSUME HubAssumption ==
  /\ UserOf \in [Conns -> Users]
  /\ RoomOf \in [Msgs -> Rooms]
  /\ InitMember \subseteq Users \X Rooms
  /\ Established \subseteq Conns /\ Leavers \subseteq Conns
  /\ MayRestart \in BOOLEAN
  /\ Nobody \notin Conns
  /\ Nobody \notin {"serve", "reader", "writer", "notify", "online"} \X Conns

VARIABLES
  pc,        \* pc[g]: the statement goroutine g runs next
  event,     \* event[g]: what g is broadcasting
  todo,      \* todo[g]: clients g's range loop has not visited yet
  at,        \* at[g]: the client whose egress g is blocked on
  clients,   \* Manager.Clients
  roomIds,   \* Client.roomIds
  closed,    \* connections removeClient has closed
  member,    \* job_chat_members (user_id, chat_room_id)
  stored,    \* group_messages, in insertion order
  online,    \* users.is_online
  sent,      \* history: sent[c], the messages c's reader has accepted
  audience,  \* history: audience[e], the clients e was to be handed to
  received,  \* history: received[c], the messages handed to c's writer
  told       \* history: told[c], the status changes handed to c's writer

loop     == <<event, todo, at, audience>>
registry == <<clients, closed, roomIds>>
database == <<member, stored, online>>
history  == <<sent, received, told>>
vars     == <<pc, loop, registry, database, history, lockVars>>

Serve(c)  == <<"serve", c>>
Reader(c) == <<"reader", c>>
Writer(c) == <<"writer", c>>
Notify(c) == <<"notify", c>>
Online(c) == <<"online", c>>

Goroutine   == {"serve", "reader", "writer", "notify", "online"} \X Conns
Broadcaster == {"reader", "notify"} \X Conns
Lockers     == {"serve", "reader", "writer"} \X Conns

PC == {"off", "start", "lock", "crit", "spawn", "read", "rlock", "parked",
       "send", "runlock", "store", "offline", "select", "write", "update",
       "done", "killed"}

NewMessage(m)      == [type |-> "new_message", msg |-> m]
OnlineStatus(c, b) == [type |-> "online_status_change", conn |-> c, status |-> b]
NoEvent            == [type |-> "none"]
StatusEvent == {OnlineStatus(c, b) : c \in Conns, b \in BOOLEAN}
Event       == {NewMessage(m) : m \in Msgs} \cup StatusEvent

IsMessage(e) == e.type = "new_message"

Goto(g, l) == pc' = [pc EXCEPT ![g] = l]
At(g, l)   == pc[g] = l

RoomsOf(c) == {r \in Rooms : <<UserOf[c], r>> \in member}

\* The first statement of each goroutine once ServeWS has started them.
\* FirstStepNoWriter: the writer is never started.
FirstStepNoWriter == [serve |-> "done", reader |-> "read", writer |-> "off",
                      notify |-> "rlock", online |-> "update"]
FirstStep == [serve |-> "done", reader |-> "read", writer |-> "select",
              notify |-> "rlock", online |-> "update"]

\* An established session has already been announced.
InitPC(g) ==
  IF g[2] \in Established
    THEN IF g[1] \in {"notify", "online"} THEN "done" ELSE FirstStep[g[1]]
    ELSE IF g[1] = "serve" THEN "start" ELSE "off"

Init ==
  /\ pc = [g \in Goroutine |-> InitPC(g)]
  /\ event = [g \in Broadcaster |-> NoEvent]
  /\ todo = [g \in Broadcaster |-> {}]
  /\ at = [g \in Broadcaster |-> Nobody]
  /\ clients = Established
  /\ member = InitMember
  /\ roomIds = [c \in Conns |-> IF c \in Established THEN RoomsOf(c) ELSE {}]
  /\ closed = {}
  /\ stored = <<>>
  /\ online = [u \in Users |-> TRUE]
  /\ sent = [c \in Conns |-> <<>>]
  /\ audience = [e \in Event |-> {}]
  /\ received = [c \in Conns |-> <<>>]
  /\ told = [c \in Conns |-> {}]
  /\ LockInit
-----------------------------------------------------------------------------
(* ServeWS, after the OTP was accepted and the connection upgraded.        *)

\* The rooms of the user are read once; the client keeps that snapshot.
LoadRooms(c) ==
  /\ At(Serve(c), "start")
  /\ roomIds' = [roomIds EXCEPT ![c] = RoomsOf(c)]
  /\ Goto(Serve(c), "lock")
  /\ UNCHANGED <<clients, closed, loop, database, history, lockVars>>

\* The query fails: the handler returns and the upgraded connection stays open.
LoadRoomsFails(c) ==
  /\ At(Serve(c), "start")
  /\ Goto(Serve(c), "done")
  /\ UNCHANGED <<loop, registry, database, history, lockVars>>

\* m.Lock() in addClient and removeClient, up to the wait for the readers.
AwaitLock(g) ==
  /\ At(g, "lock")
  /\ Announce(g)
  /\ Goto(g, "crit")
  /\ UNCHANGED <<loop, registry, database, history>>

\* m.Lock() has returned.  LockedEarly: it does not wait for the broadcasts
\* in progress (they do not take the read lock).
LockedEarly(g) == At(g, "crit") /\ announced = g
Locked(g) == At(g, "crit") /\ HoldsLock(g)

AddClient(c) ==
  /\ Locked(Serve(c))
  /\ clients' = clients \cup {c}
  /\ Unlock
  /\ Goto(Serve(c), "spawn")
  /\ UNCHANGED <<roomIds, closed, loop, database, history>>

\* The four go statements that end the handler.
Spawn(c) ==
  /\ At(Serve(c), "spawn")
  /\ pc' = [g \in Goroutine |-> IF g[2] = c THEN FirstStep[g[1]] ELSE pc[g]]
  /\ event' = [event EXCEPT ![Notify(c)] = OnlineStatus(c, TRUE)]
  /\ UNCHANGED <<todo, at, audience, registry, database, history, lockVars>>

\* UpdateOnlineStatus(true) runs on the request's context, which net/http
\* cancels when the handler returns: the statement may or may not be applied.
SetOnline(c) ==
  /\ At(Online(c), "update")
  /\ \/ online' = [online EXCEPT ![UserOf[c]] = TRUE]
     \/ UNCHANGED online
  /\ Goto(Online(c), "done")
  /\ UNCHANGED <<member, stored, loop, registry, history, lockVars>>
-----------------------------------------------------------------------------
(* readMessages: routing, and SendMessageHandler.                          *)

Unsent(m) == \A c \in Conns : m \notin Range(sent[c])

\* A send_message event arrives; the app offers its user only rooms the user
\* is a member of.
ReadMessage(c, m) ==
  /\ At(Reader(c), "read")
  /\ Unsent(m)
  /\ <<UserOf[c], RoomOf[m]>> \in member
  /\ sent' = [sent EXCEPT ![c] = Append(@, m)]
  /\ event' = [event EXCEPT ![Reader(c)] = NewMessage(m)]
  /\ Goto(Reader(c), "rlock")
  /\ UNCHANGED <<todo, at, audience, received, told, registry, database, lockVars>>

\* Peer closed, read deadline passed, frame over 512 bytes, or not JSON:
\* the loop breaks and the deferred function starts with removeClient.
ReadFails(c) ==
  /\ c \in Leavers
  /\ At(Reader(c), "read")
  /\ Goto(Reader(c), "lock")
  /\ UNCHANGED <<loop, registry, database, history, lockVars>>

\* The row InsertMessage writes.
Row(e) == e.msg

\* The message is inserted after the broadcast; the insert may fail, and the
\* error is only logged.
StoreMessage(c) ==
  /\ At(Reader(c), "store")
  /\ \/ stored' = Append(stored, Row(event[Reader(c)]))
     \/ UNCHANGED stored
  /\ event' = [event EXCEPT ![Reader(c)] = NoEvent]
  /\ Goto(Reader(c), "read")
  /\ UNCHANGED <<todo, at, member, online, audience, registry, history, lockVars>>
-----------------------------------------------------------------------------
(* The range loops of SendMessageHandler and NotifyOnlineStatusChange.     *)

Audience(e) ==
  IF IsMessage(e) THEN {c \in clients : RoomOf[e.msg] \in roomIds[c]}
                  ELSE clients

\* The clients left after a visit.  LeftNone: the loop stops at the first
\* client; LeftSame: the client is visited again.
LeftNone(S, c) == {}
LeftSame(S, c) == S
Left(S, c) == S \ {c}

\* The loop of g goes on with the clients S, in any order (Go's map order is
\* random), and blocks on one of them; p is pc but for g.
Visit(g, S, p) ==
  \/ /\ S = {}
     /\ pc' = [p EXCEPT ![g] = "runlock"]
     /\ todo' = [todo EXCEPT ![g] = {}]
     /\ at' = [at EXCEPT ![g] = Nobody]
  \/ \E c \in S :
       /\ pc' = [p EXCEPT ![g] = "send"]
       /\ todo' = [todo EXCEPT ![g] = Left(S, c)]
       /\ at' = [at EXCEPT ![g] = c]

EnterLoop(g) ==
  /\ Visit(g, Audience(event[g]), pc)
  /\ audience' = [audience EXCEPT ![event[g]] = Audience(event[g])]

BeginBroadcast(g) ==
  /\ At(g, "rlock")
  /\ RLock(g)
  /\ IF announced = Nobody
       THEN EnterLoop(g)
       ELSE Goto(g, "parked") /\ UNCHANGED <<todo, at, audience>>
  /\ UNCHANGED <<event, registry, database, history>>

\* RLock returns to a goroutine that was parked behind a writer.
ResumeBroadcast(g) ==
  /\ At(g, "parked")
  /\ g \in rlocked
  /\ EnterLoop(g)
  /\ UNCHANGED <<event, registry, database, history, lockVars>>

\* client.egress <- ev: a rendezvous with the select of the client's writer.
Hand(g) ==
  LET c == at[g] IN
  /\ At(g, "send")
  /\ At(Writer(c), "select")
  /\ IF IsMessage(event[g])
       THEN /\ received' = [received EXCEPT ![c] = Append(@, event[g].msg)]
            /\ UNCHANGED told
       ELSE /\ told' = [told EXCEPT ![c] = @ \cup {event[g]}]
            /\ UNCHANGED received
  /\ Visit(g, todo[g], [pc EXCEPT ![Writer(c)] = "write"])
  /\ UNCHANGED <<event, sent, audience, registry, database, lockVars>>

\* ReleaseNot: the RUnlock is forgotten.
ReleaseNot(g) == UNCHANGED lockVars
Release(g) == RUnlock(g)

\* RUnlock, and what the caller does next: the message handler stores, the
\* connect notification ends, the disconnect notification is followed by the
\* is_online update.
EndBroadcast(g) ==
  /\ At(g, "runlock")
  /\ Release(g)
  /\ IF IsMessage(event[g])
       THEN Goto(g, "store") /\ UNCHANGED event
       ELSE /\ Goto(g, IF g[1] = "reader" THEN "offline" ELSE "done")
            /\ event' = [event EXCEPT ![g] = NoEvent]
  /\ UNCHANGED <<todo, at, audience, registry, database, history>>
-----------------------------------------------------------------------------
(* writeMessages, removeClient and the reader's deferred function.         *)

\* WriteMessage returned; an error on an event is only logged.
WriteEvent(c) ==
  /\ At(Writer(c), "write")
  /\ Goto(Writer(c), "select")
  /\ UNCHANGED <<loop, registry, database, history, lockVars>>

\* A ping cannot be written: the loop returns, and removeClient is deferred.
PingFails(c) ==
  /\ c \in Leavers
  /\ At(Writer(c), "select")
  /\ Goto(Writer(c), "lock")
  /\ UNCHANGED <<loop, registry, database, history, lockVars>>

\* UnregisterNot: the connection is closed and the client stays in the map.
UnregisterNot(c) == closed' = closed \cup ({c} \cap clients) /\ UNCHANGED clients
Unregister(c) ==
  /\ clients' = clients \ {c}
  /\ closed' = closed \cup ({c} \cap clients)

\* removeClient, run by either loop on its way out; the reader goes on to
\* announce the departure.
RemoveClient(g) ==
  /\ Locked(g)
  /\ Unregister(g[2])
  /\ Unlock
  /\ IF g[1] = "reader"
       THEN /\ event' = [event EXCEPT ![g] = OnlineStatus(g[2], FALSE)]
            /\ Goto(g, "rlock")
       ELSE Goto(g, "done") /\ UNCHANGED event
  /\ UNCHANGED <<todo, at, roomIds, audience, database, history>>

\* The last deferred statement; its error is dropped.
SetOffline(c) ==
  /\ At(Reader(c), "offline")
  /\ \/ online' = [online EXCEPT ![UserOf[c]] = FALSE]
     \/ UNCHANGED online
  /\ Goto(Reader(c), "done")
  /\ UNCHANGED <<member, stored, loop, registry, history, lockVars>>
-----------------------------------------------------------------------------
(* The hub's surroundings.                                                 *)

\* The job service adds a member to a room; connected clients are not told.
JoinRoom(u, r) ==
  /\ <<u, r>> \notin member
  /\ member' = member \cup {<<u, r>>}
  /\ UNCHANGED <<pc, stored, online, loop, registry, history, lockVars>>

\* The server process dies and the container restarts it: goroutines, lock
\* and registry are gone, the database stays.
Restart ==
  /\ MayRestart /\ clients # {}
  /\ pc' = [g \in Goroutine |-> IF pc[Serve(g[2])] = "start" THEN pc[g] ELSE "killed"]
  /\ event' = [g \in Broadcaster |-> NoEvent]
  /\ todo' = [g \in Broadcaster |-> {}]
  /\ at' = [g \in Broadcaster |-> Nobody]
  /\ clients' = {}
  /\ rlocked' = {} /\ parked' = {} /\ announced' = Nobody
  /\ UNCHANGED <<roomIds, closed, audience, database, history>>

Next ==
  \/ \E c \in Conns :
       \/ LoadRooms(c) \/ LoadRoomsFails(c) \/ AddClient(c) \/ Spawn(c)
       \/ SetOnline(c) \/ SetOffline(c)
       \/ ReadFails(c) \/ StoreMessage(c)
       \/ WriteEvent(c) \/ PingFails(c)
       \/ RemoveClient(Reader(c)) \/ RemoveClient(Writer(c))
       \/ \E m \in Msgs : ReadMessage(c, m)
  \/ \E g \in Lockers : AwaitLock(g)
  \/ \E g \in Broadcaster :
       \/ BeginBroadcast(g) \/ ResumeBroadcast(g) \/ Hand(g) \/ EndBroadcast(g)
  \/ \E u \in Users, r \in Rooms : JoinRoom(u, r)
  \/ Restart

Spec == Init /\ [][Next]_vars

(* What the Go runtime and the network give, as far as progress depends on   *)
(* it: a goroutine that can run does; a blocked Lock, or a sender queued on  *)
(* a channel, is not overtaken for ever; a peer drains its socket (no write  *)
(* deadline is set).                                                         *)
Fairness ==
  /\ \A c \in Conns :
       /\ WF_vars(AddClient(c)) /\ WF_vars(Spawn(c)) /\ WF_vars(WriteEvent(c))
       /\ WF_vars(RemoveClient(Reader(c))) /\ WF_vars(RemoveClient(Writer(c)))
  /\ \A g \in Lockers : SF_vars(AwaitLock(g))
  /\ \A g \in Broadcaster :
       /\ WF_vars(BeginBroadcast(g)) /\ WF_vars(ResumeBroadcast(g))
       /\ SF_vars(Hand(g)) /\ WF_vars(EndBroadcast(g))

FairSpec == Spec /\ Fairness
-----------------------------------------------------------------------------
\* Every variable keeps the type its Go counterpart has.
TypeOK ==
  /\ pc \in [Goroutine -> PC]
  /\ event \in [Broadcaster -> Event \cup {NoEvent}]
  /\ todo \in [Broadcaster -> SUBSET Conns]
  /\ at \in [Broadcaster -> Conns \cup {Nobody}]
  /\ clients \subseteq Conns
  /\ roomIds \in [Conns -> SUBSET Rooms]
  /\ closed \subseteq Conns
  /\ member \subseteq Users \X Rooms
  /\ stored \in Seq(Msgs)
  /\ online \in [Users -> BOOLEAN]
  /\ sent \in [Conns -> Seq(Msgs)]
  /\ audience \in [Event -> SUBSET Conns]
  /\ received \in [Conns -> Seq(Msgs)]
  /\ told \in [Conns -> SUBSET StatusEvent]
  /\ rlocked \subseteq Broadcaster
  /\ parked \subseteq Broadcaster
  /\ announced \in Lockers \cup {Nobody}

\* A range loop walks a map nobody changes under it: the client a broadcast
\* is blocked on, and those it has still to visit, are registered.
LoopSeesRegistry ==
  \A g \in Broadcaster :
    pc[g] = "send" => at[g] \in clients /\ todo[g] \subseteq clients

\* removeClient runs before the departure is announced: the leaving client's
\* own writer is never handed the news of its departure.
NotToldOfOwnDeparture == \A c \in Conns : OnlineStatus(c, FALSE) \notin told[c]

\* Nothing of a session runs before ServeWS starts it.
Unstarted(c) == pc[Serve(c)] \in {"start", "lock", "crit", "spawn"}
SpawnOK ==
  \A c \in Conns : Unstarted(c) =>
    \A g \in Goroutine : g[2] = c /\ g # Serve(c) => pc[g] = "off"

\* The events a session's goroutines broadcast: its own connect and departure,
\* and the messages its reader accepts.
EventsOf(g) ==
  IF g[1] = "notify"
    THEN {OnlineStatus(g[2], TRUE)}
    ELSE {OnlineStatus(g[2], FALSE)} \cup {NewMessage(m) : m \in Msgs}
EventsOK == \A g \in Broadcaster : event[g] \in EventsOf(g) \cup {NoEvent}

\* A loop always has an event and somebody to hand it to, and only messages
\* are stored.
CarriesOK ==
  \A g \in Broadcaster :
    /\ pc[g] \in {"rlock", "parked", "send", "runlock"} => event[g] # NoEvent
    /\ pc[g] = "store" => IsMessage(event[g])
    /\ pc[g] = "send" => at[g] \in Conns

\* A goroutine inside its range loop holds the read lock.
LockOK == \A g \in Broadcaster : pc[g] \in {"send", "runlock"} => g \in rlocked

\* Whoever has announced its departure, or is about to, has been removed and
\* does not come back.
DepartedOK ==
  \A c \in Conns :
    (event[Reader(c)] = OnlineStatus(c, FALSE) \/ \E d \in Conns : OnlineStatus(c, FALSE) \in told[d])
      => c \notin clients /\ ~Unstarted(c)

\* The inductive invariant behind the hub's safety.
HubInv ==
  /\ TypeOK /\ SpawnOK /\ EventsOK /\ CarriesOK
  /\ LockOK /\ LoopSeesRegistry
  /\ DepartedOK /\ NotToldOfOwnDeparture

\* Nothing reaches a connection before addClient or after removeClient.
HandedWhileRegistered ==
  [][\A c \in Conns : received'[c] # received[c] \/ told'[c] # told[c]
                        => c \in clients]_vars

\* A message in the database has reached every connection that was in its
\* room when it was broadcast, whatever joined, left or died in between.
StoredWasHanded ==
  \A m \in Range(stored) : \A c \in audience[NewMessage(m)] : m \in Range(received[c])

SentBefore(m, n) ==
  \E c \in Conns : \E i, j \in DOMAIN sent[c] :
    i < j /\ sent[c][i] = m /\ sent[c][j] = n

\* No message twice, and never two messages of one sender the wrong way round.
Faithful(log) ==
  \A j \in DOMAIN log : \A i \in 1..(j - 1) :
    log[i] # log[j] /\ ~SentBefore(log[j], log[i])

\* Every connection, and the database, sees the messages of one sender in the
\* order the sender's reader accepted them, and none of them twice.
SenderOrder == Faithful(stored) /\ \A c \in Conns : Faithful(received[c])

\* A message is accepted once, and only accepted ones reach a log.
IsSent(m) == \E c \in Conns : m \in Range(sent[c])
SentOK ==
  /\ \A c, d \in Conns : \A i \in DOMAIN sent[c], j \in DOMAIN sent[d] :
       sent[c][i] = sent[d][j] => c = d /\ i = j
  /\ \A m \in Range(stored) : IsSent(m)
  /\ \A c \in Conns : \A m \in Range(received[c]) : IsSent(m)

\* The message a reader carries is the last it accepted, is not stored yet, and has not
\* reached those its loop has not come to.
Ahead(g) == IF pc[g] \in {"rlock", "parked"} THEN Conns
            ELSE IF pc[g] = "send" THEN todo[g] \cup {at[g]} ELSE {}
CarriedOK ==
  \A c \in Conns, m \in Msgs : event[Reader(c)] = NewMessage(m) =>
    /\ Len(sent[c]) # 0 /\ sent[c][Len(sent[c])] = m
    /\ m \notin Range(stored)
    /\ \A d \in Ahead(Reader(c)) \cap Conns : m \notin Range(received[d])

\* A loop has come to everybody in its event's audience and to nobody else, or is about to.
HandedTo(e, c) == IF IsMessage(e) THEN e.msg \in Range(received[c]) ELSE e \in told[c]
CoverageOK ==
  \A g \in Broadcaster :
    /\ pc[g] = "send" =>
         /\ at[g] \notin todo[g] /\ {at[g]} \cup todo[g] \subseteq audience[event[g]]
         /\ \A c \in audience[event[g]] : c = at[g] \/ c \in todo[g] \/ HandedTo(event[g], c)
    /\ pc[g] \in {"runlock", "store"} =>
         \A c \in audience[event[g]] : HandedTo(event[g], c)

\* The inductive invariant, on top of HubInv, behind the order and the completeness of
\* the logs.
DeliveryInv == SentOK /\ CarriedOK /\ CoverageOK /\ StoredWasHanded /\ SenderOrder

\* A session that runs was registered: it still is, or removeClient has closed it; and
\* whoever goes offline has left and has told everybody.
DepartureInv ==
  \A c \in Conns :
    /\ pc[Serve(c)] = "spawn" => c \in clients
    /\ pc[Reader(c)] \notin {"off", "killed"} => c \in clients \cup closed
    /\ event[Reader(c)] = OnlineStatus(c, FALSE) => c \in closed
    /\ pc[Reader(c)] = "offline" =>
         /\ c \in closed \ clients
         /\ \A d \in audience[OnlineStatus(c, FALSE)] : OnlineStatus(c, FALSE) \in told[d]

\* users.is_online turns false only for a connection already removed and
\* closed, and after every client registered then was told, but not its own.
OfflineIsLast ==
  [][\A u \in Users : online[u] /\ ~online'[u] =>
       \E c \in closed \ clients :
         /\ UserOf[c] = u
         /\ \A d \in audience[OnlineStatus(c, FALSE)] : OnlineStatus(c, FALSE) \in told[d]
         /\ OnlineStatus(c, FALSE) \notin told[c]]_vars

\* A broadcast that blocks on a client whose writer loop has returned keeps the read lock
\* and stays there, and the registry as it is, until the process dies.
Abandoned(g) == pc[g] = "send" /\ pc[Writer(at[g])] \in {"lock", "crit", "done"}
AbandonedForGood ==
  [][\A g \in Broadcaster : Abandoned(g) =>
       \/ Abandoned(g)' /\ UNCHANGED clients
       \/ pc'[g] = "killed"]_vars

\* Every message goes the way GroupChat lays down.
Stage(c) ==
  IF ~IsMessage(event[Reader(c)]) THEN "idle"
  ELSE IF pc[Reader(c)] \in {"rlock", "parked"} THEN "waiting"
  ELSE IF pc[Reader(c)] \in {"send", "runlock", "store"} THEN "going" ELSE "idle"
Stages == [c \in Conns |-> Stage(c)]
Audiences == [m \in Msgs |-> audience[NewMessage(m)]]
Chat == INSTANCE GroupChat WITH stage <- Stages, audience <- Audiences
ChatHolds == Chat!ChatSpec

\* No writer loop has returned while its client is registered.
WritersServe == \A c \in clients : pc[Writer(c)] \notin {"lock", "crit", "done"}

\* As long as no writer loop returns while its client is still registered,
\* every broadcast ends and releases the read lock.
BroadcastsEnd ==
  []WritersServe => \A g \in Broadcaster :
    pc[g] = "rlock" ~> pc[g] \notin {"rlock", "parked", "send", "runlock"}

\* Under the same condition a reader that has left its loop gets the write
\* lock, and its client leaves the registry.
DeparturesEnd ==
  []WritersServe => \A c \in Conns : pc[Reader(c)] = "lock" ~> c \notin clients

\* client.go:111 logs "failed to ping, client is gone" and returns into the
\* deferred removeClient: a client whose ping failed leaves the registry.
PingLossRemovesClient ==
  \A c \in Conns : pc[Writer(c)] = "lock" ~> c \notin clients
=============================================================================
