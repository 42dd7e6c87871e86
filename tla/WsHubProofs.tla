---------------------------- MODULE WsHubProofs ----------------------------
(***************************************************************************)
(* Theorems of the chat hub, for every set of connections, users, rooms    *)
(* and messages.                                                           *)
(***************************************************************************)
EXTENDS WsHub, TLAPS

\* The five goroutines of a session are different from each other and from
\* those of every other session.
LEMMA Roles ==
  ASSUME NEW c \in Conns
  PROVE  /\ Serve(c) \in Goroutine /\ Serve(c) \in Lockers /\ Serve(c) \notin Broadcaster
         /\ Reader(c) \in Goroutine /\ Reader(c) \in Lockers /\ Reader(c) \in Broadcaster
         /\ Writer(c) \in Goroutine /\ Writer(c) \in Lockers /\ Writer(c) \notin Broadcaster
         /\ Notify(c) \in Goroutine /\ Notify(c) \in Broadcaster
         /\ Online(c) \in Goroutine /\ Online(c) \notin Broadcaster
         /\ Serve(c)[2] = c /\ Reader(c)[2] = c /\ Writer(c)[2] = c
         /\ Notify(c)[2] = c /\ Online(c)[2] = c
         /\ Reader(c) # Notify(c) /\ Serve(c) # Reader(c) /\ Serve(c) # Notify(c)
         /\ Writer(c) # Reader(c) /\ Writer(c) # Notify(c) /\ Serve(c) # Writer(c)
         /\ Serve(c) # Online(c)
         /\ Serve(c)[1] = "serve" /\ Reader(c)[1] = "reader" /\ Writer(c)[1] = "writer"
         /\ Notify(c)[1] = "notify" /\ Online(c)[1] = "online"
  BY DEF Serve, Reader, Writer, Notify, Online, Goroutine, Lockers, Broadcaster

LEMMA RoleSets ==
  /\ Broadcaster \subseteq Goroutine /\ Lockers \subseteq Goroutine
  /\ \A g \in Goroutine : g[2] \in Conns
  /\ \A g \in Goroutine : g[1] = "serve" => g = Serve(g[2])
  /\ \A g \in Goroutine : g[1] = "writer" => g = Writer(g[2])
  /\ \A g \in Broadcaster : g = Reader(g[2]) \/ g = Notify(g[2])
  BY DEF Serve, Reader, Writer, Notify, Goroutine, Lockers, Broadcaster

\* Events of different kinds, sessions or messages are different.
LEMMA Events ==
  /\ NoEvent \notin Event
  /\ \A c \in Conns, b \in BOOLEAN : OnlineStatus(c, b) \in StatusEvent /\ OnlineStatus(c, b) \in Event
  /\ \A c \in Conns, b \in BOOLEAN : ~IsMessage(OnlineStatus(c, b)) /\ OnlineStatus(c, b) # NoEvent
  /\ \A c, d \in Conns, b, e \in BOOLEAN : OnlineStatus(c, b) = OnlineStatus(d, e) => c = d /\ b = e
  /\ \A m \in Msgs : NewMessage(m) \in Event /\ IsMessage(NewMessage(m)) /\ NewMessage(m).msg = m
  /\ \A m \in Msgs : NewMessage(m) # NoEvent
  /\ \A m \in Msgs, c \in Conns, b \in BOOLEAN : NewMessage(m) # OnlineStatus(c, b)
  /\ ~IsMessage(NoEvent)
  /\ \A e \in Event : IsMessage(e) => e.msg \in Msgs /\ e = NewMessage(e.msg)
  /\ \A e \in Event : ~IsMessage(e) => e \in StatusEvent
<1>1. \A c \in Conns, b \in BOOLEAN : OnlineStatus(c, b) \in StatusEvent /\ OnlineStatus(c, b) \in Event
  BY DEF Event, StatusEvent
<1>2. \A m \in Msgs : NewMessage(m) \in Event
  BY DEF Event
<1>. USE DEF NoEvent, OnlineStatus, NewMessage, IsMessage
<1>3. \A c, d \in Conns, b, e \in BOOLEAN : OnlineStatus(c, b) = OnlineStatus(d, e) => c = d /\ b = e
  <2>. TAKE c, d \in Conns, b, e \in BOOLEAN
  <2>1. /\ OnlineStatus(c, b).conn = c /\ OnlineStatus(c, b).status = b
        /\ OnlineStatus(d, e).conn = d /\ OnlineStatus(d, e).status = e
    OBVIOUS
  <2>. QED
    BY <2>1
<1>4. \A c \in Conns, b \in BOOLEAN : ~IsMessage(OnlineStatus(c, b)) /\ OnlineStatus(c, b) # NoEvent
  <2>. TAKE c \in Conns, b \in BOOLEAN
  <2>1. OnlineStatus(c, b).type = "online_status_change" /\ NoEvent.type = "none"
    OBVIOUS
  <2>. QED
    BY <2>1
<1>5. \A m \in Msgs : IsMessage(NewMessage(m)) /\ NewMessage(m).msg = m /\ NewMessage(m) # NoEvent
  <2>. TAKE m \in Msgs
  <2>1. NewMessage(m).type = "new_message" /\ NoEvent.type = "none" /\ NewMessage(m).msg = m
    OBVIOUS
  <2>. QED
    BY <2>1
<1>6. ~IsMessage(NoEvent)
  OBVIOUS
<1>7. \A e \in Event : \/ \E m \in Msgs : e = NewMessage(m)
                       \/ e \in StatusEvent
  BY DEF Event
<1>8. \A e \in StatusEvent : \E c \in Conns, b \in BOOLEAN : e = OnlineStatus(c, b)
  BY DEF StatusEvent
<1>. HIDE DEF NoEvent, OnlineStatus, NewMessage, IsMessage
<1>9. \A e \in Event : /\ IsMessage(e) => e.msg \in Msgs /\ e = NewMessage(e.msg)
                       /\ ~IsMessage(e) => e \in StatusEvent
                       /\ e # NoEvent
  BY <1>4, <1>5, <1>7, <1>8
<1>10. \A m \in Msgs, c \in Conns, b \in BOOLEAN : NewMessage(m) # OnlineStatus(c, b)
  BY <1>4, <1>5
<1>. QED
  BY <1>1, <1>2, <1>3, <1>4, <1>5, <1>6, <1>9, <1>10

\* A broadcast's loop goes on with clients of S, or is over.
LEMMA VisitType ==
  ASSUME TypeOK, NEW g \in Broadcaster, NEW S \in SUBSET Conns,
         NEW p \in [Goroutine -> PC], Visit(g, S, p)
  PROVE  /\ pc' \in [Goroutine -> PC]
         /\ \A h \in Goroutine : h # g => pc'[h] = p[h]
         /\ todo' \in [Broadcaster -> SUBSET Conns]
         /\ at' \in [Broadcaster -> Conns \cup {Nobody}]
         /\ \A h \in Broadcaster : h # g => todo'[h] = todo[h] /\ at'[h] = at[h]
         /\ pc'[g] \in {"send", "runlock"}
         /\ pc'[g] = "send" => at'[g] \in S /\ todo'[g] \subseteq S
  <1>. g \in Goroutine
    BY RoleSets
  <1>. USE DEF TypeOK
  <1>1. CASE S = {} /\ pc' = [p EXCEPT ![g] = "runlock"]
             /\ todo' = [todo EXCEPT ![g] = {}] /\ at' = [at EXCEPT ![g] = Nobody]
    BY <1>1 DEF PC
  <1>2. ASSUME NEW c \in S, pc' = [p EXCEPT ![g] = "send"],
               todo' = [todo EXCEPT ![g] = Left(S, c)], at' = [at EXCEPT ![g] = c]
        PROVE  /\ pc' \in [Goroutine -> PC]
               /\ \A h \in Goroutine : h # g => pc'[h] = p[h]
               /\ todo' \in [Broadcaster -> SUBSET Conns]
               /\ at' \in [Broadcaster -> Conns \cup {Nobody}]
               /\ \A h \in Broadcaster : h # g => todo'[h] = todo[h] /\ at'[h] = at[h]
               /\ pc'[g] = "send"
               /\ at'[g] \in S /\ todo'[g] \subseteq S
    <2>1. Left(S, c) \subseteq S
      BY DEF Left
    <2>. QED
      BY <1>2, <2>1 DEF PC
  <1>. QED
    BY <1>1, <1>2 DEF Visit

\* The recipients of an event are registered clients.
LEMMA AudienceType ==
  ASSUME TypeOK, NEW e
  PROVE  Audience(e) \subseteq clients /\ Audience(e) \in SUBSET Conns
  BY DEF TypeOK, Audience

\* A goroutine that enters its range loop blocks on a registered client, or
\* has nobody to serve.
LEMMA EnterLoopEffect ==
  ASSUME TypeOK, NEW g \in Broadcaster, EnterLoop(g)
  PROVE  /\ pc' \in [Goroutine -> PC]
         /\ \A h \in Goroutine : h # g => pc'[h] = pc[h]
         /\ pc'[g] \in {"send", "runlock"}
         /\ pc'[g] = "send" => at'[g] \in clients /\ todo'[g] \subseteq clients
         /\ \A h \in Broadcaster : h # g => todo'[h] = todo[h] /\ at'[h] = at[h]
         /\ todo' \in [Broadcaster -> SUBSET Conns]
         /\ at' \in [Broadcaster -> Conns \cup {Nobody}]
         /\ audience' \in [Event -> SUBSET Conns]
<1>1. Audience(event[g]) \subseteq clients /\ Audience(event[g]) \in SUBSET Conns
  BY AudienceType
<1>2. pc \in [Goroutine -> PC] /\ audience \in [Event -> SUBSET Conns]
  BY DEF TypeOK
<1>3. Visit(g, Audience(event[g]), pc)
  BY DEF EnterLoop
<1>4. audience' \in [Event -> SUBSET Conns]
  BY <1>1, <1>2 DEF EnterLoop
<1>5. /\ pc' \in [Goroutine -> PC]
      /\ \A h \in Goroutine : h # g => pc'[h] = pc[h]
      /\ todo' \in [Broadcaster -> SUBSET Conns]
      /\ at' \in [Broadcaster -> Conns \cup {Nobody}]
      /\ \A h \in Broadcaster : h # g => todo'[h] = todo[h] /\ at'[h] = at[h]
      /\ pc'[g] \in {"send", "runlock"}
      /\ pc'[g] = "send" => at'[g] \in Audience(event[g]) /\ todo'[g] \subseteq Audience(event[g])
  BY <1>1, <1>2, <1>3, VisitType
<1>. QED
  BY <1>1, <1>4, <1>5

\* A hand-over moves the sender on and the receiving writer to its write.
LEMMA HandEffect ==
  ASSUME TypeOK, CarriesOK, NEW g \in Broadcaster, Hand(g)
  PROVE  /\ at[g] \in Conns
         /\ pc[g] = "send" /\ pc[Writer(at[g])] = "select"
         /\ pc' \in [Goroutine -> PC]
         /\ \A h \in Goroutine : h # g /\ h # Writer(at[g]) => pc'[h] = pc[h]
         /\ pc'[Writer(at[g])] = "write"
         /\ pc'[g] \in {"send", "runlock"}
         /\ pc'[g] = "send" => at'[g] \in todo[g] /\ todo'[g] \subseteq todo[g]
         /\ \A h \in Broadcaster : h # g => todo'[h] = todo[h] /\ at'[h] = at[h]
         /\ todo' \in [Broadcaster -> SUBSET Conns]
         /\ at' \in [Broadcaster -> Conns \cup {Nobody}]
<1>. DEFINE p == [pc EXCEPT ![Writer(at[g])] = "write"]
<1>1. at[g] \in Conns /\ pc[g] = "send" /\ pc[Writer(at[g])] = "select"
  BY DEF Hand, At, CarriesOK
<1>2. /\ Writer(at[g]) \in Goroutine /\ Writer(at[g]) # g
  BY <1>1, Roles
<1>3. /\ p \in [Goroutine -> PC]
      /\ p[Writer(at[g])] = "write"
      /\ \A h \in Goroutine : h # Writer(at[g]) => p[h] = pc[h]
  BY <1>2 DEF TypeOK, PC
<1>4. Visit(g, todo[g], p) /\ todo[g] \in SUBSET Conns
  BY DEF Hand, TypeOK
<1>. HIDE DEF p
<1>5. /\ pc' \in [Goroutine -> PC]
      /\ \A h \in Goroutine : h # g => pc'[h] = p[h]
      /\ todo' \in [Broadcaster -> SUBSET Conns]
      /\ at' \in [Broadcaster -> Conns \cup {Nobody}]
      /\ \A h \in Broadcaster : h # g => todo'[h] = todo[h] /\ at'[h] = at[h]
      /\ pc'[g] \in {"send", "runlock"}
      /\ pc'[g] = "send" => at'[g] \in todo[g] /\ todo'[g] \subseteq todo[g]
  BY <1>3, <1>4, VisitType
<1>. QED
  BY <1>1, <1>2, <1>3, <1>5

\* The first statement of every goroutine is a program counter.
LEMMA FirstStepType ==
  ASSUME NEW g \in Goroutine
  PROVE  FirstStep[g[1]] \in PC /\ InitPC(g) \in PC
  BY DEF FirstStep, InitPC, PC, Goroutine

\* The initial states satisfy the invariant.
LEMMA InitInv == Init => HubInv
<1> SUFFICES ASSUME Init PROVE HubInv
  OBVIOUS
<1>1. TypeOK
  <2>1. pc \in [Goroutine -> PC]
    BY FirstStepType DEF Init
  <2>2. roomIds \in [Conns -> SUBSET Rooms]
    BY DEF Init, RoomsOf
  <2>. QED
    BY <2>1, <2>2, HubAssumption DEF Init, TypeOK, LockInit
<1>2. SpawnOK
  <2>1. ASSUME NEW c \in Conns, Unstarted(c), NEW g \in Goroutine, g[2] = c, g # Serve(c)
        PROVE  pc[g] = "off"
    <3>1. g[1] # "serve"
      BY <2>1, RoleSets
    <3>2. c \notin Established
      BY <2>1, Roles DEF Unstarted, Init, InitPC, FirstStep
    <3>. QED
      BY <2>1, <3>1, <3>2 DEF Init, InitPC
  <2>. QED
    BY <2>1 DEF SpawnOK
<1>3. EventsOK
  BY DEF Init, EventsOK
<1>4. \A g \in Broadcaster : pc[g] \in {"off", "done", "read"}
  BY RoleSets DEF Init, InitPC, FirstStep, Broadcaster
<1>5. CarriesOK /\ LockOK /\ LoopSeesRegistry
  BY <1>4 DEF CarriesOK, LockOK, LoopSeesRegistry
<1>6. DepartedOK /\ NotToldOfOwnDeparture
  BY Roles, Events DEF Init, DepartedOK, NotToldOfOwnDeparture
<1>. QED
  BY <1>1, <1>2, <1>3, <1>5, <1>6 DEF HubInv

\* Every step keeps every variable in its type.
LEMMA TypeStep ==
  ASSUME TypeOK, EventsOK, CarriesOK, [Next]_vars
  PROVE  TypeOK'
<1> USE DEF TypeOK, At, Goto, loop, registry, database, history, lockVars
<1>1. ASSUME NEW c \in Conns, LoadRooms(c) PROVE TypeOK'
  BY <1>1, Roles DEF LoadRooms, RoomsOf, PC
<1>2. ASSUME NEW c \in Conns, LoadRoomsFails(c) PROVE TypeOK'
  BY <1>2, Roles DEF LoadRoomsFails, PC
<1>3. ASSUME NEW c \in Conns, AddClient(c) PROVE TypeOK'
  BY <1>3, Roles DEF AddClient, Unlock, PC
<1>4. ASSUME NEW c \in Conns, Spawn(c) PROVE TypeOK'
  <2>1. pc' \in [Goroutine -> PC]
    BY <1>4, FirstStepType DEF Spawn
  <2>2. event' \in [Broadcaster -> Event \cup {NoEvent}]
    BY <1>4, Roles, Events DEF Spawn
  <2>. QED
    BY <1>4, <2>1, <2>2 DEF Spawn
<1>5. ASSUME NEW c \in Conns, SetOnline(c) PROVE TypeOK'
  <2>1. online' \in [Users -> BOOLEAN]
    BY <1>5, HubAssumption DEF SetOnline
  <2>. QED
    BY <1>5, <2>1, Roles DEF SetOnline, PC
<1>6. ASSUME NEW c \in Conns, SetOffline(c) PROVE TypeOK'
  <2>1. online' \in [Users -> BOOLEAN]
    BY <1>6, HubAssumption DEF SetOffline
  <2>. QED
    BY <1>6, <2>1, Roles DEF SetOffline, PC
<1>7. ASSUME NEW c \in Conns, ReadFails(c) PROVE TypeOK'
  BY <1>7, Roles DEF ReadFails, PC
<1>8. ASSUME NEW c \in Conns, StoreMessage(c) PROVE TypeOK'
  <2>1. Row(event[Reader(c)]) \in Msgs
    BY <1>8, Roles, Events DEF StoreMessage, CarriesOK, Row
  <2>2. stored' \in Seq(Msgs)
    <3>1. CASE stored' = Append(stored, Row(event[Reader(c)]))
      BY <2>1, <3>1
    <3>2. CASE UNCHANGED stored
      BY <3>2
    <3>. QED
      BY <1>8, <3>1, <3>2 DEF StoreMessage
  <2>. QED
    BY <1>8, <2>2, Roles DEF StoreMessage, PC
<1>9. ASSUME NEW c \in Conns, WriteEvent(c) PROVE TypeOK'
  BY <1>9, Roles DEF WriteEvent, PC
<1>10. ASSUME NEW c \in Conns, PingFails(c) PROVE TypeOK'
  BY <1>10, Roles DEF PingFails, PC
<1>11. ASSUME NEW g \in Lockers, RemoveClient(g), g[1] \in {"reader", "writer"} PROVE TypeOK'
  <2>1. pc' \in [Goroutine -> PC]
    BY <1>11, RoleSets DEF RemoveClient, PC
  <2>2. event' \in [Broadcaster -> Event \cup {NoEvent}]
    <3>1. g[2] \in Conns
      BY RoleSets
    <3>2. OnlineStatus(g[2], FALSE) \in Event
      BY <3>1, Events
    <3>. QED
      BY <1>11, <3>2 DEF RemoveClient
  <2>3. clients' \subseteq Conns /\ closed' \subseteq Conns
    BY <1>11 DEF RemoveClient, Unregister
  <2>. QED
    BY <1>11, <2>1, <2>2, <2>3 DEF RemoveClient, Unlock
<1>12. ASSUME NEW c \in Conns, NEW m \in Msgs, ReadMessage(c, m) PROVE TypeOK'
  BY <1>12, Roles, Events DEF ReadMessage, PC
<1>13. ASSUME NEW g \in Lockers, AwaitLock(g) PROVE TypeOK'
  BY <1>13, RoleSets DEF AwaitLock, Announce, PC
<1>15. ASSUME NEW g \in Broadcaster, BeginBroadcast(g) PROVE TypeOK'
  <2>1. rlocked' \subseteq Broadcaster /\ parked' \subseteq Broadcaster /\ announced' = announced
    BY <1>15 DEF BeginBroadcast, RLock
  <2>2. CASE announced = Nobody
    BY EnterLoopEffect, <1>15, <2>1, <2>2 DEF BeginBroadcast
  <2>3. CASE announced # Nobody
    BY <1>15, <2>1, <2>3, RoleSets DEF BeginBroadcast, PC
  <2>. QED
    BY <2>2, <2>3
<1>16. ASSUME NEW g \in Broadcaster, ResumeBroadcast(g) PROVE TypeOK'
  BY EnterLoopEffect, <1>16 DEF ResumeBroadcast
<1>17. ASSUME NEW g \in Broadcaster, Hand(g) PROVE TypeOK'
  <2>1. at[g] \in Conns /\ event[g] \in Event
    BY <1>17 DEF Hand, CarriesOK
  <2>2. received' \in [Conns -> Seq(Msgs)] /\ told' \in [Conns -> SUBSET StatusEvent]
    <3>1. CASE IsMessage(event[g])
      <4>1. event[g].msg \in Msgs
        BY <2>1, <3>1, Events
      <4>2. Append(received[at[g]], event[g].msg) \in Seq(Msgs)
        BY <2>1, <4>1
      <4>. QED
        BY <1>17, <3>1, <4>2 DEF Hand
    <3>2. CASE ~IsMessage(event[g])
      <4>1. event[g] \in StatusEvent
        BY <2>1, <3>2, Events
      <4>2. told[at[g]] \cup {event[g]} \in SUBSET StatusEvent
        BY <2>1, <4>1
      <4>. QED
        BY <1>17, <3>2, <4>2 DEF Hand
    <3>. QED
      BY <3>1, <3>2
  <2>. QED
    BY <1>17, <2>2, HandEffect DEF Hand
<1>18. ASSUME NEW g \in Broadcaster, EndBroadcast(g) PROVE TypeOK'
  BY <1>18, RoleSets DEF EndBroadcast, RUnlock, Release, PC
<1>19. ASSUME NEW u \in Users, NEW r \in Rooms, JoinRoom(u, r) PROVE TypeOK'
  BY <1>19 DEF JoinRoom
<1>20. CASE Restart
  BY <1>20 DEF Restart, PC
<1>21. CASE UNCHANGED vars
  BY <1>21 DEF vars
<1>. QED
  BY <1>1, <1>2, <1>3, <1>4, <1>5, <1>6, <1>7, <1>8, <1>9, <1>10, <1>11,
     <1>12, <1>13, <1>15, <1>16, <1>17, <1>18, <1>19, <1>20, <1>21, Roles
     DEF Next

\* What removeClient leaves behind: the reader goes on to announce the
\* departure, the writer is done.
LEMMA RemoveEffect ==
  ASSUME NEW c \in Conns
  PROVE  /\ RemoveClient(Reader(c)) =>
              /\ pc' = [pc EXCEPT ![Reader(c)] = "rlock"]
              /\ event' = [event EXCEPT ![Reader(c)] = OnlineStatus(c, FALSE)]
              /\ clients' = clients \ {c}
         /\ RemoveClient(Writer(c)) =>
              /\ pc' = [pc EXCEPT ![Writer(c)] = "done"]
              /\ UNCHANGED event
              /\ clients' = clients \ {c}
<1>1. Reader(c)[1] = "reader" /\ Reader(c)[2] = c /\ Writer(c)[1] # "reader" /\ Writer(c)[2] = c
  BY Roles
<1>. QED
  BY <1>1 DEF RemoveClient, Unregister, Goto

\* A step that moves only goroutines that run, and the handlers of sessions not
\* started yet, starts nothing before its time.
LEMMA SpawnKept ==
  ASSUME TypeOK, SpawnOK, pc' \in [Goroutine -> PC],
         \A h \in Goroutine : pc'[h] # pc[h] =>
            pc[h] # "off" /\ (h[1] = "serve" => Unstarted(h[2]))
  PROVE  SpawnOK'
<1>1. ASSUME NEW c \in Conns, Unstarted(c)', NEW g \in Goroutine, g[2] = c, g # Serve(c)
      PROVE  pc'[g] = "off"
  <2>1. Unstarted(c)
    BY <1>1, Roles DEF Unstarted
  <2>2. pc[g] = "off"
    BY <1>1, <2>1 DEF SpawnOK
  <2>. QED
    BY <2>2
<1>. QED
  BY <1>1 DEF SpawnOK, Unstarted, Serve

\* ServeWS starts a session's goroutines together, after it has registered it.
LEMMA SpawnStep ==
  ASSUME TypeOK, CarriesOK, SpawnOK, [Next]_vars
  PROVE  SpawnOK'
<1>. USE DEF TypeOK, At, Goto
<1>1. ASSUME NEW c \in Conns, LoadRooms(c) PROVE SpawnOK'
  BY <1>1, SpawnKept, Roles, RoleSets DEF LoadRooms, Unstarted, PC
<1>2. ASSUME NEW c \in Conns, LoadRoomsFails(c) PROVE SpawnOK'
  BY <1>2, SpawnKept, Roles, RoleSets DEF LoadRoomsFails, Unstarted, PC
<1>3. ASSUME NEW c \in Conns, AddClient(c) PROVE SpawnOK'
  BY <1>3, SpawnKept, Roles, RoleSets DEF AddClient, Locked, Unstarted, PC
<1>4. ASSUME NEW c \in Conns, Spawn(c) PROVE SpawnOK'
  <2>1. ASSUME NEW d \in Conns, Unstarted(d)', NEW g \in Goroutine, g[2] = d, g # Serve(d)
        PROVE  pc'[g] = "off"
    <3>1. \A h \in Goroutine : pc'[h] = IF h[2] = c THEN FirstStep[h[1]] ELSE pc[h]
      BY <1>4 DEF Spawn
    <3>2. pc'[Serve(c)] = "done"
      BY <3>1, Roles DEF FirstStep
    <3>3. d # c
      BY <2>1, <3>2 DEF Unstarted
    <3>4. pc'[Serve(d)] = pc[Serve(d)]
      <4>1. Serve(d) \in Goroutine /\ Serve(d)[2] = d
        BY Roles
      <4>. QED
        BY <3>1, <3>3, <4>1
    <3>5. pc'[g] = pc[g]
      BY <2>1, <3>1, <3>3
    <3>. QED
      BY <2>1, <3>4, <3>5 DEF SpawnOK, Unstarted
  <2>. QED
    BY <2>1 DEF SpawnOK, Unstarted, Serve
<1>5. ASSUME NEW c \in Conns, SetOnline(c) PROVE SpawnOK'
  BY <1>5, SpawnKept, Roles, RoleSets DEF SetOnline, Unstarted, PC
<1>6. ASSUME NEW c \in Conns, SetOffline(c) PROVE SpawnOK'
  BY <1>6, SpawnKept, Roles, RoleSets DEF SetOffline, Unstarted, PC
<1>7. ASSUME NEW c \in Conns, ReadFails(c) PROVE SpawnOK'
  BY <1>7, SpawnKept, Roles, RoleSets DEF ReadFails, Unstarted, PC
<1>8. ASSUME NEW c \in Conns, StoreMessage(c) PROVE SpawnOK'
  BY <1>8, SpawnKept, Roles, RoleSets DEF StoreMessage, Unstarted, PC
<1>9. ASSUME NEW c \in Conns, WriteEvent(c) PROVE SpawnOK'
  BY <1>9, SpawnKept, Roles, RoleSets DEF WriteEvent, Unstarted, PC
<1>10. ASSUME NEW c \in Conns, PingFails(c) PROVE SpawnOK'
  BY <1>10, SpawnKept, Roles, RoleSets DEF PingFails, Unstarted, PC
<1>11. ASSUME NEW c \in Conns, RemoveClient(Reader(c)) PROVE SpawnOK'
  <2>1. Reader(c) \in Goroutine /\ Reader(c)[1] # "serve"
    BY Roles
  <2>2. pc[Reader(c)] = "crit"
    BY <1>11 DEF RemoveClient, Locked
  <2>3. pc' = [pc EXCEPT ![Reader(c)] = "rlock"]
    BY <1>11, RemoveEffect
  <2>. QED
    BY <2>1, <2>2, <2>3, SpawnKept DEF PC
<1>12. ASSUME NEW c \in Conns, RemoveClient(Writer(c)) PROVE SpawnOK'
  <2>1. Writer(c) \in Goroutine /\ Writer(c)[1] # "serve"
    BY Roles
  <2>2. pc[Writer(c)] = "crit"
    BY <1>12 DEF RemoveClient, Locked
  <2>3. pc' = [pc EXCEPT ![Writer(c)] = "done"]
    BY <1>12, RemoveEffect
  <2>. QED
    BY <2>1, <2>2, <2>3, SpawnKept DEF PC
<1>13. ASSUME NEW c \in Conns, NEW m \in Msgs, ReadMessage(c, m) PROVE SpawnOK'
  BY <1>13, SpawnKept, Roles, RoleSets DEF ReadMessage, Unstarted, PC
<1>14. ASSUME NEW g \in Lockers, AwaitLock(g) PROVE SpawnOK'
  <2>1. g \in Goroutine /\ (g[1] = "serve" => Unstarted(g[2]))
    BY <1>14, RoleSets DEF AwaitLock, Unstarted
  <2>. QED
    BY <1>14, <2>1, SpawnKept DEF AwaitLock, PC
<1>15. ASSUME NEW g \in Broadcaster, BeginBroadcast(g) PROVE SpawnOK'
  <2>1. g \in Goroutine /\ g[1] # "serve"
    BY RoleSets DEF Broadcaster
  <2>2. CASE announced = Nobody
    BY <1>15, <2>1, <2>2, SpawnKept, EnterLoopEffect DEF BeginBroadcast
  <2>3. CASE announced # Nobody
    BY <1>15, <2>1, <2>3, SpawnKept DEF BeginBroadcast, PC
  <2>. QED
    BY <2>2, <2>3
<1>16. ASSUME NEW g \in Broadcaster, ResumeBroadcast(g) PROVE SpawnOK'
  <2>1. g \in Goroutine /\ g[1] # "serve"
    BY RoleSets DEF Broadcaster
  <2>. QED
    BY <1>16, <2>1, SpawnKept, EnterLoopEffect DEF ResumeBroadcast
<1>17. ASSUME NEW g \in Broadcaster, Hand(g) PROVE SpawnOK'
  <2>1. g \in Goroutine /\ g[1] # "serve"
    BY RoleSets DEF Broadcaster
  <2>2. at[g] \in Conns
    BY <1>17, HandEffect
  <2>3. Writer(at[g])[1] # "serve"
    BY <2>2, Roles
  <2>. QED
    BY <1>17, <2>1, <2>3, SpawnKept, HandEffect
<1>18. ASSUME NEW g \in Broadcaster, EndBroadcast(g) PROVE SpawnOK'
  <2>1. g \in Goroutine /\ g[1] # "serve"
    BY RoleSets DEF Broadcaster
  <2>. QED
    BY <1>18, <2>1, SpawnKept DEF EndBroadcast, PC
<1>19. ASSUME NEW u \in Users, NEW r \in Rooms, JoinRoom(u, r) PROVE SpawnOK'
  BY <1>19, SpawnKept DEF JoinRoom
<1>20. CASE Restart
  <2>1. \A h \in Goroutine : pc'[h] = IF pc[Serve(h[2])] = "start" THEN pc[h] ELSE "killed"
    BY <1>20 DEF Restart
  <2>2. ASSUME NEW c \in Conns, Unstarted(c)', NEW g \in Goroutine, g[2] = c, g # Serve(c)
        PROVE  pc'[g] = "off"
    <3>1. Serve(c) \in Goroutine /\ Serve(c)[2] = c
      BY Roles
    <3>2. pc'[Serve(c)] = IF pc[Serve(c)] = "start" THEN pc[Serve(c)] ELSE "killed"
      BY <2>1, <3>1
    <3>3. pc'[Serve(c)] # "killed"
      BY <2>2 DEF Unstarted
    <3>4. pc[Serve(c)] = "start"
      BY <3>2, <3>3
    <3>. QED
      BY <2>1, <2>2, <3>4 DEF SpawnOK, Unstarted
  <2>. QED
    BY <2>2 DEF SpawnOK, Unstarted, Serve
<1>21. CASE UNCHANGED vars
  BY <1>21, SpawnKept DEF vars
<1>. QED
  BY <1>1, <1>2, <1>3, <1>4, <1>5, <1>6, <1>7, <1>8, <1>9, <1>10, <1>11, <1>12,
     <1>13, <1>14, <1>15, <1>16, <1>17, <1>18, <1>19, <1>20, <1>21 DEF Next

\* A goroutine only broadcasts events of its own session.
LEMMA EventsStep ==
  ASSUME TypeOK, EventsOK, [Next]_vars
  PROVE  EventsOK'
<1>. USE DEF EventsOK, loop
<1>1. ASSUME NEW c \in Conns, LoadRooms(c) PROVE EventsOK'
  BY <1>1 DEF LoadRooms
<1>2. ASSUME NEW c \in Conns, LoadRoomsFails(c) PROVE EventsOK'
  BY <1>2 DEF LoadRoomsFails
<1>3. ASSUME NEW c \in Conns, AddClient(c) PROVE EventsOK'
  BY <1>3 DEF AddClient
<1>4. ASSUME NEW c \in Conns, Spawn(c) PROVE EventsOK'
  <2>1. OnlineStatus(c, TRUE) \in EventsOf(Notify(c)) /\ Notify(c) \in Broadcaster
    BY Roles DEF EventsOf
  <2>. QED
    BY <1>4, <2>1 DEF Spawn, TypeOK
<1>5. ASSUME NEW c \in Conns, SetOnline(c) PROVE EventsOK'
  BY <1>5 DEF SetOnline
<1>6. ASSUME NEW c \in Conns, SetOffline(c) PROVE EventsOK'
  BY <1>6 DEF SetOffline
<1>7. ASSUME NEW c \in Conns, ReadFails(c) PROVE EventsOK'
  BY <1>7 DEF ReadFails
<1>8. ASSUME NEW c \in Conns, StoreMessage(c) PROVE EventsOK'
  BY <1>8, Roles DEF StoreMessage, TypeOK
<1>9. ASSUME NEW c \in Conns, WriteEvent(c) PROVE EventsOK'
  BY <1>9 DEF WriteEvent
<1>10. ASSUME NEW c \in Conns, PingFails(c) PROVE EventsOK'
  BY <1>10 DEF PingFails
<1>11. ASSUME NEW c \in Conns, RemoveClient(Reader(c)) PROVE EventsOK'
  <2>1. OnlineStatus(c, FALSE) \in EventsOf(Reader(c)) /\ Reader(c) \in Broadcaster
    BY Roles DEF EventsOf
  <2>. QED
    BY <1>11, <2>1, RemoveEffect DEF TypeOK
<1>12. ASSUME NEW c \in Conns, RemoveClient(Writer(c)) PROVE EventsOK'
  BY <1>12, RemoveEffect
<1>13. ASSUME NEW c \in Conns, NEW m \in Msgs, ReadMessage(c, m) PROVE EventsOK'
  <2>1. NewMessage(m) \in EventsOf(Reader(c)) /\ Reader(c) \in Broadcaster
    BY Roles DEF EventsOf
  <2>. QED
    BY <1>13, <2>1 DEF ReadMessage, TypeOK
<1>14. ASSUME NEW g \in Lockers, AwaitLock(g) PROVE EventsOK'
  BY <1>14 DEF AwaitLock
<1>15. ASSUME NEW g \in Broadcaster, BeginBroadcast(g) PROVE EventsOK'
  BY <1>15 DEF BeginBroadcast
<1>16. ASSUME NEW g \in Broadcaster, ResumeBroadcast(g) PROVE EventsOK'
  BY <1>16 DEF ResumeBroadcast
<1>17. ASSUME NEW g \in Broadcaster, Hand(g) PROVE EventsOK'
  BY <1>17 DEF Hand
<1>18. ASSUME NEW g \in Broadcaster, EndBroadcast(g) PROVE EventsOK'
  BY <1>18 DEF EndBroadcast, TypeOK
<1>19. ASSUME NEW u \in Users, NEW r \in Rooms, JoinRoom(u, r) PROVE EventsOK'
  BY <1>19 DEF JoinRoom
<1>20. CASE Restart
  BY <1>20 DEF Restart
<1>21. CASE UNCHANGED vars
  BY <1>21 DEF vars
<1>. QED
  BY <1>1, <1>2, <1>3, <1>4, <1>5, <1>6, <1>7, <1>8, <1>9, <1>10, <1>11, <1>12,
     <1>13, <1>14, <1>15, <1>16, <1>17, <1>18, <1>19, <1>20, <1>21 DEF Next

\* A goroutine in its loop has an event, and only messages reach the insert.
LEMMA CarriesStep ==
  ASSUME TypeOK, SpawnOK, EventsOK, CarriesOK, [Next]_vars
  PROVE  CarriesOK'
<1>. USE DEF CarriesOK, TypeOK, At, Goto
<1>1. ASSUME NEW c \in Conns, LoadRooms(c) PROVE CarriesOK'
  BY <1>1, Roles, RoleSets DEF LoadRooms, loop
<1>2. ASSUME NEW c \in Conns, LoadRoomsFails(c) PROVE CarriesOK'
  BY <1>2, Roles, RoleSets DEF LoadRoomsFails, loop
<1>3. ASSUME NEW c \in Conns, AddClient(c) PROVE CarriesOK'
  BY <1>3, Roles, RoleSets DEF AddClient, loop
<1>4. ASSUME NEW c \in Conns, Spawn(c) PROVE CarriesOK'
  <2>1. \A h \in Goroutine : pc'[h] = IF h[2] = c THEN FirstStep[h[1]] ELSE pc[h]
    BY <1>4 DEF Spawn
  <2>2. \A h \in Broadcaster : h[2] = c => pc'[h] \in {"read", "rlock"}
    BY <2>1, RoleSets DEF FirstStep, Broadcaster
  <2>3. \A h \in Broadcaster : h[2] = c /\ pc'[h] = "rlock" => h = Notify(c)
    <3>1. pc'[Reader(c)] = "read"
      <4>1. Reader(c) \in Goroutine /\ Reader(c)[2] = c /\ Reader(c)[1] = "reader"
        BY Roles
      <4>. QED
        BY <2>1, <4>1 DEF FirstStep
    <3>. QED
      BY <3>1, RoleSets
  <2>4. event'[Notify(c)] # NoEvent
    BY <1>4, Roles, Events DEF Spawn
  <2>5. \A h \in Broadcaster : h # Notify(c) => event'[h] = event[h]
    BY <1>4 DEF Spawn
  <2>6. UNCHANGED at
    BY <1>4 DEF Spawn
  <2>7. \A h \in Broadcaster : h[2] # c => pc'[h] = pc[h] /\ h # Notify(c)
    BY <2>1, RoleSets, Roles
  <2>. QED
    BY <2>2, <2>3, <2>4, <2>5, <2>6, <2>7
<1>5. ASSUME NEW c \in Conns, SetOnline(c) PROVE CarriesOK'
  BY <1>5, Roles, RoleSets DEF SetOnline, loop
<1>6. ASSUME NEW c \in Conns, SetOffline(c) PROVE CarriesOK'
  BY <1>6, Roles, RoleSets DEF SetOffline, loop
<1>7. ASSUME NEW c \in Conns, ReadFails(c) PROVE CarriesOK'
  BY <1>7, Roles, RoleSets DEF ReadFails, loop
<1>8. ASSUME NEW c \in Conns, StoreMessage(c) PROVE CarriesOK'
  <2>1. Reader(c) \in Broadcaster /\ pc'[Reader(c)] = "read"
    BY <1>8, Roles DEF StoreMessage
  <2>2. \A h \in Broadcaster : h # Reader(c) => pc'[h] = pc[h] /\ event'[h] = event[h]
    BY <1>8, RoleSets DEF StoreMessage
  <2>3. UNCHANGED at
    BY <1>8 DEF StoreMessage
  <2>. QED
    BY <2>1, <2>2, <2>3
<1>9. ASSUME NEW c \in Conns, WriteEvent(c) PROVE CarriesOK'
  BY <1>9, Roles, RoleSets DEF WriteEvent, loop
<1>10. ASSUME NEW c \in Conns, PingFails(c) PROVE CarriesOK'
  BY <1>10, Roles, RoleSets DEF PingFails, loop
<1>11. ASSUME NEW c \in Conns, RemoveClient(Reader(c)) PROVE CarriesOK'
  <2>1. /\ Reader(c) \in Broadcaster /\ pc'[Reader(c)] = "rlock"
        /\ event'[Reader(c)] # NoEvent
    <3>1. Reader(c) \in Broadcaster /\ Reader(c) \in Goroutine
      BY Roles
    <3>2. OnlineStatus(c, FALSE) # NoEvent
      BY Events
    <3>. QED
      BY <1>11, RemoveEffect, <3>1, <3>2
  <2>2. \A h \in Broadcaster : h # Reader(c) => pc'[h] = pc[h] /\ event'[h] = event[h]
    BY <1>11, RemoveEffect, RoleSets
  <2>3. UNCHANGED at
    BY <1>11 DEF RemoveClient
  <2>. QED
    BY <2>1, <2>2, <2>3
<1>12. ASSUME NEW c \in Conns, RemoveClient(Writer(c)) PROVE CarriesOK'
  <2>1. \A h \in Broadcaster : pc'[h] = pc[h] /\ event'[h] = event[h]
    <3>1. Writer(c) \notin Broadcaster
      BY Roles
    <3>. QED
      BY <1>12, RemoveEffect, RoleSets, <3>1
  <2>2. UNCHANGED at
    BY <1>12 DEF RemoveClient
  <2>. QED
    BY <2>1, <2>2
<1>13. ASSUME NEW c \in Conns, NEW m \in Msgs, ReadMessage(c, m) PROVE CarriesOK'
  <2>1. /\ Reader(c) \in Broadcaster /\ pc'[Reader(c)] = "rlock"
        /\ event'[Reader(c)] # NoEvent
    BY <1>13, Roles, Events DEF ReadMessage
  <2>2. \A h \in Broadcaster : h # Reader(c) => pc'[h] = pc[h] /\ event'[h] = event[h]
    BY <1>13, RoleSets DEF ReadMessage
  <2>3. UNCHANGED at
    BY <1>13 DEF ReadMessage
  <2>. QED
    BY <2>1, <2>2, <2>3
<1>14. ASSUME NEW g \in Lockers, AwaitLock(g) PROVE CarriesOK'
  BY <1>14, Roles, RoleSets DEF AwaitLock, loop
<1>15. ASSUME NEW g \in Broadcaster, BeginBroadcast(g) PROVE CarriesOK'
  <2>1. event[g] # NoEvent /\ UNCHANGED event
    BY <1>15 DEF BeginBroadcast
  <2>2. CASE announced = Nobody
    BY <1>15, <2>1, <2>2, RoleSets, EnterLoopEffect DEF BeginBroadcast
  <2>3. CASE announced # Nobody
    BY <1>15, <2>1, <2>3, RoleSets DEF BeginBroadcast
  <2>. QED
    BY <2>2, <2>3
<1>16. ASSUME NEW g \in Broadcaster, ResumeBroadcast(g) PROVE CarriesOK'
  <2>1. event[g] # NoEvent /\ UNCHANGED event
    BY <1>16 DEF ResumeBroadcast
  <2>. QED
    BY <1>16, <2>1, RoleSets, EnterLoopEffect DEF ResumeBroadcast
<1>17. ASSUME NEW g \in Broadcaster, Hand(g) PROVE CarriesOK'
  <2>1. event[g] # NoEvent /\ UNCHANGED event
    BY <1>17 DEF Hand
  <2>2. Writer(at[g]) \notin Broadcaster /\ todo[g] \subseteq Conns
    BY <1>17, HandEffect, Roles
  <2>3. \A h \in Broadcaster : h # g => pc'[h] = pc[h] /\ at'[h] = at[h]
    BY <1>17, <2>2, HandEffect, RoleSets
  <2>. QED
    BY <1>17, <2>1, <2>2, <2>3, HandEffect
<1>18. ASSUME NEW g \in Broadcaster, EndBroadcast(g) PROVE CarriesOK'
  <2>1. \A h \in Broadcaster : h # g => pc'[h] = pc[h] /\ event'[h] = event[h]
    BY <1>18, RoleSets DEF EndBroadcast
  <2>2. pc'[g] \in {"store", "offline", "done"}
    BY <1>18, RoleSets DEF EndBroadcast
  <2>3. pc'[g] = "store" => IsMessage(event'[g])
    BY <1>18, RoleSets DEF EndBroadcast
  <2>. QED
    BY <1>18, <2>1, <2>2, <2>3 DEF EndBroadcast
<1>19. ASSUME NEW u \in Users, NEW r \in Rooms, JoinRoom(u, r) PROVE CarriesOK'
  BY <1>19 DEF JoinRoom, loop
<1>20. CASE Restart
  <2>1. \A h \in Broadcaster : pc'[h] \in {"off", "killed"}
    BY <1>20, RoleSets, Roles DEF Restart, SpawnOK, Unstarted
  <2>. QED
    BY <2>1
<1>21. CASE UNCHANGED vars
  BY <1>21 DEF vars, loop
<1>. QED
  BY <1>1, <1>2, <1>3, <1>4, <1>5, <1>6, <1>7, <1>8, <1>9, <1>10, <1>11, <1>12,
     <1>13, <1>14, <1>15, <1>16, <1>17, <1>18, <1>19, <1>20, <1>21 DEF Next

\* Whoever is in its range loop stays there undisturbed when the lock and the
\* registry only grow, or when nobody holds the read lock.
LEMMA LoopKept ==
  ASSUME LockOK, LoopSeesRegistry,
         rlocked = {} \/ (rlocked \subseteq rlocked' /\ clients \subseteq clients'),
         \A h \in Broadcaster : pc'[h] \in {"send", "runlock"} =>
            pc[h] = pc'[h] /\ at'[h] = at[h] /\ todo'[h] = todo[h]
  PROVE  LockOK' /\ LoopSeesRegistry'
  BY DEF LockOK, LoopSeesRegistry

\* The registry does not change under a range loop: whoever changes it holds the
\* write lock, and then nobody is in a loop.
LEMMA LoopStep ==
  ASSUME TypeOK, SpawnOK, CarriesOK, LockOK, LoopSeesRegistry, [Next]_vars
  PROVE  LockOK' /\ LoopSeesRegistry'
<1>. USE DEF TypeOK, At, Goto, loop, registry, lockVars
<1>1. ASSUME NEW c \in Conns, LoadRooms(c) PROVE LockOK' /\ LoopSeesRegistry'
  <2>1. \A h \in Broadcaster : pc'[h] \in {"send", "runlock"} => pc'[h] = pc[h]
    BY <1>1, RoleSets DEF LoadRooms
  <2>. QED
    BY <1>1, <2>1, LoopKept DEF LoadRooms
<1>2. ASSUME NEW c \in Conns, LoadRoomsFails(c) PROVE LockOK' /\ LoopSeesRegistry'
  <2>1. \A h \in Broadcaster : pc'[h] \in {"send", "runlock"} => pc'[h] = pc[h]
    BY <1>2, RoleSets DEF LoadRoomsFails
  <2>. QED
    BY <1>2, <2>1, LoopKept DEF LoadRoomsFails
<1>3. ASSUME NEW c \in Conns, AddClient(c) PROVE LockOK' /\ LoopSeesRegistry'
  <2>1. \A h \in Broadcaster : pc'[h] \in {"send", "runlock"} => pc'[h] = pc[h]
    BY <1>3, RoleSets DEF AddClient
  <2>2. rlocked = {}
    BY <1>3 DEF AddClient, Locked, HoldsLock
  <2>. QED
    BY <1>3, <2>1, <2>2, LoopKept DEF AddClient
<1>4. ASSUME NEW c \in Conns, Spawn(c) PROVE LockOK' /\ LoopSeesRegistry'
  <2>1. \A h \in Goroutine : pc'[h] = IF h[2] = c THEN FirstStep[h[1]] ELSE pc[h]
    BY <1>4 DEF Spawn
  <2>2. \A h \in Broadcaster : h[2] = c => pc'[h] \in {"read", "rlock"}
    BY <2>1, RoleSets DEF FirstStep, Broadcaster
  <2>3. \A h \in Broadcaster : pc'[h] \in {"send", "runlock"} => pc'[h] = pc[h]
    BY <2>1, <2>2, RoleSets
  <2>. QED
    BY <1>4, <2>3, LoopKept DEF Spawn
<1>5. ASSUME NEW c \in Conns, SetOnline(c) PROVE LockOK' /\ LoopSeesRegistry'
  <2>1. \A h \in Broadcaster : pc'[h] \in {"send", "runlock"} => pc'[h] = pc[h]
    BY <1>5, RoleSets DEF SetOnline
  <2>. QED
    BY <1>5, <2>1, LoopKept DEF SetOnline
<1>6. ASSUME NEW c \in Conns, SetOffline(c) PROVE LockOK' /\ LoopSeesRegistry'
  <2>1. \A h \in Broadcaster : pc'[h] \in {"send", "runlock"} => pc'[h] = pc[h]
    BY <1>6, RoleSets DEF SetOffline
  <2>. QED
    BY <1>6, <2>1, LoopKept DEF SetOffline
<1>7. ASSUME NEW c \in Conns, ReadFails(c) PROVE LockOK' /\ LoopSeesRegistry'
  <2>1. \A h \in Broadcaster : pc'[h] \in {"send", "runlock"} => pc'[h] = pc[h]
    BY <1>7, RoleSets DEF ReadFails
  <2>. QED
    BY <1>7, <2>1, LoopKept DEF ReadFails
<1>8. ASSUME NEW c \in Conns, StoreMessage(c) PROVE LockOK' /\ LoopSeesRegistry'
  <2>1. \A h \in Broadcaster : pc'[h] \in {"send", "runlock"} => pc'[h] = pc[h]
    BY <1>8, RoleSets DEF StoreMessage
  <2>. QED
    BY <1>8, <2>1, LoopKept DEF StoreMessage
<1>9. ASSUME NEW c \in Conns, WriteEvent(c) PROVE LockOK' /\ LoopSeesRegistry'
  <2>1. \A h \in Broadcaster : pc'[h] \in {"send", "runlock"} => pc'[h] = pc[h]
    BY <1>9, RoleSets DEF WriteEvent
  <2>. QED
    BY <1>9, <2>1, LoopKept DEF WriteEvent
<1>10. ASSUME NEW c \in Conns, PingFails(c) PROVE LockOK' /\ LoopSeesRegistry'
  <2>1. \A h \in Broadcaster : pc'[h] \in {"send", "runlock"} => pc'[h] = pc[h]
    BY <1>10, RoleSets DEF PingFails
  <2>. QED
    BY <1>10, <2>1, LoopKept DEF PingFails
<1>11. ASSUME NEW c \in Conns, RemoveClient(Reader(c)) PROVE LockOK' /\ LoopSeesRegistry'
  <2>1. \A h \in Broadcaster : pc'[h] \in {"send", "runlock"} => pc'[h] = pc[h]
    BY <1>11, RoleSets DEF RemoveClient
  <2>2. rlocked = {}
    BY <1>11 DEF RemoveClient, Locked, HoldsLock
  <2>. QED
    BY <1>11, <2>1, <2>2, LoopKept DEF RemoveClient
<1>12. ASSUME NEW c \in Conns, RemoveClient(Writer(c)) PROVE LockOK' /\ LoopSeesRegistry'
  <2>1. \A h \in Broadcaster : pc'[h] \in {"send", "runlock"} => pc'[h] = pc[h]
    BY <1>12, RoleSets DEF RemoveClient
  <2>2. rlocked = {}
    BY <1>12 DEF RemoveClient, Locked, HoldsLock
  <2>. QED
    BY <1>12, <2>1, <2>2, LoopKept DEF RemoveClient
<1>13. ASSUME NEW c \in Conns, NEW m \in Msgs, ReadMessage(c, m) PROVE LockOK' /\ LoopSeesRegistry'
  <2>1. \A h \in Broadcaster : pc'[h] \in {"send", "runlock"} => pc'[h] = pc[h]
    BY <1>13, RoleSets DEF ReadMessage
  <2>. QED
    BY <1>13, <2>1, LoopKept DEF ReadMessage
<1>14. ASSUME NEW g \in Lockers, AwaitLock(g) PROVE LockOK' /\ LoopSeesRegistry'
  <2>1. \A h \in Broadcaster : pc'[h] \in {"send", "runlock"} => pc'[h] = pc[h]
    BY <1>14, RoleSets DEF AwaitLock
  <2>. QED
    BY <1>14, <2>1, LoopKept DEF AwaitLock, Announce
<1>15. ASSUME NEW g \in Broadcaster, BeginBroadcast(g) PROVE LockOK' /\ LoopSeesRegistry'
  <2>1. g \notin rlocked \/ pc[g] = "rlock"
    BY <1>15 DEF BeginBroadcast
  <2>2. CASE announced = Nobody
    <3>1. rlocked' = rlocked \cup {g} /\ UNCHANGED clients /\ EnterLoop(g)
      BY <1>15, <2>2 DEF BeginBroadcast, RLock
    <3>. QED
      BY <3>1, EnterLoopEffect, RoleSets DEF LockOK, LoopSeesRegistry
  <2>3. CASE announced # Nobody
    <3>1. /\ UNCHANGED <<rlocked, clients, todo, at>>
          /\ pc' = [pc EXCEPT ![g] = "parked"]
      BY <1>15, <2>3 DEF BeginBroadcast, RLock
    <3>. QED
      BY <3>1, LoopKept, RoleSets
  <2>. QED
    BY <2>2, <2>3
<1>16. ASSUME NEW g \in Broadcaster, ResumeBroadcast(g) PROVE LockOK' /\ LoopSeesRegistry'
  <2>1. g \in rlocked /\ UNCHANGED <<rlocked, clients>> /\ EnterLoop(g)
    BY <1>16 DEF ResumeBroadcast
  <2>. QED
    BY <2>1, EnterLoopEffect, RoleSets DEF LockOK, LoopSeesRegistry
<1>17. ASSUME NEW g \in Broadcaster, Hand(g) PROVE LockOK' /\ LoopSeesRegistry'
  <2>1. UNCHANGED <<rlocked, clients>>
    BY <1>17 DEF Hand
  <2>2. g \in rlocked /\ todo[g] \subseteq clients /\ Writer(at[g]) \notin Broadcaster
    BY <1>17, HandEffect, Roles DEF LockOK, LoopSeesRegistry
  <2>3. \A h \in Broadcaster : h # g => /\ pc'[h] = pc[h] /\ at'[h] = at[h]
                                       /\ todo'[h] = todo[h]
    BY <1>17, <2>2, HandEffect, RoleSets
  <2>. QED
    BY <1>17, <2>1, <2>2, <2>3, HandEffect DEF LockOK, LoopSeesRegistry
<1>18. ASSUME NEW g \in Broadcaster, EndBroadcast(g) PROVE LockOK' /\ LoopSeesRegistry'
  <2>1. /\ UNCHANGED <<clients, at, todo>>
        /\ rlocked' = rlocked \ {g}
        /\ pc'[g] \in {"store", "offline", "done"}
        /\ \A h \in Broadcaster : h # g => pc'[h] = pc[h]
    BY <1>18, RoleSets DEF EndBroadcast, RUnlock, Release
  <2>. QED
    BY <2>1 DEF LockOK, LoopSeesRegistry
<1>19. ASSUME NEW u \in Users, NEW r \in Rooms, JoinRoom(u, r) PROVE LockOK' /\ LoopSeesRegistry'
  BY <1>19, LoopKept DEF JoinRoom
<1>20. CASE Restart
  <2>1. \A h \in Broadcaster : pc'[h] \in {"off", "killed"}
    BY <1>20, RoleSets, Roles DEF Restart, SpawnOK, Unstarted
  <2>. QED
    BY <2>1 DEF LockOK, LoopSeesRegistry
<1>21. CASE UNCHANGED vars
  BY <1>21, LoopKept DEF vars
<1>. QED
  BY <1>1, <1>2, <1>3, <1>4, <1>5, <1>6, <1>7, <1>8, <1>9, <1>10, <1>11, <1>12,
     <1>13, <1>14, <1>15, <1>16, <1>17, <1>18, <1>19, <1>20, <1>21 DEF Next

\* Serve(c) is none of the other goroutines.
LEMMA ServeApart ==
  ASSUME NEW c \in Conns, NEW d \in Conns
  PROVE  /\ Serve(c) # Reader(d) /\ Serve(c) # Writer(d) /\ Serve(c) # Online(d)
         /\ Serve(c) \notin Broadcaster
         /\ c # d => Serve(c) # Serve(d)
  BY DEF Serve, Reader, Writer, Online, Broadcaster

\* A handler that has started its session, or given up, never comes back.
LEMMA NothingRestarts ==
  ASSUME TypeOK, CarriesOK, [Next]_vars
  PROVE  \A d \in Conns : Unstarted(d)' => Unstarted(d)
<1>. USE DEF TypeOK, At, Goto
<1>1. ASSUME NEW c \in Conns, LoadRooms(c) PROVE \A d \in Conns : Unstarted(d)' => Unstarted(d)
  <2>1. Unstarted(c)
    BY <1>1 DEF LoadRooms, Unstarted
  <2>2. \A d \in Conns : d # c => pc'[Serve(d)] = pc[Serve(d)]
    BY <1>1, ServeApart, Roles DEF LoadRooms
  <2>. QED
    BY <2>1, <2>2 DEF Unstarted
<1>2. ASSUME NEW c \in Conns, LoadRoomsFails(c) PROVE \A d \in Conns : Unstarted(d)' => Unstarted(d)
  <2>1. Unstarted(c)
    BY <1>2 DEF LoadRoomsFails, Unstarted
  <2>2. \A d \in Conns : d # c => pc'[Serve(d)] = pc[Serve(d)]
    BY <1>2, ServeApart, Roles DEF LoadRoomsFails
  <2>. QED
    BY <2>1, <2>2 DEF Unstarted
<1>3. ASSUME NEW c \in Conns, AddClient(c) PROVE \A d \in Conns : Unstarted(d)' => Unstarted(d)
  <2>1. Unstarted(c)
    BY <1>3 DEF AddClient, Unstarted, Locked
  <2>2. \A d \in Conns : d # c => pc'[Serve(d)] = pc[Serve(d)]
    BY <1>3, ServeApart, Roles DEF AddClient
  <2>. QED
    BY <2>1, <2>2 DEF Unstarted
<1>4. ASSUME NEW c \in Conns, Spawn(c) PROVE \A d \in Conns : Unstarted(d)' => Unstarted(d)
  <2>1. \A h \in Goroutine : pc'[h] = IF h[2] = c THEN FirstStep[h[1]] ELSE pc[h]
    BY <1>4 DEF Spawn
  <2>2. \A d \in Conns : Serve(d) \in Goroutine /\ Serve(d)[2] = d /\ Serve(d)[1] = "serve"
    BY Roles
  <2>3. \A d \in Conns : pc'[Serve(d)] = "done" \/ pc'[Serve(d)] = pc[Serve(d)]
    <3>1. FirstStep["serve"] = "done"
      BY DEF FirstStep
    <3>. TAKE d \in Conns
    <3>2. pc'[Serve(d)] = IF d = c THEN FirstStep["serve"] ELSE pc[Serve(d)]
      BY <2>1, <2>2
    <3>. QED
      BY <3>1, <3>2
  <2>. QED
    BY <2>3 DEF Unstarted
<1>5. ASSUME NEW c \in Conns, SetOnline(c) PROVE \A d \in Conns : Unstarted(d)' => Unstarted(d)
  <2>1. \A d \in Conns : pc'[Serve(d)] = pc[Serve(d)]
    BY <1>5, ServeApart, Roles DEF SetOnline
  <2>. QED
    BY <2>1 DEF Unstarted
<1>6. ASSUME NEW c \in Conns, SetOffline(c) PROVE \A d \in Conns : Unstarted(d)' => Unstarted(d)
  <2>1. \A d \in Conns : pc'[Serve(d)] = pc[Serve(d)]
    BY <1>6, ServeApart, Roles DEF SetOffline
  <2>. QED
    BY <2>1 DEF Unstarted
<1>7. ASSUME NEW c \in Conns, ReadFails(c) PROVE \A d \in Conns : Unstarted(d)' => Unstarted(d)
  <2>1. \A d \in Conns : pc'[Serve(d)] = pc[Serve(d)]
    BY <1>7, ServeApart, Roles DEF ReadFails
  <2>. QED
    BY <2>1 DEF Unstarted
<1>8. ASSUME NEW c \in Conns, StoreMessage(c) PROVE \A d \in Conns : Unstarted(d)' => Unstarted(d)
  <2>1. \A d \in Conns : pc'[Serve(d)] = pc[Serve(d)]
    BY <1>8, ServeApart, Roles DEF StoreMessage
  <2>. QED
    BY <2>1 DEF Unstarted
<1>9. ASSUME NEW c \in Conns, WriteEvent(c) PROVE \A d \in Conns : Unstarted(d)' => Unstarted(d)
  <2>1. \A d \in Conns : pc'[Serve(d)] = pc[Serve(d)]
    BY <1>9, ServeApart, Roles DEF WriteEvent
  <2>. QED
    BY <2>1 DEF Unstarted
<1>10. ASSUME NEW c \in Conns, PingFails(c) PROVE \A d \in Conns : Unstarted(d)' => Unstarted(d)
  <2>1. \A d \in Conns : pc'[Serve(d)] = pc[Serve(d)]
    BY <1>10, ServeApart, Roles DEF PingFails
  <2>. QED
    BY <2>1 DEF Unstarted
<1>11. ASSUME NEW c \in Conns, RemoveClient(Reader(c)) PROVE \A d \in Conns : Unstarted(d)' => Unstarted(d)
  <2>1. pc' = [pc EXCEPT ![Reader(c)] = "rlock"]
    BY <1>11, RemoveEffect
  <2>2. \A d \in Conns : Serve(d) \in Goroutine /\ Serve(d) # Reader(c)
    BY Roles, ServeApart
  <2>. QED
    BY <2>1, <2>2 DEF Unstarted
<1>12. ASSUME NEW c \in Conns, RemoveClient(Writer(c)) PROVE \A d \in Conns : Unstarted(d)' => Unstarted(d)
  <2>1. pc' = [pc EXCEPT ![Writer(c)] = "done"]
    BY <1>12, RemoveEffect
  <2>2. \A d \in Conns : Serve(d) \in Goroutine /\ Serve(d) # Writer(c)
    BY Roles, ServeApart
  <2>. QED
    BY <2>1, <2>2 DEF Unstarted
<1>13. ASSUME NEW c \in Conns, NEW m \in Msgs, ReadMessage(c, m) PROVE \A d \in Conns : Unstarted(d)' => Unstarted(d)
  <2>1. \A d \in Conns : pc'[Serve(d)] = pc[Serve(d)]
    BY <1>13, ServeApart, Roles DEF ReadMessage
  <2>. QED
    BY <2>1 DEF Unstarted
<1>14. ASSUME NEW g \in Lockers, AwaitLock(g) PROVE \A d \in Conns : Unstarted(d)' => Unstarted(d)
  <2>1. \A d \in Conns : g = Serve(d) => Unstarted(d)
    BY <1>14 DEF AwaitLock, Unstarted
  <2>2. \A d \in Conns : g # Serve(d) => pc'[Serve(d)] = pc[Serve(d)]
    BY <1>14, Roles DEF AwaitLock
  <2>. QED
    BY <2>1, <2>2 DEF Unstarted
<1>15. ASSUME NEW g \in Broadcaster, BeginBroadcast(g) PROVE \A d \in Conns : Unstarted(d)' => Unstarted(d)
  <2>1. \A d \in Conns : Serve(d) \in Goroutine /\ Serve(d) # g
    BY Roles
  <2>2. CASE announced = Nobody
    BY <1>15, <2>1, <2>2, EnterLoopEffect DEF BeginBroadcast, Unstarted
  <2>3. CASE announced # Nobody
    BY <1>15, <2>1, <2>3 DEF BeginBroadcast, Unstarted
  <2>. QED
    BY <2>2, <2>3
<1>16. ASSUME NEW g \in Broadcaster, ResumeBroadcast(g) PROVE \A d \in Conns : Unstarted(d)' => Unstarted(d)
  <2>1. \A d \in Conns : Serve(d) \in Goroutine /\ Serve(d) # g
    BY Roles
  <2>. QED
    BY <1>16, <2>1, EnterLoopEffect DEF ResumeBroadcast, Unstarted
<1>17. ASSUME NEW g \in Broadcaster, Hand(g) PROVE \A d \in Conns : Unstarted(d)' => Unstarted(d)
  <2>1. at[g] \in Conns
    BY <1>17, HandEffect
  <2>2. \A d \in Conns : Serve(d) \in Goroutine /\ Serve(d) # g /\ Serve(d) # Writer(at[g])
    BY <2>1, Roles, ServeApart
  <2>. QED
    BY <1>17, <2>2, HandEffect DEF Unstarted
<1>18. ASSUME NEW g \in Broadcaster, EndBroadcast(g) PROVE \A d \in Conns : Unstarted(d)' => Unstarted(d)
  <2>1. \A d \in Conns : Serve(d) # g
    BY Roles
  <2>. QED
    BY <1>18, <2>1, Roles DEF EndBroadcast, Unstarted
<1>19. ASSUME NEW u \in Users, NEW r \in Rooms, JoinRoom(u, r) PROVE \A d \in Conns : Unstarted(d)' => Unstarted(d)
  BY <1>19 DEF JoinRoom, Unstarted
<1>20. CASE Restart
  <2>1. \A d \in Conns : pc'[Serve(d)] = "killed" \/ pc'[Serve(d)] = pc[Serve(d)]
    BY <1>20, Roles DEF Restart
  <2>. QED
    BY <2>1 DEF Unstarted
<1>21. CASE UNCHANGED vars
  BY <1>21 DEF vars, Unstarted
<1>. QED
  BY <1>1, <1>2, <1>3, <1>4, <1>5, <1>6, <1>7, <1>8, <1>9, <1>10, <1>11, <1>12,
     <1>13, <1>14, <1>15, <1>16, <1>17, <1>18, <1>19, <1>20, <1>21 DEF Next

\* A departure stays a departure when nobody announces a new one and no session
\* but one that is starting is registered.
LEMMA DepartedKept ==
  ASSUME DepartedOK, NotToldOfOwnDeparture, told' = told,
         \A c \in Conns : event'[Reader(c)] = OnlineStatus(c, FALSE) =>
            event[Reader(c)] = OnlineStatus(c, FALSE),
         \A c \in Conns : Unstarted(c)' => Unstarted(c),
         \A c \in clients' : c \in clients \/ Unstarted(c)
  PROVE  DepartedOK' /\ NotToldOfOwnDeparture'
<1>1. NotToldOfOwnDeparture'
  BY DEF NotToldOfOwnDeparture, OnlineStatus
<1>2. ASSUME NEW c \in Conns,
             \/ event'[Reader(c)] = OnlineStatus(c, FALSE)
             \/ \E d \in Conns : OnlineStatus(c, FALSE) \in told'[d]
      PROVE  c \notin clients' /\ ~Unstarted(c)'
  <2>1. c \notin clients /\ ~Unstarted(c)
    BY <1>2 DEF DepartedOK
  <2>. QED
    BY <2>1
<1>. QED
  BY <1>1, <1>2 DEF DepartedOK, Unstarted, Serve, Reader, OnlineStatus

\* Readers are told apart by their connection.
LEMMA ReaderApart ==
  ASSUME NEW c \in Conns, NEW d \in Conns
  PROVE  Reader(c) # Notify(d) /\ (c # d => Reader(c) # Reader(d))
  BY DEF Reader, Notify

\* Only a session's own reader announces its departure.
LEMMA Announcer ==
  ASSUME EventsOK, NEW g \in Broadcaster, NEW d \in Conns, event[g] = OnlineStatus(d, FALSE)
  PROVE  g = Reader(d)
<1>1. g[2] \in Conns /\ (g = Reader(g[2]) \/ g = Notify(g[2]))
  BY RoleSets
<1>2. event[g] # NoEvent
  BY Events
<1>3. event[g] \in EventsOf(g)
  BY <1>2 DEF EventsOK
<1>4. CASE g = Notify(g[2])
  <2>1. g[1] = "notify"
    BY <1>1, <1>4, Roles
  <2>2. OnlineStatus(d, FALSE) = OnlineStatus(g[2], TRUE)
    BY <1>3, <2>1 DEF EventsOf
  <2>. QED
    BY <1>1, <2>2, Events
<1>5. CASE g = Reader(g[2])
  <2>1. g[1] # "notify"
    BY <1>1, <1>5, Roles
  <2>2. \A m \in Msgs : OnlineStatus(d, FALSE) # NewMessage(m)
    BY Events
  <2>3. OnlineStatus(d, FALSE) = OnlineStatus(g[2], FALSE)
    BY <1>3, <2>1, <2>2 DEF EventsOf
  <2>. QED
    BY <1>1, <1>5, <2>3, Events
<1>. QED
  BY <1>1, <1>4, <1>5

\* Nobody who has left is in the registry again, and so nobody is told of its
\* own departure.
LEMMA DepartedStep ==
  ASSUME TypeOK, SpawnOK, EventsOK, CarriesOK, LoopSeesRegistry, DepartedOK,
         NotToldOfOwnDeparture, [Next]_vars
  PROVE  DepartedOK' /\ NotToldOfOwnDeparture'
<1>. USE DEF TypeOK, At, Goto, loop, registry, history
<1>1. ASSUME NEW c \in Conns, LoadRooms(c) PROVE DepartedOK' /\ NotToldOfOwnDeparture'
  <2>1. UNCHANGED <<event, told, clients>>
    BY <1>1 DEF LoadRooms
  <2>. QED
    BY <2>1, DepartedKept, NothingRestarts
<1>2. ASSUME NEW c \in Conns, LoadRoomsFails(c) PROVE DepartedOK' /\ NotToldOfOwnDeparture'
  <2>1. UNCHANGED <<event, told, clients>>
    BY <1>2 DEF LoadRoomsFails
  <2>. QED
    BY <2>1, DepartedKept, NothingRestarts
<1>3. ASSUME NEW c \in Conns, AddClient(c) PROVE DepartedOK' /\ NotToldOfOwnDeparture'
  <2>1. /\ UNCHANGED <<event, told>>
        /\ clients' = clients \cup {c}
        /\ Unstarted(c)
    BY <1>3 DEF AddClient, Locked, Unstarted
  <2>. QED
    BY <2>1, DepartedKept, NothingRestarts
<1>4. ASSUME NEW c \in Conns, Spawn(c) PROVE DepartedOK' /\ NotToldOfOwnDeparture'
  <2>1. UNCHANGED <<told, clients>>
    BY <1>4 DEF Spawn
  <2>2. \A d \in Conns : event'[Reader(d)] = OnlineStatus(d, FALSE) =>
          event[Reader(d)] = OnlineStatus(d, FALSE)
    <3>1. event' = [event EXCEPT ![Notify(c)] = OnlineStatus(c, TRUE)]
      BY <1>4 DEF Spawn
    <3>2. \A d \in Conns : Reader(d) \in Broadcaster /\ Reader(d) # Notify(c)
      BY Roles, ReaderApart
    <3>. QED
      BY <3>1, <3>2
  <2>. QED
    BY <2>1, <2>2, DepartedKept, NothingRestarts
<1>5. ASSUME NEW c \in Conns, SetOnline(c) PROVE DepartedOK' /\ NotToldOfOwnDeparture'
  <2>1. UNCHANGED <<event, told, clients>>
    BY <1>5 DEF SetOnline
  <2>. QED
    BY <2>1, DepartedKept, NothingRestarts
<1>6. ASSUME NEW c \in Conns, SetOffline(c) PROVE DepartedOK' /\ NotToldOfOwnDeparture'
  <2>1. UNCHANGED <<event, told, clients>>
    BY <1>6 DEF SetOffline
  <2>. QED
    BY <2>1, DepartedKept, NothingRestarts
<1>7. ASSUME NEW c \in Conns, ReadFails(c) PROVE DepartedOK' /\ NotToldOfOwnDeparture'
  <2>1. UNCHANGED <<event, told, clients>>
    BY <1>7 DEF ReadFails
  <2>. QED
    BY <2>1, DepartedKept, NothingRestarts
<1>8. ASSUME NEW c \in Conns, StoreMessage(c) PROVE DepartedOK' /\ NotToldOfOwnDeparture'
  <2>1. UNCHANGED <<told, clients>>
    BY <1>8 DEF StoreMessage
  <2>2. \A d \in Conns : event'[Reader(d)] = OnlineStatus(d, FALSE) =>
          event[Reader(d)] = OnlineStatus(d, FALSE)
    <3>1. event' = [event EXCEPT ![Reader(c)] = NoEvent]
      BY <1>8 DEF StoreMessage
    <3>2. \A d \in Conns : Reader(d) \in Broadcaster /\ (Reader(d) = Reader(c) => d = c)
      BY Roles, ReaderApart
    <3>3. NoEvent # OnlineStatus(c, FALSE)
      BY Events
    <3>. QED
      BY <3>1, <3>2, <3>3
  <2>. QED
    BY <2>1, <2>2, DepartedKept, NothingRestarts
<1>9. ASSUME NEW c \in Conns, WriteEvent(c) PROVE DepartedOK' /\ NotToldOfOwnDeparture'
  <2>1. UNCHANGED <<event, told, clients>>
    BY <1>9 DEF WriteEvent
  <2>. QED
    BY <2>1, DepartedKept, NothingRestarts
<1>10. ASSUME NEW c \in Conns, PingFails(c) PROVE DepartedOK' /\ NotToldOfOwnDeparture'
  <2>1. UNCHANGED <<event, told, clients>>
    BY <1>10 DEF PingFails
  <2>. QED
    BY <2>1, DepartedKept, NothingRestarts
<1>11. ASSUME NEW c \in Conns, RemoveClient(Reader(c)) PROVE DepartedOK' /\ NotToldOfOwnDeparture'
  <2>1. clients' = clients \ {c} /\ UNCHANGED told
    BY <1>11, RemoveEffect DEF RemoveClient
  <2>2. ~Unstarted(c)
    BY <1>11, Roles DEF RemoveClient, Locked, SpawnOK
  <2>3. ~Unstarted(c)'
    BY <2>2, NothingRestarts
  <2>4. \A d \in Conns : d # c => event'[Reader(d)] = event[Reader(d)]
    <3>1. event' = [event EXCEPT ![Reader(c)] = OnlineStatus(c, FALSE)]
      BY <1>11, RemoveEffect
    <3>2. \A d \in Conns : d # c => Reader(d) \in Broadcaster /\ Reader(d) # Reader(c)
      BY Roles, ReaderApart
    <3>. QED
      BY <3>1, <3>2
  <2>5. NotToldOfOwnDeparture'
    BY <2>1 DEF NotToldOfOwnDeparture, OnlineStatus
  <2>6. ASSUME NEW d \in Conns,
               \/ event'[Reader(d)] = OnlineStatus(d, FALSE)
               \/ \E f \in Conns : OnlineStatus(d, FALSE) \in told'[f]
        PROVE  d \notin clients' /\ ~Unstarted(d)'
    <3>1. CASE d = c
      BY <2>1, <2>3, <3>1
    <3>2. CASE d # c
      BY <2>1, <2>4, <2>6, <3>2, NothingRestarts DEF DepartedOK
    <3>. QED
      BY <3>1, <3>2
  <2>. QED
    BY <2>5, <2>6 DEF DepartedOK, Unstarted, Serve, Reader, OnlineStatus
<1>12. ASSUME NEW c \in Conns, RemoveClient(Writer(c)) PROVE DepartedOK' /\ NotToldOfOwnDeparture'
  <2>1. clients' = clients \ {c} /\ UNCHANGED <<event, told>>
    BY <1>12, RemoveEffect DEF RemoveClient
  <2>. QED
    BY <2>1, DepartedKept, NothingRestarts
<1>13. ASSUME NEW c \in Conns, NEW m \in Msgs, ReadMessage(c, m) PROVE DepartedOK' /\ NotToldOfOwnDeparture'
  <2>1. UNCHANGED <<told, clients>>
    BY <1>13 DEF ReadMessage
  <2>2. \A d \in Conns : event'[Reader(d)] = OnlineStatus(d, FALSE) =>
          event[Reader(d)] = OnlineStatus(d, FALSE)
    <3>1. event' = [event EXCEPT ![Reader(c)] = NewMessage(m)]
      BY <1>13 DEF ReadMessage
    <3>2. \A d \in Conns : Reader(d) \in Broadcaster /\ (Reader(d) = Reader(c) => d = c)
      BY Roles, ReaderApart
    <3>3. NewMessage(m) # OnlineStatus(c, FALSE)
      BY Events
    <3>. QED
      BY <3>1, <3>2, <3>3
  <2>. QED
    BY <2>1, <2>2, DepartedKept, NothingRestarts
<1>14. ASSUME NEW g \in Lockers, AwaitLock(g) PROVE DepartedOK' /\ NotToldOfOwnDeparture'
  <2>1. UNCHANGED <<event, told, clients>>
    BY <1>14 DEF AwaitLock
  <2>. QED
    BY <2>1, DepartedKept, NothingRestarts
<1>15. ASSUME NEW g \in Broadcaster, BeginBroadcast(g) PROVE DepartedOK' /\ NotToldOfOwnDeparture'
  <2>1. UNCHANGED <<event, told, clients>>
    BY <1>15 DEF BeginBroadcast
  <2>. QED
    BY <2>1, DepartedKept, NothingRestarts
<1>16. ASSUME NEW g \in Broadcaster, ResumeBroadcast(g) PROVE DepartedOK' /\ NotToldOfOwnDeparture'
  <2>1. UNCHANGED <<event, told, clients>>
    BY <1>16 DEF ResumeBroadcast
  <2>. QED
    BY <2>1, DepartedKept, NothingRestarts
<1>17. ASSUME NEW g \in Broadcaster, Hand(g) PROVE DepartedOK' /\ NotToldOfOwnDeparture'
  <2>1. UNCHANGED <<event, clients>>
    BY <1>17 DEF Hand
  <2>2. at[g] \in Conns /\ at[g] \in clients
    BY <1>17, HandEffect DEF LoopSeesRegistry
  <2>3. \A d \in Conns : event[g] = OnlineStatus(d, FALSE) => g = Reader(d)
    BY Announcer
  <2>4. \A f \in Conns : told'[f] \subseteq told[f] \cup {event[g]}
    BY <1>17 DEF Hand
  <2>5. \A f \in Conns : f # at[g] => told'[f] = told[f]
    BY <1>17 DEF Hand
  <2>6. ASSUME NEW d \in Conns, OnlineStatus(d, FALSE) \in told'[d] PROVE FALSE
    <3>1. d = at[g] /\ event[g] = OnlineStatus(d, FALSE)
      BY <2>4, <2>5, <2>6 DEF NotToldOfOwnDeparture
    <3>2. d \notin clients
      BY <2>3, <3>1 DEF DepartedOK
    <3>. QED
      BY <2>2, <3>1, <3>2
  <2>7. ASSUME NEW d \in Conns,
               \/ event'[Reader(d)] = OnlineStatus(d, FALSE)
               \/ \E f \in Conns : OnlineStatus(d, FALSE) \in told'[f]
        PROVE  d \notin clients' /\ ~Unstarted(d)'
    <3>1. \/ event[Reader(d)] = OnlineStatus(d, FALSE)
          \/ \E f \in Conns : OnlineStatus(d, FALSE) \in told[f]
      BY <2>1, <2>3, <2>4, <2>7
    <3>. QED
      BY <2>1, <3>1, NothingRestarts DEF DepartedOK
  <2>. QED
    BY <2>6, <2>7 DEF DepartedOK, NotToldOfOwnDeparture, Unstarted, Serve, Reader, OnlineStatus
<1>18. ASSUME NEW g \in Broadcaster, EndBroadcast(g) PROVE DepartedOK' /\ NotToldOfOwnDeparture'
  <2>1. UNCHANGED <<told, clients>>
    BY <1>18 DEF EndBroadcast
  <2>2. \A d \in Conns : event'[Reader(d)] = OnlineStatus(d, FALSE) =>
          event[Reader(d)] = OnlineStatus(d, FALSE)
    <3>1. event' = event \/ event' = [event EXCEPT ![g] = NoEvent]
      BY <1>18 DEF EndBroadcast
    <3>2. \A d \in Conns : NoEvent # OnlineStatus(d, FALSE)
      BY Events
    <3>3. \A d \in Conns : Reader(d) \in Broadcaster
      BY Roles
    <3>. QED
      BY <3>1, <3>2, <3>3
  <2>. QED
    BY <2>1, <2>2, DepartedKept, NothingRestarts
<1>19. ASSUME NEW u \in Users, NEW r \in Rooms, JoinRoom(u, r) PROVE DepartedOK' /\ NotToldOfOwnDeparture'
  <2>1. UNCHANGED <<event, told, clients>>
    BY <1>19 DEF JoinRoom
  <2>. QED
    BY <2>1, DepartedKept, NothingRestarts
<1>20. CASE Restart
  <2>1. clients' = {} /\ UNCHANGED told /\ \A d \in Conns : event'[Reader(d)] = NoEvent
    BY <1>20, Roles DEF Restart
  <2>2. \A d \in Conns : NoEvent # OnlineStatus(d, FALSE)
    BY Events
  <2>. QED
    BY <2>1, <2>2, DepartedKept, NothingRestarts
<1>21. CASE UNCHANGED vars
  BY <1>21, DepartedKept, NothingRestarts DEF vars
<1>. QED
  BY <1>1, <1>2, <1>3, <1>4, <1>5, <1>6, <1>7, <1>8, <1>9, <1>10, <1>11, <1>12,
     <1>13, <1>14, <1>15, <1>16, <1>17, <1>18, <1>19, <1>20, <1>21 DEF Next

\* The invariant holds at the start and survives every step.
LEMMA HubInvStep ==
  ASSUME HubInv, [Next]_vars
  PROVE  HubInv'
<1>. USE DEF HubInv
<1>1. TypeOK'
  BY TypeStep
<1>2. SpawnOK'
  BY SpawnStep
<1>3. EventsOK'
  BY EventsStep
<1>4. CarriesOK'
  BY CarriesStep
<1>5. LockOK' /\ LoopSeesRegistry'
  BY LoopStep
<1>6. DepartedOK' /\ NotToldOfOwnDeparture'
  BY DepartedStep
<1>. QED
  BY <1>1, <1>2, <1>3, <1>4, <1>5, <1>6

\* The hub's inductive invariant: who runs, who holds which lock, who is
\* registered and who has left always fit together.
THEOREM HubInvariant == Spec => []HubInv
<1>1. Init => HubInv
  BY InitInv
<1>2. HubInv /\ [Next]_vars => HubInv'
  BY HubInvStep
<1>. QED
  BY <1>1, <1>2, PTL DEF Spec

\* Every variable keeps its type.
THEOREM TypeCorrect == Spec => []TypeOK
<1>1. HubInv => TypeOK
  BY DEF HubInv
<1>. QED
  BY <1>1, HubInvariant, PTL

\* The clients a broadcast blocks on or has still to visit are registered for
\* as long as the loop runs: addClient and removeClient wait for it.
THEOREM LoopsAreStable == Spec => []LoopSeesRegistry
<1>1. HubInv => LoopSeesRegistry
  BY DEF HubInv
<1>. QED
  BY <1>1, HubInvariant, PTL

\* removeClient before NotifyOnlineStatusChange: no connection is handed the
\* news of its own departure.
THEOREM DepartureNotEchoed == Spec => []NotToldOfOwnDeparture
<1>1. HubInv => NotToldOfOwnDeparture
  BY DEF HubInv
<1>. QED
  BY <1>1, HubInvariant, PTL

\* An event is only ever handed to a connection that is in the registry at
\* that moment, although the sender looked it up earlier.
THEOREM HandedOnlyToRegistered == Spec => HandedWhileRegistered
<1>1. ASSUME HubInv, [Next]_vars,
             NEW c \in Conns, received'[c] # received[c] \/ told'[c] # told[c]
      PROVE  c \in clients
  <2>. USE DEF history
  <2>1. CASE \E g \in Broadcaster : Hand(g)
    <3>1. PICK g \in Broadcaster : Hand(g)
      BY <2>1
    <3>2. at[g] \in clients
      BY <1>1, <3>1 DEF HubInv, LoopSeesRegistry, Hand, At
    <3>3. c = at[g]
      BY <1>1, <3>1 DEF Hand, HubInv, TypeOK
    <3>. QED
      BY <3>2, <3>3
  <2>2. ASSUME ~\E g \in Broadcaster : Hand(g)
        PROVE  UNCHANGED <<received, told>>
    <3>1. CASE UNCHANGED vars
      BY <3>1 DEF vars
    <3>2. CASE \E g \in Broadcaster : \/ BeginBroadcast(g) \/ ResumeBroadcast(g)
                                     \/ EndBroadcast(g)
      BY <3>2 DEF BeginBroadcast, ResumeBroadcast, EndBroadcast
    <3>3. CASE Restart \/ \E u \in Users, r \in Rooms : JoinRoom(u, r)
      BY <3>3 DEF Restart, JoinRoom
    <3>4. CASE \E g \in Lockers : AwaitLock(g)
      BY <3>4 DEF AwaitLock
    <3>5. ASSUME NEW d \in Conns, NEW m \in Msgs, ReadMessage(d, m)
          PROVE  UNCHANGED <<received, told>>
      BY <3>5 DEF ReadMessage
    <3>6. ASSUME NEW d \in Conns,
                 \/ LoadRooms(d) \/ LoadRoomsFails(d) \/ AddClient(d) \/ Spawn(d)
                 \/ SetOnline(d) \/ SetOffline(d)
                 \/ ReadFails(d) \/ StoreMessage(d)
                 \/ WriteEvent(d) \/ PingFails(d)
                 \/ RemoveClient(Reader(d)) \/ RemoveClient(Writer(d))
          PROVE  UNCHANGED <<received, told>>
      BY <3>6 DEF LoadRooms, LoadRoomsFails, AddClient, Spawn, SetOnline, SetOffline,
                  ReadFails, StoreMessage, WriteEvent, PingFails, RemoveClient
    <3>. QED
      BY <1>1, <2>2, <3>1, <3>2, <3>3, <3>4, <3>5, <3>6 DEF Next
  <2>. QED
    BY <1>1, <2>1, <2>2
<1>2. HubInv /\ [Next]_vars =>
        [\A c \in Conns : received'[c] # received[c] \/ told'[c] # told[c]
                            => c \in clients]_vars
  BY <1>1
<1>. QED
  BY <1>2, HubInvariant, PTL DEF Spec, HandedWhileRegistered
-----------------------------------------------------------------------------
(* The order and the completeness of the logs.                             *)

\* A log that a message is appended to.
LEMMA Appended ==
  ASSUME NEW S, NEW s \in Seq(S), NEW m \in S
  PROVE  /\ Append(s, m) \in Seq(S) /\ Len(s) \in Nat /\ Len(Append(s, m)) = Len(s) + 1
         /\ DOMAIN s = 1..Len(s)
         /\ DOMAIN Append(s, m) = 1..Len(s) + 1 /\ Append(s, m)[Len(s) + 1] = m
         /\ \A i \in DOMAIN s : i \in DOMAIN Append(s, m) /\ Append(s, m)[i] = s[i]
         /\ \A i \in DOMAIN Append(s, m) : i \in DOMAIN s \/ i = Len(s) + 1
         /\ Range(Append(s, m)) = Range(s) \cup {m}
<1>1. /\ Append(s, m) \in Seq(S) /\ Len(s) \in Nat /\ Len(Append(s, m)) = Len(s) + 1
      /\ DOMAIN s = 1..Len(s)
      /\ DOMAIN Append(s, m) = 1..Len(s) + 1 /\ Append(s, m)[Len(s) + 1] = m
      /\ \A i \in DOMAIN s : i \in DOMAIN Append(s, m) /\ Append(s, m)[i] = s[i]
      /\ \A i \in DOMAIN Append(s, m) : i \in DOMAIN s \/ i = Len(s) + 1
  OBVIOUS
<1>2. Len(s) + 1 \in DOMAIN Append(s, m)
  BY <1>1
<1>. HIDE <1>1
<1>3. Range(Append(s, m)) = Range(s) \cup {m}
  BY <1>1, <1>2 DEF Range
<1>. QED
  BY <1>1, <1>3

\* A log stays in order with a message that it does not hold and that precedes none of
\* its messages.
LEMMA FaithfulGrows ==
  ASSUME NEW log \in Seq(Msgs), NEW m \in Msgs, Faithful(log),
         m \notin Range(log), \A n \in Range(log) : ~SentBefore(m, n)
  PROVE  Faithful(Append(log, m))
<1>. DEFINE new == Append(log, m)
<1>. SUFFICES ASSUME NEW j \in DOMAIN new, NEW i \in 1..(j - 1)
              PROVE  new[i] # new[j] /\ ~SentBefore(new[j], new[i])
  BY DEF Faithful
<1>1. i \in DOMAIN log /\ new[i] = log[i] /\ log[i] \in Range(log)
  BY Appended DEF Range
<1>2. CASE j \in DOMAIN log
  BY <1>1, <1>2, Appended DEF Faithful
<1>3. CASE j = Len(log) + 1
  BY <1>1, <1>3, Appended
<1>. QED
  BY <1>2, <1>3, Appended

\* Nothing was sent after the message a reader carries.
LEMMA NothingAfter ==
  ASSUME TypeOK, SentOK, CarriedOK, NEW c \in Conns, NEW m \in Msgs, event[Reader(c)] = NewMessage(m)
  PROVE  /\ \A n : ~SentBefore(m, n)
         /\ IsSent(m)
<1>1. /\ sent[c] \in Seq(Msgs) /\ Len(sent[c]) \in DOMAIN sent[c] /\ sent[c][Len(sent[c])] = m
  BY DEF TypeOK, CarriedOK
<1>2. ASSUME NEW n, SentBefore(m, n) PROVE FALSE
  <2>1. PICK d \in Conns : \E i, j \in DOMAIN sent[d] : i < j /\ sent[d][i] = m /\ sent[d][j] = n
    BY <1>2 DEF SentBefore
  <2>2. PICK i \in DOMAIN sent[d], j \in DOMAIN sent[d] : i < j /\ sent[d][i] = m
    BY <2>1
  <2>3. d = c /\ i = Len(sent[c])
    BY <1>1, <2>2 DEF SentOK
  <2>. QED
    BY <1>1, <2>2, <2>3
<1>3. IsSent(m)
  BY <1>1 DEF IsSent, Range
<1>. QED
  BY <1>2, <1>3

\* A message is broadcast by the reader that accepted it.
LEMMA CarrierOf ==
  ASSUME TypeOK, EventsOK, NEW g \in Broadcaster, IsMessage(event[g])
  PROVE  /\ g[2] \in Conns /\ g = Reader(g[2]) /\ event[g].msg \in Msgs
         /\ event[g] = NewMessage(event[g].msg)
<1>1. g[2] \in Conns /\ (g = Reader(g[2]) \/ g = Notify(g[2]))
  BY RoleSets
<1>2. event[g] # NoEvent /\ event[g] \in Event
  BY Events DEF TypeOK
<1>3. g # Notify(g[2])
  <2>1. SUFFICES ASSUME g = Notify(g[2]) PROVE FALSE
    OBVIOUS
  <2>2. g[1] = "notify"
    BY <1>1, <2>1, Roles
  <2>3. event[g] = OnlineStatus(g[2], TRUE)
    BY <1>2, <2>2 DEF EventsOK, EventsOf
  <2>4. ~IsMessage(OnlineStatus(g[2], TRUE))
    BY <1>1, Events
  <2>. QED
    BY <2>3, <2>4
<1>. QED
  BY <1>1, <1>2, <1>3, Events

\* A status change is the session's own: its connect by the notifier, its departure by
\* the reader.
LEMMA AnnouncerOf ==
  ASSUME EventsOK, NEW g \in Broadcaster, event[g] # NoEvent, ~IsMessage(event[g])
  PROVE  /\ g[2] \in Conns
         /\ \/ g = Notify(g[2]) /\ event[g] = OnlineStatus(g[2], TRUE)
            \/ g = Reader(g[2]) /\ event[g] = OnlineStatus(g[2], FALSE)
<1>1. g[2] \in Conns /\ (g = Reader(g[2]) \/ g = Notify(g[2]))
  BY RoleSets
<1>2. event[g] \in EventsOf(g) /\ \A m \in Msgs : event[g] # NewMessage(m)
  BY Events DEF EventsOK
<1>3. CASE g = Notify(g[2])
  <2>1. g[1] = "notify"
    BY <1>1, <1>3, Roles
  <2>. QED
    BY <1>1, <1>2, <1>3, <2>1 DEF EventsOf
<1>4. CASE g = Reader(g[2])
  <2>1. g[1] # "notify"
    BY <1>1, <1>4, Roles
  <2>. QED
    BY <1>1, <1>2, <1>4, <2>1 DEF EventsOf
<1>. QED
  BY <1>1, <1>3, <1>4

\* No event is broadcast by two goroutines.
LEMMA OneCarrier ==
  ASSUME TypeOK, EventsOK, SentOK, CarriedOK,
         NEW g \in Broadcaster, NEW h \in Broadcaster, event[g] = event[h], event[g] # NoEvent
  PROVE  g = h
<1>1. CASE IsMessage(event[g])
  <2>. DEFINE m == event[g].msg
              c == g[2]
              d == h[2]
  <2>1. /\ c \in Conns /\ g = Reader(c) /\ d \in Conns /\ h = Reader(d) /\ m \in Msgs
        /\ event[Reader(c)] = NewMessage(m) /\ event[Reader(d)] = NewMessage(m)
    BY <1>1, CarrierOf
  <2>. HIDE DEF m, c, d
  <2>2. /\ Len(sent[c]) \in DOMAIN sent[c] /\ sent[c][Len(sent[c])] = m
        /\ Len(sent[d]) \in DOMAIN sent[d] /\ sent[d][Len(sent[d])] = m
    <3>1. sent[c] \in Seq(Msgs) /\ sent[d] \in Seq(Msgs)
      BY <2>1 DEF TypeOK
    <3>2. Len(sent[c]) # 0 /\ sent[c][Len(sent[c])] = m /\ Len(sent[d]) # 0 /\ sent[d][Len(sent[d])] = m
      BY <2>1 DEF CarriedOK
    <3>. QED
      BY <3>1, <3>2
  <2>3. c = d
    BY <2>1, <2>2 DEF SentOK
  <2>. QED
    BY <2>1, <2>3
<1>2. CASE ~IsMessage(event[g])
  <2>1. g[2] \in Conns /\ h[2] \in Conns
    BY RoleSets
  <2>2. \A c, d \in Conns : OnlineStatus(c, TRUE) # OnlineStatus(d, FALSE)
    BY Events
  <2>3. \A c, d \in Conns : /\ OnlineStatus(c, TRUE) = OnlineStatus(d, TRUE) => c = d
                            /\ OnlineStatus(c, FALSE) = OnlineStatus(d, FALSE) => c = d
    BY Events
  <2>4. ~IsMessage(event[h])
    BY <1>2
  <2>5. \/ g = Notify(g[2]) /\ event[g] = OnlineStatus(g[2], TRUE)
        \/ g = Reader(g[2]) /\ event[g] = OnlineStatus(g[2], FALSE)
    BY <1>2, AnnouncerOf
  <2>6. \/ h = Notify(h[2]) /\ event[h] = OnlineStatus(h[2], TRUE)
        \/ h = Reader(h[2]) /\ event[h] = OnlineStatus(h[2], FALSE)
    BY <2>4, AnnouncerOf
  <2>7. g[2] = h[2]
    BY <2>1, <2>2, <2>3, <2>5, <2>6
  <2>. QED
    BY <2>1, <2>2, <2>5, <2>6, <2>7
<1>. QED
  BY <1>1, <1>2

\* A loop that goes on with the clients S has all of them before it.
LEMMA VisitCovers ==
  ASSUME TypeOK, NEW g \in Broadcaster, NEW S \in SUBSET Conns,
         NEW p \in [Goroutine -> PC], Visit(g, S, p)
  PROVE  /\ pc'[g] = "send" => at'[g] \in S /\ todo'[g] = S \ {at'[g]}
         /\ pc'[g] = "runlock" => S = {}
<1>1. g \in Goroutine
  BY RoleSets
<1>. QED
  BY <1>1 DEF Visit, Left, TypeOK

\* Steps that hand out and store nothing, and take no goroutine into its loop.
LEMMA MessagesKept ==
  ASSUME HubInv, DeliveryInv, UNCHANGED <<sent, stored, received, told, audience>>,
         \A h \in Broadcaster :
           /\ pc'[h] \in {"send", "runlock", "store"} =>
                /\ event'[h] = event[h] /\ at'[h] = at[h] /\ todo'[h] = todo[h]
                /\ pc[h] = pc'[h] \/ (pc[h] = "runlock" /\ pc'[h] = "store")
           /\ IsMessage(event'[h]) =>
                /\ event'[h] = event[h]
                /\ pc'[h] \in {"rlock", "parked"} => pc[h] \in {"rlock", "parked"}
  PROVE  DeliveryInv'
<1>. USE DEF DeliveryInv
<1>1. SentOK' /\ StoredWasHanded' /\ SenderOrder'
  BY DEF SentOK, IsSent, StoredWasHanded, SenderOrder, Faithful, SentBefore
<1>2. CarriedOK'
  <2>. SUFFICES ASSUME NEW c \in Conns, NEW m \in Msgs, event'[Reader(c)] = NewMessage(m)
                PROVE  /\ Len(sent[c]) # 0 /\ sent[c][Len(sent[c])] = m
                       /\ m \notin Range(stored)
                       /\ \A d \in Ahead(Reader(c))' \cap Conns : m \notin Range(received[d])
    BY DEF CarriedOK
  <2>1. Reader(c) \in Broadcaster /\ IsMessage(event'[Reader(c)])
    BY Roles, Events
  <2>2. event[Reader(c)] = NewMessage(m)
    BY <2>1
  <2>3. Ahead(Reader(c))' \cap Conns \subseteq Ahead(Reader(c)) \cap Conns
    BY <2>1 DEF Ahead
  <2>. QED
    BY <2>2, <2>3 DEF CarriedOK
<1>3. CoverageOK'
  BY DEF CoverageOK, HandedTo
<1>. QED
  BY <1>1, <1>2, <1>3

\* readMessages accepts a message that nobody has accepted before.
LEMMA ReadMessageDelivers ==
  ASSUME HubInv, DeliveryInv, NEW c \in Conns, NEW m \in Msgs, ReadMessage(c, m)
  PROVE  DeliveryInv'
<1>. USE DEF DeliveryInv
<1>1. /\ Unsent(m) /\ sent' = [sent EXCEPT ![c] = Append(@, m)]
      /\ event' = [event EXCEPT ![Reader(c)] = NewMessage(m)]
      /\ pc' = [pc EXCEPT ![Reader(c)] = "rlock"]
      /\ UNCHANGED <<todo, at, audience, received, told, stored>>
  BY DEF ReadMessage, Goto, database
<1>2. /\ sent \in [Conns -> Seq(Msgs)] /\ sent[c] \in Seq(Msgs)
      /\ event \in [Broadcaster -> Event \cup {NoEvent}] /\ pc \in [Goroutine -> PC]
      /\ Reader(c) \in Broadcaster /\ Reader(c) \in Goroutine
  BY Roles DEF HubInv, TypeOK
<1>3. sent'[c] = Append(sent[c], m) /\ \A d \in Conns : d # c => sent'[d] = sent[d]
  BY <1>1, <1>2
<1>4. \A h \in Broadcaster : h # Reader(c) => event'[h] = event[h] /\ pc'[h] = pc[h]
  BY <1>1, <1>2, RoleSets
<1>5. event'[Reader(c)] = NewMessage(m) /\ pc'[Reader(c)] = "rlock"
  BY <1>1, <1>2
<1>6. \A d \in Conns : \A i \in DOMAIN sent[d] :
        sent[d][i] # m /\ i \in DOMAIN sent'[d] /\ sent'[d][i] = sent[d][i]
  BY <1>1, <1>2, <1>3, Appended DEF Unsent, Range
<1>7. \A d \in Conns : \A i \in DOMAIN sent'[d] :
        i \in DOMAIN sent[d] \/ (d = c /\ i = Len(sent[c]) + 1 /\ sent'[d][i] = m)
  BY <1>2, <1>3, Appended
<1>8. \A n : IsSent(n) => n # m /\ IsSent(n)'
  BY <1>1, <1>6 DEF IsSent, Unsent, Range
<1>9. SentOK'
  <2>1. \A d, e \in Conns : \A i \in DOMAIN sent'[d], j \in DOMAIN sent'[e] :
          sent'[d][i] = sent'[e][j] => d = e /\ i = j
    BY <1>6, <1>7 DEF SentOK
  <2>. QED
    BY <1>1, <1>8, <2>1 DEF SentOK
<1>10. CarriedOK'
  <2>. SUFFICES ASSUME NEW d \in Conns, NEW n \in Msgs, event'[Reader(d)] = NewMessage(n)
                PROVE  /\ Len(sent'[d]) # 0 /\ sent'[d][Len(sent'[d])] = n
                       /\ n \notin Range(stored)
                       /\ \A e \in Ahead(Reader(d))' \cap Conns : n \notin Range(received[e])
    BY <1>1 DEF CarriedOK
  <2>1. CASE d = c
    <3>1. n = m
      BY <1>5, <2>1, Events
    <3>2. n \notin Range(stored) /\ \A e \in Conns : n \notin Range(received[e])
      BY <1>8, <3>1 DEF SentOK
    <3>3. Len(sent'[d]) # 0 /\ sent'[d][Len(sent'[d])] = n
      BY <1>2, <1>3, <2>1, <3>1, Appended
    <3>. QED
      BY <3>2, <3>3
  <2>2. CASE d # c
    <3>1. Reader(d) # Reader(c) /\ Reader(d) \in Broadcaster
      BY <2>2, Roles, ReaderApart
    <3>2. event[Reader(d)] = NewMessage(n) /\ sent'[d] = sent[d] /\ pc'[Reader(d)] = pc[Reader(d)]
      BY <1>3, <1>4, <2>2, <3>1
    <3>3. Ahead(Reader(d))' = Ahead(Reader(d))
      BY <1>1, <3>2 DEF Ahead
    <3>. QED
      BY <3>2, <3>3 DEF CarriedOK
  <2>. QED
    BY <2>1, <2>2
<1>11. CoverageOK'
  BY <1>1, <1>4, <1>5 DEF CoverageOK, HandedTo
<1>12. StoredWasHanded'
  BY <1>1 DEF StoredWasHanded
<1>13. SenderOrder'
  <2>1. \A x, y : y # m /\ SentBefore(x, y)' => SentBefore(x, y)
    <3>. SUFFICES ASSUME NEW x, NEW y, y # m, SentBefore(x, y)'
                  PROVE  SentBefore(x, y)
      OBVIOUS
    <3>1. PICK d \in Conns : \E i, j \in DOMAIN sent'[d] : i < j /\ sent'[d][i] = x /\ sent'[d][j] = y
      BY DEF SentBefore
    <3>2. PICK i \in DOMAIN sent'[d], j \in DOMAIN sent'[d] : i < j /\ sent'[d][i] = x /\ sent'[d][j] = y
      BY <3>1
    <3>3. j \in DOMAIN sent[d]
      BY <1>7, <3>2
    <3>4. i \in DOMAIN sent[d]
      <4>1. sent[d] \in Seq(Msgs)
        BY <1>2
      <4>2. DOMAIN sent[d] = 1..Len(sent[d])
        BY <4>1
      <4>3. CASE d = c /\ i = Len(sent[c]) + 1
        BY <3>2, <3>3, <4>1, <4>2, <4>3
      <4>. QED
        BY <1>7, <4>3
    <3>. QED
      BY <1>6, <3>2, <3>3, <3>4 DEF SentBefore
  <2>2. \A log \in Seq(Msgs) : Faithful(log) /\ (\A n \in Range(log) : n # m) =>
          \A j \in DOMAIN log : \A i \in 1..(j - 1) : log[i] # log[j] /\ ~SentBefore(log[j], log[i])'
    <3>. SUFFICES ASSUME NEW log \in Seq(Msgs), Faithful(log), \A n \in Range(log) : n # m,
                         NEW j \in DOMAIN log, NEW i \in 1..(j - 1)
                  PROVE  log[i] # log[j] /\ ~SentBefore(log[j], log[i])'
      OBVIOUS
    <3>1. i \in DOMAIN log
      OBVIOUS
    <3>2. log[i] # m
      BY <3>1 DEF Range
    <3>3. log[i] # log[j] /\ ~SentBefore(log[j], log[i])
      BY DEF Faithful
    <3>. QED
      BY <2>1, <3>2, <3>3
  <2>3. stored \in Seq(Msgs) /\ \A d \in Conns : received[d] \in Seq(Msgs)
    BY DEF HubInv, TypeOK
  <2>4. (\A n \in Range(stored) : n # m) /\ \A d \in Conns : \A n \in Range(received[d]) : n # m
    BY <1>8 DEF SentOK
  <2>5. Faithful(stored)'
    BY <1>1, <2>2, <2>3, <2>4 DEF SenderOrder, Faithful
  <2>6. ASSUME NEW d \in Conns PROVE Faithful(received[d])'
    BY <1>1, <2>2, <2>3, <2>4 DEF SenderOrder, Faithful
  <2>. QED
    BY <2>5, <2>6 DEF SenderOrder
<1>. QED
  BY <1>9, <1>10, <1>11, <1>12, <1>13

\* SendMessageHandler inserts the message when its loop is over.
LEMMA StoreMessageDelivers ==
  ASSUME HubInv, DeliveryInv, NEW c \in Conns, StoreMessage(c)
  PROVE  DeliveryInv'
<1>. USE DEF DeliveryInv
<1>. DEFINE g == Reader(c)
            m == event[g].msg
<1>1. /\ pc[g] = "store" /\ pc' = [pc EXCEPT ![g] = "read"]
      /\ event' = [event EXCEPT ![g] = NoEvent]
      /\ stored' = Append(stored, m) \/ stored' = stored
      /\ UNCHANGED <<todo, at, audience, sent, received, told>>
  BY DEF StoreMessage, Goto, At, Row, history
<1>2. /\ g \in Broadcaster /\ g \in Goroutine
      /\ event \in [Broadcaster -> Event \cup {NoEvent}] /\ pc \in [Goroutine -> PC]
      /\ stored \in Seq(Msgs)
  BY Roles DEF HubInv, TypeOK
<1>3. event'[g] = NoEvent /\ pc'[g] = "read"
      /\ \A h \in Broadcaster : h # g => event'[h] = event[h] /\ pc'[h] = pc[h]
  BY <1>1, <1>2, RoleSets
<1>4. CASE stored' = stored
  BY <1>1, <1>3, <1>4, Events, MessagesKept
<1>5. CASE stored' = Append(stored, m)
  <2>1. IsMessage(event[g])
    BY <1>1, <1>2 DEF HubInv, CarriesOK
  <2>2. m \in Msgs /\ event[g] = NewMessage(m)
    BY <1>2, <2>1, CarrierOf DEF HubInv
  <2>3. m \notin Range(stored) /\ IsSent(m) /\ \A n : ~SentBefore(m, n)
    BY <2>2, NothingAfter DEF CarriedOK, HubInv
  <2>. HIDE DEF m
  <2>4. Range(stored') = Range(stored) \cup {m}
    BY <1>2, <1>5, <2>2, Appended
  <2>5. SentOK'
    BY <1>1, <2>3, <2>4 DEF SentOK, IsSent
  <2>6. CarriedOK'
    <3>. SUFFICES ASSUME NEW d \in Conns, NEW n \in Msgs, event'[Reader(d)] = NewMessage(n)
                  PROVE  /\ Len(sent[d]) # 0 /\ sent[d][Len(sent[d])] = n
                         /\ n \notin Range(stored')
                         /\ \A e \in Ahead(Reader(d))' \cap Conns : n \notin Range(received[e])
      BY <1>1 DEF CarriedOK
    <3>1. Reader(d) \in Broadcaster /\ Reader(d) # g
      BY <1>3, Roles, Events
    <3>2. event[Reader(d)] = NewMessage(n) /\ pc'[Reader(d)] = pc[Reader(d)]
      BY <1>3, <3>1
    <3>3. n # m
      BY <1>2, <2>2, <3>1, <3>2, OneCarrier, Events DEF HubInv
    <3>4. Ahead(Reader(d))' = Ahead(Reader(d))
      BY <1>1, <3>2 DEF Ahead
    <3>. QED
      BY <2>4, <3>2, <3>3, <3>4 DEF CarriedOK
  <2>7. CoverageOK'
    BY <1>1, <1>3 DEF CoverageOK, HandedTo
  <2>8. StoredWasHanded'
    <3>1. \A d \in audience[NewMessage(m)] : m \in Range(received[d])
      BY <1>1, <1>2, <2>2, Events DEF CoverageOK, HandedTo
    <3>. QED
      BY <1>1, <2>4, <3>1 DEF StoredWasHanded
  <2>9. SenderOrder'
    <3>1. Faithful(Append(stored, m))
      BY <1>2, <2>2, <2>3, FaithfulGrows DEF SenderOrder
    <3>. QED
      BY <1>1, <1>5, <3>1 DEF SenderOrder, Faithful, SentBefore
  <2>. QED
    BY <2>5, <2>6, <2>7, <2>8, <2>9
<1>. QED
  BY <1>1, <1>4, <1>5

\* A loop begins with everybody who is to be handed the event before it.
LEMMA EnterLoopDelivers ==
  ASSUME HubInv, DeliveryInv, NEW g \in Broadcaster, pc[g] \in {"rlock", "parked"}, EnterLoop(g),
         UNCHANGED <<event, sent, stored, received, told>>
  PROVE  DeliveryInv'
<1>. USE DEF DeliveryInv
<1>. DEFINE e == event[g]
            S == Audience(e)
<1>1. e \in Event /\ e # NoEvent
  BY DEF HubInv, TypeOK, CarriesOK
<1>2. S \in SUBSET Conns /\ pc \in [Goroutine -> PC] /\ audience \in [Event -> SUBSET Conns]
  BY AudienceType DEF HubInv, TypeOK
<1>3. Visit(g, S, pc) /\ audience' = [audience EXCEPT ![e] = S]
  BY DEF EnterLoop
<1>4. /\ pc'[g] \in {"send", "runlock"}
      /\ \A h \in Broadcaster : h # g => pc'[h] = pc[h] /\ todo'[h] = todo[h] /\ at'[h] = at[h]
  BY RoleSets, EnterLoopEffect DEF HubInv
<1>5. /\ pc'[g] = "send" => at'[g] \in S /\ todo'[g] = S \ {at'[g]}
      /\ pc'[g] = "runlock" => S = {}
  BY <1>2, <1>3, VisitCovers DEF HubInv
<1>6. audience'[e] = S /\ \A f \in Event : f # e => audience'[f] = audience[f]
  BY <1>1, <1>2, <1>3
<1>. HIDE DEF e, S
<1>7. SentOK' /\ SenderOrder'
  BY DEF SentOK, IsSent, SenderOrder, Faithful, SentBefore
<1>8. CarriedOK'
  <2>. SUFFICES ASSUME NEW c \in Conns, NEW m \in Msgs, event[Reader(c)] = NewMessage(m)
                PROVE  /\ Len(sent[c]) # 0 /\ sent[c][Len(sent[c])] = m
                       /\ m \notin Range(stored)
                       /\ \A d \in Ahead(Reader(c))' \cap Conns : m \notin Range(received[d])
    BY DEF CarriedOK
  <2>1. Reader(c) \in Broadcaster
    BY Roles
  <2>2. Ahead(Reader(c))' \cap Conns \subseteq Ahead(Reader(c))
    BY <1>4, <2>1 DEF Ahead
  <2>. QED
    BY <2>2 DEF CarriedOK
<1>9. CoverageOK'
  <2>. SUFFICES ASSUME NEW h \in Broadcaster
                PROVE  /\ pc'[h] = "send" =>
                            /\ at'[h] \notin todo'[h]
                            /\ {at'[h]} \cup todo'[h] \subseteq audience'[event[h]]
                            /\ \A c \in audience'[event[h]] :
                                 c = at'[h] \/ c \in todo'[h] \/ HandedTo(event[h], c)
                       /\ pc'[h] \in {"runlock", "store"} =>
                            \A c \in audience'[event[h]] : HandedTo(event[h], c)
    BY DEF CoverageOK, HandedTo
  <2>1. CASE h = g
    BY <1>4, <1>5, <1>6, <2>1 DEF e
  <2>2. CASE h # g /\ pc[h] \in {"send", "runlock", "store"}
    <3>1. event[h] # NoEvent /\ event[h] \in Event
      BY <2>2, Events DEF HubInv, CarriesOK, TypeOK
    <3>2. event[h] # e
      BY <2>2, <3>1, OneCarrier DEF HubInv, e
    <3>. QED
      BY <1>4, <1>6, <2>2, <3>1, <3>2 DEF CoverageOK
  <2>. QED
    BY <1>4, <2>1, <2>2
<1>10. StoredWasHanded'
  <2>. SUFFICES ASSUME NEW m \in Range(stored)
                PROVE  \A c \in audience'[NewMessage(m)] : m \in Range(received[c])
    BY DEF StoredWasHanded
  <2>1. m \in Msgs
    BY DEF HubInv, TypeOK, Range
  <2>2. NewMessage(m) # e
    <3>1. ASSUME NewMessage(m) = e PROVE FALSE
      <4>1. IsMessage(event[g])
        BY <2>1, <3>1, Events DEF e
      <4>2. g[2] \in Conns /\ event[Reader(g[2])] = NewMessage(m)
        BY <3>1, <4>1, CarrierOf DEF HubInv, e
      <4>. QED
        BY <2>1, <4>2 DEF CarriedOK
    <3>. QED
      BY <3>1
  <2>. QED
    BY <1>6, <2>1, <2>2, Events DEF StoredWasHanded
<1>. QED
  BY <1>7, <1>8, <1>9, <1>10

\* A hand-over: one recipient less before the loop, one more behind it.
LEMMA HandDelivers ==
  ASSUME HubInv, DeliveryInv, NEW g \in Broadcaster, Hand(g)
  PROVE  DeliveryInv'
<1>. USE DEF DeliveryInv
<1>. DEFINE k == at[g]
            e == event[g]
<1>1. /\ k \in Conns /\ pc[g] = "send" /\ pc'[g] \in {"send", "runlock"}
      /\ \A h \in Broadcaster : h # g => pc'[h] = pc[h] /\ todo'[h] = todo[h] /\ at'[h] = at[h]
  <2>1. Writer(k) \notin Broadcaster /\ k \in Conns
    BY HandEffect, Roles DEF HubInv
  <2>. QED
    BY <2>1, HandEffect, RoleSets DEF HubInv
<1>2. /\ pc'[g] = "send" => at'[g] \in todo[g] /\ todo'[g] = todo[g] \ {at'[g]}
      /\ pc'[g] = "runlock" => todo[g] = {}
  <2>1. [pc EXCEPT ![Writer(k)] = "write"] \in [Goroutine -> PC] /\ todo[g] \in SUBSET Conns
    BY DEF HubInv, TypeOK, PC
  <2>2. Visit(g, todo[g], [pc EXCEPT ![Writer(k)] = "write"])
    BY DEF Hand
  <2>. QED
    BY <2>1, <2>2, VisitCovers DEF HubInv
<1>3. UNCHANGED <<event, sent, audience, stored>>
  BY DEF Hand, database
<1>4. /\ received \in [Conns -> Seq(Msgs)] /\ told \in [Conns -> SUBSET StatusEvent]
      /\ e \in Event /\ e # NoEvent
  BY <1>1 DEF HubInv, TypeOK, CarriesOK
<1>5. \/ /\ IsMessage(e) /\ e.msg \in Msgs /\ e = NewMessage(e.msg) /\ g[2] \in Conns /\ g = Reader(g[2])
         /\ received' = [received EXCEPT ![k] = Append(@, e.msg)] /\ told' = told
      \/ ~IsMessage(e) /\ told' = [told EXCEPT ![k] = @ \cup {e}] /\ received' = received
  BY CarrierOf DEF Hand, HubInv
<1>. HIDE DEF k, e
<1>6. ASSUME NEW d \in Conns
      PROVE  /\ Range(received[d]) \subseteq Range(received'[d])
             /\ Range(received'[d]) \subseteq Range(received[d]) \cup {e.msg}
             /\ d # k \/ ~IsMessage(e) => received'[d] = received[d]
             /\ told[d] \subseteq told'[d]
             /\ d = k => IF IsMessage(e) THEN e.msg \in Range(received'[d]) ELSE e \in told'[d]
  <2>1. CASE IsMessage(e)
    <3>1. e.msg \in Msgs /\ received' = [received EXCEPT ![k] = Append(@, e.msg)] /\ told' = told
      BY <1>5, <2>1
    <3>2. /\ received'[k] = Append(received[k], e.msg) /\ received[k] \in Seq(Msgs)
          /\ \A f \in Conns : f # k => received'[f] = received[f]
      BY <1>1, <1>4, <3>1
    <3>3. Range(received'[k]) = Range(received[k]) \cup {e.msg}
      BY <3>1, <3>2, Appended
    <3>. QED
      BY <2>1, <3>1, <3>2, <3>3
  <2>2. CASE ~IsMessage(e)
    <3>1. told' = [told EXCEPT ![k] = @ \cup {e}] /\ received' = received
      BY <1>5, <2>2
    <3>2. /\ told'[k] = told[k] \cup {e}
          /\ \A f \in Conns : f # k => told'[f] = told[f]
      BY <1>1, <1>4, <3>1
    <3>. QED
      BY <2>2, <3>1, <3>2
  <2>. QED
    BY <2>1, <2>2
<1>8. k \notin todo[g]
  BY <1>1 DEF CoverageOK, k
<1>9. IsMessage(e) => /\ e.msg \notin Range(received[k]) /\ e.msg \notin Range(stored) /\ IsSent(e.msg)
                      /\ \A n : ~SentBefore(e.msg, n)
  <2>. SUFFICES ASSUME IsMessage(e)
                PROVE  /\ e.msg \notin Range(received[k]) /\ e.msg \notin Range(stored) /\ IsSent(e.msg)
                       /\ \A n : ~SentBefore(e.msg, n)
    OBVIOUS
  <2>1. g[2] \in Conns /\ e.msg \in Msgs /\ event[Reader(g[2])] = NewMessage(e.msg) /\ g = Reader(g[2])
    BY <1>5 DEF e
  <2>2. k \in Ahead(Reader(g[2])) \cap Conns
    BY <1>1, <2>1 DEF Ahead, k
  <2>. QED
    BY <2>1, <2>2, NothingAfter DEF CarriedOK, HubInv
<1>10. SentOK'
  <2>1. \A m : IsSent(m)' <=> IsSent(m)
    BY <1>3 DEF IsSent
  <2>2. \A d \in Conns : \A m \in Range(received'[d]) : IsSent(m)
    BY <1>6, <1>9 DEF SentOK
  <2>. QED
    BY <1>3, <2>1, <2>2 DEF SentOK
<1>11. CarriedOK'
  <2>. SUFFICES ASSUME NEW c \in Conns, NEW m \in Msgs, event[Reader(c)] = NewMessage(m)
                PROVE  /\ Len(sent[c]) # 0 /\ sent[c][Len(sent[c])] = m
                       /\ m \notin Range(stored)
                       /\ \A d \in Ahead(Reader(c))' \cap Conns : m \notin Range(received'[d])
    BY <1>3 DEF CarriedOK
  <2>1. Reader(c) \in Broadcaster
    BY Roles
  <2>2. \A d \in Ahead(Reader(c)) \cap Conns : m \notin Range(received[d])
    BY DEF CarriedOK
  <2>3. CASE Reader(c) = g
    <3>1. Ahead(Reader(c))' \subseteq todo[g] /\ todo[g] \subseteq Ahead(Reader(c))
      BY <1>1, <1>2, <2>3 DEF Ahead
    <3>. QED
      BY <1>6, <1>8, <2>2, <3>1 DEF CarriedOK
  <2>4. CASE Reader(c) # g
    <3>1. Ahead(Reader(c))' = Ahead(Reader(c))
      BY <1>1, <2>1, <2>4 DEF Ahead
    <3>2. IsMessage(e) => e.msg # m
      BY <1>4, <1>5, <2>1, <2>4, OneCarrier DEF HubInv, e
    <3>. QED
      BY <1>6, <2>2, <3>1, <3>2 DEF CarriedOK
  <2>. QED
    BY <2>3, <2>4
<1>12. CoverageOK'
  <2>. DEFINE After(f, d) == IF IsMessage(f) THEN f.msg \in Range(received'[d]) ELSE f \in told'[d]
  <2>1. \A f : \A d \in Conns : HandedTo(f, d) => After(f, d)
    BY <1>6 DEF HandedTo
  <2>2. After(e, k)
    BY <1>1, <1>6
  <2>. SUFFICES ASSUME NEW h \in Broadcaster
                PROVE  /\ pc'[h] = "send" =>
                            /\ at'[h] \notin todo'[h]
                            /\ {at'[h]} \cup todo'[h] \subseteq audience[event[h]]
                            /\ \A c \in audience[event[h]] :
                                 c = at'[h] \/ c \in todo'[h] \/ After(event[h], c)
                       /\ pc'[h] \in {"runlock", "store"} =>
                            \A c \in audience[event[h]] : After(event[h], c)
    BY <1>3 DEF CoverageOK, HandedTo
  <2>. HIDE DEF After
  <2>3. pc[h] \in {"send", "runlock", "store"} => audience[event[h]] \subseteq Conns
    BY Events DEF HubInv, CarriesOK, TypeOK
  <2>4. CASE h = g
    <3>1. \A c \in audience[e] : c = k \/ c \in todo[g] \/ HandedTo(e, c)
      BY <1>1 DEF CoverageOK, e, k
    <3>2. \A c \in audience[e] : c = k \/ c \in todo[g] \/ After(e, c)
      BY <1>1, <2>1, <2>3, <2>4, <3>1 DEF e
    <3>3. \A c \in audience[e] : c \in todo[g] \/ After(e, c)
      BY <2>2, <3>2
    <3>4. todo[g] \subseteq audience[e]
      BY <1>1 DEF CoverageOK, e
    <3>5. pc'[g] = "send" => {at'[g]} \cup todo'[g] \subseteq audience[e] /\ at'[g] \notin todo'[g]
      BY <1>2, <3>4
    <3>. QED
      BY <1>1, <1>2, <2>4, <3>3, <3>5 DEF e
  <2>5. CASE h # g
    BY <1>1, <2>1, <2>3, <2>5 DEF CoverageOK
  <2>. QED
    BY <2>4, <2>5
<1>13. StoredWasHanded'
  <2>1. \A m \in Range(stored) : audience[NewMessage(m)] \subseteq Conns
    <3>1. \A m \in Range(stored) : m \in Msgs
      BY DEF HubInv, TypeOK, Range
    <3>. QED
      BY <3>1, Events DEF HubInv, TypeOK
  <2>. QED
    BY <1>3, <1>6, <2>1 DEF StoredWasHanded
<1>14. SenderOrder'
  <2>1. ASSUME NEW d \in Conns PROVE Faithful(received'[d])
    <3>1. CASE d # k \/ ~IsMessage(e)
      BY <1>6, <3>1 DEF SenderOrder
    <3>2. CASE d = k /\ IsMessage(e)
      <4>1. received'[d] = Append(received[k], e.msg) /\ e.msg \in Msgs /\ received[k] \in Seq(Msgs)
        BY <1>1, <1>4, <1>5, <3>2
      <4>. QED
        BY <1>1, <1>9, <3>2, <4>1, FaithfulGrows DEF SenderOrder
    <3>. QED
      BY <3>1, <3>2
  <2>2. \A x, y : SentBefore(x, y)' <=> SentBefore(x, y)
    BY <1>3 DEF SentBefore
  <2>. QED
    BY <1>3, <2>1, <2>2 DEF SenderOrder, Faithful
<1>. QED
  BY <1>10, <1>11, <1>12, <1>13, <1>14

\* Steps that move one goroutine to a statement outside its loop.
LEMMA QuietDelivers ==
  ASSUME HubInv, DeliveryInv, UNCHANGED <<loop, history, stored>>,
         \/ \E g \in Goroutine, l \in {"lock", "done", "crit", "spawn", "select"} : Goto(g, l)
         \/ pc' = pc
  PROVE  DeliveryInv'
<1>1. \A h \in Broadcaster : pc'[h] = pc[h] \/ pc'[h] \in {"lock", "done", "crit", "spawn", "select"}
  BY RoleSets DEF HubInv, TypeOK, Goto
<1>2. UNCHANGED <<event, at, todo, audience, sent, received, told>>
  BY DEF loop, history
<1>. QED
  BY <1>1, <1>2, MessagesKept

LEMMA DeliveryStep == HubInv /\ DeliveryInv /\ [Next]_vars => DeliveryInv'
<1> SUFFICES ASSUME HubInv, DeliveryInv, [Next]_vars PROVE DeliveryInv'
  OBVIOUS
<1>. USE DEF database
<1>1. ASSUME NEW c \in Conns,
             \/ LoadRooms(c) \/ LoadRoomsFails(c) \/ AddClient(c) \/ SetOnline(c) \/ SetOffline(c)
             \/ ReadFails(c) \/ WriteEvent(c) \/ PingFails(c)
      PROVE  DeliveryInv'
  <2>1. /\ UNCHANGED <<loop, history, stored>>
        /\ \E g \in Goroutine, l \in {"lock", "done", "crit", "spawn", "select"} : Goto(g, l)
    BY <1>1, Roles DEF LoadRooms, LoadRoomsFails, AddClient, SetOnline, SetOffline, ReadFails, WriteEvent, PingFails
  <2>. QED
    BY <2>1, QuietDelivers
<1>2. ASSUME NEW c \in Conns, Spawn(c) PROVE DeliveryInv'
  <2>1. /\ \A h \in Broadcaster : pc'[h] = IF h[2] = c THEN FirstStep[h[1]] ELSE pc[h]
        /\ event' = [event EXCEPT ![Notify(c)] = OnlineStatus(c, TRUE)]
        /\ UNCHANGED <<todo, at, audience, history, stored>>
    BY <1>2, RoleSets DEF Spawn
  <2>2. \A h \in Broadcaster : h[2] = c => pc'[h] = IF h = Notify(c) THEN "rlock" ELSE "read"
    <3>1. FirstStep[Notify(c)[1]] = "rlock" /\ FirstStep[Reader(c)[1]] = "read"
      BY Roles DEF FirstStep
    <3>. QED
      BY <2>1, <3>1, RoleSets, Roles
  <2>3. \A h \in Broadcaster : IF h = Notify(c) THEN event'[h] = OnlineStatus(c, TRUE) ELSE event'[h] = event[h]
    BY <2>1 DEF HubInv, TypeOK
  <2>4. ~IsMessage(OnlineStatus(c, TRUE)) /\ Notify(c)[2] = c
    BY Events, Roles
  <2>5. UNCHANGED <<sent, stored, received, told, audience>>
    BY <2>1 DEF history
  <2>6. \A h \in Broadcaster :
           /\ pc'[h] \in {"send", "runlock", "store"} =>
                /\ event'[h] = event[h] /\ at'[h] = at[h] /\ todo'[h] = todo[h]
                /\ pc[h] = pc'[h]
           /\ IsMessage(event'[h]) =>
                /\ event'[h] = event[h]
                /\ pc'[h] \in {"rlock", "parked"} => pc[h] \in {"rlock", "parked"}
    BY <2>1, <2>2, <2>3, <2>4
  <2>. QED
    BY <2>5, <2>6, MessagesKept
<1>3. ASSUME NEW c \in Conns, RemoveClient(Reader(c)) PROVE DeliveryInv'
  <2>1. /\ pc' = [pc EXCEPT ![Reader(c)] = "rlock"]
        /\ event' = [event EXCEPT ![Reader(c)] = OnlineStatus(c, FALSE)]
        /\ UNCHANGED <<todo, at, audience, sent, received, told, stored>>
    BY <1>3, RemoveEffect DEF RemoveClient, history
  <2>2. Reader(c) \in Broadcaster /\ Reader(c) \in Goroutine /\ ~IsMessage(OnlineStatus(c, FALSE))
    BY Roles, Events
  <2>3. \A h \in Broadcaster : IF h = Reader(c) THEN pc'[h] = "rlock" /\ ~IsMessage(event'[h])
                                                ELSE pc'[h] = pc[h] /\ event'[h] = event[h]
    BY <2>1, <2>2, RoleSets DEF HubInv, TypeOK
  <2>. QED
    BY <2>1, <2>3, MessagesKept
<1>4. ASSUME NEW c \in Conns, RemoveClient(Writer(c)) PROVE DeliveryInv'
  <2>1. Goto(Writer(c), "done") /\ UNCHANGED <<loop, history, stored>>
    BY <1>4, RemoveEffect DEF RemoveClient, Goto, loop
  <2>. QED
    BY <2>1, Roles, QuietDelivers
<1>5. ASSUME NEW g \in Lockers, AwaitLock(g) PROVE DeliveryInv'
  <2>1. Goto(g, "crit") /\ UNCHANGED <<loop, history, stored>> /\ g \in Goroutine
    BY <1>5, RoleSets DEF AwaitLock
  <2>. QED
    BY <2>1, QuietDelivers
<1>6. ASSUME NEW g \in Broadcaster, BeginBroadcast(g) \/ ResumeBroadcast(g) PROVE DeliveryInv'
  <2>1. pc[g] \in {"rlock", "parked"} /\ UNCHANGED <<event, sent, stored, received, told>>
    BY <1>6 DEF BeginBroadcast, ResumeBroadcast, At, history
  <2>2. EnterLoop(g) \/ (Goto(g, "parked") /\ UNCHANGED <<todo, at, audience>>)
    BY <1>6 DEF BeginBroadcast, ResumeBroadcast
  <2>3. CASE EnterLoop(g)
    BY <2>1, <2>3, EnterLoopDelivers
  <2>4. CASE Goto(g, "parked") /\ UNCHANGED <<todo, at, audience>>
    <3>1. \A h \in Broadcaster : IF h = g THEN pc'[h] = "parked" ELSE pc'[h] = pc[h]
      BY <2>4, RoleSets DEF Goto, HubInv, TypeOK
    <3>. QED
      BY <2>1, <2>4, <3>1, MessagesKept
  <2>. QED
    BY <2>2, <2>3, <2>4
<1>7. ASSUME NEW g \in Broadcaster, EndBroadcast(g) PROVE DeliveryInv'
  <2>1. /\ pc[g] = "runlock" /\ UNCHANGED <<todo, at, audience, sent, received, told, stored>>
        /\ \/ IsMessage(event[g]) /\ Goto(g, "store") /\ event' = event
           \/ /\ \E l \in {"offline", "done"} : Goto(g, l)
              /\ event' = [event EXCEPT ![g] = NoEvent]
    BY <1>7 DEF EndBroadcast, At, history
  <2>2. /\ \A h \in Broadcaster : h # g => pc'[h] = pc[h] /\ event'[h] = event[h]
        /\ \/ pc'[g] = "store" /\ event'[g] = event[g]
           \/ pc'[g] \in {"offline", "done"} /\ event'[g] = NoEvent
    BY <2>1, RoleSets DEF Goto, HubInv, TypeOK
  <2>. QED
    BY <2>1, <2>2, Events, MessagesKept
<1>8. ASSUME NEW u \in Users, NEW r \in Rooms, JoinRoom(u, r) PROVE DeliveryInv'
  BY <1>8, QuietDelivers DEF JoinRoom
<1>9. CASE Restart
  <2>1. \A h \in Broadcaster : pc'[h] \in {"off", "killed"} /\ event'[h] = NoEvent
    BY <1>9, RoleSets, Roles DEF Restart, HubInv, SpawnOK, Unstarted
  <2>2. UNCHANGED <<sent, stored, received, told, audience>>
    BY <1>9 DEF Restart, history
  <2>. QED
    BY <2>1, <2>2, Events, MessagesKept
<1>10. CASE UNCHANGED vars
  BY <1>10, QuietDelivers DEF vars
<1>. QED
  BY <1>1, <1>2, <1>3, <1>4, <1>5, <1>6, <1>7, <1>8, <1>9, <1>10,
     ReadMessageDelivers, StoreMessageDelivers, HandDelivers DEF Next

LEMMA InitDelivery == Init => DeliveryInv
<1> SUFFICES ASSUME Init PROVE DeliveryInv
  OBVIOUS
<1>1. \A g \in Broadcaster : pc[g] \in {"off", "done", "read"}
  BY RoleSets DEF Init, InitPC, FirstStep, Broadcaster
<1>2. \A c \in Conns : event[Reader(c)] = NoEvent
  BY Roles DEF Init
<1>3. Range(stored) = {} /\ \A c \in Conns : Range(sent[c]) = {} /\ Range(received[c]) = {} /\ DOMAIN sent[c] = {}
  BY DEF Init, Range
<1>4. SentOK /\ CarriedOK /\ CoverageOK
  BY <1>1, <1>2, <1>3, Events DEF SentOK, CarriedOK, CoverageOK
<1>5. StoredWasHanded /\ SenderOrder
  BY <1>3 DEF Init, StoredWasHanded, SenderOrder, Faithful
<1>. QED
  BY <1>4, <1>5 DEF DeliveryInv

\* The inductive invariant of what readers accept, loops hand out and the handler
\* stores.
THEOREM DeliveryInvariant == Spec => []DeliveryInv
  BY InitDelivery, DeliveryStep, HubInvariant, PTL DEF Spec

\* SendMessageHandler stores after it has handed out: a stored message has reached
\* everybody who was in its room.
THEOREM StoredMeansHanded == Spec => []StoredWasHanded
<1>1. DeliveryInv => StoredWasHanded
  BY DEF DeliveryInv
<1>. QED
  BY <1>1, DeliveryInvariant, PTL

\* The messages of a sender reach every client and the table in their order, and once.
THEOREM OrderIsKept == Spec => []SenderOrder
<1>1. DeliveryInv => SenderOrder
  BY DEF DeliveryInv
<1>. QED
  BY <1>1, DeliveryInvariant, PTL
-----------------------------------------------------------------------------
(* Departures.                                                             *)

\* Steps that register and remove nobody, start no session, and let no reader announce
\* a departure or come to its last update.
LEMMA DepartureKept ==
  ASSUME HubInv, DepartureInv, UNCHANGED <<clients, closed>>,
         \A c \in Conns :
           /\ pc'[Serve(c)] = "spawn" => pc[Serve(c)] = "spawn"
           /\ pc'[Reader(c)] \notin {"off", "killed"} => pc[Reader(c)] \notin {"off", "killed"}
           /\ event'[Reader(c)] = OnlineStatus(c, FALSE) => event[Reader(c)] = OnlineStatus(c, FALSE)
           /\ pc'[Reader(c)] = "offline" =>
                /\ pc[Reader(c)] = "offline"
                /\ audience'[OnlineStatus(c, FALSE)] = audience[OnlineStatus(c, FALSE)]
           /\ told[c] \subseteq told'[c]
  PROVE  DepartureInv'
<1>. SUFFICES ASSUME NEW c \in Conns
              PROVE  /\ pc'[Serve(c)] = "spawn" => c \in clients
                     /\ pc'[Reader(c)] \notin {"off", "killed"} => c \in clients \cup closed
                     /\ event'[Reader(c)] = OnlineStatus(c, FALSE) => c \in closed
                     /\ pc'[Reader(c)] = "offline" =>
                          /\ c \in closed \ clients
                          /\ \A d \in audience'[OnlineStatus(c, FALSE)] :
                               OnlineStatus(c, FALSE) \in told'[d]
  BY DEF DepartureInv
<1>1. audience[OnlineStatus(c, FALSE)] \subseteq Conns
  BY Events DEF HubInv, TypeOK
<1>. QED
  BY <1>1 DEF DepartureInv

\* The statements of the goroutines that run one statement, but for the update at the
\* reader's end and the handler's start of the session.
LEMMA MoveKept ==
  ASSUME HubInv, DepartureInv, UNCHANGED <<clients, closed, audience, told>>,
         NEW g \in Goroutine, NEW l \in PC \ {"spawn", "offline"},
         pc[g] \notin {"off", "killed"}, Goto(g, l),
         \A c \in Conns : event'[Reader(c)] = OnlineStatus(c, FALSE)
                            => event[Reader(c)] = OnlineStatus(c, FALSE)
  PROVE  DepartureInv'
<1>1. \A h \in Goroutine : pc'[h] = IF h = g THEN l ELSE pc[h]
  BY DEF Goto, HubInv, TypeOK
<1>2. \A c \in Conns : Serve(c) \in Goroutine /\ Reader(c) \in Goroutine
  BY Roles
<1>3. \A c \in Conns :
        /\ pc'[Serve(c)] = "spawn" => pc[Serve(c)] = "spawn"
        /\ pc'[Reader(c)] \notin {"off", "killed"} => pc[Reader(c)] \notin {"off", "killed"}
        /\ pc'[Reader(c)] = "offline" => pc[Reader(c)] = "offline"
  BY <1>1, <1>2
<1>. QED
  BY <1>3, DepartureKept

\* addClient registers the client of a session that has not started.
LEMMA AddClientDeparts ==
  ASSUME HubInv, DepartureInv, NEW c \in Conns, AddClient(c)
  PROVE  DepartureInv'
<1>1. /\ Unstarted(c) /\ clients' = clients \cup {c}
      /\ pc' = [pc EXCEPT ![Serve(c)] = "spawn"]
      /\ UNCHANGED <<closed, event, audience, told>>
  BY DEF AddClient, Locked, At, Goto, Unstarted, loop, history
<1>2. pc[Reader(c)] = "off"
  BY <1>1, Roles DEF HubInv, SpawnOK
<1>3. \A d \in Conns : /\ pc'[Reader(d)] = pc[Reader(d)]
                       /\ d # c => pc'[Serve(d)] = pc[Serve(d)]
  BY <1>1, Roles, ServeApart DEF HubInv, TypeOK
<1>. SUFFICES ASSUME NEW d \in Conns
              PROVE  /\ pc'[Serve(d)] = "spawn" => d \in clients'
                     /\ pc'[Reader(d)] \notin {"off", "killed"} => d \in clients' \cup closed
                     /\ event[Reader(d)] = OnlineStatus(d, FALSE) => d \in closed
                     /\ pc'[Reader(d)] = "offline" =>
                          /\ d \in closed \ clients'
                          /\ \A f \in audience[OnlineStatus(d, FALSE)] :
                               OnlineStatus(d, FALSE) \in told[f]
  BY <1>1 DEF DepartureInv
<1>. QED
  BY <1>1, <1>2, <1>3 DEF DepartureInv

\* The goroutines of a session start when its client is registered.
LEMMA SpawnDeparts ==
  ASSUME HubInv, DepartureInv, NEW c \in Conns, Spawn(c)
  PROVE  DepartureInv'
<1>1. /\ pc[Serve(c)] = "spawn"
      /\ \A h \in Goroutine : pc'[h] = IF h[2] = c THEN FirstStep[h[1]] ELSE pc[h]
      /\ event' = [event EXCEPT ![Notify(c)] = OnlineStatus(c, TRUE)]
      /\ UNCHANGED <<clients, closed, audience, told>>
  BY DEF Spawn, At, registry, history
<1>2. FirstStep[Serve(c)[1]] = "done" /\ FirstStep[Reader(c)[1]] = "read"
  BY Roles DEF FirstStep
<1>3. \A d \in Conns : IF d = c THEN pc'[Serve(d)] = "done" /\ pc'[Reader(d)] = "read"
                                ELSE pc'[Serve(d)] = pc[Serve(d)] /\ pc'[Reader(d)] = pc[Reader(d)]
  BY <1>1, <1>2, Roles
<1>4. \A d \in Conns : event'[Reader(d)] = event[Reader(d)]
  <2>1. \A d \in Conns : Reader(d) \in Broadcaster /\ Reader(d) # Notify(c)
    BY Roles, ReaderApart
  <2>. QED
    BY <1>1, <2>1 DEF HubInv, TypeOK
<1>. SUFFICES ASSUME NEW d \in Conns
              PROVE  /\ pc'[Serve(d)] = "spawn" => d \in clients
                     /\ pc'[Reader(d)] \notin {"off", "killed"} => d \in clients \cup closed
                     /\ event'[Reader(d)] = OnlineStatus(d, FALSE) => d \in closed
                     /\ pc'[Reader(d)] = "offline" =>
                          /\ d \in closed \ clients
                          /\ \A f \in audience[OnlineStatus(d, FALSE)] :
                               OnlineStatus(d, FALSE) \in told[f]
  BY <1>1 DEF DepartureInv
<1>. QED
  BY <1>1, <1>3, <1>4 DEF DepartureInv

\* removeClient, called by a loop of a session that runs: its client is closed, now or
\* by the other loop before.
LEMMA RemoveClientDeparts ==
  ASSUME HubInv, DepartureInv, NEW c \in Conns, NEW g \in {Reader(c), Writer(c)}, RemoveClient(g)
  PROVE  DepartureInv'
<1>1. /\ g[2] = c /\ g \in Goroutine /\ g # Serve(c) /\ (g[1] = "reader" <=> g = Reader(c))
  BY Roles
<1>2. /\ clients' = clients \ {c} /\ closed' = closed \cup ({c} \cap clients)
      /\ UNCHANGED <<audience, told>>
      /\ pc[g] = "crit"
      /\ pc' = [pc EXCEPT ![g] = IF g = Reader(c) THEN "rlock" ELSE "done"]
      /\ IF g = Reader(c) THEN event' = [event EXCEPT ![g] = OnlineStatus(c, FALSE)]
                          ELSE event' = event
  BY <1>1 DEF RemoveClient, Unregister, Locked, At, Goto, history
<1>3. ~Unstarted(c)
  BY <1>1, <1>2 DEF HubInv, SpawnOK
<1>4. \A d \in Conns : /\ pc'[Serve(d)] = pc[Serve(d)]
                       /\ d # c => /\ pc'[Reader(d)] = pc[Reader(d)]
                                   /\ event'[Reader(d)] = event[Reader(d)]
  <2>1. \A d \in Conns : /\ Serve(d) \in Goroutine /\ Serve(d) # g
                         /\ Reader(d) \in Goroutine /\ Reader(d) \in Broadcaster
    BY Roles, ServeApart
  <2>2. \A d \in Conns : d # c => Reader(d) # g
    <3>1. \A d \in Conns : Reader(d) # Writer(c)
      BY Roles
    <3>. QED
      BY <3>1, ReaderApart
  <2>3. pc \in [Goroutine -> PC] /\ event \in [Broadcaster -> Event \cup {NoEvent}]
    BY DEF HubInv, TypeOK
  <2>. QED
    BY <1>2, <2>1, <2>2, <2>3
<1>5. pc'[Reader(c)] = pc[Reader(c)] \/ (pc[Reader(c)] = "crit" /\ pc'[Reader(c)] = "rlock")
  BY <1>2, Roles DEF HubInv, TypeOK
<1>6. event'[Reader(c)] = event[Reader(c)] \/ pc[Reader(c)] = "crit"
  BY <1>2
<1>. SUFFICES ASSUME NEW d \in Conns
              PROVE  /\ pc'[Serve(d)] = "spawn" => d \in clients'
                     /\ pc'[Reader(d)] \notin {"off", "killed"} => d \in clients' \cup closed'
                     /\ event'[Reader(d)] = OnlineStatus(d, FALSE) => d \in closed'
                     /\ pc'[Reader(d)] = "offline" =>
                          /\ d \in closed' \ clients'
                          /\ \A f \in audience[OnlineStatus(d, FALSE)] :
                               OnlineStatus(d, FALSE) \in told[f]
  BY <1>2 DEF DepartureInv
<1>7. CASE d # c
  BY <1>2, <1>4, <1>7 DEF DepartureInv
<1>8. CASE d = c
  <2>1. pc'[Serve(c)] # "spawn"
    BY <1>3, <1>4 DEF Unstarted
  <2>2. pc[Reader(c)] \notin {"off", "killed"} => c \in closed'
    BY <1>2 DEF DepartureInv
  <2>. QED
    BY <1>2, <1>5, <1>6, <1>8, <2>1, <2>2 DEF DepartureInv
<1>. QED
  BY <1>7, <1>8

\* A broadcast of a departure that is over has told everybody.
LEMMA EndBroadcastDeparts ==
  ASSUME HubInv, DeliveryInv, DepartureInv, NEW g \in Broadcaster, EndBroadcast(g)
  PROVE  DepartureInv'
<1>1. /\ pc[g] = "runlock" /\ UNCHANGED <<clients, closed, audience, told>>
      /\ \/ IsMessage(event[g]) /\ Goto(g, "store") /\ event' = event
         \/ /\ ~IsMessage(event[g]) /\ event' = [event EXCEPT ![g] = NoEvent]
            /\ Goto(g, IF g[1] = "reader" THEN "offline" ELSE "done")
  BY DEF EndBroadcast, At, registry, history
<1>2. g \in Goroutine /\ event[g] # NoEvent /\ event[g] \in Event
  BY <1>1, RoleSets DEF HubInv, CarriesOK, TypeOK
<1>3. \A c \in Conns : event'[Reader(c)] = OnlineStatus(c, FALSE)
                          => event[Reader(c)] = OnlineStatus(c, FALSE)
  <2>1. \A c \in Conns : Reader(c) \in Broadcaster /\ NoEvent # OnlineStatus(c, FALSE)
    BY Roles, Events
  <2>2. event' = event \/ event' = [event EXCEPT ![g] = NoEvent]
    BY <1>1
  <2>3. event \in [Broadcaster -> Event \cup {NoEvent}]
    BY DEF HubInv, TypeOK
  <2>. QED
    BY <2>1, <2>2, <2>3
<1>4. CASE IsMessage(event[g]) \/ g[1] # "reader"
  <2>1. Goto(g, "store") \/ Goto(g, "done")
    BY <1>1, <1>4
  <2>. QED
    BY <1>1, <1>2, <1>3, <2>1, MoveKept DEF PC
<1>5. CASE ~IsMessage(event[g]) /\ g[1] = "reader"
  <2>. DEFINE c == g[2]
  <2>1. c \in Conns /\ g = Reader(c) /\ event[g] = OnlineStatus(c, FALSE)
    BY <1>2, <1>5, AnnouncerOf, Roles DEF HubInv
  <2>. HIDE DEF c
  <2>2. c \in closed /\ c \notin clients
    BY <2>1 DEF DepartureInv, HubInv, DepartedOK
  <2>3. \A d \in audience[OnlineStatus(c, FALSE)] : OnlineStatus(c, FALSE) \in told[d]
    BY <1>1, <1>5, <2>1 DEF DeliveryInv, CoverageOK, HandedTo
  <2>4. \A d \in Conns : /\ pc'[Serve(d)] = pc[Serve(d)]
                         /\ d # c => pc'[Reader(d)] = pc[Reader(d)]
    <3>1. \A d \in Conns : /\ Serve(d) \in Goroutine /\ Serve(d) # g
                           /\ Reader(d) \in Goroutine /\ (d # c => Reader(d) # g)
      BY <2>1, Roles, ServeApart, ReaderApart
    <3>2. pc' = [pc EXCEPT ![g] = "offline"] /\ pc \in [Goroutine -> PC]
      BY <1>1, <1>5 DEF Goto, HubInv, TypeOK
    <3>. QED
      BY <3>1, <3>2
  <2>. SUFFICES ASSUME NEW d \in Conns
                PROVE  /\ pc'[Serve(d)] = "spawn" => d \in clients
                       /\ pc'[Reader(d)] \notin {"off", "killed"} => d \in clients \cup closed
                       /\ event'[Reader(d)] = OnlineStatus(d, FALSE) => d \in closed
                       /\ pc'[Reader(d)] = "offline" =>
                            /\ d \in closed \ clients
                            /\ \A f \in audience[OnlineStatus(d, FALSE)] :
                                 OnlineStatus(d, FALSE) \in told[f]
    BY <1>1 DEF DepartureInv
  <2>5. CASE d = c
    BY <2>2, <2>3, <2>4, <2>5 DEF DepartureInv
  <2>6. CASE d # c
    BY <1>3, <2>4, <2>6 DEF DepartureInv
  <2>. QED
    BY <2>5, <2>6
<1>. QED
  BY <1>4, <1>5

\* A loop that begins is not that of a reader at its last update.
LEMMA EnterLoopDeparts ==
  ASSUME HubInv, DepartureInv, NEW g \in Broadcaster, pc[g] \in {"rlock", "parked"}, EnterLoop(g),
         UNCHANGED <<event, clients, closed, told>>
  PROVE  DepartureInv'
<1>1. /\ pc'[g] \in {"send", "runlock"}
      /\ \A h \in Goroutine : h # g => pc'[h] = pc[h]
  BY EnterLoopEffect DEF HubInv
<1>2. event[g] \in Event /\ event[g] # NoEvent /\ audience \in [Event -> SUBSET Conns]
  BY DEF HubInv, CarriesOK, TypeOK
<1>3. audience' = [audience EXCEPT ![event[g]] = Audience(event[g])]
  BY DEF EnterLoop
<1>4. ASSUME NEW c \in Conns
      PROVE  /\ pc'[Serve(c)] = pc[Serve(c)]
             /\ pc'[Reader(c)] \notin {"off", "killed"} => pc[Reader(c)] \notin {"off", "killed"}
             /\ pc'[Reader(c)] = "offline" =>
                  /\ pc[Reader(c)] = "offline"
                  /\ audience'[OnlineStatus(c, FALSE)] = audience[OnlineStatus(c, FALSE)]
  <2>1. Serve(c) \in Goroutine /\ Serve(c) # g /\ Reader(c) \in Goroutine
    BY Roles
  <2>2. event[g] = OnlineStatus(c, FALSE) => g = Reader(c)
    BY Announcer DEF HubInv
  <2>3. OnlineStatus(c, FALSE) \in Event
    BY Events
  <2>. QED
    BY <1>1, <1>2, <1>3, <2>1, <2>2, <2>3
<1>. QED
  BY <1>4, DepartureKept

\* A hand-over only adds to what is told.
LEMMA HandDeparts ==
  ASSUME HubInv, DepartureInv, NEW g \in Broadcaster, Hand(g)
  PROVE  DepartureInv'
<1>1. /\ at[g] \in Conns /\ pc[g] = "send" /\ pc[Writer(at[g])] = "select"
      /\ pc'[g] \in {"send", "runlock"}
      /\ \A h \in Goroutine : h # g /\ h # Writer(at[g]) => pc'[h] = pc[h]
  BY HandEffect DEF HubInv
<1>2. UNCHANGED <<event, clients, closed, audience>>
  BY DEF Hand, registry
<1>3. \A c \in Conns : told[c] \subseteq told'[c]
  BY <1>1 DEF Hand, HubInv, TypeOK
<1>4. \A c \in Conns : /\ Serve(c) \in Goroutine /\ Serve(c) # g /\ Serve(c) # Writer(at[g])
                       /\ Reader(c) \in Goroutine /\ Reader(c) # Writer(at[g])
  BY <1>1, Roles, ServeApart
<1>5. \A c \in Conns :
        /\ pc'[Serve(c)] = pc[Serve(c)]
        /\ pc'[Reader(c)] \notin {"off", "killed"} => pc[Reader(c)] \notin {"off", "killed"}
        /\ pc'[Reader(c)] = "offline" => pc[Reader(c)] = "offline"
  BY <1>1, <1>4
<1>. QED
  BY <1>2, <1>3, <1>5, DepartureKept

LEMMA DepartureStep == HubInv /\ DeliveryInv /\ DepartureInv /\ [Next]_vars => DepartureInv'
<1> SUFFICES ASSUME HubInv, DeliveryInv, DepartureInv, [Next]_vars PROVE DepartureInv'
  OBVIOUS
<1>. USE DEF At, loop, registry, database, history
<1>1. ASSUME NEW c \in Conns, LoadRooms(c) \/ LoadRoomsFails(c) \/ SetOnline(c) \/ SetOffline(c)
                              \/ ReadFails(c) \/ WriteEvent(c) \/ PingFails(c)
      PROVE  DepartureInv'
  <2>1. PICK g \in Goroutine, l \in {"lock", "done", "select"} :
          Goto(g, l) /\ pc[g] \notin {"off", "killed"}
    BY <1>1, Roles DEF LoadRooms, LoadRoomsFails, SetOnline, SetOffline, ReadFails, WriteEvent, PingFails
  <2>2. UNCHANGED <<event, clients, closed, audience, told>>
    BY <1>1 DEF LoadRooms, LoadRoomsFails, SetOnline, SetOffline, ReadFails, WriteEvent, PingFails
  <2>3. l \in PC \ {"spawn", "offline"}
    BY DEF PC
  <2>. QED
    BY <2>1, <2>2, <2>3, MoveKept
<1>2. ASSUME NEW c \in Conns, StoreMessage(c) PROVE DepartureInv'
  <2>1. /\ Goto(Reader(c), "read") /\ pc[Reader(c)] = "store"
        /\ event' = [event EXCEPT ![Reader(c)] = NoEvent]
        /\ UNCHANGED <<clients, closed, audience, told>>
    BY <1>2 DEF StoreMessage
  <2>2. \A d \in Conns : event'[Reader(d)] = OnlineStatus(d, FALSE)
                            => event[Reader(d)] = OnlineStatus(d, FALSE)
    <3>1. \A d \in Conns : Reader(d) \in Broadcaster /\ NoEvent # OnlineStatus(d, FALSE)
      BY Roles, Events
    <3>. QED
      BY <2>1, <3>1 DEF HubInv, TypeOK
  <2>3. Reader(c) \in Goroutine /\ "read" \in PC \ {"spawn", "offline"}
    BY Roles DEF PC
  <2>. QED
    BY <2>1, <2>2, <2>3, MoveKept
<1>3. ASSUME NEW c \in Conns, NEW m \in Msgs, ReadMessage(c, m) PROVE DepartureInv'
  <2>1. /\ Goto(Reader(c), "rlock") /\ pc[Reader(c)] = "read"
        /\ event' = [event EXCEPT ![Reader(c)] = NewMessage(m)]
        /\ UNCHANGED <<clients, closed, audience, told>>
    BY <1>3 DEF ReadMessage
  <2>2. \A d \in Conns : event'[Reader(d)] = OnlineStatus(d, FALSE)
                            => event[Reader(d)] = OnlineStatus(d, FALSE)
    <3>1. \A d \in Conns : Reader(d) \in Broadcaster /\ NewMessage(m) # OnlineStatus(d, FALSE)
      <4>1. \A d \in Conns : Reader(d) \in Broadcaster
        BY Roles
      <4>2. \A d \in Conns : NewMessage(m) # OnlineStatus(d, FALSE)
        BY Events
      <4>. QED
        BY <4>1, <4>2
    <3>. QED
      BY <2>1, <3>1 DEF HubInv, TypeOK
  <2>3. Reader(c) \in Goroutine /\ "rlock" \in PC \ {"spawn", "offline"}
    BY Roles DEF PC
  <2>. QED
    BY <2>1, <2>2, <2>3, MoveKept
<1>4. ASSUME NEW g \in Lockers, AwaitLock(g) PROVE DepartureInv'
  <2>1. Goto(g, "crit") /\ pc[g] = "lock" /\ UNCHANGED <<event, clients, closed, audience, told>>
    BY <1>4 DEF AwaitLock
  <2>2. g \in Goroutine /\ "crit" \in PC \ {"spawn", "offline"}
    BY RoleSets DEF PC
  <2>. QED
    BY <2>1, <2>2, MoveKept
<1>5. ASSUME NEW g \in Broadcaster, BeginBroadcast(g) \/ ResumeBroadcast(g) PROVE DepartureInv'
  <2>1. pc[g] \in {"rlock", "parked"} /\ UNCHANGED <<event, clients, closed, told>>
    BY <1>5 DEF BeginBroadcast, ResumeBroadcast
  <2>2. EnterLoop(g) \/ (Goto(g, "parked") /\ UNCHANGED <<todo, at, audience>>)
    BY <1>5 DEF BeginBroadcast, ResumeBroadcast
  <2>3. CASE EnterLoop(g)
    BY <2>1, <2>3, EnterLoopDeparts
  <2>4. CASE Goto(g, "parked") /\ UNCHANGED <<todo, at, audience>>
    <3>1. g \in Goroutine /\ "parked" \in PC \ {"spawn", "offline"}
      BY RoleSets DEF PC
    <3>. QED
      BY <2>1, <2>4, <3>1, MoveKept
  <2>. QED
    BY <2>2, <2>3, <2>4
<1>6. ASSUME NEW u \in Users, NEW r \in Rooms, JoinRoom(u, r) PROVE DepartureInv'
  BY <1>6, DepartureKept DEF JoinRoom
<1>7. CASE Restart
  <2>1. \A c \in Conns :
          /\ pc'[Serve(c)] = "killed" \/ (pc[Serve(c)] = "start" /\ pc'[Serve(c)] = "start")
          /\ pc'[Reader(c)] = "killed" \/ (pc[Serve(c)] = "start" /\ pc'[Reader(c)] = pc[Reader(c)])
          /\ event'[Reader(c)] = NoEvent /\ NoEvent # OnlineStatus(c, FALSE)
    BY <1>7, Roles, Events DEF Restart
  <2>2. \A c \in Conns : pc[Serve(c)] = "start" => pc[Reader(c)] = "off"
    BY Roles DEF HubInv, SpawnOK, Unstarted
  <2>3. UNCHANGED <<audience, told>>
    BY <1>7 DEF Restart
  <2>. QED
    BY <2>1, <2>2 DEF DepartureInv
<1>8. CASE UNCHANGED vars
  BY <1>8, DepartureKept DEF vars
<1>9. ASSUME NEW c \in Conns, RemoveClient(Reader(c)) \/ RemoveClient(Writer(c))
      PROVE  DepartureInv'
  BY <1>9, RemoveClientDeparts
<1>. QED
  BY <1>1, <1>2, <1>3, <1>4, <1>5, <1>6, <1>7, <1>8, <1>9, AddClientDeparts, SpawnDeparts,
     HandDeparts, EndBroadcastDeparts DEF Next

LEMMA InitDeparture == Init => DepartureInv
<1> SUFFICES ASSUME Init, NEW c \in Conns
             PROVE  /\ pc[Serve(c)] = "spawn" => c \in clients
                    /\ pc[Reader(c)] \notin {"off", "killed"} => c \in clients \cup closed
                    /\ event[Reader(c)] = OnlineStatus(c, FALSE) => c \in closed
                    /\ pc[Reader(c)] = "offline" =>
                         /\ c \in closed \ clients
                         /\ \A d \in audience[OnlineStatus(c, FALSE)] : OnlineStatus(c, FALSE) \in told[d]
  BY DEF DepartureInv
<1>1. event[Reader(c)] # OnlineStatus(c, FALSE)
  BY Roles, Events DEF Init
<1>2. pc[Serve(c)] \in {"done", "start"}
  BY Roles DEF Init, InitPC, FirstStep
<1>3. /\ pc[Reader(c)] \in {"read", "off"}
      /\ pc[Reader(c)] = "read" => c \in clients
  BY Roles DEF Init, InitPC, FirstStep
<1>. QED
  BY <1>1, <1>2, <1>3

\* The inductive invariant of how a session ends.
THEOREM DepartureInvariant == Spec => []DepartureInv
  BY InitDeparture, DepartureStep, HubInvariant, DeliveryInvariant, PTL DEF Spec

\* readMessages' deferred function removes the client, tells the others and then writes
\* is_online: the row turns false only for a connection that is closed and whose
\* departure everybody was told of.
THEOREM OfflineAfterTelling == Spec => OfflineIsLast
<1>1. ASSUME HubInv, DepartureInv, [Next]_vars, NEW u \in Users, online[u], ~online'[u]
      PROVE  \E c \in closed \ clients :
               /\ UserOf[c] = u
               /\ \A d \in audience[OnlineStatus(c, FALSE)] : OnlineStatus(c, FALSE) \in told[d]
               /\ OnlineStatus(c, FALSE) \notin told[c]
  <2>. USE DEF database
  <2>1. ASSUME NEW c \in Conns, SetOffline(c) PROVE UserOf[c] = u /\ pc[Reader(c)] = "offline"
    <3>1. online' = [online EXCEPT ![UserOf[c]] = FALSE]
      BY <1>1, <2>1 DEF SetOffline
    <3>. QED
      BY <1>1, <2>1, <3>1 DEF SetOffline, At, HubInv, TypeOK
  <2>2. ASSUME ~\E c \in Conns : SetOffline(c) PROVE FALSE
    <3>1. online' # online
      BY <1>1
    <3>2. CASE UNCHANGED vars
      BY <3>1, <3>2 DEF vars
    <3>3. ASSUME NEW g \in Broadcaster,
                 BeginBroadcast(g) \/ ResumeBroadcast(g) \/ Hand(g) \/ EndBroadcast(g)
          PROVE  FALSE
      BY <3>1, <3>3 DEF BeginBroadcast, ResumeBroadcast, Hand, EndBroadcast
    <3>4. CASE Restart \/ \E v \in Users, r \in Rooms : JoinRoom(v, r)
      BY <3>1, <3>4 DEF Restart, JoinRoom
    <3>5. CASE \E g \in Lockers : AwaitLock(g)
      BY <3>1, <3>5 DEF AwaitLock
    <3>6. ASSUME NEW c \in Conns, NEW m \in Msgs, ReadMessage(c, m) PROVE FALSE
      BY <3>1, <3>6 DEF ReadMessage
    <3>7. ASSUME NEW c \in Conns, SetOnline(c) PROVE FALSE
      <4>1. online' = [online EXCEPT ![UserOf[c]] = TRUE]
        BY <3>1, <3>7 DEF SetOnline
      <4>. QED
        BY <1>1, <4>1 DEF HubInv, TypeOK
    <3>8. ASSUME NEW c \in Conns,
                 \/ LoadRooms(c) \/ LoadRoomsFails(c) \/ AddClient(c) \/ Spawn(c)
                 \/ ReadFails(c) \/ StoreMessage(c) \/ WriteEvent(c) \/ PingFails(c)
                 \/ RemoveClient(Reader(c)) \/ RemoveClient(Writer(c))
          PROVE  FALSE
      BY <3>1, <3>8 DEF LoadRooms, LoadRoomsFails, AddClient, Spawn, ReadFails, StoreMessage,
                        WriteEvent, PingFails, RemoveClient
    <3>. QED
      BY <1>1, <2>2, <3>2, <3>3, <3>4, <3>5, <3>6, <3>7, <3>8 DEF Next
  <2>. QED
    BY <1>1, <2>1, <2>2 DEF DepartureInv, HubInv, NotToldOfOwnDeparture
<1>2. HubInv /\ DepartureInv /\ [Next]_vars =>
        [\A u \in Users : online[u] /\ ~online'[u] =>
           \E c \in closed \ clients :
             /\ UserOf[c] = u
             /\ \A d \in audience[OnlineStatus(c, FALSE)] : OnlineStatus(c, FALSE) \in told[d]
             /\ OnlineStatus(c, FALSE) \notin told[c]]_vars
  BY <1>1
<1>. QED
  BY <1>2, HubInvariant, DepartureInvariant, PTL DEF Spec, OfflineIsLast
-----------------------------------------------------------------------------
(* An abandoned broadcast.                                                 *)

\* Nobody gets the write lock, and the writer that has left its loop does not return to
\* it, so a broadcast that blocks on its client never goes on.
LEMMA AbandonedStep ==
  ASSUME HubInv, [Next]_vars, NEW g \in Broadcaster, Abandoned(g)
  PROVE  (Abandoned(g)' /\ UNCHANGED clients) \/ pc'[g] = "killed"
<1>. DEFINE w == Writer(at[g])
            Out == {"lock", "crit", "done"}
            Stays == pc'[g] = "send" /\ at'[g] = at[g] /\ pc'[w] \in Out /\ clients' = clients
<1>. USE DEF At, Goto, loop, registry
<1>1. /\ pc[g] = "send" /\ pc[w] \in Out /\ at[g] \in Conns /\ g \in rlocked /\ g \in Goroutine
      /\ w \in Goroutine /\ w \notin Broadcaster /\ w # g /\ w[1] = "writer"
  BY RoleSets, Roles DEF Abandoned, HubInv, CarriesOK, LockOK
<1>2. pc \in [Goroutine -> PC] /\ at \in [Broadcaster -> Conns \cup {Nobody}]
  BY DEF HubInv, TypeOK
<1>3. Stays => Abandoned(g)' /\ UNCHANGED clients
  BY DEF Abandoned, Writer
<1>. HIDE DEF w, Out
<1>4. ASSUME NEW h \in Goroutine, NEW l, pc' = [pc EXCEPT ![h] = l], pc[h] # "send",
             h = w => pc[h] = "select" \/ l \in Out, UNCHANGED <<at, clients>>
      PROVE  Stays
  BY <1>1, <1>2, <1>4 DEF Out
<1>5. ASSUME NEW h, Locked(h) PROVE FALSE
  BY <1>1, <1>5 DEF Locked, HoldsLock
<1>6. ASSUME NEW c \in Conns,
             \/ LoadRooms(c) \/ LoadRoomsFails(c) \/ SetOnline(c) \/ SetOffline(c)
             \/ ReadFails(c) \/ StoreMessage(c) \/ \E m \in Msgs : ReadMessage(c, m)
      PROVE  Stays
  <2>1. PICK h \in {Serve(c), Online(c), Reader(c)} :
          \E l : pc' = [pc EXCEPT ![h] = l] /\ pc[h] # "send"
    BY <1>6 DEF LoadRooms, LoadRoomsFails, SetOnline, SetOffline, ReadFails, StoreMessage, ReadMessage
  <2>2. UNCHANGED <<at, clients>>
    BY <1>6 DEF LoadRooms, LoadRoomsFails, SetOnline, SetOffline, ReadFails, StoreMessage, ReadMessage
  <2>3. h \in Goroutine /\ h # w
    BY <1>1, Roles
  <2>. QED
    BY <1>4, <2>1, <2>2, <2>3
<1>7. ASSUME NEW c \in Conns, WriteEvent(c) \/ PingFails(c) PROVE Stays
  <2>1. Writer(c) \in Goroutine
    BY Roles
  <2>2. CASE WriteEvent(c)
    <3>1. Writer(c) # w
      BY <1>1, <2>2 DEF WriteEvent, Out
    <3>. QED
      BY <1>4, <2>1, <2>2, <3>1 DEF WriteEvent
  <2>3. CASE PingFails(c)
    BY <1>4, <2>1, <2>3 DEF PingFails, Out
  <2>. QED
    BY <1>7, <2>2, <2>3
<1>8. ASSUME NEW c \in Conns, Spawn(c) PROVE Stays
  <2>1. \A h \in Goroutine : h[2] = c /\ h # Serve(c) => pc[h] = "off"
    BY <1>8 DEF Spawn, HubInv, SpawnOK, Unstarted
  <2>2. g[2] # c /\ w[2] # c
    BY <1>1, <2>1, Roles DEF Out
  <2>. QED
    BY <1>1, <1>8, <2>2 DEF Spawn
<1>9. ASSUME NEW h \in Lockers, AwaitLock(h) PROVE Stays
  <2>1. h \in Goroutine /\ pc[h] = "lock" /\ pc' = [pc EXCEPT ![h] = "crit"] /\ UNCHANGED <<at, clients>>
    BY <1>9, RoleSets DEF AwaitLock
  <2>. QED
    BY <1>4, <2>1 DEF Out
<1>10. ASSUME NEW h \in Broadcaster, BeginBroadcast(h) \/ ResumeBroadcast(h) PROVE Stays
  <2>1. pc[h] \in {"rlock", "parked"} /\ UNCHANGED clients
    BY <1>10 DEF BeginBroadcast, ResumeBroadcast
  <2>2. h # g /\ h \in Goroutine /\ h # w
    BY <1>1, <2>1, RoleSets
  <2>3. EnterLoop(h) \/ (Goto(h, "parked") /\ UNCHANGED <<todo, at, audience>>)
    BY <1>10 DEF BeginBroadcast, ResumeBroadcast
  <2>4. CASE EnterLoop(h)
    BY <1>1, <2>1, <2>2, <2>4, EnterLoopEffect DEF HubInv
  <2>5. CASE Goto(h, "parked") /\ UNCHANGED <<todo, at, audience>>
    BY <1>4, <2>1, <2>2, <2>5
  <2>. QED
    BY <2>3, <2>4, <2>5
<1>11. ASSUME NEW h \in Broadcaster, Hand(h) PROVE Stays
  <2>1. /\ pc[Writer(at[h])] = "select" /\ UNCHANGED clients /\ at[h] \in Conns
        /\ \A k \in Goroutine : k # h /\ k # Writer(at[h]) => pc'[k] = pc[k]
        /\ \A k \in Broadcaster : k # h => at'[k] = at[k]
    BY <1>11, HandEffect DEF Hand, HubInv
  <2>2. Writer(at[h]) # w /\ Writer(at[h]) # g
    BY <1>1, <2>1 DEF Out
  <2>3. h # g
    BY <2>2 DEF w
  <2>. QED
    BY <1>1, <2>1, <2>2, <2>3
<1>12. ASSUME NEW h \in Broadcaster, EndBroadcast(h) PROVE Stays
  <2>1. PICK l : pc' = [pc EXCEPT ![h] = l] /\ pc[h] = "runlock" /\ UNCHANGED <<at, clients>>
    BY <1>12 DEF EndBroadcast
  <2>2. h \in Goroutine /\ h # w
    BY <1>1, RoleSets
  <2>. QED
    BY <1>4, <2>1, <2>2
<1>13. CASE Restart
  <2>1. g[2] \in Conns /\ g # Serve(g[2])
    BY <1>1, RoleSets, Roles
  <2>2. pc[Serve(g[2])] # "start"
    BY <1>1, <2>1 DEF HubInv, SpawnOK, Unstarted
  <2>. QED
    BY <1>1, <1>13, <2>2 DEF Restart
<1>14. ASSUME UNCHANGED vars \/ \E u \in Users, r \in Rooms : JoinRoom(u, r) PROVE Stays
  <2>1. UNCHANGED <<pc, at, clients>>
    BY <1>14 DEF vars, JoinRoom
  <2>. QED
    BY <1>1, <2>1
<1>15. ASSUME NEW c \in Conns, AddClient(c) \/ RemoveClient(Reader(c)) \/ RemoveClient(Writer(c))
       PROVE  FALSE
  BY <1>5, <1>15 DEF AddClient, RemoveClient
<1>. QED
  BY <1>3, <1>6, <1>7, <1>8, <1>9, <1>10, <1>11, <1>12, <1>13, <1>14, <1>15 DEF Next

\* One client whose writer loop has returned while a broadcast blocks on it stops the hub:
\* the broadcast keeps the read lock and nobody is registered or removed any more.
THEOREM AbandonedIsFinal == Spec => AbandonedForGood
<1>1. HubInv /\ [Next]_vars =>
        [\A g \in Broadcaster : Abandoned(g) =>
           \/ Abandoned(g)' /\ UNCHANGED clients
           \/ pc'[g] = "killed"]_vars
  BY AbandonedStep
<1>. QED
  BY <1>1, HubInvariant, PTL DEF Spec, AbandonedForGood
-----------------------------------------------------------------------------
(* Messages go the way of GroupChat.                                       *)

LEMMA RangeOf == \A f : Chat!Range(f) = Range(f)
  BY DEF Chat!Range, Range

\* A step that moves no message.
LEMMA ChatStutters ==
  ASSUME UNCHANGED <<sent, received, stored>>, \A c \in Conns : Stage(c)' = Stage(c),
         \A m \in Msgs : audience'[NewMessage(m)] = audience[NewMessage(m)]
  PROVE  UNCHANGED Chat!chat
<1>1. Stages' = Stages
  BY DEF Stages
<1>2. Audiences' = Audiences
  BY DEF Audiences
<1>. QED
  BY <1>1, <1>2 DEF Chat!chat

\* A reader that does not move keeps its message where it is.
LEMMA StageKept ==
  ASSUME NEW c \in Conns, pc'[Reader(c)] = pc[Reader(c)], event'[Reader(c)] = event[Reader(c)]
  PROVE  Stage(c)' = Stage(c)
  BY DEF Stage, IsMessage

\* Statements before and after a broadcast.
LEMMA IdleStutters ==
  ASSUME TypeOK, NEW g \in Goroutine, NEW l, Goto(g, l), UNCHANGED <<event, audience, sent, received, stored>>,
         {pc[g], l} \cap {"rlock", "parked", "send", "runlock", "store"} = {}
  PROVE  UNCHANGED Chat!chat
<1>1. \A h \in Goroutine : pc'[h] = IF h = g THEN l ELSE pc[h]
  BY DEF Goto, TypeOK
<1>2. ASSUME NEW c \in Conns PROVE Stage(c)' = Stage(c)
  <2>1. Reader(c) \in Goroutine
    BY Roles
  <2>. QED
    BY <1>1, <2>1 DEF Stage, IsMessage
<1>. QED
  BY <1>2, ChatStutters

LEMMA ReadMessageSends ==
  ASSUME HubInv, NEW c \in Conns, NEW m \in Msgs, ReadMessage(c, m)
  PROVE  Chat!Send(c, m)
<1>1. /\ pc[Reader(c)] = "read" /\ pc' = [pc EXCEPT ![Reader(c)] = "rlock"]
      /\ event' = [event EXCEPT ![Reader(c)] = NewMessage(m)]
      /\ \A d \in Conns : m \notin Range(sent[d])
      /\ sent' = [sent EXCEPT ![c] = Append(@, m)]
      /\ UNCHANGED <<audience, received, stored>>
  BY DEF ReadMessage, At, Goto, Unsent, database
<1>2. \A d \in Conns : Reader(d) \in Goroutine /\ Reader(d) \in Broadcaster
                       /\ (d # c => Reader(d) # Reader(c))
  BY Roles, ReaderApart
<1>3. Stage(c)' = "waiting"
  <2>1. pc'[Reader(c)] = "rlock" /\ event'[Reader(c)] = NewMessage(m) /\ IsMessage(NewMessage(m))
    BY <1>1, <1>2, Events DEF HubInv, TypeOK
  <2>. QED
    BY <2>1 DEF Stage, IsMessage
<1>4. \A d \in Conns : d # c => Stage(d)' = Stage(d)
  BY <1>1, <1>2, StageKept DEF HubInv, TypeOK
<1>5. Stages[c] = "idle"
  BY <1>1 DEF Stages, Stage
<1>6. Stages' = [Stages EXCEPT ![c] = "waiting"]
  BY <1>3, <1>4 DEF Stages
<1>. QED
  BY <1>1, <1>5, <1>6, RangeOf DEF Chat!Send, Audiences

\* What a reader broadcasts is the last message it has accepted.
LEMMA LatestIsCarried ==
  ASSUME CarriedOK, NEW c \in Conns, NEW m \in Msgs, event[Reader(c)] = NewMessage(m)
  PROVE  Chat!Latest(c) = m
  BY DEF CarriedOK, Chat!Latest

\* A loop fixes the audience of the message it begins to hand out.
LEMMA EnterLoopAddresses ==
  ASSUME HubInv, DeliveryInv, NEW g \in Broadcaster, pc[g] \in {"rlock", "parked"}, EnterLoop(g),
         UNCHANGED <<event, sent, stored, received>>
  PROVE  (\E c \in Conns, S \in SUBSET Conns : Chat!Address(c, S)) \/ UNCHANGED Chat!chat
<1>. DEFINE S == Audience(event[g])
<1>1. /\ pc'[g] \in {"send", "runlock"} /\ S \in SUBSET Conns
      /\ \A h \in Goroutine : h # g => pc'[h] = pc[h]
  BY EnterLoopEffect, AudienceType DEF HubInv
<1>2. audience' = [audience EXCEPT ![event[g]] = S]
  BY DEF EnterLoop
<1>. HIDE DEF S
<1>3. \A c \in Conns : Reader(c) \in Goroutine /\ (Reader(c) # g => Stage(c)' = Stage(c))
  BY <1>1, Roles, StageKept
<1>4. audience \in [Event -> SUBSET Conns]
  BY DEF HubInv, TypeOK
<1>5. CASE IsMessage(event[g])
  <2>. DEFINE c == g[2]
              m == event[g].msg
  <2>1. c \in Conns /\ g = Reader(c) /\ m \in Msgs /\ event[g] = NewMessage(m)
    BY <1>5, CarrierOf DEF HubInv
  <2>. HIDE DEF c, m
  <2>2. Stages[c] = "waiting" /\ Stage(c)' = "going"
    BY <1>1, <1>5, <2>1 DEF Stages, Stage, IsMessage
  <2>3. Stages' = [Stages EXCEPT ![c] = "going"]
    <3>1. \A d \in Conns : d # c => Stage(d)' = Stage(d)
      BY <1>3, <2>1, ReaderApart
    <3>. QED
      BY <2>2, <3>1 DEF Stages
  <2>4. Audiences' = [Audiences EXCEPT ![m] = S]
    <3>1. \A n \in Msgs : audience'[NewMessage(n)] = IF n = m THEN S ELSE audience[NewMessage(n)]
      BY <1>2, <1>4, <2>1, Events
    <3>. QED
      BY <3>1 DEF Audiences
  <2>5. Chat!Address(c, S)
    BY <2>1, <2>2, <2>3, <2>4, LatestIsCarried DEF Chat!Address, DeliveryInv
  <2>. QED
    BY <1>1, <2>1, <2>5
<1>6. CASE ~IsMessage(event[g])
  <2>1. \A m \in Msgs : audience'[NewMessage(m)] = audience[NewMessage(m)]
    BY <1>2, <1>4, <1>6, Events
  <2>2. \A c \in Conns : Reader(c) = g => Stage(c)' = Stage(c)
    BY <1>6 DEF Stage, IsMessage
  <2>. QED
    BY <1>3, <2>1, <2>2, ChatStutters
<1>. QED
  BY <1>5, <1>6

\* A hand-over brings the message to one more of its audience.
LEMMA HandReaches ==
  ASSUME HubInv, DeliveryInv, NEW g \in Broadcaster, Hand(g)
  PROVE  (\E c, d \in Conns : Chat!Reach(c, d)) \/ UNCHANGED Chat!chat
<1>1. /\ at[g] \in Conns /\ pc[g] = "send" /\ pc'[g] \in {"send", "runlock"}
      /\ \A h \in Goroutine : h # g /\ h # Writer(at[g]) => pc'[h] = pc[h]
  BY HandEffect DEF HubInv
<1>2. UNCHANGED <<event, sent, audience, stored>>
  BY DEF Hand, database
<1>3. \A c \in Conns : Reader(c) \in Goroutine /\ Reader(c) # Writer(at[g])
  BY <1>1, Roles
<1>4. ASSUME NEW c \in Conns PROVE Stage(c)' = Stage(c)
  <2>1. CASE Reader(c) = g
    BY <1>1, <1>2, <2>1 DEF Stage, IsMessage
  <2>2. CASE Reader(c) # g
    BY <1>1, <1>2, <1>3, <2>2, StageKept
  <2>. QED
    BY <2>1, <2>2
<1>5. CASE IsMessage(event[g])
  <2>. DEFINE c == g[2]
              m == event[g].msg
  <2>1. c \in Conns /\ g = Reader(c) /\ m \in Msgs /\ event[g] = NewMessage(m)
    BY <1>5, CarrierOf DEF HubInv
  <2>2. received' = [received EXCEPT ![at[g]] = Append(@, m)]
    BY <1>5 DEF Hand
  <2>. HIDE DEF c, m
  <2>3. Stages[c] = "going"
    BY <1>1, <1>5, <2>1 DEF Stages, Stage
  <2>4. at[g] \in audience[NewMessage(m)]
    BY <1>1, <2>1 DEF DeliveryInv, CoverageOK
  <2>5. m \notin Range(received[at[g]])
    <3>1. at[g] \in Ahead(Reader(c)) \cap Conns
      BY <1>1, <2>1 DEF Ahead
    <3>. QED
      BY <2>1, <3>1 DEF DeliveryInv, CarriedOK
  <2>6. Chat!Latest(c) = m
    BY <2>1, LatestIsCarried DEF DeliveryInv
  <2>7. at[g] \in Audiences[m] \ Chat!Reached(c)
    BY <2>1, <2>4, <2>5, <2>6, RangeOf DEF Audiences, Chat!Reached
  <2>8. Stages' = Stages /\ Audiences' = Audiences
    BY <1>2, <1>4 DEF Stages, Audiences
  <2>9. Chat!Reach(c, at[g])
    BY <1>2, <2>2, <2>3, <2>6, <2>7, <2>8 DEF Chat!Reach
  <2>. QED
    BY <1>1, <2>1, <2>9
<1>6. CASE ~IsMessage(event[g])
  BY <1>2, <1>4, <1>6, ChatStutters DEF Hand
<1>. QED
  BY <1>5, <1>6

\* The insert, or its failure, ends a message's way.
LEMMA StoreMessageFinishes ==
  ASSUME HubInv, DeliveryInv, NEW c \in Conns, StoreMessage(c)
  PROVE  Chat!Finish(c)
<1>. DEFINE g == Reader(c)
            m == event[g].msg
<1>1. /\ pc[g] = "store" /\ pc' = [pc EXCEPT ![g] = "read"]
      /\ event' = [event EXCEPT ![g] = NoEvent]
      /\ stored' = Append(stored, m) \/ stored' = stored
      /\ UNCHANGED <<audience, sent, received>>
  BY DEF StoreMessage, Goto, At, Row, history
<1>2. /\ g \in Broadcaster /\ g \in Goroutine /\ IsMessage(event[g])
      /\ event \in [Broadcaster -> Event \cup {NoEvent}] /\ pc \in [Goroutine -> PC]
  BY <1>1, Roles DEF HubInv, TypeOK, CarriesOK
<1>3. m \in Msgs /\ event[g] = NewMessage(m)
  BY <1>2, CarrierOf DEF HubInv
<1>4. Stages[c] = "going"
  BY <1>1, <1>2 DEF Stages, Stage
<1>5. Stage(c)' = "idle"
  BY <1>1, <1>2 DEF Stage, IsMessage
<1>6. \A d \in Conns : d # c => Stage(d)' = Stage(d)
  <2>1. \A d \in Conns : d # c => Reader(d) # g /\ Reader(d) \in Goroutine /\ Reader(d) \in Broadcaster
    BY Roles, ReaderApart
  <2>. QED
    BY <1>1, <1>2, <2>1, StageKept
<1>7. Stages' = [Stages EXCEPT ![c] = "idle"]
  BY <1>5, <1>6 DEF Stages
<1>8. \A d \in audience[NewMessage(m)] : d \in Conns /\ m \in Range(received[d])
  <2>1. audience[NewMessage(m)] \subseteq Conns
    BY <1>3, Events DEF HubInv, TypeOK
  <2>2. \A d \in audience[event[g]] : HandedTo(event[g], d)
    BY <1>1, <1>2 DEF DeliveryInv, CoverageOK
  <2>. QED
    BY <1>2, <1>3, <2>1, <2>2 DEF HandedTo
<1>9. Chat!Latest(c) = m
  BY <1>3, LatestIsCarried DEF DeliveryInv
<1>. HIDE DEF m
<1>10. Audiences[m] \subseteq Chat!Reached(c)
  BY <1>3, <1>8, <1>9, RangeOf DEF Audiences, Chat!Reached
<1>. QED
  BY <1>1, <1>4, <1>7, <1>9, <1>10 DEF Chat!Finish, Audiences

LEMMA StartChats == Init => Chat!Start
<1> SUFFICES ASSUME Init PROVE Chat!Start
  OBVIOUS
<1>1. \A c \in Conns : Stage(c) = "idle"
  BY Roles, Events DEF Init, Stage
<1>2. \A m \in Msgs : audience[NewMessage(m)] = {}
  BY Events DEF Init
<1>. QED
  BY <1>1, <1>2 DEF Init, Chat!Start, Stages, Audiences

LEMMA StepChats ==
  ASSUME HubInv, DeliveryInv, [Next]_vars
  PROVE  [Chat!Progress]_(Chat!chat)
<1>. USE DEF At, loop, history, database
<1>1. ASSUME NEW c \in Conns,
             \/ LoadRooms(c) \/ LoadRoomsFails(c) \/ AddClient(c) \/ SetOnline(c) \/ SetOffline(c)
             \/ ReadFails(c) \/ WriteEvent(c) \/ PingFails(c)
      PROVE  UNCHANGED Chat!chat
  <2>1. PICK g \in Goroutine, l \in {"lock", "done", "spawn", "select"} :
          Goto(g, l) /\ pc[g] \notin {"rlock", "parked", "send", "runlock", "store"}
    BY <1>1, Roles DEF LoadRooms, LoadRoomsFails, AddClient, SetOnline, SetOffline, ReadFails,
                       WriteEvent, PingFails, Locked
  <2>2. UNCHANGED <<event, audience, sent, received, stored>>
    BY <1>1 DEF LoadRooms, LoadRoomsFails, AddClient, SetOnline, SetOffline, ReadFails,
                WriteEvent, PingFails
  <2>. QED
    BY <2>1, <2>2, IdleStutters DEF HubInv
<1>2. ASSUME NEW c \in Conns, Spawn(c) PROVE UNCHANGED Chat!chat
  <2>1. /\ pc[Serve(c)] = "spawn"
        /\ \A h \in Goroutine : pc'[h] = IF h[2] = c THEN FirstStep[h[1]] ELSE pc[h]
        /\ event' = [event EXCEPT ![Notify(c)] = OnlineStatus(c, TRUE)]
        /\ UNCHANGED <<audience, sent, received, stored>>
    BY <1>2 DEF Spawn
  <2>2. pc[Reader(c)] = "off" /\ pc'[Reader(c)] = "read"
    <3>1. FirstStep[Reader(c)[1]] = "read"
      BY Roles DEF FirstStep
    <3>. QED
      BY <2>1, <3>1, Roles DEF HubInv, SpawnOK, Unstarted
  <2>3. \A d \in Conns : /\ event'[Reader(d)] = event[Reader(d)]
                         /\ d # c => pc'[Reader(d)] = pc[Reader(d)]
    <3>1. \A d \in Conns : Reader(d) \in Broadcaster /\ Reader(d) # Notify(c)
      BY Roles, ReaderApart
    <3>2. \A d \in Conns : Reader(d) \in Goroutine /\ Reader(d)[2] = d
      BY Roles
    <3>. QED
      BY <2>1, <3>1, <3>2 DEF HubInv, TypeOK
  <2>4. ASSUME NEW d \in Conns PROVE Stage(d)' = Stage(d)
    BY <2>2, <2>3 DEF Stage, IsMessage
  <2>. QED
    BY <2>1, <2>4, ChatStutters
<1>3. ASSUME NEW c \in Conns, RemoveClient(Reader(c)) PROVE UNCHANGED Chat!chat
  <2>1. /\ pc[Reader(c)] = "crit" /\ pc' = [pc EXCEPT ![Reader(c)] = "rlock"]
        /\ event' = [event EXCEPT ![Reader(c)] = OnlineStatus(c, FALSE)]
        /\ UNCHANGED <<audience, sent, received, stored>>
    BY <1>3, RemoveEffect DEF RemoveClient, Locked
  <2>2. \A d \in Conns : /\ Reader(d) \in Goroutine /\ Reader(d) \in Broadcaster
                         /\ d # c => Reader(d) # Reader(c)
    BY Roles, ReaderApart
  <2>3. event'[Reader(c)] = OnlineStatus(c, FALSE) /\ ~IsMessage(OnlineStatus(c, FALSE))
    BY <2>1, <2>2, Events DEF HubInv, TypeOK
  <2>4. Stage(c)' = Stage(c)
    BY <2>1, <2>3 DEF Stage, IsMessage
  <2>5. \A d \in Conns : d # c => Stage(d)' = Stage(d)
    BY <2>1, <2>2, StageKept DEF HubInv, TypeOK
  <2>. QED
    BY <2>1, <2>4, <2>5, ChatStutters
<1>4. ASSUME NEW c \in Conns, RemoveClient(Writer(c)) PROVE UNCHANGED Chat!chat
  <2>1. /\ pc[Writer(c)] = "crit" /\ Goto(Writer(c), "done")
        /\ UNCHANGED <<event, audience, sent, received, stored>>
    BY <1>4, RemoveEffect DEF RemoveClient, Locked, Goto
  <2>. QED
    BY <2>1, Roles, IdleStutters DEF HubInv
<1>5. ASSUME NEW g \in Lockers, AwaitLock(g) PROVE UNCHANGED Chat!chat
  <2>1. /\ Goto(g, "crit") /\ pc[g] = "lock" /\ g \in Goroutine
        /\ UNCHANGED <<event, audience, sent, received, stored>>
    BY <1>5, RoleSets DEF AwaitLock
  <2>. QED
    BY <2>1, IdleStutters DEF HubInv
<1>6. ASSUME NEW g \in Broadcaster, BeginBroadcast(g) \/ ResumeBroadcast(g)
      PROVE  [Chat!Progress]_(Chat!chat)
  <2>1. pc[g] \in {"rlock", "parked"} /\ UNCHANGED <<event, sent, stored, received>>
    BY <1>6 DEF BeginBroadcast, ResumeBroadcast
  <2>2. EnterLoop(g) \/ (Goto(g, "parked") /\ UNCHANGED <<todo, at, audience>>)
    BY <1>6 DEF BeginBroadcast, ResumeBroadcast
  <2>3. CASE EnterLoop(g)
    BY <2>1, <2>3, EnterLoopAddresses DEF Chat!Progress
  <2>4. CASE Goto(g, "parked") /\ UNCHANGED <<todo, at, audience>>
    <3>1. \A h \in Goroutine : pc'[h] = IF h = g THEN "parked" ELSE pc[h]
      BY <2>4 DEF Goto, HubInv, TypeOK
    <3>2. \A c \in Conns : Reader(c) \in Goroutine
      BY Roles
    <3>3. ASSUME NEW c \in Conns PROVE Stage(c)' = Stage(c)
      BY <2>1, <3>1, <3>2 DEF Stage, IsMessage
    <3>. QED
      BY <2>1, <2>4, <3>3, ChatStutters
  <2>. QED
    BY <2>2, <2>3, <2>4
<1>7. ASSUME NEW g \in Broadcaster, EndBroadcast(g) PROVE UNCHANGED Chat!chat
  <2>1. /\ pc[g] = "runlock" /\ UNCHANGED <<audience, sent, received, stored>>
        /\ \/ IsMessage(event[g]) /\ Goto(g, "store") /\ event' = event
           \/ /\ ~IsMessage(event[g]) /\ event' = [event EXCEPT ![g] = NoEvent]
              /\ \E l \in {"offline", "done"} : Goto(g, l)
    BY <1>7 DEF EndBroadcast
  <2>2. /\ \A h \in Broadcaster : h # g => pc'[h] = pc[h] /\ event'[h] = event[h]
        /\ \/ IsMessage(event[g]) /\ pc'[g] = "store" /\ event'[g] = event[g]
           \/ ~IsMessage(event[g]) /\ event'[g] = NoEvent
    BY <2>1, RoleSets DEF Goto, HubInv, TypeOK
  <2>3. ASSUME NEW c \in Conns PROVE Stage(c)' = Stage(c)
    <3>1. Reader(c) \in Broadcaster /\ ~IsMessage(NoEvent)
      BY Roles, Events
    <3>2. CASE Reader(c) = g
      BY <2>1, <2>2, <3>1, <3>2 DEF Stage, IsMessage
    <3>3. CASE Reader(c) # g
      BY <2>2, <3>1, <3>3, StageKept
    <3>. QED
      BY <3>2, <3>3
  <2>. QED
    BY <2>1, <2>3, ChatStutters
<1>8. CASE UNCHANGED vars \/ \E u \in Users, r \in Rooms : JoinRoom(u, r)
  <2>1. UNCHANGED <<pc, event, audience, sent, received, stored>>
    BY <1>8 DEF vars, JoinRoom
  <2>. QED
    BY <2>1, StageKept, ChatStutters
<1>9. CASE Restart
  <2>1. \A c \in Conns : event'[Reader(c)] = NoEvent
    BY <1>9, Roles DEF Restart
  <2>2. UNCHANGED <<audience, sent, received, stored>>
    BY <1>9 DEF Restart
  <2>3. \A c \in Conns : Stage(c)' = "idle"
    BY <2>1 DEF Stage, IsMessage, NoEvent
  <2>4. Chat!GiveUp
    BY <2>2, <2>3 DEF Chat!GiveUp, Stages, Audiences
  <2>. QED
    BY <2>4 DEF Chat!Progress
<1>10. ASSUME NEW c \in Conns, NEW m \in Msgs, ReadMessage(c, m) PROVE Chat!Progress
  BY <1>10, ReadMessageSends DEF Chat!Progress
<1>11. ASSUME NEW c \in Conns, StoreMessage(c) PROVE Chat!Progress
  BY <1>11, StoreMessageFinishes DEF Chat!Progress
<1>12. ASSUME NEW g \in Broadcaster, Hand(g) PROVE [Chat!Progress]_(Chat!chat)
  BY <1>12, HandReaches DEF Chat!Progress
<1>. QED
  BY <1>1, <1>2, <1>3, <1>4, <1>5, <1>6, <1>7, <1>8, <1>9, <1>10, <1>11, <1>12 DEF Next

\* The hub implements GroupChat: with its goroutines, its lock and its ends of sessions,
\* a message still reaches its room once, in its sender's order, before it is stored.
THEOREM ImplementsGroupChat == Spec => ChatHolds
<1>1. HubInv /\ DeliveryInv /\ [Next]_vars => [Chat!Progress]_(Chat!chat)
  BY StepChats
<1>. QED
  BY <1>1, StartChats, HubInvariant, DeliveryInvariant, PTL DEF Spec, ChatHolds, Chat!ChatSpec
=============================================================================
