-------------------------- MODULE JobMatchingProofs --------------------------
(***************************************************************************)
(* Theorems of the job service, for every set of jobs, users, rooms and    *)
(* requests, and any number of requests in flight.                         *)
(***************************************************************************)
EXTENDS JobMatching, FiniteSetTheorems, TLAPS

\* What the operations carry.
LEMMA Ops ==
  /\ \A v \in Volunteers, j \in Jobs :
       Apply(v, j) \in Op /\ Apply(v, j).user = v /\ Apply(v, j).job = j
  /\ \A u \in Updates : /\ u \in Op /\ u.caller \in Orgs /\ u.user \in Users /\ u.job \in Jobs
                       /\ u.status \in Statuses \cup {"unknown"}
  /\ \A j \in Jobs : Delete(j) \in Op /\ Delete(j).job = j
  /\ Add \in Op
<1>1. \A v \in Volunteers, j \in Jobs :
        Apply(v, j) \in Op /\ Apply(v, j).user = v /\ Apply(v, j).job = j
  BY DEF Op, Apply
<1>2. ASSUME NEW u \in Updates
      PROVE  /\ u \in Op /\ u.caller \in Orgs /\ u.user \in Users /\ u.job \in Jobs
             /\ u.status \in Statuses \cup {"unknown"}
  <2>1. PICK o \in Orgs, v \in Users, j \in Jobs, s \in Statuses \cup {"unknown"} : u = Update(o, v, j, s)
    BY UpdatesAssumption
  <2>2. u \in Op
    BY <2>1 DEF Op
  <2>3. u.caller = o /\ u.user = v /\ u.job = j /\ u.status = s
    BY <2>1 DEF Update
  <2>. QED
    BY <2>2, <2>3
<1>3. Add \in Op /\ \A j \in Jobs : Delete(j) \in Op /\ Delete(j).job = j
  BY DEF Op, Delete
<1>. QED
  BY <1>1, <1>2, <1>3

\* The initial states satisfy the invariant.
LEMMA InitJob == Init => JobInv
<1> SUFFICES ASSUME Init PROVE JobInv
  OBVIOUS
<1>. USE JobAssumption
<1>1. TypeOK
  BY DEF Init, TypeOK, PC, Pairs, Users, Statuses
<1>2. \A q \in Requests : RequestOK(q)
  BY DEF Init, RequestOK, ApplyPC, BeforePC, AfterPC
<1>3. NothingOutlivesItsJob /\ MembersWereAccepted
  BY DEF Init, NothingOutlivesItsJob, MembersWereAccepted, Pairs
<1>. QED
  BY <1>1, <1>2, <1>3 DEF JobInv, Init

\* A step of another request leaves a job's rows, acceptances, invitations and rooms alone
\* for as long as the job exists.
Settled ==
  /\ unused' \subseteq unused
  /\ \A j \in jobs' : j \in unused \/ j \in jobs
  /\ \A p \in Pairs : p[2] \in jobs' =>
       /\ application[p] # "none" => application'[p] # "none"
       /\ p \in accepted => p \in accepted'
       /\ p \in invited => p \in invited'
  /\ \A r \in Rooms : jobOf[r] \in Jobs => jobOf'[r] = jobOf[r]

LEMMA OtherRequest ==
  ASSUME JobInv, Settled, NEW h \in Requests,
         pc'[h] = pc[h], op'[h] = op[h], room'[h] = room[h]
  PROVE  RequestOK(h)'
<1>1. RequestOK(h)
  BY DEF JobInv
<1>2. Job(h)' = Job(h) /\ Pair(h)' = Pair(h)
  BY DEF Job, Pair
<1>3. Pair(h)[2] = Job(h)
  BY DEF Pair, Job
<1>4. Pair(h) \in Pairs => Job(h) \in Jobs
  BY <1>3 DEF Pairs
<1>5. pc[h] \in {"addAdmin", "addMember"} => pc[h] \in AfterPC
  BY DEF AfterPC
<1>. QED
  BY <1>1, <1>2, <1>3, <1>4, <1>5 DEF RequestOK, Settled

\* How a request moves: to its next statement, or to its answer.
LEMMA Moves ==
  ASSUME JobInv, NEW q \in Requests, NEW l \in PC,
         Goto(q, l) \/ Applied(q, l) \/ AppliedLast(q) \/ Answer(q, "ok") \/ Answer(q, "error")
  PROVE  /\ pc' \in [Requests -> PC] /\ reply' \in [Requests -> {"none", "ok", "error"}]
         /\ \A h \in Requests : h # q => pc'[h] = pc[h]
         /\ pc'[q] \in {l, pc[q]}
<1>1. pc \in [Requests -> PC] /\ reply \in [Requests -> {"none", "ok", "error"}]
  BY DEF JobInv, TypeOK
<1>. QED
  BY <1>1 DEF Goto, Applied, AppliedLast, Lost, Answer

\* A statement that writes nothing, the arrival of an invitation among them, and leaves its
\* own request in order keeps the invariant.
LEMMA ReadOnly ==
  ASSUME JobInv, NEW q \in Requests, UNCHANGED <<tables, accepted>>,
         pc' \in [Requests -> PC], reply' \in [Requests -> {"none", "ok", "error"}],
         op' \in [Requests -> Op \cup {NoOp}], room' \in [Requests -> Rooms \cup {NoRoom}],
         invited \subseteq invited', invited' \subseteq Pairs,
         \A h \in Requests : h # q => pc'[h] = pc[h] /\ op'[h] = op[h] /\ room'[h] = room[h],
         RequestOK(q)'
  PROVE  JobInv'
<1>1. UNCHANGED <<unused, jobs, application, rooms, jobOf, members, notifications, accepted>>
  BY DEF tables
<1>2. TypeOK'
  BY <1>1 DEF JobInv, TypeOK
<1>3. Settled
  BY <1>1 DEF Settled
<1>4. \A h \in Requests : RequestOK(h)'
  BY <1>3, OtherRequest
<1>5. NothingOutlivesItsJob' /\ MembersWereAccepted'
  BY <1>1 DEF JobInv, NothingOutlivesItsJob, MembersWereAccepted
<1>. QED
  BY <1>1, <1>2, <1>4, <1>5 DEF JobInv

LEMMA RequestStep ==
  ASSUME JobInv, NEW q \in Requests, Request(q)
  PROVE  JobInv'
<1>. USE DEF ApplyPC, BeforePC, AfterPC
<1>0. /\ op \in [Requests -> Op \cup {NoOp}] /\ room \in [Requests -> Rooms \cup {NoRoom}]
      /\ invited \subseteq Pairs
  BY DEF JobInv, TypeOK
<1>1. ASSUME NEW o \in Op, NEW l \in PC, Receive(q, o, l), RequestOK(q)',
             invited \subseteq invited', invited' \subseteq Pairs
      PROVE  JobInv'
  <2>1. Goto(q, l) /\ op' = [op EXCEPT ![q] = o] /\ UNCHANGED <<tables, room, accepted>>
    BY <1>1 DEF Receive
  <2>2. /\ pc' \in [Requests -> PC] /\ reply' \in [Requests -> {"none", "ok", "error"}]
        /\ \A h \in Requests : h # q => pc'[h] = pc[h]
    BY <2>1, Moves
  <2>3. op' \in [Requests -> Op \cup {NoOp}] /\ op'[q] = o /\ \A h \in Requests : h # q => op'[h] = op[h]
    BY <1>0, <2>1
  <2>. QED
    BY <1>0, <1>1, <2>1, <2>2, <2>3, ReadOnly
<1>a. ASSUME NEW o, NEW l, Receive(q, o, l)
      PROVE  pc'[q] = l /\ op'[q] = o /\ UNCHANGED <<unused, jobs, application, accepted, jobOf, room>>
  BY <1>0, <1>a DEF Receive, Goto, tables, JobInv, TypeOK
<1>2. ASSUME NEW v \in Volunteers, NEW j \in Jobs \ unused, Receive(q, Apply(v, j), "insertApplicant"),
             UNCHANGED invited
      PROVE  JobInv'
  <2>1. op'[q].user = v /\ op'[q].job = j /\ pc'[q] = "insertApplicant" /\ unused' = unused
    BY <1>2, <1>a, Ops
  <2>2. RequestOK(q)'
    BY <2>1 DEF RequestOK, Pair, Job, Pairs, Users
  <2>. QED
    BY <1>0, <1>1, <1>2, <2>2, Ops DEF PC
<1>3. ASSUME NEW u \in Updates, u.job \notin unused, Receive(q, u, "loadJob"),
             invited' = IF u.status = "accepted" /\ u.job \in jobs
                          THEN invited \cup ({<<u.user, u.job>>} \ Applicants) ELSE invited
      PROVE  JobInv'
  <2>1. u \in Op /\ u.caller \in Orgs /\ u.user \in Users /\ u.job \in Jobs
    BY Ops
  <2>2. /\ op'[q] = u /\ pc'[q] = "loadJob"
        /\ UNCHANGED <<unused, jobs, application>>
    BY <1>3, <1>a
  <2>3. <<u.user, u.job>> \in Pairs
    BY <2>1 DEF Pairs
  <2>4. invited \subseteq invited' /\ invited' \subseteq Pairs
    BY <1>0, <1>3, <2>3
  <2>5. u.status = "accepted" /\ u.job \in jobs =>
          application[<<u.user, u.job>>] # "none" \/ <<u.user, u.job>> \in invited'
    BY <1>3, <2>3 DEF Applicants
  <2>6. Pair(q)' = <<u.user, u.job>> /\ Job(q)' = u.job
    BY <2>2 DEF Pair, Job
  <2>7. RequestOK(q)'
    BY <1>3, <2>1, <2>2, <2>3, <2>5, <2>6 DEF RequestOK
  <2>. QED
    BY <1>1, <1>3, <2>1, <2>4, <2>7 DEF PC
<1>4. ASSUME NEW j \in Jobs \ unused, Receive(q, Delete(j), "delete"), UNCHANGED invited
      PROVE  JobInv'
  <2>1. op'[q].job = j /\ pc'[q] = "delete"
    BY <1>4, <1>a, Ops
  <2>2. RequestOK(q)'
    BY <2>1 DEF RequestOK, Job
  <2>. QED
    BY <1>0, <1>1, <1>4, <2>2, Ops DEF PC
<1>5. ASSUME Receive(q, Add, "add"), UNCHANGED invited PROVE JobInv'
  <2>1. pc'[q] = "add"
    BY <1>5, <1>a
  <2>2. RequestOK(q)'
    BY <2>1 DEF RequestOK
  <2>. QED
    BY <1>0, <1>1, <1>5, <2>2, Ops DEF PC
<1>. QED
  BY <1>2, <1>3, <1>4, <1>5 DEF Request

\* Statements that only read.
LEMMA ReadStep ==
  ASSUME JobInv, NEW q \in Requests,
         Fail(q) \/ OrgOfJob(q) \/ LoadJob(q) \/ RoomExists(q) \/ GetRoom(q)
  PROVE  JobInv'
<1>. USE DEF ApplyPC, BeforePC, AfterPC
<1>0. /\ op \in [Requests -> Op \cup {NoOp}] /\ room \in [Requests -> Rooms \cup {NoRoom}]
      /\ RequestOK(q) /\ invited \subseteq Pairs
  BY DEF JobInv, TypeOK
<1>1. ASSUME NEW l \in PC, Goto(q, l) \/ Answer(q, "ok") \/ Answer(q, "error"),
             UNCHANGED <<tables, op, accepted, invited>>, room' \in [Requests -> Rooms \cup {NoRoom}],
             \A h \in Requests : h # q => room'[h] = room[h], RequestOK(q)'
      PROVE  JobInv'
  BY <1>0, <1>1, Moves, ReadOnly
<1>2. ASSUME UNCHANGED <<tables, op, accepted, invited>>
      PROVE  /\ Job(q)' = Job(q) /\ Pair(q)' = Pair(q) /\ op'[q].status = op[q].status
             /\ UNCHANGED <<unused, jobs, application, jobOf>>
  BY <1>2 DEF Job, Pair, tables
<1>3. CASE Fail(q)
  <2>1. UNCHANGED <<tables, op, room, accepted, invited, pc>> /\ Answer(q, "error")
    BY <1>3 DEF Fail, Answer
  <2>2. RequestOK(q)'
    BY <1>0, <1>2, <2>1 DEF RequestOK
  <2>3. "idle" \in PC
    BY DEF PC
  <2>. QED
    BY <1>0, <1>1, <2>1, <2>2, <2>3
<1>4. CASE OrgOfJob(q)
  <2>1. /\ UNCHANGED <<tables, op, room, accepted, invited>> /\ Goto(q, "notifyOrg")
        /\ pc[q] = "orgOfJob" /\ pc'[q] = "notifyOrg"
    BY <1>4 DEF OrgOfJob, Goto, At, JobInv, TypeOK
  <2>2. RequestOK(q)'
    BY <1>0, <1>2, <2>1 DEF RequestOK
  <2>3. "notifyOrg" \in PC
    BY DEF PC
  <2>. QED
    BY <1>0, <1>1, <2>1, <2>2, <2>3
<1>5. CASE LoadJob(q)
  <2>1. /\ UNCHANGED <<tables, op, room, accepted, invited>>
        /\ Goto(q, "updateStatus") \/ Answer(q, "ok")
        /\ pc[q] = "loadJob" /\ pc'[q] \in {"loadJob", "updateStatus"}
        /\ pc'[q] = "updateStatus" => op[q].status \in Statuses
    BY <1>5 DEF LoadJob, Goto, Answer, At, JobInv, TypeOK, Known
  <2>2. RequestOK(q)'
    BY <1>0, <1>2, <2>1 DEF RequestOK
  <2>3. "updateStatus" \in PC
    BY DEF PC
  <2>. QED
    BY <1>0, <1>1, <2>1, <2>2, <2>3
<1>6. CASE RoomExists(q)
  <2>1. PICK l \in {"getRoom", "createRoom"} : Goto(q, l)
    BY <1>6 DEF RoomExists
  <2>2. /\ UNCHANGED <<tables, op, room, accepted, invited>>
        /\ pc[q] = "roomExists" /\ pc'[q] = l /\ l \in PC
    BY <1>6, <2>1 DEF RoomExists, Goto, At, JobInv, TypeOK, PC
  <2>3. RequestOK(q)'
    BY <1>0, <1>2, <2>2 DEF RequestOK
  <2>. QED
    BY <1>0, <1>1, <2>1, <2>2, <2>3
<1>7. CASE GetRoom(q)
  <2>1. PICK r \in RoomsOf(Job(q)) : room' = [room EXCEPT ![q] = r]
    BY <1>7 DEF GetRoom
  <2>2. r \in Rooms /\ jobOf[r] = Job(q)
    BY DEF RoomsOf, JobInv, TypeOK
  <2>3. /\ room'[q] = r /\ room' \in [Requests -> Rooms \cup {NoRoom}]
        /\ \A h \in Requests : h # q => room'[h] = room[h]
    BY <1>0, <2>1, <2>2
  <2>4. PICK l \in {"addMember", "notifyVolunteer"} :
          Goto(q, l) /\ (l = "addMember" => op[q].status = "accepted")
    BY <1>7 DEF GetRoom, AfterRoom
  <2>5. /\ UNCHANGED <<tables, op, accepted, invited>>
        /\ pc[q] = "getRoom" /\ pc'[q] = l /\ l \in PC
    BY <1>7, <2>4 DEF GetRoom, Goto, At, JobInv, TypeOK, PC
  <2>6. RequestOK(q)'
    BY <1>0, <1>2, <2>2, <2>3, <2>4, <2>5 DEF RequestOK
  <2>. QED
    BY <1>1, <2>3, <2>4, <2>5, <2>6
<1>. QED
  BY <1>3, <1>4, <1>5, <1>6, <1>7

\* What the other requests rely on survives a write, and so does the invariant,
\* if the writing request and the tables are in order after it.
LEMMA WriteKept ==
  ASSUME JobInv, NEW q \in Requests, UNCHANGED <<op>>, Settled,
         \A h \in Requests : h # q => pc'[h] = pc[h] /\ room'[h] = room[h],
         TypeOK', RequestOK(q)', unused' \cap jobs' = {},
         \A p \in accepted' : application'[p] # "none",
         NothingOutlivesItsJob', MembersWereAccepted'
  PROVE  JobInv'
<1>1. \A h \in Requests : RequestOK(h)'
  BY OtherRequest
<1>. QED
  BY <1>1 DEF JobInv

\* Whoever a request names.
LEMMA Names ==
  ASSUME JobInv, NEW q \in Requests, pc[q] \in ApplyPC \cup BeforePC \cup AfterPC
  PROVE  /\ Pair(q) \in Pairs /\ Job(q) \in Jobs /\ Job(q) \notin unused
         /\ op[q].user \in Users /\ Pair(q)[2] = Job(q) /\ Pair(q)[1] = op[q].user
         /\ Owner[Job(q)] \in Orgs
         /\ pc[q] \in ApplyPC => op[q].user \in Volunteers
         /\ pc[q] \in BeforePC \cup AfterPC => op[q].caller \in Orgs
<1>1. /\ Pair(q) \in Pairs /\ Job(q) \notin unused
      /\ pc[q] \in ApplyPC => op[q].user \in Volunteers
      /\ pc[q] \in BeforePC \cup AfterPC => op[q].caller \in Orgs
  BY DEF JobInv, RequestOK
<1>2. Pair(q)[2] = Job(q) /\ Pair(q)[1] = op[q].user
  BY DEF Pair, Job
<1>3. Job(q) \in Jobs /\ op[q].user \in Users
  BY <1>1, <1>2 DEF Pairs
<1>. QED
  BY <1>1, <1>2, <1>3, JobAssumption

\* INSERT INTO notifications touches nothing that anybody relies on.
LEMMA NotifyStep ==
  ASSUME JobInv, NEW q \in Requests, NotifyOrg(q) \/ NotifyVolunteer(q)
  PROVE  JobInv'
<1>1. /\ pc[q] \in ApplyPC \cup BeforePC \cup AfterPC
      /\ pc[q] = "notifyVolunteer" => op[q].status \in Statuses
      /\ pc[q] \in {"notifyOrg", "notifyVolunteer"}
  BY DEF NotifyOrg, NotifyVolunteer, At, ApplyPC, AfterPC, JobInv, RequestOK
<1>2. /\ UNCHANGED <<unused, jobs, application, rooms, jobOf, members, op, room, accepted, invited, pc>>
      /\ reply' \in [Requests -> {"none", "ok", "error"}]
  <2>1. reply \in [Requests -> {"none", "ok", "error"}]
    BY DEF JobInv, TypeOK
  <2>. QED
    BY <2>1 DEF NotifyOrg, NotifyVolunteer, AppliedLast, Lost, Answer
<1>3. \A u \in Users, s \in Statuses \cup {"applied"} :
        Notification(q, u, s) \in
          [by : Requests, to : Users, job : Jobs, about : Users,
           says : Statuses \cup {"applied"}]
  BY <1>1, Names DEF Notification
<1>4. \/ UNCHANGED notifications
      \/ \E u \in Users, s \in Statuses \cup {"applied"} :
            notifications' = notifications \cup {Notification(q, u, s)}
  <2>1. Owner[Job(q)] \in Users /\ op[q].user \in Users
    BY <1>1, Names DEF Users
  <2>. QED
    BY <1>1, <2>1 DEF NotifyOrg, NotifyVolunteer, At
<1>5. TypeOK'
  BY <1>2, <1>3, <1>4 DEF JobInv, TypeOK
<1>6. RequestOK(q)' /\ Settled
  BY <1>2 DEF RequestOK, Job, Pair, JobInv, Settled
<1>7. NothingOutlivesItsJob' /\ MembersWereAccepted'
  BY <1>2 DEF JobInv, NothingOutlivesItsJob, MembersWereAccepted
<1>. QED
  BY <1>2, <1>5, <1>6, <1>7, WriteKept DEF JobInv

LEMMA InsertApplicantStep ==
  ASSUME JobInv, NEW q \in Requests, InsertApplicant(q)
  PROVE  JobInv'
<1>. USE DEF ApplyPC, BeforePC, AfterPC
<1>1. pc[q] = "insertApplicant" /\ "orgOfJob" \in PC
  BY DEF InsertApplicant, At, PC
<1>2. /\ Pair(q) \in Pairs /\ Pair(q)[2] = Job(q) /\ Job(q) \notin unused
      /\ op[q].user \in Volunteers
  BY <1>1, Names
<1>3. /\ application' = [application EXCEPT ![Pair(q)] = "pending"]
      /\ Job(q) \in jobs
      /\ UNCHANGED <<unused, jobs, rooms, jobOf, members, notifications, op, room, accepted, invited>>
  BY <1>2 DEF InsertApplicant, CanApply
<1>4. /\ pc' \in [Requests -> PC] /\ reply' \in [Requests -> {"none", "ok", "error"}]
      /\ \A h \in Requests : h # q => pc'[h] = pc[h]
      /\ pc'[q] \in {"insertApplicant", "orgOfJob"}
  BY <1>1, Moves DEF InsertApplicant
<1>5. /\ application' \in [Pairs -> Statuses \cup {"none"}]
      /\ \A p \in Pairs : p # Pair(q) => application'[p] = application[p]
      /\ application'[Pair(q)] = "pending"
  BY <1>2, <1>3 DEF JobInv, TypeOK, Statuses
<1>6. TypeOK'
  BY <1>3, <1>4, <1>5 DEF JobInv, TypeOK
<1>7. RequestOK(q)'
  BY <1>2, <1>3, <1>4 DEF RequestOK, Job, Pair
<1>8. Settled
  BY <1>3, <1>5 DEF Settled
<1>9. NothingOutlivesItsJob' /\ MembersWereAccepted'
  BY <1>2, <1>3, <1>5 DEF JobInv, NothingOutlivesItsJob, MembersWereAccepted
<1>10. \A p \in accepted' : application'[p] # "none"
  BY <1>3, <1>5 DEF JobInv, TypeOK
<1>. QED
  BY <1>3, <1>4, <1>6, <1>7, <1>8, <1>9, <1>10, WriteKept DEF JobInv

LEMMA UpdateStatusStep ==
  ASSUME JobInv, NEW q \in Requests, UpdateStatus(q)
  PROVE  JobInv'
<1>. USE DEF ApplyPC, BeforePC, AfterPC
<1>1. pc[q] = "updateStatus" /\ "roomExists" \in PC
  BY DEF UpdateStatus, At, PC
<1>2. /\ Pair(q) \in Pairs /\ Pair(q)[2] = Job(q) /\ Job(q) \notin unused
      /\ op[q].status \in Statuses /\ op[q].status # "none"
      /\ Job(q) \in jobs /\ op[q].status = "accepted" =>
           application[Pair(q)] # "none" \/ Pair(q) \in invited
  BY <1>1, Names DEF JobInv, RequestOK, Statuses
<1>3. UNCHANGED <<unused, jobs, rooms, jobOf, members, notifications, op, room, invited>>
  BY DEF UpdateStatus
<1>4. /\ pc' \in [Requests -> PC] /\ reply' \in [Requests -> {"none", "ok", "error"}]
      /\ \A h \in Requests : h # q => pc'[h] = pc[h]
      /\ pc'[q] \in {"updateStatus", "roomExists"}
  BY <1>1, Moves DEF UpdateStatus
<1>5. /\ application' \in [Pairs -> Statuses \cup {"none"}]
      /\ \A p \in Pairs : application'[p] = "none" <=> application[p] = "none"
      /\ accepted \subseteq accepted' /\ accepted' \subseteq accepted \cup {Pair(q)}
      /\ accepted' # accepted => application[Pair(q)] # "none"
      /\ application[Pair(q)] # "none" /\ op[q].status = "accepted" => Pair(q) \in accepted'
  <2>1. CASE application[Pair(q)] # "none"
    BY <1>2, <2>1 DEF UpdateStatus, JobInv, TypeOK
  <2>2. CASE application[Pair(q)] = "none"
    BY <1>2, <2>2 DEF UpdateStatus, JobInv, TypeOK
  <2>. QED
    BY <2>1, <2>2
<1>6. TypeOK'
  BY <1>2, <1>3, <1>4, <1>5 DEF JobInv, TypeOK
<1>7. RequestOK(q)'
  <2>1. Job(q)' = Job(q) /\ Pair(q)' = Pair(q) /\ op'[q].status = op[q].status
    BY <1>3 DEF Job, Pair
  <2>2. Job(q) \in jobs' /\ op[q].status = "accepted" => application'[Pair(q)] # "none" \/ Pair(q) \in invited'
    BY <1>2, <1>3, <1>5
  <2>3. Job(q) \in jobs' /\ op[q].status = "accepted" => Pair(q) \in accepted' \cup invited'
    BY <1>2, <1>3, <1>5
  <2>4. op[q].caller \in Orgs /\ op'[q].caller = op[q].caller
    BY <1>1, <1>3, Names
  <2>. QED
    BY <1>2, <1>3, <1>4, <2>1, <2>2, <2>3, <2>4 DEF RequestOK
<1>8. Settled
  BY <1>3, <1>5 DEF Settled
<1>9. NothingOutlivesItsJob' /\ MembersWereAccepted'
  BY <1>3, <1>5 DEF JobInv, NothingOutlivesItsJob, MembersWereAccepted
<1>10. \A p \in accepted' : application'[p] # "none"
  BY <1>2, <1>5 DEF JobInv, TypeOK
<1>. QED
  BY <1>3, <1>4, <1>6, <1>7, <1>8, <1>9, <1>10, WriteKept DEF JobInv

LEMMA CreateRoomStep ==
  ASSUME JobInv, NEW q \in Requests, CreateRoom(q)
  PROVE  JobInv'
<1>. USE DEF ApplyPC, BeforePC, AfterPC
<1>1. pc[q] = "createRoom" /\ "addAdmin" \in PC
  BY DEF CreateRoom, At, PC
<1>2. /\ Pair(q) \in Pairs /\ Job(q) \in jobs /\ Job(q) \in Jobs
      /\ RequestOK(q)
  BY <1>1, Names DEF JobInv, CreateRoom, RoomAllowed
<1>3. PICK r \in Rooms : /\ jobOf[r] = NoJob
                         /\ rooms' = rooms \cup {r}
                         /\ jobOf' = [jobOf EXCEPT ![r] = Job(q)]
                         /\ room' = [room EXCEPT ![q] = r]
  BY DEF CreateRoom
<1>4. UNCHANGED <<unused, jobs, application, members, notifications, op, accepted, invited>>
  BY DEF CreateRoom
<1>5. /\ pc' \in [Requests -> PC] /\ reply' \in [Requests -> {"none", "ok", "error"}]
      /\ \A h \in Requests : h # q => pc'[h] = pc[h]
      /\ pc'[q] \in {"createRoom", "addAdmin"}
  BY <1>1, Moves DEF CreateRoom
<1>6. /\ jobOf' \in [Rooms -> Jobs \cup {NoJob}] /\ jobOf'[r] = Job(q)
      /\ \A s \in Rooms : s # r => jobOf'[s] = jobOf[s]
      /\ room' \in [Requests -> Rooms \cup {NoRoom}] /\ room'[q] = r
      /\ \A h \in Requests : h # q => room'[h] = room[h]
  BY <1>2, <1>3 DEF JobInv, TypeOK
<1>7. r \notin rooms
  BY <1>3, JobAssumption DEF JobInv, TypeOK, NothingOutlivesItsJob
<1>8. TypeOK'
  BY <1>3, <1>4, <1>5, <1>6 DEF JobInv, TypeOK
<1>9. RequestOK(q)'
  <2>1. Job(q)' = Job(q) /\ Pair(q)' = Pair(q) /\ op'[q].status = op[q].status
    BY <1>4 DEF Job, Pair
  <2>2. room'[q] \in Rooms /\ jobOf'[room'[q]] = Job(q)
    BY <1>6
  <2>. QED
    BY <1>1, <1>2, <1>4, <1>5, <2>1, <2>2 DEF RequestOK
<1>10. Settled
  BY <1>3, <1>4, <1>6, JobAssumption DEF Settled
<1>11. NothingOutlivesItsJob'
  BY <1>2, <1>3, <1>4, <1>6 DEF JobInv, TypeOK, NothingOutlivesItsJob
<1>12. MembersWereAccepted'
  BY <1>4, <1>6, <1>7 DEF JobInv, TypeOK, NothingOutlivesItsJob, MembersWereAccepted
<1>. QED
  BY <1>4, <1>5, <1>6, <1>8, <1>9, <1>10, <1>11, <1>12, WriteKept DEF JobInv

LEMMA InsertMemberStep ==
  ASSUME JobInv, NEW q \in Requests, AddAdmin(q) \/ AddMember(q)
  PROVE  JobInv'
<1>. USE DEF ApplyPC, BeforePC, AfterPC
<1>1. /\ pc[q] \in {"addAdmin", "addMember"} /\ RequestOK(q)
      /\ "addMember" \in PC /\ "notifyVolunteer" \in PC
  BY DEF AddAdmin, AddMember, At, PC, JobInv
<1>2. /\ Pair(q) \in Pairs /\ Pair(q) = <<op[q].user, Job(q)>>
      /\ op[q].user \in Users /\ op[q].caller \in Users
      /\ room[q] \in Rooms /\ jobOf[room[q]] = Job(q)
  BY <1>1, Names DEF RequestOK, Pair, Job, Users
<1>3. PICK u \in Users, b \in BOOLEAN :
        /\ room[q] \in rooms /\ members' = members \cup {<<u, room[q], b>>}
        /\ ~b => u = op[q].user /\ pc[q] = "addMember"
  BY <1>2 DEF AddAdmin, AddMember, InsertMember, At
<1>4. UNCHANGED <<unused, jobs, application, rooms, jobOf, notifications, op, room, accepted, invited>>
  BY DEF AddAdmin, AddMember
<1>5. PICK l \in {"addMember", "notifyVolunteer"} :
        Applied(q, l) /\ (l = "addMember" => op[q].status = "accepted")
  BY DEF AddAdmin, AddMember, AfterRoom
<1>6. /\ pc' \in [Requests -> PC] /\ reply' \in [Requests -> {"none", "ok", "error"}]
      /\ \A h \in Requests : h # q => pc'[h] = pc[h]
      /\ pc'[q] \in {l, pc[q]}
  BY <1>1, <1>5, Moves
<1>7. TypeOK'
  BY <1>2, <1>3, <1>4, <1>6 DEF JobInv, TypeOK
<1>8. RequestOK(q)' /\ Settled
  BY <1>1, <1>4, <1>5, <1>6 DEF RequestOK, Job, Pair, Settled
<1>9. NothingOutlivesItsJob'
  BY <1>3, <1>4 DEF JobInv, NothingOutlivesItsJob
<1>10. MembersWereAccepted'
  <2>1. jobOf[room[q]] \in jobs
    BY <1>3 DEF JobInv, NothingOutlivesItsJob
  <2>2. ~b => <<u, jobOf[room[q]]>> \in accepted \cup invited
    BY <1>1, <1>2, <1>3, <2>1 DEF RequestOK, Job, Pair
  <2>. QED
    BY <1>3, <1>4, <2>2 DEF JobInv, MembersWereAccepted
<1>. QED
  BY <1>4, <1>6, <1>7, <1>8, <1>9, <1>10, WriteKept DEF JobInv

LEMMA InsertJobStep ==
  ASSUME JobInv, NEW q \in Requests, InsertJob(q)
  PROVE  JobInv'
<1>. USE DEF ApplyPC, BeforePC, AfterPC
<1>1. PICK j \in unused : unused' = unused \ {j} /\ jobs' = jobs \cup {j}
  BY DEF InsertJob
<1>2. UNCHANGED <<application, rooms, jobOf, members, notifications, op, room, accepted, invited>>
  BY DEF InsertJob
<1>3. pc' = pc /\ pc[q] = "add" /\ reply' \in [Requests -> {"none", "ok", "error"}]
  BY DEF InsertJob, At, AppliedLast, Lost, Answer, JobInv, TypeOK
<1>4. TypeOK' /\ unused' \cap jobs' = {}
  BY <1>1, <1>2, <1>3 DEF JobInv, TypeOK
<1>5. RequestOK(q)'
  BY <1>3 DEF RequestOK
<1>6. Settled
  BY <1>1, <1>2 DEF Settled
<1>7. NothingOutlivesItsJob' /\ MembersWereAccepted'
  BY <1>1, <1>2 DEF JobInv, NothingOutlivesItsJob, MembersWereAccepted
<1>. QED
  BY <1>2, <1>3, <1>4, <1>5, <1>6, <1>7, WriteKept DEF JobInv

\* The cascade takes the job's rows together, so whoever still relies on them
\* finds the job gone too.
LEMMA DeleteJobStep ==
  ASSUME JobInv, NEW q \in Requests, DeleteJob(q)
  PROVE  JobInv'
<1>. USE DEF ApplyPC, BeforePC, AfterPC
<1>1. /\ jobs' = jobs \ {Job(q)} /\ Job(q) \in jobs
      /\ application' = [p \in Pairs |-> IF p[2] = Job(q) THEN "none" ELSE application[p]]
      /\ rooms' = rooms \ RoomsOf(Job(q))
      /\ members' = {m \in members : m[2] \notin RoomsOf(Job(q))}
      /\ accepted' = {p \in accepted : p[2] # Job(q)}
      /\ invited' = {p \in invited : p[2] # Job(q)}
      /\ UNCHANGED <<unused, jobOf, notifications, op, room>>
  BY DEF DeleteJob, Cascade
<1>2. pc' = pc /\ pc[q] = "delete" /\ reply' \in [Requests -> {"none", "ok", "error"}]
  BY DEF DeleteJob, At, AppliedLast, Lost, Answer, JobInv, TypeOK
<1>3. TypeOK'
  <2>1. application' \in [Pairs -> Statuses \cup {"none"}]
    BY <1>1 DEF JobInv, TypeOK
  <2>2. members' \subseteq members /\ rooms' \subseteq rooms /\ accepted' \subseteq accepted /\ invited' \subseteq invited
    BY <1>1
  <2>. QED
    BY <1>1, <1>2, <2>1, <2>2 DEF JobInv, TypeOK
<1>4. RequestOK(q)'
  BY <1>1, <1>2 DEF RequestOK, Job, JobInv
<1>5. Settled
  BY <1>1 DEF Settled
<1>6. NothingOutlivesItsJob'
  BY <1>1 DEF JobInv, TypeOK, NothingOutlivesItsJob, RoomsOf
<1>7. MembersWereAccepted'
  <2>1. ASSUME NEW m \in members', ~m[3]
        PROVE  <<m[1], jobOf[m[2]]>> \in accepted' \cup invited'
    <3>1. m \in members /\ m[2] \in rooms /\ m[2] \notin RoomsOf(Job(q))
      BY <1>1 DEF JobInv, NothingOutlivesItsJob
    <3>2. jobOf[m[2]] # Job(q) /\ <<m[1], jobOf[m[2]]>> \in accepted \cup invited
      BY <2>1, <3>1 DEF RoomsOf, JobInv, MembersWereAccepted
    <3>. QED
      BY <1>1, <3>2
  <2>. QED
    BY <1>1, <2>1 DEF MembersWereAccepted
<1>8. \A p \in accepted' : application'[p] # "none"
  BY <1>1 DEF JobInv, TypeOK
<1>. QED
  BY <1>1, <1>2, <1>3, <1>4, <1>5, <1>6, <1>7, <1>8, WriteKept DEF JobInv

LEMMA StepJob ==
  ASSUME JobInv, [Next]_vars
  PROVE  JobInv'
<1>1. CASE Next
  BY <1>1, RequestStep, ReadStep, NotifyStep, InsertApplicantStep, UpdateStatusStep,
     CreateRoomStep, InsertMemberStep, InsertJobStep, DeleteJobStep DEF Next
<1>2. CASE UNCHANGED vars
  <2>1. UNCHANGED <<unused, jobs, application, rooms, jobOf, members, notifications,
                    op, pc, reply, room, accepted, invited>>
    BY <1>2 DEF vars, tables
  <2>2. TypeOK' /\ NothingOutlivesItsJob' /\ MembersWereAccepted'
    BY <2>1 DEF JobInv, TypeOK, NothingOutlivesItsJob, MembersWereAccepted
  <2>3. \A q \in Requests : RequestOK(q)'
    BY <2>1 DEF JobInv, RequestOK, Job, Pair
  <2>. QED
    BY <2>1, <2>2, <2>3 DEF JobInv
<1>. QED
  BY <1>1, <1>2

\* The inductive invariant of the job service.
THEOREM JobInvariant == Spec => []JobInv
BY InitJob, StepJob, PTL DEF Spec

\* Requests running into the deletion of their job leave no orphan.
THEOREM NoOrphans == Spec => []NothingOutlivesItsJob
<1>1. JobInv => NothingOutlivesItsJob
  BY DEF JobInv
<1>. QED
  BY <1>1, JobInvariant, PTL

\* Nobody but its admin sits in a job's chat without having been accepted for that job,
\* or having been asked in although they had not applied, whatever requests overlapped,
\* failed or were repeated.
THEOREM OnlyAcceptedMembers == Spec => []MembersWereAccepted
<1>1. JobInv => MembersWereAccepted
  BY DEF JobInv
<1>. QED
  BY <1>1, JobInvariant, PTL
-----------------------------------------------------------------------------
(* What the organization and the volunteers are told.                      *)

\* One statement of one request.
StepOf(q) ==
  \/ Request(q) \/ Fail(q)
  \/ InsertApplicant(q) \/ OrgOfJob(q) \/ NotifyOrg(q)
  \/ LoadJob(q) \/ UpdateStatus(q) \/ RoomExists(q) \/ CreateRoom(q) \/ GetRoom(q)
  \/ AddAdmin(q) \/ AddMember(q) \/ NotifyVolunteer(q)
  \/ InsertJob(q) \/ DeleteJob(q)

\* It leaves the other requests where they are.
Apart(q) ==
  \A h \in Requests : h # q =>
    pc'[h] = pc[h] /\ op'[h] = op[h] /\ reply'[h] = reply[h] /\ room'[h] = room[h]

\* And a job's rooms and members, for as long as the job exists.
RoomsSettled ==
  /\ \A r \in rooms : jobOf'[r] = jobOf[r] /\ (jobOf[r] \in jobs' => r \in rooms')
  /\ \A m \in members : jobOf[m[2]] \in jobs' => m \in members'

LEMMA StepApart ==
  ASSUME JobInv, NEW q \in Requests, StepOf(q)
  PROVE  Apart(q)
<1>1. /\ op \in [Requests -> Op \cup {NoOp}] /\ room \in [Requests -> Rooms \cup {NoRoom}]
      /\ pc \in [Requests -> PC] /\ reply \in [Requests -> {"none", "ok", "error"}]
  BY DEF JobInv, TypeOK
<1>. USE <1>1 DEF Apart, Goto, Answer, Applied, AppliedLast, Lost
<1>2. CASE Request(q)
  BY <1>2 DEF Request, Receive
<1>3. CASE Fail(q) \/ OrgOfJob(q) \/ LoadJob(q) \/ RoomExists(q) \/ GetRoom(q)
  BY <1>3 DEF Fail, OrgOfJob, LoadJob, RoomExists, GetRoom
<1>4. CASE InsertApplicant(q) \/ NotifyOrg(q) \/ UpdateStatus(q) \/ CreateRoom(q)
  BY <1>4 DEF InsertApplicant, NotifyOrg, UpdateStatus, CreateRoom
<1>5. CASE AddAdmin(q) \/ AddMember(q) \/ NotifyVolunteer(q) \/ InsertJob(q) \/ DeleteJob(q)
  BY <1>5 DEF AddAdmin, AddMember, NotifyVolunteer, InsertJob, DeleteJob
<1>. QED
  BY <1>2, <1>3, <1>4, <1>5 DEF StepOf

LEMMA StepSettles ==
  ASSUME JobInv, NEW q \in Requests, StepOf(q)
  PROVE  Settled /\ RoomsSettled
<1>. USE DEF Settled, RoomsSettled
<1>1. ASSUME UNCHANGED <<unused, jobs, application, rooms, jobOf, members, accepted, invited>>
      PROVE  Settled /\ RoomsSettled
  BY <1>1
<1>2. CASE Request(q)
  <2>1. UNCHANGED <<unused, jobs, application, rooms, jobOf, members, accepted>> /\ invited \subseteq invited'
    BY <1>2 DEF Request, Receive, tables
  <2>. QED
    BY <2>1
<1>3. CASE Fail(q) \/ OrgOfJob(q) \/ LoadJob(q) \/ RoomExists(q) \/ GetRoom(q)
           \/ NotifyOrg(q) \/ NotifyVolunteer(q)
  BY <1>1, <1>3 DEF Fail, OrgOfJob, LoadJob, RoomExists, GetRoom, NotifyOrg, NotifyVolunteer, tables
<1>4. CASE InsertApplicant(q) \/ UpdateStatus(q)
  <2>1. UNCHANGED <<unused, jobs, rooms, jobOf, members, invited>> /\ accepted \subseteq accepted'
    BY <1>4 DEF InsertApplicant, UpdateStatus
  <2>2. pc[q] \in ApplyPC \cup BeforePC
    BY <1>4 DEF InsertApplicant, UpdateStatus, At, ApplyPC, BeforePC
  <2>3. (Pair(q) \in Pairs /\ op[q].status # "none") \/ pc[q] = "insertApplicant"
    BY <1>4, <2>2, Names DEF UpdateStatus, InsertApplicant, At, JobInv, RequestOK, Statuses
  <2>4. \A p \in Pairs : application[p] # "none" => application'[p] # "none"
    BY <1>4, <2>3 DEF InsertApplicant, UpdateStatus, At, JobInv, TypeOK
  <2>. QED
    BY <2>1, <2>4
<1>5. CASE CreateRoom(q)
  <2>1. PICK r \in Rooms : /\ jobOf[r] = NoJob /\ rooms' = rooms \cup {r}
                           /\ jobOf' = [jobOf EXCEPT ![r] = Job(q)]
    BY <1>5 DEF CreateRoom
  <2>2. UNCHANGED <<unused, jobs, application, members, accepted, invited>>
    BY <1>5 DEF CreateRoom
  <2>3. NoJob \notin Jobs /\ \A s \in rooms : s \in Rooms /\ jobOf[s] \in Jobs /\ s # r
    BY <2>1, JobAssumption DEF JobInv, TypeOK, NothingOutlivesItsJob
  <2>. QED
    BY <2>1, <2>2, <2>3 DEF JobInv, TypeOK
<1>6. CASE AddAdmin(q) \/ AddMember(q)
  BY <1>6 DEF AddAdmin, AddMember, InsertMember
<1>7. CASE InsertJob(q)
  BY <1>7 DEF InsertJob
<1>8. CASE DeleteJob(q)
  BY <1>8 DEF DeleteJob, Cascade, RoomsOf, JobInv, NothingOutlivesItsJob
<1>. QED
  BY <1>2, <1>3, <1>4, <1>5, <1>6, <1>7, <1>8 DEF StepOf

LEMMA Fields ==
  \A q, u, s : /\ Notification(q, u, s).by = q /\ Notification(q, u, s).to = u
               /\ Notification(q, u, s).job = Job(q) /\ Notification(q, u, s).about = op[q].user
               /\ Notification(q, u, s).says = s
  BY DEF Notification

\* Whoever has applied, and nobody else tells of it.
LEMMA ApplicationsStep ==
  ASSUME JobInv, StoryInv, NEW q \in Requests, StepOf(q)
  PROVE  ApplicationsTold'
<1>0. /\ op \in [Requests -> Op \cup {NoOp}] /\ pc \in [Requests -> PC] /\ ApplicationsTold
      /\ \A h \in Requests : HasApplied(h) =>
           Pair(h) \in Pairs /\ Pair(h)[2] = Job(h) /\ Job(h) \in Jobs /\ Job(h) \notin unused
      /\ \A n \in notifications : n.by \in Requests
  BY Names DEF JobInv, TypeOK, HasApplied, ApplyPC, StoryInv
<1>. USE <1>0 DEF HasApplied
<1>1. Settled /\ Apart(q)
  BY StepSettles, StepApart
<1>2. ASSUME \A h \in Requests : /\ HasApplied(h)' <=> HasApplied(h)
                                 /\ HasApplied(h) => op'[h] = op[h],
             \A n \in notifications' : n \in notifications \/ n.says # "applied"
      PROVE  ApplicationsTold'
  <2>1. \A h \in Requests : HasApplied(h) => Pair(h)' = Pair(h) /\ Job(h)' = Job(h)
    BY <1>2 DEF Pair, Job
  <2>2. \A h \in Requests : HasApplied(h)' /\ Job(h)' \in jobs' => application'[Pair(h)'] # "none"
    BY <1>1, <1>2, <2>1 DEF ApplicationsTold, Settled
  <2>. QED
    BY <1>2, <2>1, <2>2 DEF ApplicationsTold
<1>3. CASE Request(q)
  <2>1. UNCHANGED notifications /\ ~HasApplied(q) /\ ~HasApplied(q)'
    BY <1>3 DEF Request, Receive, At, Goto, tables
  <2>. QED
    BY <1>1, <1>2, <2>1 DEF Apart
<1>4. CASE \/ Fail(q) \/ OrgOfJob(q) \/ LoadJob(q) \/ UpdateStatus(q) \/ RoomExists(q)
           \/ CreateRoom(q) \/ GetRoom(q) \/ AddAdmin(q) \/ AddMember(q) \/ InsertJob(q) \/ DeleteJob(q)
  <2>1. UNCHANGED <<notifications, op>>
    BY <1>4 DEF Fail, OrgOfJob, LoadJob, UpdateStatus, RoomExists, CreateRoom, GetRoom,
                AddAdmin, AddMember, InsertJob, DeleteJob, tables
  <2>2. HasApplied(q)' <=> HasApplied(q)
    BY <1>4 DEF Fail, OrgOfJob, LoadJob, UpdateStatus, RoomExists, CreateRoom, GetRoom, AddAdmin,
                AddMember, InsertJob, DeleteJob, AfterRoom, At, Goto, Answer, Applied, AppliedLast, Lost
  <2>. QED
    BY <1>1, <1>2, <2>1, <2>2 DEF Apart
<1>5. CASE NotifyVolunteer(q)
  <2>1. UNCHANGED <<pc, op>> /\ op[q].status # "applied"
    BY <1>5 DEF NotifyVolunteer, At, Answer, JobInv, RequestOK, AfterPC, Statuses
  <2>2. \A n \in notifications' : n \in notifications \/ n.says # "applied"
    BY <1>5, <2>1, Fields DEF NotifyVolunteer
  <2>. QED
    BY <1>2, <2>1, <2>2
<1>6. CASE NotifyOrg(q)
  <2>1. UNCHANGED <<pc, op, jobs, application>> /\ pc[q] = "notifyOrg"
    BY <1>6 DEF NotifyOrg, At, AppliedLast, Lost, Answer
  <2>2. PICK n : notifications' = notifications \cup {n}
                 /\ n.by = q /\ n.about = op[q].user /\ n.job = Job(q)
    BY <1>6, Fields DEF NotifyOrg
  <2>3. Pair(q) = <<n.about, n.job>>
    BY <2>2 DEF Pair, Job
  <2>. QED
    BY <2>1, <2>2, <2>3 DEF ApplicationsTold, Pair, Job
<1>7. CASE InsertApplicant(q)
  <2>1. /\ pc[q] = "insertApplicant" /\ Pair(q)[2] \in jobs /\ application[Pair(q)] = "none"
        /\ application' = [application EXCEPT ![Pair(q)] = "pending"]
        /\ UNCHANGED <<jobs, notifications, op>>
    BY <1>7 DEF InsertApplicant, At, CanApply
  <2>2. Pair(q) \in Pairs /\ Pair(q)[2] = Job(q)
    BY <2>1, Names DEF ApplyPC
  <2>3. application'[Pair(q)] = "pending" /\ \A p \in Pairs : application[p] # "none" => application'[p] # "none"
    BY <2>1, <2>2 DEF JobInv, TypeOK
  <2>4. \A h \in Requests : h # q => (HasApplied(h)' <=> HasApplied(h)) /\ (HasApplied(h) => Pair(h) # Pair(q))
    BY <1>1, <2>1, <2>2 DEF Apart, ApplicationsTold
  <2>5. \A h \in Requests : Pair(h)' = Pair(h) /\ Job(h)' = Job(h)
    BY <2>1 DEF Pair, Job
  <2>6. \A h \in Requests : HasApplied(h)' /\ Job(h)' \in jobs' => application'[Pair(h)'] # "none"
    BY <2>1, <2>3, <2>4, <2>5 DEF ApplicationsTold
  <2>7. \A g, h \in Requests : HasApplied(g)' /\ HasApplied(h)' /\ Pair(g)' = Pair(h)' => g = h
    BY <2>4, <2>5 DEF ApplicationsTold
  <2>8. \A n \in notifications' : n.says = "applied" => HasApplied(n.by)' /\ Pair(n.by)' = <<n.about, n.job>>
    <3>. SUFFICES ASSUME NEW n \in notifications, n.says = "applied"
                  PROVE  HasApplied(n.by)' /\ Pair(n.by)' = <<n.about, n.job>>
      BY <2>1
    <3>1. n.by \in Requests /\ HasApplied(n.by) /\ Pair(n.by) = <<n.about, n.job>> /\ n.by # q
      BY <2>1 DEF ApplicationsTold
    <3>. QED
      BY <2>4, <2>5, <3>1
  <2>. QED
    BY <2>6, <2>7, <2>8 DEF ApplicationsTold
<1>. QED
  BY <1>3, <1>4, <1>5, <1>6, <1>7 DEF StepOf

\* A request comes to its congratulation by AddMember, and then waits for nothing but
\* the deletion of the job.
LEMMA CongratulationsStep ==
  ASSUME JobInv, StoryInv, NEW q \in Requests, StepOf(q)
  PROVE  CongratulationsHold'
<1>0. /\ CongratulationsHold /\ TypeOK /\ RequestOK(q)
  BY DEF JobInv, StoryInv
<1>1. Settled /\ RoomsSettled /\ Apart(q)
  BY StepSettles, StepApart
<1>2. ASSUME NEW j \in Jobs, j \notin unused, j \in jobs', NEW u, NEW r \in RoomsOf(j), <<u, r, FALSE>> \in members
      PROVE  j \in jobs /\ r \in RoomsOf(j)' /\ <<u, r, FALSE>> \in members'
  <2>1. r \in rooms /\ jobOf[r] = j /\ <<u, r, FALSE>>[2] = r
    BY <1>2 DEF RoomsOf
  <2>2. r \in rooms' /\ jobOf'[r] = j /\ <<u, r, FALSE>> \in members'
    BY <1>1, <1>2, <2>1 DEF RoomsSettled
  <2>. QED
    BY <1>1, <1>2, <2>2 DEF Settled, RoomsOf
<1>3. ASSUME NEW h \in Requests, h # q,
             (pc[h] = "notifyVolunteer" /\ op[h].status = "accepted" /\ Job(h) \in jobs)'
      PROVE  (room[h] \in RoomsOf(Job(h)) /\ <<op[h].user, room[h], FALSE>> \in members)'
  <2>1. pc[h] = "notifyVolunteer" /\ op[h].status = "accepted" /\ Job(h)' = Job(h)
        /\ room'[h] = room[h] /\ op'[h] = op[h] /\ Job(h) \in jobs'
    BY <1>1, <1>3 DEF Apart, Job
  <2>2. Job(h) \in Jobs /\ Job(h) \notin unused
    BY <2>1, Names DEF AfterPC
  <2>3. Job(h) \in jobs
    BY <1>1, <2>1, <2>2 DEF Settled
  <2>4. room[h] \in RoomsOf(Job(h)) /\ <<op[h].user, room[h], FALSE>> \in members
    BY <1>0, <2>1, <2>3 DEF CongratulationsHold
  <2>. QED
    BY <1>2, <2>1, <2>2, <2>4
<1>4. ASSUME NEW n \in notifications
      PROVE  /\ n.job \notin unused'
             /\ n.says = "accepted" /\ n.job \in jobs' =>
                  \E r \in RoomsOf(n.job)' : <<n.to, r, FALSE>> \in members'
  <2>1. n.job \in Jobs /\ n.job \notin unused
    BY <1>0 DEF TypeOK, CongratulationsHold
  <2>2. n.job \notin unused'
    BY <1>1, <2>1 DEF Settled
  <2>3. ASSUME n.says = "accepted", n.job \in jobs'
        PROVE  \E r \in RoomsOf(n.job)' : <<n.to, r, FALSE>> \in members'
    <3>1. n.job \in jobs
      BY <1>1, <2>1, <2>3 DEF Settled
    <3>2. PICK r \in RoomsOf(n.job) : <<n.to, r, FALSE>> \in members
      BY <1>0, <2>3, <3>1 DEF CongratulationsHold, CongratulatedCanChat
    <3>. QED
      BY <1>2, <2>1, <2>3, <3>2
  <2>. QED
    BY <2>2, <2>3
<1>5. ASSUME \A n \in notifications' : n \in notifications,
             (pc[q] = "notifyVolunteer" /\ op[q].status = "accepted" /\ Job(q) \in jobs)'
               => (room[q] \in RoomsOf(Job(q)) /\ <<op[q].user, room[q], FALSE>> \in members)'
      PROVE  CongratulationsHold'
  BY <1>3, <1>4, <1>5 DEF CongratulationsHold, CongratulatedCanChat
<1>6. CASE \/ Fail(q) \/ OrgOfJob(q) \/ NotifyOrg(q) \/ LoadJob(q) \/ UpdateStatus(q) \/ RoomExists(q)
           \/ CreateRoom(q) \/ InsertApplicant(q) \/ InsertJob(q) \/ DeleteJob(q) \/ Request(q)
  <2>1. pc'[q] # "notifyVolunteer"
    BY <1>0, <1>6
    DEF TypeOK, Fail, OrgOfJob, NotifyOrg, LoadJob, UpdateStatus, RoomExists, CreateRoom, InsertApplicant,
        InsertJob, DeleteJob, Request, Receive, At, Goto, Answer, Applied, AppliedLast, Lost
  <2>2. CASE ~NotifyOrg(q)
    <3>1. UNCHANGED notifications
      BY <1>6, <2>2
      DEF Fail, OrgOfJob, LoadJob, UpdateStatus, RoomExists, CreateRoom, InsertApplicant,
          InsertJob, DeleteJob, Request, Receive, tables
    <3>. QED
      BY <1>5, <2>1, <3>1
  <2>3. CASE NotifyOrg(q)
    <3>1. /\ UNCHANGED <<unused, jobs, rooms, jobOf, members>>
          /\ notifications' = notifications \cup {Notification(q, Owner[Job(q)], "applied")}
      BY <2>3 DEF NotifyOrg
    <3>2. Job(q) \notin unused
      BY <2>3, Names DEF NotifyOrg, At, ApplyPC
    <3>3. \A n \in notifications' : n \in notifications \/ (n.job = Job(q) /\ n.says = "applied")
      BY <3>1, Fields
    <3>. QED
      BY <1>3, <1>4, <2>1, <3>1, <3>2, <3>3 DEF CongratulationsHold, CongratulatedCanChat
  <2>. QED
    BY <2>2, <2>3
<1>7. CASE GetRoom(q) \/ AddAdmin(q)
  <2>1. UNCHANGED <<notifications, op>>
    BY <1>7 DEF GetRoom, AddAdmin, tables
  <2>2. pc'[q] = "notifyVolunteer" => op[q].status # "accepted"
    BY <1>0, <1>7 DEF TypeOK, GetRoom, AddAdmin, AfterRoom, At, Goto, Answer, Applied, Lost
  <2>. QED
    BY <1>5, <2>1, <2>2
<1>8. CASE AddMember(q)
  <2>1. /\ pc[q] = "addMember" /\ room[q] \in rooms
        /\ members' = members \cup {<<op[q].user, room[q], FALSE>>}
        /\ UNCHANGED <<notifications, op, room, rooms, jobOf>>
    BY <1>8 DEF AddMember, InsertMember, At
  <2>2. jobOf[room[q]] = Job(q)
    BY <1>0, <2>1 DEF RequestOK
  <2>. QED
    BY <1>5, <2>1, <2>2 DEF RoomsOf, Job
<1>9. CASE NotifyVolunteer(q)
  <2>1. /\ pc[q] = "notifyVolunteer" /\ UNCHANGED <<unused, jobs, rooms, jobOf, members, op, room, pc>>
        /\ \/ notifications' = notifications \cup {Notification(q, op[q].user, op[q].status)}
           \/ UNCHANGED notifications
    BY <1>9 DEF NotifyVolunteer, At, Answer
  <2>2. Job(q) \notin unused
    BY <2>1, Names DEF AfterPC
  <2>3. op[q].status = "accepted" /\ Job(q) \in jobs =>
          room[q] \in RoomsOf(Job(q)) /\ <<op[q].user, room[q], FALSE>> \in members
    BY <1>0, <2>1 DEF CongratulationsHold
  <2>4. \A n \in notifications' :
          n \in notifications \/ (n.job = Job(q) /\ n.to = op[q].user /\ n.says = op[q].status)
    BY <2>1, Fields
  <2>5. RoomsOf(Job(q))' = RoomsOf(Job(q)) /\ Job(q)' = Job(q)
    BY <2>1 DEF RoomsOf, Job
  <2>6. \A n \in notifications' : n.job \notin unused'
    BY <1>0, <2>1, <2>2, <2>4 DEF CongratulationsHold
  <2>7. CongratulatedCanChat'
    <3>. SUFFICES ASSUME NEW n \in notifications', n.says = "accepted", n.job \in jobs'
                  PROVE  \E r \in RoomsOf(n.job)' : <<n.to, r, FALSE>> \in members'
      BY DEF CongratulatedCanChat
    <3>1. CASE n \in notifications
      BY <1>4, <3>1
    <3>2. CASE n \notin notifications
      BY <2>1, <2>3, <2>4, <2>5, <3>2
    <3>. QED
      BY <3>1, <3>2
  <2>. QED
    BY <1>3, <2>1, <2>3, <2>5, <2>6, <2>7 DEF CongratulationsHold
<1>. QED
  BY <1>6, <1>7, <1>8, <1>9 DEF StepOf

\* A room gets its organization from the request that made it, unless that ends first.
LEMMA RoomsStep ==
  ASSUME JobInv, StoryInv, NEW q \in Requests, StepOf(q)
  PROVE  RoomsTraced'
<1>0. /\ RoomsTraced /\ TypeOK /\ NoRoom \notin Rooms
  BY JobAssumption DEF JobInv, StoryInv
<1>. USE <1>0
<1>1. Apart(q)
  BY StepApart
<1>2. ASSUME reply'[q] = "none" /\ pc'[q] \notin {"addAdmin", "addMember", "notifyVolunteer"} => room'[q] = NoRoom,
             AdminUnlessInterrupted'
      PROVE  RoomsTraced'
  BY <1>1, <1>2 DEF RoomsTraced, Apart
<1>3. ASSUME rooms' \subseteq rooms,
             \A m \in members : m[2] \in rooms' => m \in members',
             \A r \in rooms' : room[q] = r /\ pc[q] \in {"createRoom", "addAdmin"} =>
               \/ room'[q] = r /\ pc'[q] \in {"createRoom", "addAdmin"}
               \/ \E u \in Orgs : <<u, r, TRUE>> \in members'
      PROVE  AdminUnlessInterrupted'
  <2>. SUFFICES ASSUME NEW r \in rooms'
                PROVE  \/ \E u \in Orgs : <<u, r, TRUE>> \in members'
                       \/ \E h \in Requests : room'[h] = r /\ pc'[h] \in {"createRoom", "addAdmin"}
    BY DEF AdminUnlessInterrupted
  <2>1. CASE \E u \in Orgs : <<u, r, TRUE>> \in members
    BY <1>3, <2>1
  <2>2. ASSUME NEW h \in Requests, room[h] = r, pc[h] \in {"createRoom", "addAdmin"}
        PROVE  \/ \E u \in Orgs : <<u, r, TRUE>> \in members'
               \/ \E g \in Requests : room'[g] = r /\ pc'[g] \in {"createRoom", "addAdmin"}
    BY <1>1, <1>3, <2>2 DEF Apart
  <2>. QED
    BY <1>3, <2>1, <2>2 DEF RoomsTraced, AdminUnlessInterrupted
<1>4. CASE Request(q)
  <2>1. /\ UNCHANGED <<rooms, members, room, reply>> /\ pc[q] = "idle" /\ reply[q] = "none"
        /\ pc'[q] \in {"insertApplicant", "loadJob", "delete", "add"}
    BY <1>4 DEF TypeOK, Request, Receive, At, Goto, tables
  <2>2. room'[q] = NoRoom
    BY <2>1 DEF RoomsTraced
  <2>. QED
    BY <1>2, <1>3, <2>1, <2>2
<1>5. CASE \/ Fail(q) \/ OrgOfJob(q) \/ LoadJob(q) \/ UpdateStatus(q) \/ RoomExists(q)
           \/ InsertApplicant(q) \/ InsertJob(q) \/ NotifyOrg(q) \/ NotifyVolunteer(q)
  <2>1. UNCHANGED <<rooms, members, room>>
    BY <1>5 DEF Fail, OrgOfJob, LoadJob, UpdateStatus, RoomExists, InsertApplicant, InsertJob,
                NotifyOrg, NotifyVolunteer, tables
  <2>2. /\ pc[q] \in {"createRoom", "addAdmin"} => pc'[q] = pc[q]
        /\ pc'[q] \notin {"addAdmin", "addMember", "notifyVolunteer"} =>
             pc[q] \notin {"addAdmin", "addMember", "notifyVolunteer"}
        /\ reply'[q] = "none" => reply[q] = "none"
    BY <1>5 DEF TypeOK, Fail, OrgOfJob, LoadJob, UpdateStatus, RoomExists, InsertApplicant, InsertJob,
                NotifyOrg, NotifyVolunteer, Active, At, Goto, Answer, Applied, AppliedLast, Lost
  <2>. QED
    BY <1>2, <1>3, <2>1, <2>2 DEF RoomsTraced
<1>6. CASE DeleteJob(q)
  <2>1. /\ rooms' = rooms \ RoomsOf(Job(q)) /\ members' = {m \in members : m[2] \notin RoomsOf(Job(q))}
        /\ UNCHANGED <<room, pc>> /\ pc[q] = "delete"
    BY <1>6 DEF DeleteJob, Cascade, At, Answer, AppliedLast, Lost
  <2>2. room[q] = NoRoom
    BY <1>6 DEF DeleteJob, At, RoomsTraced
  <2>. QED
    BY <1>2, <1>3, <2>1, <2>2
<1>7. CASE CreateRoom(q)
  <2>1. PICK r \in Rooms : rooms' = rooms \cup {r} /\ room' = [room EXCEPT ![q] = r]
    BY <1>7 DEF CreateRoom
  <2>2. /\ UNCHANGED members /\ room[q] = NoRoom /\ room'[q] = r
        /\ pc'[q] \in {"createRoom", "addAdmin"} /\ (pc'[q] = "createRoom" => reply'[q] # "none")
    BY <1>7, <2>1 DEF TypeOK, CreateRoom, At, Goto, Answer, Applied, Lost, RoomsTraced
  <2>3. AdminUnlessInterrupted'
    <3>. SUFFICES ASSUME NEW s \in rooms'
                  PROVE  \/ \E u \in Orgs : <<u, s, TRUE>> \in members'
                         \/ \E h \in Requests : room'[h] = s /\ pc'[h] \in {"createRoom", "addAdmin"}
      BY DEF AdminUnlessInterrupted
    <3>1. CASE s = r
      BY <2>2, <3>1
    <3>2. CASE s # r
      <4>1. s \in rooms /\ s # NoRoom
        BY <2>1, <3>2 DEF TypeOK
      <4>. QED
        BY <1>1, <2>2, <4>1 DEF RoomsTraced, AdminUnlessInterrupted, Apart
    <3>. QED
      BY <3>1, <3>2
  <2>. QED
    BY <1>2, <2>2, <2>3
<1>8. CASE GetRoom(q)
  <2>1. /\ UNCHANGED <<rooms, members>> /\ pc[q] = "getRoom"
        /\ pc'[q] \in {"addMember", "notifyVolunteer"}
    BY <1>8 DEF TypeOK, GetRoom, AfterRoom, At, Goto, tables
  <2>. QED
    BY <1>2, <1>3, <2>1
<1>9. CASE AddAdmin(q)
  <2>1. /\ UNCHANGED <<rooms, room>> /\ members' = members \cup {<<op[q].caller, room[q], TRUE>>}
        /\ pc[q] = "addAdmin" /\ pc'[q] \in {"addAdmin", "addMember", "notifyVolunteer"}
    BY <1>9 DEF TypeOK, AddAdmin, InsertMember, AfterRoom, At, Goto, Answer, Applied, Lost
  <2>2. op[q].caller \in Orgs
    BY <2>1, Names DEF AfterPC
  <2>. QED
    BY <1>2, <1>3, <2>1, <2>2
<1>10. CASE AddMember(q)
  <2>1. /\ UNCHANGED <<rooms, room>> /\ members \subseteq members'
        /\ pc[q] = "addMember" /\ pc'[q] \in {"addMember", "notifyVolunteer"}
    BY <1>10 DEF TypeOK, AddMember, InsertMember, At, Goto, Answer, Applied, Lost
  <2>. QED
    BY <1>2, <1>3, <2>1
<1>. QED
  BY <1>4, <1>5, <1>6, <1>7, <1>8, <1>9, <1>10 DEF StepOf

LEMMA StoryStep == JobInv /\ StoryInv /\ [Next]_vars => StoryInv'
<1> SUFFICES ASSUME JobInv, StoryInv, [Next]_vars PROVE StoryInv'
  OBVIOUS
<1>1. CASE Next
  <2>1. PICK q \in Requests : StepOf(q)
    BY <1>1 DEF Next, StepOf
  <2>. QED
    BY <2>1, ApplicationsStep, CongratulationsStep, RoomsStep DEF StoryInv
<1>2. CASE UNCHANGED vars
  BY <1>2 DEF vars, tables, StoryInv, ApplicationsTold, CongratulationsHold, RoomsTraced, HasApplied, Job, Pair,
              RoomsOf, CongratulatedCanChat, AdminUnlessInterrupted
<1>. QED
  BY <1>1, <1>2

\* The inductive invariant of what is told, on top of that of the tables.
THEOREM StoryInvariant == Spec => []StoryInv
<1>1. Init => StoryInv
  BY DEF Init, StoryInv, ApplicationsTold, HasApplied, CongratulationsHold, CongratulatedCanChat,
         RoomsTraced, AdminUnlessInterrupted
<1>. QED
  BY <1>1, StoryStep, JobInvariant, PTL DEF Spec

\* ApplyJob: the organization hears of an application from one request only, however
\* often it is repeated and whichever replies are lost.
THEOREM ToldOfOneApplication == Spec => []OrgToldOncePerApplicant
<1>1. JobInv /\ StoryInv => OrgToldOncePerApplicant
  <2> SUFFICES ASSUME JobInv, StoryInv, NEW n1 \in notifications, NEW n2 \in notifications,
                      n1.says = "applied", n2.says = "applied", n1.about = n2.about, n1.job = n2.job
               PROVE  n1.by = n2.by
    BY DEF OrgToldOncePerApplicant
  <2>1. n1.by \in Requests /\ n2.by \in Requests
    BY DEF JobInv, TypeOK
  <2>2. HasApplied(n1.by) /\ HasApplied(n2.by) /\ Pair(n1.by) = Pair(n2.by)
    BY DEF StoryInv, ApplicationsTold
  <2>. QED
    BY <2>1, <2>2 DEF StoryInv, ApplicationsTold
<1>. QED
  BY <1>1, JobInvariant, StoryInvariant, PTL

\* UpdateJobStatus: who reads the congratulation is in the chat.
THEOREM CongratulationIsTrue == Spec => []CongratulatedCanChat
<1>1. StoryInv => CongratulatedCanChat
  BY DEF StoryInv, CongratulationsHold
<1>. QED
  BY <1>1, StoryInvariant, PTL

\* UpdateJobStatus: only an interrupted request leaves a room without its organization.
THEOREM OrganizationInItsRooms == Spec => []AdminUnlessInterrupted
<1>1. StoryInv => AdminUnlessInterrupted
  BY DEF StoryInv, RoomsTraced
<1>. QED
  BY <1>1, StoryInvariant, PTL
-----------------------------------------------------------------------------
(* How far the chat of a job splits.                                       *)

\* Makers are requests in flight, and there are finitely many.
LEMMA MakersActive ==
  /\ IsFiniteSet({q \in Requests : Active(q)})
  /\ \A j : Making(j) \subseteq {q \in Requests : Active(q)}
<1>1. {q \in Requests : Active(q)} \subseteq Requests
  OBVIOUS
<1>. QED
  BY <1>1, JobAssumption, FS_Subset DEF Making, At, Active

\* Only an arriving request adds to those in flight, below the bound.
LEMMA ActiveStep ==
  ASSUME JobInv, SplitInv, NEW q \in Requests, StepOf(q)
  PROVE  Cardinality({h \in Requests : Active(h)})' <= MaxActive
<1>. DEFINE A == {h \in Requests : Active(h)}
<1>0. /\ IsFiniteSet(A) /\ Cardinality(A) \in Nat /\ Cardinality(A) <= MaxActive
      /\ MaxActive \in Nat /\ TypeOK /\ Apart(q)
  BY MakersActive, FS_CardinalityType, JobAssumption, StepApart DEF SplitInv, JobInv
<1>1. CASE Request(q)
  <2>1. Cardinality(A) < MaxActive
    BY <1>1 DEF Request, Receive
  <2>2. A' \subseteq A \cup {q}
    BY <1>0 DEF Active, Apart
  <2>3. IsFiniteSet(A \cup {q}) /\ Cardinality(A \cup {q}) <= Cardinality(A) + 1
    BY <1>0, FS_AddElement
  <2>4. Cardinality(A') <= Cardinality(A \cup {q}) /\ Cardinality(A') \in Nat /\ Cardinality(A \cup {q}) \in Nat
    BY <2>2, <2>3, FS_Subset, FS_CardinalityType
  <2>. QED
    BY <1>0, <2>1, <2>3, <2>4
<1>2. CASE ~Request(q)
  <2>1. Active(q)
    BY <1>2 DEF StepOf, Fail, InsertApplicant, OrgOfJob, NotifyOrg, LoadJob, UpdateStatus, RoomExists,
                CreateRoom, GetRoom, AddAdmin, AddMember, NotifyVolunteer, InsertJob, DeleteJob, At, Active
  <2>2. A' \subseteq A
    BY <1>0, <2>1 DEF Active, Apart
  <2>3. Cardinality(A') <= Cardinality(A) /\ Cardinality(A') \in Nat
    BY <1>0, <2>2, FS_Subset, FS_CardinalityType
  <2>. QED
    BY <1>0, <2>3
<1>. QED
  BY <1>1, <1>2

\* A request sets out to make a room only while there is none, and then makes one.
LEMMA SplitStep ==
  ASSUME JobInv, SplitInv, NEW q \in Requests, StepOf(q), NEW j \in Jobs
  PROVE  IsFiniteSet(RoomsOf(j)') /\ Cardinality(RoomsOf(j)') + Cardinality(Making(j)') <= MaxActive
<1>. DEFINE R == RoomsOf(j)
            W == Making(j)
            A == {h \in Requests : Active(h)}
<1>0. /\ IsFiniteSet(R) /\ Cardinality(R) + Cardinality(W) <= MaxActive
      /\ MaxActive \in Nat /\ TypeOK /\ Apart(q) /\ IsFiniteSet(W)
      /\ Cardinality(R) \in Nat /\ Cardinality(W) \in Nat
  <2>1. IsFiniteSet(W)
    BY MakersActive, FS_Subset
  <2>. QED
    BY <2>1, FS_CardinalityType, JobAssumption, StepApart DEF SplitInv, JobInv
<1>1. ASSUME R' \subseteq R, W' \subseteq W
      PROVE  IsFiniteSet(R') /\ Cardinality(R') + Cardinality(W') <= MaxActive
  <2>1. IsFiniteSet(R') /\ Cardinality(R') <= Cardinality(R) /\ Cardinality(R') \in Nat
    BY <1>0, <1>1, FS_Subset, FS_CardinalityType
  <2>2. IsFiniteSet(W') /\ Cardinality(W') <= Cardinality(W) /\ Cardinality(W') \in Nat
    BY <1>0, <1>1, FS_Subset, FS_CardinalityType
  <2>. QED
    BY <1>0, <2>1, <2>2
<1>2. ASSUME UNCHANGED op, pc'[q] # "createRoom" \/ reply'[q] # "none" \/ q \in W \/ Job(q) # j
      PROVE  W' \subseteq W
  BY <1>0, <1>2 DEF Making, At, Job, Apart
<1>3. CASE Request(q)
  <2>1. UNCHANGED <<rooms, jobOf>> /\ pc'[q] # "createRoom"
    BY <1>0, <1>3 DEF Request, Receive, Goto, tables, TypeOK
  <2>2. W' \subseteq W
    BY <1>0, <2>1 DEF Making, At, Job, Apart
  <2>. QED
    BY <1>1, <2>1, <2>2 DEF RoomsOf
<1>4. CASE \/ InsertApplicant(q) \/ OrgOfJob(q) \/ NotifyOrg(q) \/ LoadJob(q) \/ UpdateStatus(q) \/ GetRoom(q)
           \/ AddAdmin(q) \/ AddMember(q) \/ NotifyVolunteer(q) \/ InsertJob(q) \/ Fail(q)
  <2>1. UNCHANGED <<rooms, jobOf, op>>
    BY <1>4 DEF InsertApplicant, OrgOfJob, NotifyOrg, LoadJob, UpdateStatus, GetRoom, AddAdmin, AddMember,
                NotifyVolunteer, InsertJob, Fail, tables
  <2>2. pc'[q] # "createRoom" \/ reply'[q] # "none"
    BY <1>0, <1>4 DEF InsertApplicant, OrgOfJob, NotifyOrg, LoadJob, UpdateStatus, GetRoom, AddAdmin,
                AddMember, NotifyVolunteer, InsertJob, Fail, AfterRoom, At, Goto, Answer, Applied, AppliedLast,
                Lost, TypeOK
  <2>. QED
    BY <1>1, <1>2, <2>1, <2>2 DEF RoomsOf
<1>5. CASE DeleteJob(q)
  <2>1. rooms' \subseteq rooms /\ UNCHANGED <<jobOf, op>> /\ pc'[q] # "createRoom"
    BY <1>5 DEF DeleteJob, Cascade, At, Answer, AppliedLast, Lost
  <2>. QED
    BY <1>1, <1>2, <2>1 DEF RoomsOf
<1>6. CASE RoomExists(q)
  <2>1. UNCHANGED <<rooms, jobOf, op>>
    BY <1>6 DEF RoomExists, tables
  <2>2. CASE Job(q) # j \/ R # {}
    <3>1. Job(q) # j \/ pc'[q] # "createRoom"
      BY <1>0, <1>6, <2>2 DEF RoomExists, Found, Goto, TypeOK
    <3>. QED
      BY <1>1, <1>2, <2>1, <3>1 DEF RoomsOf
  <2>3. CASE R = {}
    <3>1. R' = {} /\ Cardinality(R') = 0 /\ IsFiniteSet(R')
      BY <2>1, <2>3, FS_EmptySet DEF RoomsOf
    <3>2. W' \subseteq A' /\ IsFiniteSet(A')
      <4>1. A' \subseteq Requests
        OBVIOUS
      <4>. QED
        BY <4>1, JobAssumption, FS_Subset DEF Making, At, Active
    <3>3. Cardinality(W') <= Cardinality(A') /\ Cardinality(W') \in Nat /\ Cardinality(A') \in Nat
      BY <3>2, FS_Subset, FS_CardinalityType
    <3>4. Cardinality(A') <= MaxActive
      BY ActiveStep
    <3>. QED
      BY <1>0, <3>1, <3>3, <3>4
  <2>. QED
    BY <2>2, <2>3
<1>7. CASE CreateRoom(q)
  <2>1. PICK r \in Rooms : /\ jobOf[r] = NoJob /\ rooms' = rooms \cup {r}
                           /\ jobOf' = [jobOf EXCEPT ![r] = Job(q)]
    BY <1>7 DEF CreateRoom
  <2>2. jobOf'[r] = Job(q) /\ \A s \in rooms : s # r => jobOf'[s] = jobOf[s]
    BY <1>0, <2>1 DEF TypeOK
  <2>3. /\ UNCHANGED op /\ pc[q] = "createRoom" /\ reply[q] = "none"
        /\ pc'[q] # "createRoom" \/ reply'[q] # "none"
    BY <1>0, <1>7 DEF CreateRoom, At, Goto, Answer, Applied, Lost, TypeOK
  <2>4. r \notin R
    BY <2>1, JobAssumption DEF RoomsOf
  <2>5. CASE Job(q) # j
    <3>1. R' \subseteq R
      BY <2>1, <2>2, <2>5 DEF RoomsOf
    <3>. QED
      BY <1>1, <1>2, <2>3, <3>1
  <2>6. CASE Job(q) = j
    <3>1. R' \subseteq R \cup {r} /\ W' \subseteq W \ {q} /\ q \in W
      BY <1>0, <2>1, <2>2, <2>3, <2>6 DEF RoomsOf, Making, At, Job, Apart
    <3>2. IsFiniteSet(R \cup {r}) /\ Cardinality(R \cup {r}) = Cardinality(R) + 1
      BY <1>0, <2>4, FS_AddElement
    <3>3. IsFiniteSet(W \ {q}) /\ Cardinality(W \ {q}) = Cardinality(W) - 1
      BY <1>0, <3>1, FS_RemoveElement
    <3>4. IsFiniteSet(R') /\ Cardinality(R') <= Cardinality(R) + 1 /\ Cardinality(R') \in Nat
      BY <3>1, <3>2, FS_Subset, FS_CardinalityType
    <3>5. Cardinality(W') <= Cardinality(W) - 1 /\ Cardinality(W') \in Nat
      BY <3>1, <3>3, FS_Subset, FS_CardinalityType
    <3>. QED
      BY <1>0, <3>4, <3>5
  <2>. QED
    BY <2>5, <2>6
<1>. QED
  BY <1>3, <1>4, <1>5, <1>6, <1>7 DEF StepOf

\* The inductive invariant of the rooms of a job: those there are and those about to be
\* made are together never more than the requests in flight at a time.
THEOREM SplitInvariant == Spec => []SplitInv
<1>1. Init => SplitInv
  <2>. SUFFICES ASSUME Init PROVE SplitInv
    OBVIOUS
  <2>1. {q \in Requests : Active(q)} = {} /\ \A j \in Jobs : RoomsOf(j) = {} /\ Making(j) = {}
    BY DEF Init, Active, RoomsOf, Making, At
  <2>2. Cardinality({}) = 0 /\ IsFiniteSet({}) /\ MaxActive \in Nat
    BY FS_EmptySet, JobAssumption
  <2>3. Cardinality({q \in Requests : Active(q)}) <= MaxActive
    BY <2>1, <2>2
  <2>4. \A j \in Jobs : IsFiniteSet(RoomsOf(j)) /\ Cardinality(RoomsOf(j)) + Cardinality(Making(j)) <= MaxActive
    BY <2>1, <2>2
  <2>. QED
    BY <2>3, <2>4 DEF SplitInv
<1>2. JobInv /\ SplitInv /\ [Next]_vars => SplitInv'
  <2>. SUFFICES ASSUME JobInv, SplitInv, [Next]_vars PROVE SplitInv'
    OBVIOUS
  <2>1. CASE Next
    <3>1. PICK q \in Requests : StepOf(q)
      BY <2>1 DEF Next, StepOf
    <3>. QED
      BY <3>1, ActiveStep, SplitStep DEF SplitInv
  <2>2. CASE UNCHANGED vars
    BY <2>2 DEF vars, tables, SplitInv, Active, RoomsOf, Making, At, Job
  <2>. QED
    BY <2>1, <2>2
<1>. QED
  BY <1>1, <1>2, JobInvariant, PTL DEF Spec

\* UpdateJobStatus: the chat of a job has no more rooms than requests were in flight at a
\* time; with one at a time it has one.
THEOREM SplitsAreOverlaps == Spec => []SplitOnlyByOverlap
<1>1. SplitInv => SplitOnlyByOverlap
  <2>. SUFFICES ASSUME SplitInv, NEW j \in Jobs PROVE Cardinality(RoomsOf(j)) <= MaxActive
    BY DEF SplitOnlyByOverlap
  <2>1. IsFiniteSet(Making(j))
    BY MakersActive, FS_Subset
  <2>2. Cardinality(Making(j)) \in Nat /\ Cardinality(RoomsOf(j)) \in Nat /\ MaxActive \in Nat
    BY <2>1, FS_CardinalityType, JobAssumption DEF SplitInv
  <2>. QED
    BY <2>2 DEF SplitInv
<1>. QED
  BY <1>1, SplitInvariant, PTL
-----------------------------------------------------------------------------
(* The job service implements Matching.                                    *)

LEMMA StartMatches == Init => M!Start
<1> SUFFICES ASSUME Init PROVE M!Start
  OBVIOUS
<1>1. InitApplied \subseteq Pairs
  BY JobAssumption DEF Pairs, Users
<1>2. Applicants = InitApplied
  BY <1>1 DEF Init, Applicants
<1>3. Joined = {}
  BY DEF Init, Joined, RoomsOf
<1>. QED
  BY <1>2, <1>3 DEF Init, M!Start

\* What the abstract state is made of; a step that leaves it alone stutters.
LEMMA Stutters ==
  ASSUME UNCHANGED <<unused, jobs, application, rooms, jobOf, members, accepted, invited>>
  PROVE  UNCHANGED M!abstract
<1>1. Applicants' = Applicants
  BY DEF Applicants
<1>2. Joined' = Joined
  BY DEF Joined, RoomsOf
<1>. QED
  BY <1>1, <1>2 DEF M!abstract

\* A request that asks somebody in who has not applied is an invitation, the first time.
LEMMA RequestInvites ==
  ASSUME JobInv, NEW q \in Requests, Request(q)
  PROVE  M!Progress \/ UNCHANGED M!abstract
<1>1. UNCHANGED <<unused, jobs, application, rooms, jobOf, members, accepted>>
  BY DEF Request, Receive, tables
<1>2. CASE UNCHANGED invited
  BY <1>1, <1>2, Stutters
<1>3. CASE invited' # invited
  <2>1. PICK u \in Updates : /\ u.job \in jobs
                            /\ invited' = invited \cup ({<<u.user, u.job>>} \ Applicants)
    BY <1>3 DEF Request
  <2>. DEFINE p == <<u.user, u.job>>
  <2>2. p \in Pairs /\ p[2] = u.job
    BY Ops DEF Pairs
  <2>3. p \notin Applicants \cup invited /\ invited' = invited \cup {p}
    BY <1>3, <2>1
  <2>4. Applicants' = Applicants /\ Joined' = Joined
    BY <1>1 DEF Applicants, Joined, RoomsOf
  <2>5. M!Invites(p)
    BY <1>1, <2>1, <2>2, <2>3, <2>4 DEF M!Invites
  <2>. QED
    BY <2>2, <2>5 DEF M!Progress, Pairs, Users, M!Pairs
<1>. QED
  BY <1>2, <1>3

LEMMA InsertApplicantApplies ==
  ASSUME JobInv, NEW q \in Requests, InsertApplicant(q)
  PROVE  M!Progress
<1>1. /\ pc[q] = "insertApplicant" /\ Job(q) \in jobs /\ application[Pair(q)] = "none"
      /\ application' = [application EXCEPT ![Pair(q)] = "pending"]
      /\ UNCHANGED <<unused, jobs, rooms, jobOf, members, accepted, invited>>
  BY DEF InsertApplicant, At, CanApply, Pair, Job
<1>2. Pair(q) \in Pairs /\ Pair(q)[2] = Job(q) /\ Pair(q)[1] \in Volunteers
  BY <1>1, Names DEF ApplyPC
<1>3. Joined' = Joined
  BY <1>1 DEF Joined, RoomsOf
<1>4. Applicants' = Applicants \cup {Pair(q)} /\ Pair(q) \notin Applicants
  BY <1>1, <1>2 DEF Applicants, JobInv, TypeOK
<1>5. M!Applies(Pair(q))
  BY <1>1, <1>2, <1>3, <1>4 DEF M!Applies
<1>. QED
  BY <1>2, <1>5 DEF M!Progress, Pairs, Users, M!Pairs

LEMMA UpdateStatusChooses ==
  ASSUME JobInv, NEW q \in Requests, UpdateStatus(q)
  PROVE  M!Progress \/ UNCHANGED M!abstract
<1>1. /\ pc[q] = "updateStatus" /\ UNCHANGED <<unused, jobs, rooms, jobOf, members, invited>>
  BY DEF UpdateStatus, At
<1>2. Pair(q) \in Pairs /\ op[q].status \in Statuses /\ op[q].status # "none"
  BY <1>1, Names DEF JobInv, RequestOK, BeforePC, Statuses
<1>3. Joined' = Joined
  BY <1>1 DEF Joined, RoomsOf
<1>4. CASE application[Pair(q)] = "none"
  <2>1. UNCHANGED <<application, accepted, invited>>
    BY <1>4 DEF UpdateStatus
  <2>. QED
    BY <1>1, <2>1, Stutters
<1>5. CASE application[Pair(q)] # "none"
  <2>1. /\ application' = [application EXCEPT ![Pair(q)] = op[q].status]
        /\ accepted' = IF op[q].status = "accepted" THEN accepted \cup {Pair(q)} ELSE accepted
    BY <1>5 DEF UpdateStatus
  <2>2. Applicants' = Applicants /\ Pair(q) \in Applicants
    BY <1>2, <1>5, <2>1 DEF Applicants, JobInv, TypeOK
  <2>3. CASE op[q].status = "accepted" /\ Pair(q) \notin accepted
    <3>1. M!IsChosen(Pair(q))
      BY <1>1, <1>3, <2>1, <2>2, <2>3 DEF M!IsChosen
    <3>. QED
      BY <1>2, <3>1 DEF M!Progress, Pairs, Users, M!Pairs
  <2>4. CASE ~(op[q].status = "accepted" /\ Pair(q) \notin accepted)
    <3>1. accepted' = accepted
      BY <2>1, <2>4
    <3>. QED
      BY <1>1, <1>3, <2>2, <3>1 DEF M!abstract
  <2>. QED
    BY <2>3, <2>4
<1>. QED
  BY <1>4, <1>5

\* A new room is empty.
LEMMA CreateRoomStutters ==
  ASSUME JobInv, NEW q \in Requests, CreateRoom(q)
  PROVE  UNCHANGED M!abstract
<1>1. PICK r \in Rooms : /\ jobOf[r] = NoJob
                         /\ rooms' = rooms \cup {r}
                         /\ jobOf' = [jobOf EXCEPT ![r] = Job(q)]
  BY DEF CreateRoom
<1>2. UNCHANGED <<unused, jobs, application, members, accepted, invited>>
  BY DEF CreateRoom
<1>3. /\ r \notin rooms
      /\ \A m \in members : m[2] \in rooms
      /\ \A s \in rooms : jobOf'[s] = jobOf[s]
  BY <1>1, JobAssumption DEF JobInv, TypeOK, NothingOutlivesItsJob
<1>4. Applicants' = Applicants
  BY <1>2 DEF Applicants
<1>5. ASSUME NEW p \in Pairs PROVE p \in Joined' <=> p \in Joined
  <2>1. ASSUME NEW s, <<p[1], s, FALSE>> \in members
        PROVE  s \in RoomsOf(p[2])' <=> s \in RoomsOf(p[2])
    <3>1. s \in rooms
      BY <1>3, <2>1
    <3>. QED
      BY <1>1, <1>3, <3>1 DEF RoomsOf
  <2>. QED
    BY <1>2, <2>1 DEF Joined
<1>6. Joined' = Joined
  BY <1>5 DEF Joined
<1>. QED
  BY <1>2, <1>4, <1>6 DEF M!abstract

LEMMA AddAdminStutters ==
  ASSUME JobInv, NEW q \in Requests, AddAdmin(q)
  PROVE  UNCHANGED M!abstract
<1>1. /\ members' = members \cup {<<op[q].caller, room[q], TRUE>>}
      /\ UNCHANGED <<unused, jobs, application, rooms, jobOf, accepted, invited>>
  BY DEF AddAdmin, InsertMember
<1>2. \A u, s : <<u, s, FALSE>> \in members' <=> <<u, s, FALSE>> \in members
  BY <1>1
<1>3. Joined' = Joined
  BY <1>1, <1>2 DEF Joined, RoomsOf
<1>4. Applicants' = Applicants
  BY <1>1 DEF Applicants
<1>. QED
  BY <1>1, <1>3, <1>4 DEF M!abstract

LEMMA AddMemberJoins ==
  ASSUME JobInv, NEW q \in Requests, AddMember(q)
  PROVE  M!Progress \/ UNCHANGED M!abstract
<1>1. /\ pc[q] = "addMember" /\ room[q] \in rooms
      /\ members' = members \cup {<<op[q].user, room[q], FALSE>>}
      /\ UNCHANGED <<unused, jobs, application, rooms, jobOf, accepted, invited>>
  BY DEF AddMember, At, InsertMember
<1>2. /\ Pair(q) \in Pairs /\ Pair(q)[1] = op[q].user /\ Pair(q)[2] = Job(q)
  BY <1>1, Names DEF AfterPC
<1>3. jobOf[room[q]] = Job(q) /\ Job(q) \in jobs
  BY <1>1 DEF JobInv, RequestOK, NothingOutlivesItsJob
<1>4. Pair(q) \in accepted \cup invited
  BY <1>1, <1>3 DEF JobInv, RequestOK, AfterPC
<1>5. Applicants' = Applicants
  BY <1>1 DEF Applicants
<1>6. ASSUME NEW p \in Pairs PROVE p \in Joined' <=> p \in Joined \/ p = Pair(q)
  <2>1. p = <<p[1], p[2]>> /\ Pair(q) = <<op[q].user, Job(q)>>
    BY DEF Pairs, Pair, Job
  <2>2. CASE p = Pair(q)
    <3>1. room[q] \in RoomsOf(p[2])' /\ <<p[1], room[q], FALSE>> \in members'
      BY <1>1, <1>2, <1>3, <2>2 DEF RoomsOf
    <3>. QED
      BY <2>2, <3>1 DEF Joined
  <2>3. CASE p # Pair(q)
    <3>1. \A s : s \in RoomsOf(p[2])' <=> s \in RoomsOf(p[2])
      BY <1>1 DEF RoomsOf
    <3>2. ASSUME NEW s \in RoomsOf(p[2])
          PROVE  <<p[1], s, FALSE>> \in members' <=> <<p[1], s, FALSE>> \in members
      <4>1. s = room[q] => p[2] = Job(q)
        BY <1>3, <3>2 DEF RoomsOf
      <4>2. <<p[1], s, FALSE>> # <<op[q].user, room[q], FALSE>>
        BY <2>1, <2>3, <4>1
      <4>. QED
        BY <1>1, <4>2
    <3>. QED
      BY <2>3, <3>1, <3>2 DEF Joined
  <2>. QED
    BY <2>2, <2>3
<1>7. Joined' = Joined \cup {Pair(q)}
  BY <1>2, <1>6 DEF Joined
<1>8. CASE Pair(q) \in Joined
  BY <1>1, <1>5, <1>7, <1>8 DEF M!abstract
<1>9. CASE Pair(q) \notin Joined
  <2>1. M!Joins(Pair(q))
    BY <1>1, <1>2, <1>3, <1>4, <1>5, <1>7, <1>9 DEF M!Joins
  <2>. QED
    BY <1>2, <2>1 DEF M!Progress, Pairs, Users, M!Pairs
<1>. QED
  BY <1>8, <1>9

LEMMA InsertJobPublishes ==
  ASSUME JobInv, NEW q \in Requests, InsertJob(q)
  PROVE  M!Progress
<1>1. PICK j \in unused : unused' = unused \ {j} /\ jobs' = jobs \cup {j}
  BY DEF InsertJob
<1>2. UNCHANGED <<application, rooms, jobOf, members, accepted, invited>>
  BY DEF InsertJob
<1>3. Applicants' = Applicants /\ Joined' = Joined
  BY <1>2 DEF Applicants, Joined, RoomsOf
<1>4. M!Publish(j)
  BY <1>1, <1>2, <1>3 DEF M!Publish
<1>5. j \in Jobs
  BY DEF JobInv, TypeOK
<1>. QED
  BY <1>4, <1>5 DEF M!Progress

LEMMA DeleteJobCloses ==
  ASSUME JobInv, NEW q \in Requests, DeleteJob(q)
  PROVE  M!Progress
<1>. DEFINE j == Job(q)
<1>1. /\ jobs' = jobs \ {j} /\ j \in jobs
      /\ application' = [p \in Pairs |-> IF p[2] = j THEN "none" ELSE application[p]]
      /\ rooms' = rooms \ RoomsOf(j)
      /\ members' = {m \in members : m[2] \notin RoomsOf(j)}
      /\ accepted' = {p \in accepted : p[2] # j}
      /\ invited' = {p \in invited : p[2] # j}
      /\ UNCHANGED <<unused, jobOf>>
  BY DEF DeleteJob, Cascade
<1>2. Applicants' = {p \in Applicants : p[2] # j}
  BY <1>1 DEF Applicants
<1>3. ASSUME NEW p \in Pairs PROVE p \in Joined' <=> p \in Joined /\ p[2] # j
  <2>1. \A s : s \in RoomsOf(p[2])' <=> s \in RoomsOf(p[2]) /\ p[2] # j
    BY <1>1 DEF RoomsOf
  <2>2. ASSUME NEW s \in RoomsOf(p[2]), p[2] # j
        PROVE  <<p[1], s, FALSE>> \in members' <=> <<p[1], s, FALSE>> \in members
    <3>1. s \notin RoomsOf(j)
      BY <2>2 DEF RoomsOf
    <3>. QED
      BY <1>1, <3>1
  <2>. QED
    BY <2>1, <2>2 DEF Joined
<1>4. Joined' = {p \in Joined : p[2] # j}
  BY <1>3 DEF Joined
<1>5. M!Close(j)
  BY <1>1, <1>2, <1>4 DEF M!Close, M!Without
<1>6. j \in Jobs
  BY <1>1 DEF JobInv, TypeOK
<1>. QED
  BY <1>5, <1>6 DEF M!Progress

LEMMA StepMatches ==
  ASSUME JobInv, [Next]_vars
  PROVE  M!Progress \/ UNCHANGED M!abstract
<1>1. CASE UNCHANGED vars
  <2>1. UNCHANGED <<unused, jobs, application, rooms, jobOf, members, accepted, invited>>
    BY <1>1 DEF vars, tables
  <2>. QED
    BY <2>1, Stutters
<1>2. ASSUME NEW q \in Requests,
             \/ Fail(q) \/ OrgOfJob(q) \/ NotifyOrg(q) \/ LoadJob(q)
             \/ RoomExists(q) \/ GetRoom(q) \/ NotifyVolunteer(q)
      PROVE  UNCHANGED M!abstract
  <2>1. UNCHANGED <<unused, jobs, application, rooms, jobOf, members, accepted, invited>>
    BY <1>2 DEF Fail, OrgOfJob, NotifyOrg, LoadJob, RoomExists,
                GetRoom, NotifyVolunteer, tables
  <2>. QED
    BY <2>1, Stutters
<1>3. CASE Next
  BY <1>2, <1>3, RequestInvites, InsertApplicantApplies, UpdateStatusChooses, CreateRoomStutters,
     AddAdminStutters, AddMemberJoins, InsertJobPublishes, DeleteJobCloses DEF Next
<1>. QED
  BY <1>1, <1>3

\* The job service implements Matching: its overlapping, failing statements add up
\* to publishing, applying, being chosen or asked in, joining and closing, in that order.
THEOREM ImplementsMatching == Spec => MatchingHolds
<1>1. JobInv /\ [Next]_vars => [M!Progress]_(M!abstract)
  BY StepMatches
<1>. QED
  BY <1>1, StartMatches, JobInvariant, PTL DEF Spec, MatchingHolds, M!MatchingSpec
=============================================================================
