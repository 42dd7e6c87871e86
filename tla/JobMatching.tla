---------------------------- MODULE JobMatching ----------------------------
(***************************************************************************)
(* The job service (features/job) over its tables: org_jobs, user_jobs,    *)
(* job_chat_rooms, job_chat_members and notifications.  A request runs in  *)
(* its own goroutine, statement by statement, with no transaction around   *)
(* them: pc[q] names the statement that request q executes next, and other *)
(* requests run in between.  Every statement may fail, and a write may     *)
(* have been applied although its reply was lost (the 7 s timeout of the   *)
(* handlers): the request is then answered with an error.                  *)
(***************************************************************************)
EXTENDS Naturals, FiniteSets

CONSTANTS Jobs, Volunteers, Orgs,
          Owner,         \* Owner[j]: the organization's user behind job j
          Rooms,         \* ids for job_chat_rooms
          NoJob, NoRoom,
          Requests,      \* bound: the requests the server ever receives
          MaxActive,     \* bound: requests in flight at a time
          Updates,       \* bound: the status updates that organizations ever ask for
          MayLose,       \* bound: whether the reply to an applied write may be lost
          InitJobs, InitApplied

Statuses == {"pending", "accepted", "rejected", "finished"}
Users == Volunteers \cup Orgs
Pairs == Users \X Jobs

ASSUME JobAssumption ==
  /\ Owner \in [Jobs -> Orgs]
  /\ Orgs \cap Volunteers = {}
  /\ NoJob \notin Jobs /\ NoRoom \notin Rooms
  /\ InitJobs \subseteq Jobs /\ InitApplied \subseteq Volunteers \X InitJobs
  /\ IsFiniteSet(Requests) /\ MaxActive \in Nat /\ MayLose \in BOOLEAN

VARIABLES
  unused,         \* ids of org_jobs not inserted yet
  jobs,           \* org_jobs
  application,    \* user_jobs: application[<<u, j>>], "none" without a row
  rooms, jobOf,   \* job_chat_rooms, and the job_id of each room ever inserted
  members,        \* job_chat_members: <<user, room, is_admin>>
  notifications,  \* notifications, each with the request that sent it
  op,             \* op[q]: what request q asks for
  pc,             \* pc[q]: the statement q runs next, or ended with
  reply,          \* reply[q]: what q was answered, "none" while it runs
  room,           \* UpdateJobStatus's local roomId
  accepted,       \* history: pairs whose row has been set to accepted
  invited         \* history: pairs to accept that had not applied when that was asked

tables == <<unused, jobs, application, rooms, jobOf, members, notifications>>
vars   == <<tables, op, pc, reply, room, accepted, invited>>

NoOp == [kind |-> "none"]
Apply(v, j)        == [kind |-> "apply", user |-> v, job |-> j]
\* Organization o sets the status of user u.
Update(o, u, j, s) == [kind |-> "update", caller |-> o, user |-> u, job |-> j, status |-> s]
Delete(j)          == [kind |-> "delete", job |-> j]
Add                == [kind |-> "add"]
Op == {Apply(v, j) : v \in Volunteers, j \in Jobs}
        \cup {Update(o, u, j, s) : o \in Orgs, u \in Users, j \in Jobs, s \in Statuses \cup {"unknown"}}
        \cup {Delete(j) : j \in Jobs} \cup {Add}

ASSUME UpdatesAssumption ==
  \A u \in Updates : \E o \in Orgs, v \in Users, j \in Jobs, s \in Statuses \cup {"unknown"} :
    u = Update(o, v, j, s)

ApplyPC  == {"insertApplicant", "orgOfJob", "notifyOrg"}
\* The statements of UpdateJobStatus before and after the row is written.
BeforePC == {"loadJob", "updateStatus"}
AfterPC  == {"roomExists", "createRoom", "addAdmin", "getRoom", "addMember", "notifyVolunteer"}
PC == ApplyPC \cup BeforePC \cup AfterPC \cup {"delete", "add", "idle"}

Init ==
  /\ jobs = InitJobs /\ unused = Jobs \ InitJobs
  /\ application = [p \in Pairs |-> IF p \in InitApplied THEN "pending" ELSE "none"]
  /\ rooms = {} /\ jobOf = [r \in Rooms |-> NoJob]
  /\ members = {} /\ notifications = {}
  /\ op = [q \in Requests |-> NoOp]
  /\ pc = [q \in Requests |-> "idle"]
  /\ reply = [q \in Requests |-> "none"]
  /\ room = [q \in Requests |-> NoRoom]
  /\ accepted = {} /\ invited = {}
-----------------------------------------------------------------------------
Job(q)    == op[q].job
Pair(q)   == <<op[q].user, op[q].job>>
At(q, l)  == pc[q] = l /\ reply[q] = "none"
Active(q) == pc[q] # "idle" /\ reply[q] = "none"
RoomsOf(j) == {r \in rooms : jobOf[r] = j}
IsMember(u, r) == \E b \in BOOLEAN : <<u, r, b>> \in members

Goto(q, l) == pc' = [pc EXCEPT ![q] = l] /\ UNCHANGED reply
Answer(q, a)  == reply' = [reply EXCEPT ![q] = a] /\ UNCHANGED pc

\* A write was applied; its reply arrives, or is lost.
Lost(q)        == MayLose /\ Answer(q, "error")
Applied(q, l)  == Goto(q, l) \/ Lost(q)
AppliedLast(q) == Answer(q, "ok") \/ Lost(q)

\* GetApplicantsByOrgId: whoever has a row, whatever its status.
Applicants == {p \in Pairs : application[p] # "none"}

Receive(q, o, l) ==
  /\ At(q, "idle")
  /\ Cardinality({r \in Requests : Active(r)}) < MaxActive
  /\ op' = [op EXCEPT ![q] = o]
  /\ Goto(q, l)
  /\ UNCHANGED <<tables, room, accepted>>

\* Volunteers apply to any job they know of, one that has been deleted meanwhile too.
\* An organization may set the status of any user for any job: the app shows it the
\* applicants of its own, the server asks for neither.
Request(q) ==
  \/ \E v \in Volunteers, j \in Jobs \ unused :
       Receive(q, Apply(v, j), "insertApplicant") /\ UNCHANGED invited
  \/ \E u \in Updates :
       /\ u.job \notin unused
       /\ Receive(q, u, "loadJob")
       /\ invited' = IF u.status = "accepted" /\ u.job \in jobs
                        THEN invited \cup ({<<u.user, u.job>>} \ Applicants) ELSE invited
  \/ \E j \in Jobs \ unused : Receive(q, Delete(j), "delete") /\ UNCHANGED invited
  \/ Receive(q, Add, "add") /\ UNCHANGED invited

\* A statement fails without effect: a constraint, no row, a lost connection,
\* or the timeout.  UpdateJobStatus does not look at the outcome of its last
\* one (NotifyVolunteer).
Fail(q) ==
  /\ Active(q) /\ pc[q] # "notifyVolunteer"
  /\ Answer(q, "error")
  /\ UNCHANGED <<tables, op, room, accepted, invited>>
-----------------------------------------------------------------------------
(* ApplyJob.                                                               *)

\* UNIQUE (user_id, job_id) and the foreign key on job_id.
\* CanApplyTwice: without the unique constraint.
CanApplyTwice(p) == p[2] \in jobs
CanApply(p) == p[2] \in jobs /\ application[p] = "none"

InsertApplicant(q) ==
  /\ At(q, "insertApplicant")
  /\ CanApply(Pair(q))
  /\ application' = [application EXCEPT ![Pair(q)] = "pending"]
  /\ Applied(q, "orgOfJob")
  /\ UNCHANGED <<unused, jobs, rooms, jobOf, members, notifications, op, room, accepted, invited>>

OrgOfJob(q) ==
  /\ At(q, "orgOfJob")
  /\ Job(q) \in jobs
  /\ Goto(q, "notifyOrg")
  /\ UNCHANGED <<tables, op, room, accepted, invited>>

Notification(q, u, s) == [by |-> q, to |-> u, job |-> Job(q), about |-> op[q].user, says |-> s]

NotifyOrg(q) ==
  /\ At(q, "notifyOrg")
  /\ notifications' = notifications \cup {Notification(q, Owner[Job(q)], "applied")}
  /\ AppliedLast(q)
  /\ UNCHANGED <<unused, jobs, application, rooms, jobOf, members, op, room, accepted, invited>>
-----------------------------------------------------------------------------
(* UpdateJobStatus.                                                        *)

\* An unknown status has no message, and the request ends there.
Known(s) == s \in Statuses

\* A SELECT of one row fails without it.
GetJobById(j) == j \in jobs

\* GetJobById, GetOrganizationByJobId and notificationMessageFromStatus.
LoadJob(q) ==
  /\ At(q, "loadJob")
  /\ GetJobById(Job(q))
  /\ IF Known(op[q].status) THEN Goto(q, "updateStatus") ELSE Answer(q, "ok")
  /\ UNCHANGED <<tables, op, room, accepted, invited>>

\* An UPDATE that matches no row is no error.
UpdateStatus(q) ==
  /\ At(q, "updateStatus")
  /\ IF application[Pair(q)] # "none"
       THEN /\ application' = [application EXCEPT ![Pair(q)] = op[q].status]
            /\ accepted' = IF op[q].status = "accepted" THEN accepted \cup {Pair(q)} ELSE accepted
       ELSE UNCHANGED <<application, accepted>>
  /\ Applied(q, "roomExists")
  /\ UNCHANGED <<unused, jobs, rooms, jobOf, members, notifications, op, room, invited>>

\* FoundNot: the query finds no room.
FoundNot(j) == FALSE
Found(j) == RoomsOf(j) # {}

RoomExists(q) ==
  /\ At(q, "roomExists")
  /\ Goto(q, IF Found(Job(q)) THEN "getRoom" ELSE "createRoom")
  /\ UNCHANGED <<tables, op, room, accepted, invited>>

\* Only an accepted volunteer is added to the room.  AfterRoomAny: everybody.
AfterRoomAny(q) == "addMember"
AfterRoom(q) == IF op[q].status = "accepted" THEN "addMember" ELSE "notifyVolunteer"

\* The foreign key of job_chat_rooms.  RoomAllowedAlways: without it.
RoomAllowedAlways(j) == TRUE
RoomAllowed(j) == j \in jobs

CreateRoom(q) ==
  /\ At(q, "createRoom")
  /\ RoomAllowed(Job(q))
  /\ \E r \in Rooms :
       /\ jobOf[r] = NoJob
       /\ rooms' = rooms \cup {r}
       /\ jobOf' = [jobOf EXCEPT ![r] = Job(q)]
       /\ room' = [room EXCEPT ![q] = r]
  /\ Applied(q, "addAdmin")
  /\ UNCHANGED <<unused, jobs, application, members, notifications, op, accepted, invited>>

\* With two rooms the query returns either.
GetRoom(q) ==
  /\ At(q, "getRoom")
  /\ \E r \in RoomsOf(Job(q)) : room' = [room EXCEPT ![q] = r]
  /\ Goto(q, AfterRoom(q))
  /\ UNCHANGED <<tables, op, accepted, invited>>

\* InsertMemeberToRoom: the room exists and the user is not in it yet.
InsertMember(u, r, isOrg) ==
  /\ r \in rooms /\ ~IsMember(u, r)
  /\ members' = members \cup {<<u, r, isOrg>>}

\* The caller becomes the admin, whoever owns the job.  AddAdminNot: nobody does.
AddAdminNot(q) ==
  /\ At(q, "addAdmin")
  /\ Goto(q, AfterRoom(q))
  /\ UNCHANGED <<tables, op, room, accepted, invited>>
AddAdmin(q) ==
  /\ At(q, "addAdmin")
  /\ InsertMember(op[q].caller, room[q], TRUE)
  /\ Applied(q, AfterRoom(q))
  /\ UNCHANGED <<unused, jobs, application, rooms, jobOf, notifications, op, room, accepted, invited>>

\* AddMemberSkips: a member that cannot be inserted is skipped.
AddMemberSkips(q) ==
  /\ At(q, "addMember")
  /\ \/ InsertMember(op[q].user, room[q], FALSE)
     \/ UNCHANGED members
  /\ Applied(q, "notifyVolunteer")
  /\ UNCHANGED <<unused, jobs, application, rooms, jobOf, notifications, op, room, accepted, invited>>

AddMember(q) ==
  /\ At(q, "addMember")
  /\ InsertMember(op[q].user, room[q], FALSE)
  /\ Applied(q, "notifyVolunteer")
  /\ UNCHANGED <<unused, jobs, application, rooms, jobOf, notifications, op, room, accepted, invited>>

NotifyVolunteer(q) ==
  /\ At(q, "notifyVolunteer")
  /\ \/ notifications' = notifications \cup {Notification(q, op[q].user, op[q].status)}
     \/ UNCHANGED notifications
  /\ Answer(q, "ok")
  /\ UNCHANGED <<unused, jobs, application, rooms, jobOf, members, op, room, accepted, invited>>
-----------------------------------------------------------------------------
(* AddNewOrgJob and DeleteOrgJob.                                          *)

InsertJob(q) ==
  /\ At(q, "add")
  /\ \E j \in unused : unused' = unused \ {j} /\ jobs' = jobs \cup {j}
  /\ AppliedLast(q)
  /\ UNCHANGED <<application, rooms, jobOf, members, notifications, op, room, accepted, invited>>

\* ON DELETE CASCADE, from org_jobs down to job_chat_members.
\* CascadeKeepsApplications: user_jobs does not follow.
CascadeKeepsApplications(j) ==
  /\ UNCHANGED application
  /\ rooms' = rooms \ RoomsOf(j)
  /\ members' = {m \in members : m[2] \notin RoomsOf(j)}
Cascade(j) ==
  /\ application' = [p \in Pairs |-> IF p[2] = j THEN "none" ELSE application[p]]
  /\ rooms' = rooms \ RoomsOf(j)
  /\ members' = {m \in members : m[2] \notin RoomsOf(j)}

DeleteJob(q) ==
  /\ At(q, "delete")
  /\ Job(q) \in jobs
  /\ jobs' = jobs \ {Job(q)}
  /\ Cascade(Job(q))
  /\ accepted' = {p \in accepted : p[2] # Job(q)}
  /\ invited' = {p \in invited : p[2] # Job(q)}
  /\ AppliedLast(q)
  /\ UNCHANGED <<unused, jobOf, notifications, op, room>>

Next ==
  \E q \in Requests :
    \/ Request(q) \/ Fail(q)
    \/ InsertApplicant(q) \/ OrgOfJob(q) \/ NotifyOrg(q)
    \/ LoadJob(q) \/ UpdateStatus(q) \/ RoomExists(q) \/ CreateRoom(q) \/ GetRoom(q)
    \/ AddAdmin(q) \/ AddMember(q) \/ NotifyVolunteer(q)
    \/ InsertJob(q) \/ DeleteJob(q)

Spec == Init /\ [][Next]_vars
-----------------------------------------------------------------------------
\* Every variable keeps its type: the columns hold what the schema allows.
TypeOK ==
  /\ unused \subseteq Jobs /\ jobs \subseteq Jobs
  /\ application \in [Pairs -> Statuses \cup {"none"}]
  /\ rooms \subseteq Rooms /\ jobOf \in [Rooms -> Jobs \cup {NoJob}]
  /\ members \subseteq Users \X Rooms \X BOOLEAN
  /\ notifications \subseteq
       [by : Requests, to : Users, job : Jobs, about : Users,
        says : Statuses \cup {"applied"}]
  /\ op \in [Requests -> Op \cup {NoOp}]
  /\ pc \in [Requests -> PC]
  /\ reply \in [Requests -> {"none", "ok", "error"}]
  /\ room \in [Requests -> Rooms \cup {NoRoom}]
  /\ accepted \subseteq Pairs /\ invited \subseteq Pairs

\* Requests in flight while their job is deleted leave nothing behind: no
\* application, room or membership outlives its job.
NothingOutlivesItsJob ==
  /\ \A p \in Pairs : application[p] # "none" => p[2] \in jobs
  /\ \A r \in rooms : jobOf[r] \in jobs
  /\ \A m \in members : m[2] \in rooms

\* Whoever sits in the chat of a job without being its admin has been accepted for that
\* very job, or an organization asked to accept them although they had not applied,
\* which the app's screens never do and the server does not refuse.
MembersWereAccepted ==
  \A m \in members : ~m[3] => <<m[1], jobOf[m[2]]>> \in accepted \cup invited

\* Requests that look for the room at once each make one; those that follow use it: a
\* job's chat never has more rooms than requests were in flight at a time.
SplitOnlyByOverlap == \A j \in Jobs : Cardinality(RoomsOf(j)) <= MaxActive

\* What a request relies on between two of its statements, whatever ran in
\* between: a volunteer to accept has applied, or was invited, as long as the job is
\* there, an acceptance has been written before the room is touched, and its room is
\* of its job.
RequestOK(q) ==
  /\ pc[q] \in ApplyPC \cup BeforePC \cup AfterPC => Pair(q) \in Pairs /\ Job(q) \notin unused
  /\ pc[q] \in ApplyPC => op[q].user \in Volunteers
  /\ pc[q] \in BeforePC \cup AfterPC => op[q].caller \in Orgs
  /\ pc[q] \in BeforePC /\ op[q].status = "accepted" /\ Job(q) \in jobs =>
       application[Pair(q)] # "none" \/ Pair(q) \in invited
  /\ pc[q] \in AfterPC \cup {"updateStatus"} => op[q].status \in Statuses
  /\ pc[q] \in AfterPC /\ op[q].status = "accepted" /\ Job(q) \in jobs =>
       Pair(q) \in accepted \cup invited
  /\ pc[q] \in {"addAdmin", "addMember"} => room[q] \in Rooms /\ jobOf[room[q]] = Job(q)
  /\ pc[q] = "addMember" => op[q].status = "accepted"
  /\ pc[q] = "delete" => Job(q) \in Jobs

\* The inductive invariant behind the tables' story.
JobInv ==
  /\ TypeOK
  /\ unused \cap jobs = {}
  /\ \A p \in accepted : application[p] # "none"
  /\ \A q \in Requests : RequestOK(q)
  /\ NothingOutlivesItsJob
  /\ MembersWereAccepted

\* The congratulation is sent last: a volunteer who reads it can open the chat,
\* unless the job is gone.
CongratulatedCanChat ==
  \A n \in notifications : n.says = "accepted" /\ n.job \in jobs =>
    \E r \in RoomsOf(n.job) : <<n.to, r, FALSE>> \in members

\* A room without its organization is the room of a request that ended, or
\* still is, between InsertJobRoom and the insert of the admin.
AdminUnlessInterrupted ==
  \A r \in rooms :
    \/ \E u \in Orgs : <<u, r, TRUE>> \in members
    \/ \E q \in Requests : room[q] = r /\ pc[q] \in {"createRoom", "addAdmin"}

\* However often a volunteer taps, the organization reads of one application.
OrgToldOncePerApplicant ==
  \A n1, n2 \in notifications :
    n1.says = "applied" /\ n2.says = "applied" /\ n1.about = n2.about /\ n1.job = n2.job
      => n1.by = n2.by

\* A request that has inserted its application is the only one with it, and the only
\* one that tells of it; the row is there as long as the job is.
HasApplied(q) == pc[q] \in {"orgOfJob", "notifyOrg"}
ApplicationsTold ==
  /\ \A q \in Requests : HasApplied(q) /\ Job(q) \in jobs => application[Pair(q)] # "none"
  /\ \A q, r \in Requests : HasApplied(q) /\ HasApplied(r) /\ Pair(q) = Pair(r) => q = r
  /\ \A n \in notifications :
       n.says = "applied" => HasApplied(n.by) /\ Pair(n.by) = <<n.about, n.job>>

\* A request that is about to congratulate has its volunteer in a room of the job, as
\* long as the job is there; a job that has gone does not come back.
CongratulationsHold ==
  /\ \A n \in notifications : n.job \notin unused
  /\ \A q \in Requests :
       pc[q] = "notifyVolunteer" /\ op[q].status = "accepted" /\ Job(q) \in jobs =>
         room[q] \in RoomsOf(Job(q)) /\ <<op[q].user, room[q], FALSE>> \in members
  /\ CongratulatedCanChat

\* A request that makes a room has none yet.
RoomsTraced ==
  /\ \A q \in Requests :
       reply[q] = "none" /\ pc[q] \notin {"addAdmin", "addMember", "notifyVolunteer"} => room[q] = NoRoom
  /\ AdminUnlessInterrupted

\* The rooms a job has and those that requests are about to make for it.
Making(j) == {q \in Requests : At(q, "createRoom") /\ Job(q) = j}
SplitInv ==
  /\ Cardinality({q \in Requests : Active(q)}) <= MaxActive
  /\ \A j \in Jobs : /\ IsFiniteSet(RoomsOf(j))
                    /\ Cardinality(RoomsOf(j)) + Cardinality(Making(j)) <= MaxActive

\* The inductive invariant, on top of JobInv, of what the organization and the
\* volunteers are told.
StoryInv == ApplicationsTold /\ CongratulationsHold /\ RoomsTraced

\* The tables tell the story Matching tells: the statements of concurrent
\* requests, failing anywhere, never skip one of its stages.
Joined == {p \in Pairs : \E r \in RoomsOf(p[2]) : <<p[1], r, FALSE>> \in members}
M == INSTANCE Matching WITH
  unopened <- unused, open <- jobs, applied <- Applicants, chosen <- accepted,
  invited <- invited, joined <- Joined
MatchingHolds == M!MatchingSpec
=============================================================================
