------------------------------ MODULE Profiles ------------------------------
(***************************************************************************)
(* A volunteer's profile: the app's edit page on each of the volunteer's   *)
(* devices, with the device's cache of users (UserRepo over Hive), and the *)
(* two requests a save consists of, the upload of a picture and the        *)
(* transaction that updates the users row.  Saves overlap: the confirm     *)
(* button stays enabled, there are several devices, and an app that has    *)
(* waited for five seconds gives up while the server goes on.              *)
(***************************************************************************)
EXTENDS Naturals, FiniteSets

CONSTANTS Interests, InitInterests,
          Devices,     \* installations of the app, all of one volunteer
          Saves,       \* bound: the saves ever confirmed
          MaxActive,   \* bound: saves under way at a time
          MayBreak,    \* bound: whether statements, requests and the server may fail
          None

ASSUME ProfileAssumption ==
  /\ InitInterests \subseteq Interests
  /\ None \notin Saves
  /\ MaxActive \in Nat /\ MayBreak \in BOOLEAN

VARIABLES
  interests,  \* users.interests, committed (as a set: nothing reads the order)
  picture,    \* users.profile_pic_url: the save whose file it names
  holder,     \* the save whose transaction has locked the row
  draft,      \* interests as that transaction sees them
  file,       \* file[s]: the file that save s uploads, under public/profile
  page,       \* page[d]: the edit page of device d
  prev,       \* prev[d]: its _previousSelectedCategories
  known, cache,   \* the devices whose Hive box has the user, and what it has
  seen,       \* seen[d]: the user in the answer that is on its way to d
  op,         \* op[s]: what save s asks for, and from which device
  pc,         \* pc[s]: the statement that save s runs next
  told,       \* told[s]: what the page was told of s
  written,    \* history: the saves whose transaction was committed
  last        \* history: the save confirmed last

row    == <<interests, picture, holder, draft>>
device == <<prev, known, cache, seen>>
vars   == <<row, file, page, device, op, pc, told, written, last>>

TxPC   == {"add", "remove", "commit"}
PC     == TxPC \cup {"idle", "create", "write", "setPicture", "uploaded", "update", "done"}
PagePC == {"closed", "fetching", "arriving", "editing"}

Save(d, S, old, img) ==
  [dev |-> d, add |-> S \ old, remove |-> old \ S, shown |-> S, image |-> img]
Op == [dev : Devices \cup {None}, add : SUBSET Interests, remove : SUBSET Interests,
       shown : SUBSET Interests, image : BOOLEAN]
NoOp == [dev |-> None, add |-> {}, remove |-> {}, shown |-> {}, image |-> FALSE]

Init ==
  /\ interests = InitInterests /\ draft = {}
  /\ picture = None /\ holder = None
  /\ file = [s \in Saves |-> "none"]
  /\ page = [d \in Devices |-> "closed"]
  /\ prev = [d \in Devices |-> {}] /\ seen = [d \in Devices |-> {}]
  /\ known = {} /\ cache = [d \in Devices |-> {}]
  /\ op = [s \in Saves |-> NoOp]
  /\ pc = [s \in Saves |-> "idle"]
  /\ told = [s \in Saves |-> "nothing"]
  /\ written = {} /\ last = None
-----------------------------------------------------------------------------
Goto(s, l)  == pc' = [pc EXCEPT ![s] = l]
At(s, l)    == pc[s] = l
Running(s)  == pc[s] \notin {"idle", "done"}
Show(d, l)  == page' = [page EXCEPT ![d] = l]

\* The page is told how the save went: a toast and another screen, or an
\* error; either way the bloc's state no longer is the one the form needs.
\* Nothing reaches a page that has given up.
Tell(s, a) ==
  IF told[s] = "nothing"
    THEN /\ told' = [told EXCEPT ![s] = a]
         /\ page' = [page EXCEPT ![op[s].dev] = IF @ = "editing" THEN "closed" ELSE @]
    ELSE UNCHANGED <<told, page>>

(* The page: ProfileInfoFetched when it opens, through UserRepo.             *)

\* The cached user is taken as it is, however old.
OpenCached(d) ==
  /\ page[d] = "closed" /\ d \in known
  /\ prev' = [prev EXCEPT ![d] = cache[d]]
  /\ Show(d, "editing")
  /\ UNCHANGED <<row, file, known, cache, seen, op, pc, told, written, last>>

OpenUnknown(d) ==
  /\ page[d] = "closed" /\ d \notin known
  /\ Show(d, "fetching")
  /\ UNCHANGED <<row, file, device, op, pc, told, written, last>>

\* FindUserById reads what is committed.
UserRow == interests

\* GetUserByUsernameOrId, asked for a volunteer's id.
FindUser(d) ==
  /\ page[d] = "fetching"
  /\ seen' = [seen EXCEPT ![d] = UserRow]
  /\ Show(d, "arriving")
  /\ UNCHANGED <<row, file, prev, known, cache, op, pc, told, written, last>>

\* The answer is cached and shown.
ShowUser(d) ==
  /\ page[d] = "arriving"
  /\ known' = known \cup {d}
  /\ cache' = [cache EXCEPT ![d] = seen[d]]
  /\ prev' = [prev EXCEPT ![d] = seen[d]]
  /\ Show(d, "editing")
  /\ UNCHANGED <<row, file, seen, op, pc, told, written, last>>

\* The handler's error or its time-out: "Cannot fetch user data".
FetchFails(d) ==
  /\ page[d] \in {"fetching", "arriving"}
  /\ Show(d, "closed")
  /\ UNCHANGED <<row, file, device, op, pc, told, written, last>>

\* The user leaves the page.
LeavePage(d) ==
  /\ page[d] # "closed"
  /\ Show(d, "closed")
  /\ UNCHANGED <<row, file, device, op, pc, told, written, last>>

\* _saveProfile: the chips and perhaps a picture have been chosen.  The form
\* stays as it is, so the button can be pressed again.
Confirm(d, s) ==
  /\ page[d] = "editing" /\ At(s, "idle")
  /\ Cardinality({t \in Saves : Running(t)}) < MaxActive
  /\ \E S \in SUBSET Interests, img \in BOOLEAN :
       /\ op' = [op EXCEPT ![s] = Save(d, S, prev[d], img)]
       /\ Goto(s, IF img THEN "create" ELSE "update")
  /\ last' = s
  /\ UNCHANGED <<row, file, page, device, told, written>>
-----------------------------------------------------------------------------
(* Upload: the file, then the row.                                         *)

\* Files get fresh names: each upload has its own.
CreateFile(s) ==
  /\ At(s, "create")
  /\ file' = [file EXCEPT ![s] = "partial"]
  /\ Goto(s, "write")
  /\ UNCHANGED <<row, page, device, op, told, written, last>>

\* What follows a failed write.  WriteErrorUnseen: its error is not looked at.
WriteErrorUnseen(s) == Goto(s, "setPicture") /\ UNCHANGED <<told, page>>
WriteError(s) == Goto(s, "done") /\ Tell(s, "failed")

WriteFile(s) ==
  /\ At(s, "write")
  /\ \/ /\ file' = [file EXCEPT ![s] = "whole"]
        /\ Goto(s, "setPicture")
        /\ UNCHANGED <<told, page>>
     \/ MayBreak /\ WriteError(s) /\ UNCHANGED file
  /\ UNCHANGED <<row, device, op, written, last>>

\* UpdateProfile; it waits for a transaction that has locked the row.
SetPicture(s) ==
  /\ At(s, "setPicture")
  /\ holder = None
  /\ picture' = s
  /\ Goto(s, IF told[s] = "nothing" THEN "uploaded" ELSE "done")
  /\ UNCHANGED <<interests, holder, draft, file, page, device, op, told, written, last>>

\* The app has the answer to the upload and sends the update.
SendUpdate(s) ==
  /\ At(s, "uploaded") /\ told[s] = "nothing"
  /\ Goto(s, "update")
  /\ UNCHANGED <<row, file, page, device, op, told, written, last>>
-----------------------------------------------------------------------------
(* UpdateUserInfo, one transaction.                                        *)

\* The statement after the first one, and after the second.
AfterNames(s) == IF op[s].add # {} THEN "add" ELSE IF op[s].remove # {} THEN "remove" ELSE "commit"
AfterAdd(s)   == IF op[s].remove # {} THEN "remove" ELSE "commit"

\* What a statement of the transaction changes.  WriteVisible: without a
\* transaction around it.
WriteVisible(S) == draft' = S /\ interests' = S
Write(S) == draft' = S /\ UNCHANGED interests

\* BEGIN and the update of the names, which locks the row.
UpdateNames(s) ==
  /\ At(s, "update")
  /\ holder = None
  /\ holder' = s /\ draft' = interests
  /\ Goto(s, AfterNames(s))
  /\ UNCHANGED <<interests, picture, file, page, device, op, told, written, last>>

\* array_cat.  CatShown: the chips the page shows replace the array.
CatShown(s) == op[s].shown
Cat(s) == draft \cup op[s].add

AddInterests(s) ==
  /\ At(s, "add") /\ holder = s
  /\ Write(Cat(s))
  /\ Goto(s, AfterAdd(s))
  /\ UNCHANGED <<picture, holder, file, page, device, op, told, written, last>>

\* UPDATE ... FROM unnest($1): the row is joined with every element of the
\* list and updated once, with one of them.
RemoveInterests(s) ==
  /\ At(s, "remove") /\ holder = s
  /\ \E i \in op[s].remove : Write(draft \ {i})
  /\ Goto(s, "commit")
  /\ UNCHANGED <<picture, holder, file, page, device, op, told, written, last>>

\* The reply to COMMIT may be lost (the context ran out meanwhile).
CommitUpdate(s) ==
  /\ At(s, "commit") /\ holder = s
  /\ interests' = draft /\ holder' = None
  /\ written' = written \cup {s}
  /\ Goto(s, "done")
  /\ Tell(s, "ok") \/ (MayBreak /\ Tell(s, "failed"))
  /\ UNCHANGED <<picture, draft, file, device, op, last>>

Rollback(s) == holder' = IF holder = s THEN None ELSE holder
-----------------------------------------------------------------------------
\* A statement fails (a name that is taken, the connection, the time that the
\* handler has): the deferred Rollback runs and the app gets an error.
Fail(s) ==
  /\ MayBreak
  /\ pc[s] \in TxPC \cup {"create", "setPicture", "update"}
  /\ Rollback(s)
  /\ Goto(s, "done")
  /\ Tell(s, "failed")
  /\ UNCHANGED <<interests, picture, draft, file, device, op, written, last>>

\* The receive timeout of the app: it forgets the request, and sends no
\* other; the server has not noticed yet.
GiveUp(s) ==
  /\ MayBreak
  /\ Running(s) /\ told[s] = "nothing"
  /\ Tell(s, "failed")
  /\ Goto(s, IF At(s, "uploaded") THEN "done" ELSE pc[s])
  /\ UNCHANGED <<row, file, device, op, written, last>>

\* The server dies; its open transaction is rolled back, and files stay as
\* they are.  The app gets an error for what was under way.
Restart ==
  /\ MayBreak
  /\ \E s \in Saves : Running(s)
  /\ holder' = None
  /\ pc' = [s \in Saves |-> IF Running(s) THEN "done" ELSE pc[s]]
  /\ told' = [s \in Saves |-> IF Running(s) /\ told[s] = "nothing" THEN "failed" ELSE told[s]]
  /\ page' = [d \in Devices |->
                IF page[d] # "arriving" /\ \E s \in Saves : Running(s) /\ op[s].dev = d
                  THEN "closed" ELSE page[d]]
  /\ UNCHANGED <<interests, picture, draft, file, device, op, written, last>>

Next ==
  \/ \E d \in Devices :
       \/ OpenCached(d) \/ OpenUnknown(d) \/ FindUser(d) \/ ShowUser(d)
       \/ FetchFails(d) \/ LeavePage(d)
       \/ \E s \in Saves : Confirm(d, s)
  \/ \E s \in Saves :
       \/ CreateFile(s) \/ WriteFile(s) \/ SetPicture(s) \/ SendUpdate(s)
       \/ UpdateNames(s) \/ AddInterests(s) \/ RemoveInterests(s) \/ CommitUpdate(s)
       \/ Fail(s) \/ GiveUp(s)
  \/ Restart

Spec == Init /\ [][Next]_vars
-----------------------------------------------------------------------------
\* Every variable keeps the type its counterpart has.
TypeOK ==
  /\ interests \subseteq Interests /\ draft \subseteq Interests
  /\ picture \in Saves \cup {None} /\ holder \in Saves \cup {None}
  /\ file \in [Saves -> {"none", "partial", "whole"}]
  /\ page \in [Devices -> PagePC]
  /\ prev \in [Devices -> SUBSET Interests] /\ seen \in [Devices -> SUBSET Interests]
  /\ known \subseteq Devices /\ cache \in [Devices -> SUBSET Interests]
  /\ op \in [Saves -> Op]
  /\ pc \in [Saves -> PC]
  /\ told \in [Saves -> {"nothing", "ok", "failed"}]
  /\ written \subseteq Saves /\ last \in Saves \cup {None}

\* Whatever fails and whoever overlaps, the row never names a picture that was
\* not written to its end.
PictureIsWhole == picture # None => file[picture] = "whole"

\* The row is locked only by a transaction that is still running: a failed
\* one does not keep the volunteer's later saves waiting.
HolderRuns == holder # None => pc[holder] \in TxPC

\* The effect of save s on the interests old: it adds all of its additions,
\* and takes out one of its removals, nothing else.
Effect(s, old, new) ==
  /\ op[s].add \subseteq new /\ new \subseteq old \cup op[s].add
  /\ old \ new \subseteq op[s].remove
  /\ op[s].remove # {} => ~(op[s].remove \subseteq new)

\* The interests only ever change by the whole effect of a save that edits
\* them, never by one of its two statements.
EditsAreAtomic ==
  [][interests' # interests => \E s \in Saves : Effect(s, interests, interests')]_vars

\* Concurrent saves are not lost to each other: what a save reported as
\* successful has added is there, unless some committed save removes it.
SavedStays ==
  \A s \in Saves : told[s] = "ok" =>
    \A i \in op[s].add : i \in interests \/ \E t \in written : i \in op[t].remove

\* What the transaction that holds the row has done so far.
DraftOK ==
  \A s \in Saves : holder = s =>
    /\ At(s, "add") => draft = interests /\ op[s].add # {}
    /\ At(s, "remove") => draft = interests \cup op[s].add /\ op[s].remove # {}
    /\ At(s, "commit") => Effect(s, interests, draft)

\* A save in the middle of its transaction holds the row, and the picture it
\* is about to set is written; what it adds it does not remove.
PathOK ==
  \A s \in Saves :
    /\ pc[s] \in TxPC => holder = s
    /\ At(s, "setPicture") => file[s] = "whole"
    /\ pc[s] \in {"idle", "create"} => file[s] = "none"
    /\ At(s, "idle") => told[s] = "nothing"
    /\ op[s].add \cap op[s].remove = {}

\* Success is reported of committed saves only, and each of them stays.
WrittenOK ==
  /\ \A s \in Saves : told[s] = "ok" => s \in written
  /\ \A s \in written : pc[s] = "done"
  /\ \A s \in written : \A i \in op[s].add : i \in interests \/ \E t \in written : i \in op[t].remove

\* The inductive invariant.
ProfileInv == TypeOK /\ PictureIsWhole /\ HolderRuns /\ DraftOK /\ PathOK /\ WrittenOK

\* volunteer_profile.dart:112 toasts "User data updated!": with no other save
\* under way, the row then holds the interests that the page showed.
SavedAsShown == last # None /\ told[last] = "ok" => interests = op[last].shown
=============================================================================
