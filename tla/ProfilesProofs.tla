--------------------------- MODULE ProfilesProofs ---------------------------
(***************************************************************************)
(* Theorems of the profile edits, for any interests, any number of devices *)
(* and saves and any number of them under way.                             *)
(***************************************************************************)
EXTENDS Profiles, TLAPS

\* The fields of what a save asks for.
LEMMA SaveFields ==
  ASSUME NEW d \in Devices, NEW S \in SUBSET Interests, NEW old \in SUBSET Interests,
         NEW img \in BOOLEAN
  PROVE  /\ Save(d, S, old, img) \in Op
         /\ Save(d, S, old, img).add \cap Save(d, S, old, img).remove = {}
<1>1. /\ Save(d, S, old, img).add = S \ old
      /\ Save(d, S, old, img).remove = old \ S
  BY DEF Save
<1>2. Save(d, S, old, img) \in Op
  BY DEF Save, Op
<1>. QED
  BY <1>1, <1>2

LEMMA OpFields ==
  ASSUME TypeOK, NEW s \in Saves
  PROVE  op[s] \in Op /\ op[s].add \subseteq Interests /\ op[s].remove \subseteq Interests
  BY DEF TypeOK, Op

\* Telling the page changes at most what was told of that save.
LEMMA Telling ==
  ASSUME TypeOK, NEW s \in Saves, NEW a \in {"ok", "failed"}, Tell(s, a)
  PROVE  /\ told' \in [Saves -> {"nothing", "ok", "failed"}]
         /\ page' \in [Devices -> PagePC]
         /\ told'[s] = told[s] \/ told'[s] = a
         /\ \A t \in Saves : t # s => told'[t] = told[t]
<1>1. CASE told[s] = "nothing"
  <2>1. told' = [told EXCEPT ![s] = a]
    BY <1>1 DEF Tell
  <2>2. page' = [page EXCEPT ![op[s].dev] = IF @ = "editing" THEN "closed" ELSE @]
    BY <1>1 DEF Tell
  <2>3. page' \in [Devices -> PagePC]
    BY <2>2 DEF TypeOK, PagePC
  <2>. QED
    BY <2>1, <2>3 DEF TypeOK
<1>2. CASE told[s] # "nothing"
  BY <1>2 DEF Tell, TypeOK
<1>. QED
  BY <1>1, <1>2

\* The initial states satisfy the invariant.
LEMMA InitProfile == Init => ProfileInv
<1> SUFFICES ASSUME Init PROVE ProfileInv
  OBVIOUS
<1>. USE ProfileAssumption
<1>1. NoOp \in Op /\ NoOp.add \cap NoOp.remove = {}
  BY DEF NoOp, Op
<1>2. TypeOK
  BY <1>1 DEF Init, TypeOK, PC, PagePC
<1>3. PictureIsWhole /\ HolderRuns /\ DraftOK /\ WrittenOK
  BY DEF Init, PictureIsWhole, HolderRuns, DraftOK, WrittenOK
<1>4. PathOK
  BY <1>1 DEF Init, PathOK, At, TxPC
<1>. QED
  BY <1>2, <1>3, <1>4 DEF ProfileInv

\* Every step keeps the types.
LEMMA TypeStep ==
  ASSUME TypeOK, [Next]_vars
  PROVE  TypeOK'
<1>. USE ProfileAssumption
<1>1. ASSUME NEW d \in Devices, OpenCached(d) \/ OpenUnknown(d) \/ FindUser(d)
                                  \/ FetchFails(d) \/ LeavePage(d)
      PROVE  TypeOK'
  BY <1>1 DEF TypeOK, OpenCached, OpenUnknown, FindUser, UserRow, FetchFails, LeavePage, Show, PagePC, row, device
<1>2. ASSUME NEW d \in Devices, ShowUser(d) PROVE TypeOK'
  BY <1>2 DEF TypeOK, ShowUser, Show, PagePC, row
<1>3. ASSUME NEW d \in Devices, NEW s \in Saves, Confirm(d, s) PROVE TypeOK'
  <2>1. PICK S \in SUBSET Interests, img \in BOOLEAN :
          /\ op' = [op EXCEPT ![s] = Save(d, S, prev[d], img)]
          /\ Goto(s, IF img THEN "create" ELSE "update")
    BY <1>3 DEF Confirm
  <2>2. Save(d, S, prev[d], img) \in Op
    BY SaveFields DEF TypeOK
  <2>3. op' \in [Saves -> Op]
    BY <2>1, <2>2 DEF TypeOK
  <2>4. pc' \in [Saves -> PC]
    BY <2>1 DEF TypeOK, Goto, PC
  <2>. QED
    BY <1>3, <2>3, <2>4 DEF TypeOK, Confirm, row, device
<1>4. ASSUME NEW s \in Saves, CreateFile(s) \/ SetPicture(s) \/ SendUpdate(s)
      PROVE  TypeOK'
  BY <1>4 DEF TypeOK, CreateFile, SetPicture, SendUpdate, Goto, PC, row, device
<1>5. ASSUME NEW s \in Saves, WriteFile(s) PROVE TypeOK'
  <2>1. CASE WriteError(s) /\ UNCHANGED file
    BY <1>5, <2>1, Telling DEF TypeOK, WriteFile, WriteError, Goto, PC, row, device
  <2>2. CASE file' = [file EXCEPT ![s] = "whole"] /\ Goto(s, "setPicture") /\ UNCHANGED <<told, page>>
    BY <1>5, <2>2 DEF TypeOK, WriteFile, Goto, PC, row, device
  <2>. QED
    BY <1>5, <2>1, <2>2 DEF WriteFile
<1>6. ASSUME NEW s \in Saves, UpdateNames(s) PROVE TypeOK'
  <2>1. AfterNames(s) \in PC
    BY DEF AfterNames, PC, TxPC
  <2>. QED
    BY <1>6, <2>1 DEF TypeOK, UpdateNames, Goto, device
<1>7. ASSUME NEW s \in Saves, AddInterests(s) PROVE TypeOK'
  <2>1. AfterAdd(s) \in PC
    BY DEF AfterAdd, PC, TxPC
  <2>2. draft \cup op[s].add \subseteq Interests
    BY OpFields DEF TypeOK
  <2>. QED
    BY <1>7, <2>1, <2>2 DEF TypeOK, AddInterests, Write, Cat, Goto, device
<1>8. ASSUME NEW s \in Saves, RemoveInterests(s) PROVE TypeOK'
  <2>1. draft' \subseteq Interests /\ UNCHANGED interests
    BY <1>8 DEF TypeOK, RemoveInterests, Write
  <2>. QED
    BY <1>8, <2>1 DEF TypeOK, RemoveInterests, Goto, PC, TxPC, device
<1>9. ASSUME NEW s \in Saves, CommitUpdate(s) PROVE TypeOK'
  BY <1>9, Telling DEF TypeOK, CommitUpdate, Goto, PC, device
<1>10. ASSUME NEW s \in Saves, Fail(s) PROVE TypeOK'
  BY <1>10, Telling DEF TypeOK, Fail, Rollback, Goto, PC, device
<1>11. ASSUME NEW s \in Saves, GiveUp(s) PROVE TypeOK'
  BY <1>11, Telling DEF TypeOK, GiveUp, Goto, At, PC, row, device
<1>12. CASE Restart
  <2>1. told' \in [Saves -> {"nothing", "ok", "failed"}] /\ pc' \in [Saves -> PC]
    BY <1>12 DEF Restart, TypeOK, PC
  <2>2. page' \in [Devices -> PagePC]
    BY <1>12 DEF Restart, TypeOK, PagePC
  <2>. QED
    BY <1>12, <2>1, <2>2 DEF Restart, TypeOK, device
<1>13. CASE UNCHANGED vars
  BY <1>13 DEF TypeOK, vars, row, device
<1>. QED
  BY <1>1, <1>2, <1>3, <1>4, <1>5, <1>6, <1>7, <1>8, <1>9, <1>10, <1>11, <1>12, <1>13 DEF Next

-----------------------------------------------------------------------------
\* What a step changes of the rest of the invariant.  The device's own steps
\* change nothing that it reads.
LEMMA DeviceStep ==
  ASSUME ProfileInv, UNCHANGED <<row, file, op, pc, told, written>>
  PROVE  /\ PictureIsWhole' /\ HolderRuns'
         /\ DraftOK' /\ PathOK' /\ WrittenOK'
  BY DEF ProfileInv, PictureIsWhole, HolderRuns, DraftOK, PathOK, WrittenOK, Effect, At, row

\* A save that is confirmed was idle: it holds no lock and is not committed.
LEMMA ConfirmStep ==
  ASSUME ProfileInv, NEW d \in Devices, NEW s \in Saves, Confirm(d, s)
  PROVE  /\ PictureIsWhole' /\ HolderRuns'
         /\ DraftOK' /\ PathOK' /\ WrittenOK'
<1>. USE ProfileAssumption
<1>1. PICK S \in SUBSET Interests, img \in BOOLEAN :
        /\ op' = [op EXCEPT ![s] = Save(d, S, prev[d], img)]
        /\ Goto(s, IF img THEN "create" ELSE "update")
  BY DEF Confirm
<1>2. Save(d, S, prev[d], img).add \cap Save(d, S, prev[d], img).remove = {}
  BY SaveFields DEF ProfileInv, TypeOK
<1>3. pc[s] = "idle" /\ s # holder /\ s \notin written /\ told[s] = "nothing" /\ file[s] = "none"
  BY DEF Confirm, At, ProfileInv, HolderRuns, WrittenOK, PathOK, TxPC
<1>4. /\ \A t \in Saves : t # s => op'[t] = op[t] /\ pc'[t] = pc[t]
      /\ op'[s] = Save(d, S, prev[d], img)
      /\ pc'[s] \in {"create", "update"}
  BY <1>1 DEF ProfileInv, TypeOK, Goto
<1>5. UNCHANGED <<interests, picture, holder, draft, file, told, written>>
  BY DEF Confirm, row
<1>6. PictureIsWhole'
  BY <1>5 DEF ProfileInv, PictureIsWhole
<1>7. HolderRuns'
  BY <1>3, <1>4, <1>5 DEF ProfileInv, TypeOK, HolderRuns
<1>8. DraftOK'
  BY <1>3, <1>4, <1>5 DEF ProfileInv, DraftOK, At, Effect
<1>9. PathOK'
  BY <1>2, <1>3, <1>4, <1>5 DEF ProfileInv, PathOK, At, TxPC
<1>10. WrittenOK'
  <2>1. \A t \in written : t # s /\ op'[t] = op[t] /\ pc'[t] = pc[t]
    BY <1>3, <1>4 DEF ProfileInv, TypeOK
  <2>. QED
    BY <2>1, <1>5 DEF ProfileInv, WrittenOK
<1>. QED
  BY <1>6, <1>7, <1>8, <1>9, <1>10

\* Steps of a save that leave the lock and the committed saves alone, and do
\* not enter the transaction.
LEMMA OutsideStep ==
  ASSUME ProfileInv, NEW s \in Saves,
         pc' = [pc EXCEPT ![s] = pc'[s]], pc'[s] # "idle",
         UNCHANGED <<interests, holder, draft, op, written>>,
         pc'[s] \in TxPC => pc'[s] = pc[s],
         pc[s] \in TxPC => pc'[s] = pc[s],
         \A t \in Saves : told'[t] = told[t] \/ (t = s /\ told'[t] = "failed"),
         \A t \in Saves : file'[t] = file[t] \/ (t = s /\ file[s] # "whole" /\ pc[s] # "idle"),
         pc[s] # "idle", pc[s] = "done" => pc'[s] = "done",
         pc'[s] = "setPicture" => file'[s] = "whole",
         pc'[s] = "create" => pc[s] = "create" /\ file' = file,
         picture' = picture \/ (picture' = s /\ file'[s] = "whole")
  PROVE  /\ PictureIsWhole' /\ HolderRuns'
         /\ DraftOK' /\ PathOK' /\ WrittenOK'
<1>. USE ProfileAssumption
<1>1. \A t \in Saves : t # s => pc'[t] = pc[t]
  BY DEF ProfileInv, TypeOK
<1>2. PictureIsWhole'
  BY DEF ProfileInv, TypeOK, PictureIsWhole
<1>3. HolderRuns'
  BY <1>1 DEF ProfileInv, TypeOK, HolderRuns
<1>4. DraftOK'
  BY <1>1 DEF ProfileInv, DraftOK, At, Effect, TxPC
<1>5. PathOK'
  <2>1. ASSUME NEW t \in Saves PROVE
          /\ pc'[t] \in TxPC => holder' = t
          /\ op'[t].add \cap op'[t].remove = {}
    BY <1>1, <2>1 DEF ProfileInv, PathOK
  <2>2. ASSUME NEW t \in Saves, pc'[t] = "setPicture" PROVE file'[t] = "whole"
    BY <1>1, <2>2 DEF ProfileInv, PathOK, At
  <2>3. ASSUME NEW t \in Saves, pc'[t] = "idle" PROVE file'[t] = "none" /\ told'[t] = "nothing"
    <3>1. t # s /\ pc[t] = "idle"
      BY <1>1, <2>3
    <3>. QED
      BY <3>1 DEF ProfileInv, PathOK, At
  <2>4. ASSUME NEW t \in Saves, pc'[t] = "create" PROVE file'[t] = "none"
    BY <1>1, <2>4 DEF ProfileInv, PathOK
  <2>. QED
    BY <2>1, <2>2, <2>3, <2>4 DEF PathOK, At
<1>6. WrittenOK'
  <2>1. \A t \in Saves : told'[t] = "ok" => t \in written'
    BY DEF ProfileInv, WrittenOK
  <2>2. \A t \in written' : pc'[t] = "done"
    BY <1>1 DEF ProfileInv, WrittenOK, TypeOK
  <2>3. \A t \in written' : \A i \in op'[t].add : i \in interests' \/ \E u \in written' : i \in op'[u].remove
    BY DEF ProfileInv, WrittenOK
  <2>. QED
    BY <2>1, <2>2, <2>3 DEF WrittenOK
<1>. QED
  BY <1>2, <1>3, <1>4, <1>5, <1>6
-----------------------------------------------------------------------------
\* The first statement locks the row: the draft is what is committed.
LEMMA NamesStep ==
  ASSUME ProfileInv, NEW s \in Saves, UpdateNames(s)
  PROVE  /\ PictureIsWhole' /\ HolderRuns'
         /\ DraftOK' /\ PathOK' /\ WrittenOK'
<1>. USE ProfileAssumption
<1>1. AfterNames(s) \in TxPC
  BY DEF AfterNames, TxPC
<1>2. /\ \A t \in Saves : t # s => pc'[t] = pc[t]
      /\ pc'[s] = AfterNames(s) /\ pc[s] = "update"
  BY DEF ProfileInv, TypeOK, UpdateNames, Goto, At
<1>3. /\ UNCHANGED <<interests, picture, file, op, told, written>>
      /\ holder = None /\ holder' = s /\ draft' = interests
  BY DEF UpdateNames, device
<1>4. PictureIsWhole' /\ HolderRuns'
  BY <1>1, <1>2, <1>3 DEF ProfileInv, PictureIsWhole, HolderRuns
<1>5. DraftOK'
  BY <1>2, <1>3 DEF DraftOK, At, AfterNames, Effect
<1>6. \A t \in Saves : pc[t] \notin TxPC
  BY <1>3 DEF ProfileInv, PathOK
<1>7. PathOK'
  BY <1>1, <1>2, <1>3, <1>6 DEF ProfileInv, PathOK, At, TxPC
<1>8. WrittenOK'
  BY <1>2, <1>3 DEF ProfileInv, TypeOK, WrittenOK
<1>. QED
  BY <1>4, <1>5, <1>7, <1>8

\* The next two statements change the draft as the save asks.
LEMMA StatementStep ==
  ASSUME ProfileInv, NEW s \in Saves, AddInterests(s) \/ RemoveInterests(s)
  PROVE  /\ PictureIsWhole' /\ HolderRuns'
         /\ DraftOK' /\ PathOK' /\ WrittenOK'
<1>. USE ProfileAssumption
<1>1. AfterAdd(s) \in TxPC /\ AfterAdd(s) # "add" /\ "commit" \in TxPC
  BY DEF AfterAdd, TxPC
<1>2. /\ \A t \in Saves : t # s => pc'[t] = pc[t]
      /\ pc'[s] \in TxPC /\ pc'[s] # "add" /\ pc[s] \in TxPC
  BY <1>1 DEF ProfileInv, TypeOK, AddInterests, RemoveInterests, Goto, At, TxPC
<1>3. /\ UNCHANGED <<interests, picture, holder, file, op, told, written>>
      /\ holder = s
  BY DEF AddInterests, RemoveInterests, Write, device
<1>4. PictureIsWhole' /\ HolderRuns'
  BY <1>2, <1>3 DEF ProfileInv, PictureIsWhole, HolderRuns
<1>5. /\ pc'[s] = "remove" => draft' = interests \cup op[s].add /\ op[s].remove # {}
      /\ pc'[s] = "commit" => Effect(s, interests, draft')
  <2>0. op[s].add \cap op[s].remove = {}
    BY DEF ProfileInv, PathOK
  <2>1. CASE AddInterests(s)
    <3>1. draft' = interests \cup op[s].add
      BY <2>1 DEF AddInterests, Write, Cat, ProfileInv, DraftOK, At
    <3>2. pc'[s] = IF op[s].remove # {} THEN "remove" ELSE "commit"
      BY <2>1 DEF AddInterests, Goto, AfterAdd, ProfileInv, TypeOK
    <3>. QED
      BY <3>1, <3>2 DEF Effect
  <2>2. CASE RemoveInterests(s)
    <3>1. draft = interests \cup op[s].add
      BY <2>2 DEF RemoveInterests, ProfileInv, DraftOK, At
    <3>2. PICK i \in op[s].remove : draft' = draft \ {i}
      BY <2>2 DEF RemoveInterests, Write
    <3>3. pc'[s] = "commit"
      BY <2>2 DEF RemoveInterests, Goto, ProfileInv, TypeOK
    <3>. QED
      BY <2>0, <3>1, <3>2, <3>3 DEF Effect
  <2>. QED
    BY <2>1, <2>2
<1>6. DraftOK'
  BY <1>2, <1>3, <1>5 DEF DraftOK, At, Effect
<1>7. PathOK'
  BY <1>2, <1>3 DEF ProfileInv, PathOK, At, TxPC
<1>8. WrittenOK'
  BY <1>2, <1>3 DEF ProfileInv, TypeOK, WrittenOK, TxPC
<1>. QED
  BY <1>4, <1>6, <1>7, <1>8

\* A commit is the save's whole effect on the row.
LEMMA CommitEffect ==
  ASSUME ProfileInv, NEW s \in Saves, CommitUpdate(s)
  PROVE  Effect(s, interests, interests')
  BY DEF ProfileInv, DraftOK, CommitUpdate, At

\* It frees the row; what other committed saves added, it either leaves there
\* or is one that removes it.
LEMMA CommitStep ==
  ASSUME ProfileInv, NEW s \in Saves, CommitUpdate(s)
  PROVE  /\ PictureIsWhole' /\ HolderRuns'
         /\ DraftOK' /\ PathOK' /\ WrittenOK'
<1>. USE ProfileAssumption
<1>1. /\ \A t \in Saves : t # s => pc'[t] = pc[t]
      /\ pc'[s] = "done" /\ pc[s] = "commit"
  BY DEF ProfileInv, TypeOK, CommitUpdate, Goto, At
<1>2. /\ UNCHANGED <<picture, file, op>>
      /\ holder = s /\ holder' = None /\ written' = written \cup {s}
  BY DEF CommitUpdate, device
<1>3. \A t \in Saves : t # s => told'[t] = told[t]
  BY Telling DEF ProfileInv, CommitUpdate
<1>4. PictureIsWhole' /\ HolderRuns'
  BY <1>2 DEF ProfileInv, PictureIsWhole, HolderRuns
<1>5. DraftOK'
  BY <1>2 DEF DraftOK
<1>6. \A t \in Saves : t # s => pc[t] \notin TxPC
  BY <1>2 DEF ProfileInv, PathOK
<1>7. PathOK'
  BY <1>1, <1>2, <1>3, <1>6 DEF ProfileInv, PathOK, At, TxPC
<1>8. WrittenOK'
  <2>1. \A t \in Saves : told'[t] = "ok" => t \in written'
    BY <1>2, <1>3 DEF ProfileInv, WrittenOK
  <2>2. \A t \in written' : pc'[t] = "done"
    BY <1>1, <1>2 DEF ProfileInv, TypeOK, WrittenOK
  <2>3. Effect(s, interests, interests')
    BY CommitEffect
  <2>4. ASSUME NEW t \in written', NEW i \in op[t].add
        PROVE  i \in interests' \/ \E u \in written' : i \in op[u].remove
    <3>1. CASE t = s
      BY <2>3, <2>4, <3>1 DEF Effect
    <3>2. CASE t # s
      <4>1. i \in interests \/ \E u \in written : i \in op[u].remove
        BY <1>2, <2>4, <3>2 DEF ProfileInv, WrittenOK
      <4>2. CASE i \in interests
        BY <1>2, <2>3, <4>2 DEF Effect
      <4>. QED
        BY <1>2, <4>1, <4>2
    <3>. QED
      BY <3>1, <3>2
  <2>. QED
    BY <1>2, <2>1, <2>2, <2>4 DEF WrittenOK
<1>. QED
  BY <1>4, <1>5, <1>7, <1>8

\* A save that fails rolls its transaction back.
LEMMA FailStep ==
  ASSUME ProfileInv, NEW s \in Saves, Fail(s)
  PROVE  /\ PictureIsWhole' /\ HolderRuns'
         /\ DraftOK' /\ PathOK' /\ WrittenOK'
<1>. USE ProfileAssumption
<1>1. /\ \A t \in Saves : t # s => pc'[t] = pc[t] /\ told'[t] = told[t]
      /\ pc'[s] = "done" /\ pc[s] \notin {"idle", "done"}
      /\ told'[s] = told[s] \/ told'[s] = "failed"
  BY Telling DEF ProfileInv, TypeOK, Fail, Goto, TxPC
<1>2. /\ UNCHANGED <<interests, picture, draft, file, op, written>>
      /\ holder' = IF holder = s THEN None ELSE holder
  BY DEF Fail, Rollback, device
<1>3. PictureIsWhole' /\ HolderRuns'
  BY <1>1, <1>2 DEF ProfileInv, TypeOK, PictureIsWhole, HolderRuns
<1>4. DraftOK'
  BY <1>1, <1>2 DEF ProfileInv, DraftOK, At, Effect
<1>5. PathOK'
  BY <1>1, <1>2 DEF ProfileInv, PathOK, At, TxPC
<1>6. WrittenOK'
  BY <1>1, <1>2 DEF ProfileInv, TypeOK, WrittenOK
<1>. QED
  BY <1>3, <1>4, <1>5, <1>6

\* A server that dies leaves no lock behind.
LEMMA RestartStep ==
  ASSUME ProfileInv, Restart
  PROVE  /\ PictureIsWhole' /\ HolderRuns'
         /\ DraftOK' /\ PathOK' /\ WrittenOK'
<1>. USE ProfileAssumption
<1>1. \A t \in Saves : /\ pc'[t] = IF Running(t) THEN "done" ELSE pc[t]
                       /\ told'[t] = IF Running(t) /\ told[t] = "nothing" THEN "failed" ELSE told[t]
  BY DEF Restart
<1>2. UNCHANGED <<interests, picture, draft, file, op, written>> /\ holder' = None
  BY DEF Restart, device
<1>3. PictureIsWhole' /\ HolderRuns' /\ DraftOK'
  BY <1>2 DEF ProfileInv, PictureIsWhole, HolderRuns, DraftOK
<1>4. PathOK'
  BY <1>1, <1>2 DEF ProfileInv, PathOK, At, TxPC, Running
<1>5. WrittenOK'
  <2>1. \A t \in Saves : told'[t] = "ok" => told[t] = "ok"
    BY <1>1
  <2>2. \A t \in written : pc'[t] = pc[t]
    BY <1>1 DEF ProfileInv, TypeOK, WrittenOK, Running
  <2>. QED
    BY <1>2, <2>1, <2>2 DEF ProfileInv, WrittenOK
<1>. QED
  BY <1>3, <1>4, <1>5

\* The steps before the transaction, between the two requests, and the app's.
LEMMA UploadStep ==
  ASSUME ProfileInv, NEW s \in Saves,
         \/ CreateFile(s) \/ WriteFile(s) \/ SetPicture(s) \/ SendUpdate(s) \/ GiveUp(s)
  PROVE  /\ PictureIsWhole' /\ HolderRuns'
         /\ DraftOK' /\ PathOK' /\ WrittenOK'
<1>. USE ProfileAssumption
<1>1. CASE CreateFile(s)
  <2>1. /\ pc' = [pc EXCEPT ![s] = "write"] /\ pc'[s] = "write" /\ pc[s] = "create"
        /\ \A t \in Saves : t # s => file'[t] = file[t]
    BY <1>1 DEF CreateFile, Goto, At, ProfileInv, TypeOK
  <2>2. file[s] = "none"
    BY <2>1 DEF ProfileInv, PathOK
  <2>. QED
    BY <1>1, <2>1, <2>2, OutsideStep DEF CreateFile, row, TxPC
<1>2. CASE WriteFile(s)
  <2>1. pc[s] = "write"
    BY <1>2 DEF WriteFile, At
  <2>2. CASE file' = [file EXCEPT ![s] = "whole"] /\ Goto(s, "setPicture") /\ UNCHANGED <<told, page>>
    <3>1. /\ pc' = [pc EXCEPT ![s] = "setPicture"] /\ pc'[s] = "setPicture"
          /\ file'[s] = "whole" /\ \A t \in Saves : t # s => file'[t] = file[t]
      BY <2>2 DEF Goto, ProfileInv, TypeOK
    <3>. QED
      BY <1>2, <2>1, <2>2, <3>1, OutsideStep DEF WriteFile, row, TxPC
  <2>3. CASE WriteError(s) /\ UNCHANGED file
    <3>1. /\ pc' = [pc EXCEPT ![s] = "done"] /\ pc'[s] = "done"
          /\ \A t \in Saves : told'[t] = told[t] \/ (t = s /\ told'[t] = "failed")
      BY <2>3, Telling DEF WriteError, Goto, ProfileInv, TypeOK
    <3>. QED
      BY <1>2, <2>1, <2>3, <3>1, OutsideStep DEF WriteFile, row, TxPC
  <2>. QED
    BY <1>2, <2>2, <2>3 DEF WriteFile
<1>3. CASE SetPicture(s)
  <2>1. /\ pc' = [pc EXCEPT ![s] = pc'[s]] /\ pc'[s] \in {"uploaded", "done"} /\ pc[s] = "setPicture"
    BY <1>3 DEF SetPicture, Goto, At, ProfileInv, TypeOK
  <2>2. file[s] = "whole"
    BY <2>1 DEF ProfileInv, PathOK, At
  <2>. QED
    BY <1>3, <2>1, <2>2, OutsideStep DEF SetPicture, device, TxPC
<1>4. CASE SendUpdate(s)
  <2>1. /\ pc' = [pc EXCEPT ![s] = "update"] /\ pc'[s] = "update" /\ pc[s] = "uploaded"
    BY <1>4 DEF SendUpdate, Goto, At, ProfileInv, TypeOK
  <2>. QED
    BY <1>4, <2>1, OutsideStep DEF SendUpdate, row, TxPC
<1>5. CASE GiveUp(s)
  <2>1. /\ pc' = [pc EXCEPT ![s] = pc'[s]] /\ pc[s] \notin {"idle", "done"}
        /\ pc'[s] = IF pc[s] = "uploaded" THEN "done" ELSE pc[s]
    BY <1>5 DEF GiveUp, Goto, At, Running, ProfileInv, TypeOK
  <2>2. \A t \in Saves : told'[t] = told[t] \/ (t = s /\ told'[t] = "failed")
    BY <1>5, Telling DEF GiveUp, ProfileInv
  <2>3. pc'[s] = "setPicture" => file[s] = "whole"
    BY <2>1 DEF ProfileInv, PathOK, At
  <2>. QED
    BY <1>5, <2>1, <2>2, <2>3, OutsideStep DEF GiveUp, row, TxPC
<1>. QED
  BY <1>1, <1>2, <1>3, <1>4, <1>5

\* Every step keeps the inductive invariant.
LEMMA ProfileStep == ProfileInv /\ [Next]_vars => ProfileInv'
<1> SUFFICES ASSUME ProfileInv, [Next]_vars PROVE ProfileInv'
  OBVIOUS
<1>1. TypeOK'
  BY TypeStep DEF ProfileInv
<1>2. /\ PictureIsWhole' /\ HolderRuns'
      /\ DraftOK' /\ PathOK' /\ WrittenOK'
  <2>1. ASSUME NEW d \in Devices,
               OpenCached(d) \/ OpenUnknown(d) \/ FindUser(d) \/ ShowUser(d)
                 \/ FetchFails(d) \/ LeavePage(d)
        PROVE  UNCHANGED <<row, file, op, pc, told, written>>
    BY <2>1 DEF OpenCached, OpenUnknown, FindUser, ShowUser, FetchFails, LeavePage
  <2>2. CASE UNCHANGED vars
    BY <2>2, DeviceStep DEF vars
  <2>. QED
    BY <2>1, <2>2, DeviceStep, ConfirmStep, UploadStep, NamesStep, StatementStep, CommitStep,
       FailStep, RestartStep DEF Next
<1>. QED
  BY <1>1, <1>2 DEF ProfileInv
-----------------------------------------------------------------------------
\* Every reachable state satisfies the inductive invariant.
THEOREM ProfileInvariant == Spec => []ProfileInv
  BY InitProfile, ProfileStep, PTL DEF Spec

\* UploadUserProfileImage and UpdateProfile: whatever fails and whoever
\* overlaps, the row names no picture that was not written to its end.
THEOREM PictureWhole == Spec => []PictureIsWhole
<1>1. ProfileInv => PictureIsWhole
  BY DEF ProfileInv
<1>. QED
  BY <1>1, ProfileInvariant, PTL

\* UpdateUserInfo: only a running transaction keeps the row locked.
THEOREM LockFreed == Spec => []HolderRuns
<1>1. ProfileInv => HolderRuns
  BY DEF ProfileInv
<1>. QED
  BY <1>1, ProfileInvariant, PTL

\* UpdateUserInfo: what a save that reported success has added is there, unless
\* a committed save removes it.
THEOREM SavesStay == Spec => []SavedStays
<1>1. ProfileInv => SavedStays
  BY DEF ProfileInv, WrittenOK, SavedStays
<1>. QED
  BY <1>1, ProfileInvariant, PTL

\* UpdateUserInfo: the interests only change by the whole effect of one save.
THEOREM AtomicEdits == Spec => EditsAreAtomic
<1>1. ASSUME ProfileInv, [Next]_vars, interests' # interests
      PROVE  \E s \in Saves : Effect(s, interests, interests')
  <2>1. PICK s \in Saves : CommitUpdate(s)
    BY <1>1 DEF Next, OpenCached, OpenUnknown, FindUser, ShowUser, FetchFails, LeavePage, Confirm,
         CreateFile, WriteFile, SetPicture, SendUpdate, UpdateNames, AddInterests, Write,
         RemoveInterests, Fail, GiveUp, Restart, vars, row
  <2>. QED
    BY <1>1, <2>1, CommitEffect
<1>2. ProfileInv /\ [Next]_vars
        => [interests' # interests => \E s \in Saves : Effect(s, interests, interests')]_vars
  BY <1>1
<1>. QED
  BY <1>2, ProfileInvariant, PTL DEF Spec, EditsAreAtomic
=============================================================================
