------------------------- MODULE OrgDirectoryProofs -------------------------
(***************************************************************************)
(* Theorems of the directory of organizations, for every number of         *)
(* organizations and listings, every page size, and any life of keys and   *)
(* contexts.                                                               *)
(***************************************************************************)
EXTENDS OrgDirectory, TLAPS

\* The arguments of a listing are well formed and its page lies in the table.
LEMMA Pages ==
  ASSUME NEW f \in Filters, NEW p \in 1..MaxPage
  PROVE  [filter |-> f, page |-> p] \in Listing /\ Page(f, p) \subseteq Orgs
  BY DirectoryAssumption DEF Listing, Page

LEMMA SlicesOfSet == ASSUME NEW S, NEW p, NEW T \in Slices(S, p) PROVE T \subseteq S
  BY DEF Slices

\* The initial states satisfy the invariant.
LEMMA InitDirectory == Init => DirectoryInv
<1> SUFFICES ASSUME Init PROVE DirectoryInv
  OBVIOUS
<1>. USE DirectoryAssumption
<1>1. TypeOK
  BY DEF Init, TypeOK
<1>2. IdsOK /\ EntryOK
  BY DEF Init, IdsOK, EntryOK, Stored
<1>3. ASSUME NEW q \in Requests PROVE RequestOK(q)
  <2>1. Listed(q) = {}
    BY DEF Init, Listed
  <2>. QED
    BY <2>1 DEF Init, RequestOK, PathOK, ClockOK, ListOK, MeasureOK, FillOK, At, Active, Filling
<1>. QED
  BY <1>1, <1>2, <1>3 DEF DirectoryInv

\* The variables of one listing and its fill.
Of(q) == <<op[q], pc[q], reply[q], started[q], isEmpty[q], todo[q], at[q], list[q],
           fill[q], fillTodo[q], copy[q]>>

\* A version that was current at some time, past or present, keeps having been so.
PastKept ==
  \A o \in Orgs, v \in 0..MaxVersion, t \in Int :
    t <= now /\ CurrentAt(o, v, t) => CurrentAt(o, v, t)'

\* What a listing relies on survives the steps of the others.
LEMMA OtherRequest ==
  ASSUME DirectoryInv, NEW q \in Requests, UNCHANGED Of(q),
         PastKept, Stored \subseteq Stored', ClockOK(q)'
  PROVE  RequestOK(q)'
<1>. USE DirectoryAssumption
<1>1. RequestOK(q) /\ TypeOK
  BY DEF DirectoryInv
<1>2. /\ UNCHANGED <<op[q], pc[q], reply[q], started[q], isEmpty[q], todo[q], at[q], list[q]>>
      /\ UNCHANGED <<fill[q], fillTodo[q], copy[q]>>
  BY DEF Of
<1>3. Listed(q)' = Listed(q)
  BY <1>2 DEF Listed
<1>4. PathOK(q)'
  BY <1>1, <1>2, <1>3 DEF RequestOK, PathOK
<1>5. MeasureOK(q)'
  BY <1>1, <1>2 DEF RequestOK, MeasureOK, At
<1>6. ListOK(q)'
  <2> SUFFICES ASSUME NEW o \in Listed(q)
               PROVE  CurrentAt(o, list[q][o].version,
                        IF isEmpty[q] THEN started[q] ELSE started[q] - Expiry - Timeout)'
    BY <1>3 DEF ListOK
  <2> DEFINE t == IF isEmpty[q] THEN started[q] ELSE started[q] - Expiry - Timeout
  <2>1. o \in Orgs /\ list[q][o] \in Objects
    BY <1>1 DEF Listed, TypeOK
  <2>2. t \in Int /\ t <= now
    BY <1>1 DEF TypeOK, RequestOK, ClockOK
  <2>3. CurrentAt(o, list[q][o].version, t)
    BY <1>1 DEF RequestOK, ListOK
  <2>. HIDE DEF t
  <2>4. list[q][o].version \in 0..MaxVersion
    BY <2>1 DEF Objects
  <2>5. list[q][o].version = version'[o] \/ t <= replaced'[o][list[q][o].version]
    BY <2>1, <2>2, <2>3, <2>4 DEF PastKept, CurrentAt
  <2>. QED
    BY <1>2, <2>5 DEF CurrentAt, t
<1>7. FillOK(q)'
  <2>1. ASSUME fill[q] \in {"set", "add"}
        PROVE  copy[q] # NoCopy /\ CurrentAt(copy[q].org, copy[q].version, started[q])'
    <3>1. copy[q] # NoCopy /\ CurrentAt(copy[q].org, copy[q].version, started[q])
      BY <1>1, <2>1 DEF RequestOK, FillOK
    <3>2. copy[q].org \in Orgs /\ copy[q].version \in 0..MaxVersion
      BY <1>1, <3>1 DEF TypeOK
    <3>3. started[q] \in Int /\ started[q] <= now
      BY <1>1 DEF TypeOK, RequestOK, ClockOK
    <3>4. copy[q].version = version'[copy[q].org]
            \/ started[q] <= replaced'[copy[q].org][copy[q].version]
      BY <3>1, <3>2, <3>3 DEF PastKept, CurrentAt
    <3>. QED
      BY <1>2, <3>1, <3>4 DEF CurrentAt
  <2>. QED
    BY <1>1, <1>2, <1>3, <2>1 DEF RequestOK, FillOK, Filling
<1>. QED
  BY <1>4, <1>5, <1>6, <1>7 DEF RequestOK

\* Steps that touch one listing only, and neither table, Redis nor clock.
Quiet(q) ==
  /\ UNCHANGED <<version, ids, entry, now, replaced>>
  /\ \A r \in Requests \ {q} : UNCHANGED Of(r)

LEMMA QuietStep ==
  ASSUME DirectoryInv, NEW q \in Requests, Quiet(q), TypeOK', RequestOK(q)'
  PROVE  DirectoryInv'
<1>1. UNCHANGED <<version, ids, entry, now, replaced>>
  BY DEF Quiet
<1>2. PastKept /\ Stored' = Stored
  BY <1>1 DEF PastKept, CurrentAt, Stored
<1>3. IdsOK' /\ EntryOK'
  BY <1>1, <1>2 DEF DirectoryInv, IdsOK, EntryOK, CurrentAt
<1>4. ASSUME NEW r \in Requests, r # q PROVE RequestOK(r)'
  <2>1. UNCHANGED Of(r)
    BY <1>4 DEF Quiet
  <2>2. ClockOK(r)'
    BY <1>1, <2>1 DEF DirectoryInv, RequestOK, ClockOK, Of, Active, Filling
  <2>. QED
    BY <1>2, <2>1, <2>2, OtherRequest
<1>. QED
  BY <1>3, <1>4 DEF DirectoryInv
-----------------------------------------------------------------------------

\* A listing arrives.
LEMMA RequestStep ==
  ASSUME DirectoryInv, NEW q \in Requests, Request(q)
  PROVE  DirectoryInv'
<1>. USE DirectoryAssumption
<1>0. TypeOK /\ RequestOK(q) /\ IdsOK /\ EntryOK
  BY DEF DirectoryInv
<1>1. Quiet(q)
  BY <1>0 DEF Request, Goto, Answer, redis, filling, locals, Quiet, Of, TypeOK
<1>2. TypeOK'
  BY <1>0, Pages DEF Request, Goto, redis, filling, At, TypeOK
<1>3. RequestOK(q)'
  <2>1. PathOK(q)'
    BY <1>0 DEF Request, Goto, Answer, redis, filling, locals, At, Active, Filling, Listed, Stored, CurrentAt, TypeOK, RequestOK, PathOK
  <2>2. ClockOK(q)'
    BY <1>0 DEF Request, Goto, Answer, redis, filling, locals, At, Active, Filling, Listed, Stored, CurrentAt, TypeOK, RequestOK, ClockOK
  <2>3. ListOK(q)'
    <3>1. Listed(q)' = {}
      BY <1>0 DEF Request, At, Listed, RequestOK, PathOK
    <3>. QED
      BY <3>1 DEF ListOK
  <2>4. MeasureOK(q)'
    BY <1>0 DEF Request, Goto, Answer, redis, filling, locals, At, Active, Filling, Listed, Stored, CurrentAt, TypeOK, RequestOK, MeasureOK
  <2>5. FillOK(q)'
    BY <1>0 DEF Request, Goto, Answer, redis, filling, locals, At, Active, Filling, Listed, Stored, CurrentAt, TypeOK, RequestOK, FillOK
  <2>. QED
    BY <2>1, <2>2, <2>3, <2>4, <2>5 DEF RequestOK
<1>. QED
  BY <1>1, <1>2, <1>3, QuietStep

\* SCARD.
LEMMA IsEmptyStep ==
  ASSUME DirectoryInv, NEW q \in Requests, IsEmpty(q)
  PROVE  DirectoryInv'
<1>. USE DirectoryAssumption
<1>0. TypeOK /\ RequestOK(q) /\ IdsOK /\ EntryOK
  BY DEF DirectoryInv
<1>1. Quiet(q)
  BY <1>0 DEF IsEmpty, Goto, Answer, redis, filling, locals, Quiet, Of, TypeOK
<1>4. PICK b \in {ids = {}} \cup (IF MayBreak THEN {FALSE} ELSE {}) :
        /\ isEmpty' = [isEmpty EXCEPT ![q] = b]
        /\ pc' = [pc EXCEPT ![q] = IF b THEN "query" ELSE "members"]
  BY DEF IsEmpty, Goto
<1>5. b \in BOOLEAN
  BY <1>4, Zenon
<1>6. isEmpty' \in [Requests -> BOOLEAN]
  BY <1>0, <1>4, <1>5, Zenon DEF TypeOK
<1>2. TypeOK'
  BY <1>0, <1>4, <1>6 DEF IsEmpty, Goto, redis, filling, At, TypeOK
<1>3. RequestOK(q)'
  <2>1. PathOK(q)'
    BY <1>0 DEF IsEmpty, Goto, Answer, redis, filling, locals, At, Active, Filling, Listed, Stored, CurrentAt, TypeOK, RequestOK, PathOK
  <2>2. ClockOK(q)'
    BY <1>0 DEF IsEmpty, Goto, Answer, redis, filling, locals, At, Active, Filling, Listed, Stored, CurrentAt, TypeOK, RequestOK, ClockOK
  <2>3. ListOK(q)'
    <3>1. Listed(q)' = {}
      BY <1>0 DEF IsEmpty, At, Listed, RequestOK, PathOK
    <3>. QED
      BY <3>1 DEF ListOK
  <2>4. MeasureOK(q)'
    BY <1>0 DEF IsEmpty, Goto, Answer, redis, filling, locals, At, Active, Filling, Listed, Stored, CurrentAt, TypeOK, RequestOK, MeasureOK
  <2>5. FillOK(q)'
    BY <1>0 DEF IsEmpty, Goto, Answer, redis, filling, locals, At, Active, Filling, Listed, Stored, CurrentAt, TypeOK, RequestOK, FillOK
  <2>. QED
    BY <2>1, <2>2, <2>3, <2>4, <2>5 DEF RequestOK
<1>. QED
  BY <1>1, <1>2, <1>3, QuietStep

\* SMEMBERS: what it lists has had its key.
LEMMA MembersStep ==
  ASSUME DirectoryInv, NEW q \in Requests, Members(q)
  PROVE  DirectoryInv'
<1>. USE DirectoryAssumption
<1>0. TypeOK /\ RequestOK(q) /\ IdsOK /\ EntryOK
  BY DEF DirectoryInv
<1>1. Quiet(q)
  BY <1>0 DEF Members, Goto, Answer, redis, filling, locals, Quiet, Of, TypeOK
<1>2. TypeOK'
  <2>1. \A T \in Slices(ids, op[q].page) : T \in SUBSET Orgs
    BY <1>0, SlicesOfSet DEF TypeOK
  <2>. QED
    BY <1>0, <2>1 DEF Members, Goto, redis, filling, At, TypeOK
<1>3. RequestOK(q)'
  <2>1. PathOK(q)'
    BY <1>0, SlicesOfSet DEF Members, IdsOK, Goto, Answer, redis, filling, locals, At, Active, Filling, Listed, Stored, CurrentAt, TypeOK, RequestOK, PathOK
  <2>2. ClockOK(q)'
    BY <1>0, SlicesOfSet DEF Members, IdsOK, Goto, Answer, redis, filling, locals, At, Active, Filling, Listed, Stored, CurrentAt, TypeOK, RequestOK, ClockOK
  <2>3. ListOK(q)'
    BY <1>0, SlicesOfSet DEF Members, IdsOK, Goto, Answer, redis, filling, locals, At, Active, Filling, Listed, Stored, CurrentAt, TypeOK, RequestOK, ListOK
  <2>4. MeasureOK(q)'
    BY <1>0, SlicesOfSet DEF Members, IdsOK, Goto, Answer, redis, filling, locals, At, Active, Filling, Listed, Stored, CurrentAt, TypeOK, RequestOK, MeasureOK
  <2>5. FillOK(q)'
    BY <1>0, SlicesOfSet DEF Members, IdsOK, Goto, Answer, redis, filling, locals, At, Active, Filling, Listed, Stored, CurrentAt, TypeOK, RequestOK, FillOK
  <2>. QED
    BY <2>1, <2>2, <2>3, <2>4, <2>5 DEF RequestOK
<1>. QED
  BY <1>1, <1>2, <1>3, QuietStep

\* Reads that fail.
LEMMA FailSteps ==
  ASSUME DirectoryInv, NEW q \in Requests, MembersFails(q) \/ QueryFails(q)
  PROVE  DirectoryInv'
<1>. USE DirectoryAssumption
<1>0. TypeOK /\ RequestOK(q) /\ IdsOK /\ EntryOK
  BY DEF DirectoryInv
<1>1. Quiet(q)
  BY <1>0 DEF MembersFails, QueryFails, Goto, Answer, redis, filling, locals, Quiet, Of, TypeOK
<1>2. TypeOK'
  BY <1>0 DEF MembersFails, QueryFails, Goto, Answer, redis, filling, locals, At, TypeOK
<1>3. RequestOK(q)'
  <2>1. PathOK(q)'
    BY <1>0 DEF MembersFails, QueryFails, Goto, Answer, redis, filling, locals, At, Active, Filling, Listed, Stored, CurrentAt, TypeOK, RequestOK, PathOK
  <2>2. ClockOK(q)'
    BY <1>0 DEF MembersFails, QueryFails, Goto, Answer, redis, filling, locals, At, Active, Filling, Listed, Stored, CurrentAt, TypeOK, RequestOK, ClockOK
  <2>3. ListOK(q)'
    BY <1>0 DEF MembersFails, QueryFails, Goto, Answer, redis, filling, locals, At, Active, Filling, Listed, Stored, CurrentAt, TypeOK, RequestOK, ListOK
  <2>4. MeasureOK(q)'
    BY <1>0 DEF MembersFails, QueryFails, Goto, Answer, redis, filling, locals, At, Active, Filling, Listed, Stored, CurrentAt, TypeOK, RequestOK, MeasureOK
  <2>5. FillOK(q)'
    BY <1>0 DEF MembersFails, QueryFails, Goto, Answer, redis, filling, locals, At, Active, Filling, Listed, Stored, CurrentAt, TypeOK, RequestOK, FillOK
  <2>. QED
    BY <2>1, <2>2, <2>3, <2>4, <2>5 DEF RequestOK
<1>. QED
  BY <1>1, <1>2, <1>3, QuietStep

\* A GET that fails.
LEMMA GetFailsStep ==
  ASSUME DirectoryInv, NEW q \in Requests, GetFails(q)
  PROVE  DirectoryInv'
<1>. USE DirectoryAssumption
<1>0. TypeOK /\ RequestOK(q) /\ IdsOK /\ EntryOK
  BY DEF DirectoryInv
<1>1. Quiet(q)
  BY <1>0 DEF GetFails, Goto, Answer, redis, filling, locals, Quiet, Of, TypeOK
<1>2. TypeOK'
  BY <1>0 DEF GetFails, Goto, Answer, redis, filling, locals, At, TypeOK
<1>3. RequestOK(q)'
  <2>1. PathOK(q)'
    BY <1>0 DEF GetFails, Goto, Answer, redis, filling, locals, At, Active, Filling, Listed, Stored, CurrentAt, TypeOK, RequestOK, PathOK
  <2>2. ClockOK(q)'
    BY <1>0 DEF GetFails, Goto, Answer, redis, filling, locals, At, Active, Filling, Listed, Stored, CurrentAt, TypeOK, RequestOK, ClockOK
  <2>3. ListOK(q)'
    BY <1>0 DEF GetFails, Goto, Answer, redis, filling, locals, At, Active, Filling, Listed, Stored, CurrentAt, TypeOK, RequestOK, ListOK
  <2>4. MeasureOK(q)'
    BY <1>0 DEF GetFails, Goto, Answer, redis, filling, locals, At, Active, Filling, Listed, Stored, CurrentAt, TypeOK, RequestOK, MeasureOK
  <2>5. FillOK(q)'
    BY <1>0 DEF GetFails, Goto, Answer, redis, filling, locals, At, Active, Filling, Listed, Stored, CurrentAt, TypeOK, RequestOK, FillOK
  <2>. QED
    BY <2>1, <2>2, <2>3, <2>4, <2>5 DEF RequestOK
<1>. QED
  BY <1>1, <1>2, <1>3, QuietStep

\* The last GET.
LEMMA GotAllStep ==
  ASSUME DirectoryInv, NEW q \in Requests, GotAll(q)
  PROVE  DirectoryInv'
<1>. USE DirectoryAssumption
<1>0. TypeOK /\ RequestOK(q) /\ IdsOK /\ EntryOK
  BY DEF DirectoryInv
<1>1. Quiet(q)
  BY <1>0 DEF GotAll, Goto, Answer, redis, filling, locals, Quiet, Of, TypeOK
<1>2. TypeOK'
  BY <1>0 DEF GotAll, Listed, Goto, Answer, redis, filling, locals, At, TypeOK
<1>3. RequestOK(q)'
  <2>1. PathOK(q)'
    BY <1>0 DEF GotAll, Goto, Answer, redis, filling, locals, At, Active, Filling, Listed, Stored, CurrentAt, TypeOK, RequestOK, PathOK
  <2>2. ClockOK(q)'
    BY <1>0 DEF GotAll, Goto, Answer, redis, filling, locals, At, Active, Filling, Listed, Stored, CurrentAt, TypeOK, RequestOK, ClockOK
  <2>3. ListOK(q)'
    BY <1>0 DEF GotAll, Goto, Answer, redis, filling, locals, At, Active, Filling, Listed, Stored, CurrentAt, TypeOK, RequestOK, ListOK
  <2>4. MeasureOK(q)'
    <3>1. ~isEmpty'[q] /\ reply'[q] = reply[q]
      BY <1>0 DEF GotAll, Goto, At, RequestOK, PathOK
    <3>. QED
      BY <3>1 DEF MeasureOK
  <2>5. FillOK(q)'
    BY <1>0 DEF GotAll, Goto, Answer, redis, filling, locals, At, Active, Filling, Listed, Stored, CurrentAt, TypeOK, RequestOK, FillOK
  <2>. QED
    BY <2>1, <2>2, <2>3, <2>4, <2>5 DEF RequestOK
<1>. QED
  BY <1>1, <1>2, <1>3, QuietStep

\* The answer.
LEMMA DoneStep ==
  ASSUME DirectoryInv, NEW q \in Requests, Done(q)
  PROVE  DirectoryInv'
<1>. USE DirectoryAssumption
<1>0. TypeOK /\ RequestOK(q) /\ IdsOK /\ EntryOK
  BY DEF DirectoryInv
<1>1. Quiet(q)
  BY <1>0 DEF Done, Goto, Answer, redis, filling, locals, Quiet, Of, TypeOK
<1>2. TypeOK'
  BY <1>0 DEF Done, Goto, Answer, redis, filling, locals, At, TypeOK
<1>3. RequestOK(q)'
  <2>1. PathOK(q)'
    BY <1>0 DEF Done, Goto, Answer, redis, filling, locals, At, Active, Filling, Listed, Stored, CurrentAt, TypeOK, RequestOK, PathOK
  <2>2. ClockOK(q)'
    BY <1>0 DEF Done, Goto, Answer, redis, filling, locals, At, Active, Filling, Listed, Stored, CurrentAt, TypeOK, RequestOK, ClockOK
  <2>3. ListOK(q)'
    BY <1>0 DEF Done, Goto, Answer, redis, filling, locals, At, Active, Filling, Listed, Stored, CurrentAt, TypeOK, RequestOK, ListOK
  <2>4. MeasureOK(q)'
    BY <1>0 DEF Done, Goto, Answer, redis, filling, locals, At, Active, Filling, Listed, Stored, CurrentAt, TypeOK, RequestOK, MeasureOK
  <2>5. FillOK(q)'
    BY <1>0 DEF Done, Goto, Answer, redis, filling, locals, At, Active, Filling, Listed, Stored, CurrentAt, TypeOK, RequestOK, FillOK
  <2>. QED
    BY <2>1, <2>2, <2>3, <2>4, <2>5 DEF RequestOK
<1>. QED
  BY <1>1, <1>2, <1>3, QuietStep

\* The service takes a location out: a listing from the table has them all.
LEMMA MeasureStep ==
  ASSUME DirectoryInv, NEW q \in Requests, Measure(q)
  PROVE  DirectoryInv'
<1>. USE DirectoryAssumption
<1>0. TypeOK /\ RequestOK(q) /\ IdsOK /\ EntryOK
  BY DEF DirectoryInv
<1>1. Quiet(q)
  BY <1>0 DEF Measure, Answer, redis, filling, Quiet, Of, TypeOK
<1>4. PICK o \in Orgs :
        /\ IsFirst(o, todo[q])
        /\ IF list[q][o].located
           THEN /\ list' = [list EXCEPT ![q][o] = [version |-> @.version, located |-> FALSE]]
                /\ todo' = [todo EXCEPT ![q] = @ \ {o}]
                /\ UNCHANGED <<pc, reply>>
           ELSE Answer(q, "panic") /\ UNCHANGED <<list, todo>>
  BY DEF Measure
<1>5. /\ UNCHANGED <<version, ids, entry, now, op, started, isEmpty, at, replaced>>
      /\ UNCHANGED <<fill, fillTodo, copy, pc>>
      /\ At(q, "measure") /\ o \in todo[q]
  BY <1>4 DEF Measure, Answer, IsFirst, redis, filling
<1>6. CASE list[q][o].located
  <2>1. /\ list' = [list EXCEPT ![q][o] = [version |-> @.version, located |-> FALSE]]
        /\ todo' = [todo EXCEPT ![q] = @ \ {o}]
        /\ UNCHANGED reply
    BY <1>4, <1>6
  <2>2. list[q][o] \in Objects \cup {None}
    BY <1>0 DEF TypeOK
  <2>3. list[q][o] \in Objects
    BY <1>6, <2>2 DEF None
  <2> DEFINE new == [version |-> list[q][o].version, located |-> FALSE]
  <2>4. new \in Objects /\ new.version = list[q][o].version /\ new # None
    <3>1. list[q][o].version \in 0..MaxVersion
      BY <2>3 DEF Objects
    <3>2. new \in Objects
      BY <3>1 DEF Objects
    <3>3. new.version # None.version
      BY <3>1 DEF None
    <3>. QED
      BY <3>2, <3>3
  <2>5. list' = [list EXCEPT ![q] = [list[q] EXCEPT ![o] = new]]
    BY <2>1
  <2>. HIDE DEF new
  <2>6. TypeOK'
    <3>1. list' \in [Requests -> [Orgs -> Objects \cup {None}]]
      BY <1>0, <2>4, <2>5 DEF TypeOK
    <3>2. todo' \in [Requests -> SUBSET Orgs]
      BY <1>0, <2>1 DEF TypeOK
    <3>. QED
      BY <1>0, <1>5, <2>1, <3>1, <3>2 DEF TypeOK
  <2>7. Listed(q)' = Listed(q) /\ \A x \in Listed(q) : list'[q][x].version = list[q][x].version
    BY <1>0, <1>6, <2>3, <2>4, <2>5 DEF Listed, TypeOK, None, Objects
  <2>8. PathOK(q)' /\ ClockOK(q)'
    BY <1>0, <1>5, <2>1 DEF RequestOK, PathOK, ClockOK, At, Active, Filling
  <2>9. ListOK(q)'
    BY <1>0, <1>5, <2>7 DEF RequestOK, ListOK, CurrentAt
  <2>10. MeasureOK(q)'
    BY <1>0, <1>5, <2>1, <2>5 DEF RequestOK, MeasureOK, At, TypeOK
  <2>11. FillOK(q)'
    BY <1>0, <1>5, <2>7 DEF RequestOK, FillOK, Filling, CurrentAt, Stored
  <2>. QED
    BY <1>1, <2>6, <2>8, <2>9, <2>10, <2>11, QuietStep DEF RequestOK
<1>7. CASE ~list[q][o].located
  <2>1. reply' = [reply EXCEPT ![q] = "panic"] /\ UNCHANGED <<list, todo>>
    BY <1>4, <1>7 DEF Answer
  <2>2. ~isEmpty[q]
    BY <1>0, <1>5, <1>7 DEF RequestOK, MeasureOK
  <2>3. TypeOK'
    BY <1>0, <1>5, <2>1 DEF TypeOK
  <2>4. PathOK(q)' /\ ClockOK(q)' /\ ListOK(q)'
    BY <1>0, <1>5, <2>1 DEF RequestOK, PathOK, ClockOK, ListOK, At, Active, Filling, CurrentAt, Listed, TypeOK
  <2>5. MeasureOK(q)' /\ FillOK(q)'
    BY <1>0, <1>5, <2>1, <2>2 DEF RequestOK, MeasureOK, FillOK, At, Filling, CurrentAt, Stored, Listed, TypeOK
  <2>. QED
    BY <1>1, <2>3, <2>4, <2>5, QuietStep DEF RequestOK
<1>. QED
  BY <1>6, <1>7

\* The query, and the fill it leaves behind.
LEMMA QueryStep ==
  ASSUME DirectoryInv, NEW q \in Requests, Query(q)
  PROVE  DirectoryInv'
<1>. USE DirectoryAssumption
<1>0. TypeOK /\ RequestOK(q) /\ IdsOK /\ EntryOK
  BY DEF DirectoryInv
<1> DEFINE page == Page(op[q].filter, op[q].page)
<1>4. /\ list' = [list EXCEPT ![q] = [o \in Orgs |-> IF o \in page THEN Row(o) ELSE None]]
      /\ todo' = [todo EXCEPT ![q] = page]
      /\ IF isEmpty[q]
         THEN fill' = [fill EXCEPT ![q] = "next"] /\ fillTodo' = [fillTodo EXCEPT ![q] = page]
         ELSE UNCHANGED <<fill, fillTodo>>
      /\ pc' = [pc EXCEPT ![q] = "measure"]
      /\ UNCHANGED <<version, ids, entry, now, op, reply, started, isEmpty, at, copy, replaced>>
      /\ At(q, "query")
  BY DEF Query, Goto, redis
<1>5. page \subseteq Orgs
  <2>1. op[q] \in Listing \cup {NoOp}
    BY <1>0 DEF TypeOK
  <2>2. CASE op[q] \in Listing
    BY <2>2, Pages DEF Listing
  <2>3. CASE op[q] = NoOp
    BY <2>3 DEF NoOp, Page
  <2>. QED
    BY <2>1, <2>2, <2>3
<1>. HIDE DEF page
<1>6. \A o \in Orgs : Row(o) \in Objects /\ Row(o) # None /\ Row(o).located /\ Row(o).version = version[o]
  <2> SUFFICES ASSUME NEW o \in Orgs
               PROVE  Row(o) \in Objects /\ Row(o) # None /\ Row(o).located /\ Row(o).version = version[o]
    OBVIOUS
  <2>1. version[o] \in 0..MaxVersion
    BY <1>0 DEF TypeOK
  <2>2. Row(o).version # None.version
    BY <2>1 DEF Row, None
  <2>. QED
    BY <2>1, <2>2 DEF Row, Objects
<1>7. \A o \in Orgs : list'[q][o] = IF o \in page THEN Row(o) ELSE None
  BY <1>0, <1>4 DEF TypeOK
<1>8. Listed(q)' = page
  BY <1>5, <1>6, <1>7 DEF Listed
<1>9. fill[q] = "none"
  BY <1>0, <1>4 DEF RequestOK, FillOK, Filling, At
<1>1. Quiet(q)
  BY <1>0, <1>4 DEF Quiet, Of, TypeOK
<1>2. TypeOK'
  <2>1. list' \in [Requests -> [Orgs -> Objects \cup {None}]]
    BY <1>0, <1>4, <1>6 DEF TypeOK
  <2>2. fill' \in [Requests -> {"none", "next", "set", "add"}] /\ fillTodo' \in [Requests -> SUBSET Orgs]
    <3>1. CASE isEmpty[q]
      <4>1. fill' = [fill EXCEPT ![q] = "next"]
        BY <1>4, <3>1, Zenon
      <4>2. fillTodo' = [fillTodo EXCEPT ![q] = page]
        BY <1>4, <3>1, Zenon
      <4>3. fill \in [Requests -> {"none", "next", "set", "add"}] /\ fillTodo \in [Requests -> SUBSET Orgs]
        BY <1>0 DEF TypeOK
      <4>. QED
        BY <1>5, <4>1, <4>2, <4>3
    <3>2. CASE ~isEmpty[q]
      BY <1>0, <1>4, <3>2 DEF TypeOK
    <3>. QED
      BY <3>1, <3>2
  <2>. QED
    BY <1>0, <1>4, <1>5, <2>1, <2>2 DEF TypeOK
<1>3. RequestOK(q)'
  <2>1. pc'[q] = "measure" /\ todo'[q] = page
    <3>1. q \in DOMAIN pc /\ q \in DOMAIN todo
      BY <1>0 DEF TypeOK
    <3>. QED
      BY <1>4, <3>1
  <2>2. PathOK(q)'
    BY <2>1 DEF PathOK
  <2>3. ClockOK(q)'
    BY <1>0, <1>4 DEF RequestOK, ClockOK, At, Active
  <2>4. ListOK(q)'
    BY <1>4, <1>5, <1>6, <1>7, <1>8 DEF ListOK, CurrentAt
  <2>5. MeasureOK(q)'
    BY <1>0, <1>4, <1>5, <1>6, <1>7, <2>1 DEF MeasureOK, At, RequestOK
  <2>6. FillOK(q)'
    <3>1. fill'[q] \in {"none", "next"}
      BY <1>0, <1>4, <1>9 DEF TypeOK
    <3>2. fill'[q] # "none" => isEmpty'[q] /\ fillTodo'[q] = page
      BY <1>0, <1>4, <1>9 DEF TypeOK
    <3>. QED
      BY <2>1, <1>8, <3>1, <3>2 DEF FillOK, Filling
  <2>. QED
    BY <2>2, <2>3, <2>4, <2>5, <2>6 DEF RequestOK
<1>. QED
  BY <1>1, <1>2, <1>3, QuietStep

\* A GET: a live key holds what was current within its life and a context.
LEMMA GetStep ==
  ASSUME DirectoryInv, NEW q \in Requests, Get(q)
  PROVE  DirectoryInv'
<1>. USE DirectoryAssumption
<1>0. TypeOK /\ RequestOK(q) /\ IdsOK /\ EntryOK
  BY DEF DirectoryInv
<1>4. PICK o \in todo[q] :
        /\ todo' = [todo EXCEPT ![q] = @ \ {o}]
        /\ IF Live(o)
           THEN /\ list' = [list EXCEPT ![q][o] = [version |-> entry[o].version, located |-> entry[o].located]]
                /\ Goto(q, "get") /\ UNCHANGED at
           ELSE /\ at' = [at EXCEPT ![q] = o]
                /\ Goto(q, "drop") /\ UNCHANGED list
  BY DEF Get
<1>5. /\ UNCHANGED <<version, ids, entry, now, op, reply, started, isEmpty, replaced>>
      /\ UNCHANGED <<fill, fillTodo, copy>>
      /\ At(q, "get")
  BY <1>4 DEF Get, Goto, redis, filling
<1>6. o \in Stored /\ o \in Orgs /\ ~isEmpty[q] /\ fill[q] = "none"
  BY <1>0, <1>5 DEF RequestOK, PathOK, FillOK, Filling, At, Stored
<1>1. Quiet(q)
  BY <1>0, <1>4, <1>5 DEF Goto, Quiet, Of, TypeOK
<1>7. CASE Live(o)
  <2> DEFINE got == [version |-> entry[o].version, located |-> entry[o].located]
  <2>1. /\ list' = [list EXCEPT ![q] = [list[q] EXCEPT ![o] = got]]
        /\ pc' = [pc EXCEPT ![q] = "get"] /\ UNCHANGED at
    BY <1>4, <1>7 DEF Goto
  <2>2. entry[o] \in [version : 0..MaxVersion, located : BOOLEAN, until : Nat]
    BY <1>0, <1>6 DEF TypeOK, Stored
  <2>3. got \in Objects /\ got.version = entry[o].version
    BY <2>2 DEF Objects
  <2>. HIDE DEF got
  <2>4. TypeOK'
    <3>1. list' \in [Requests -> [Orgs -> Objects \cup {None}]]
      BY <1>0, <1>6, <2>1, <2>3 DEF TypeOK
    <3>. QED
      BY <1>0, <1>4, <1>5, <2>1, <3>1 DEF TypeOK
  <2>5. PathOK(q)' /\ ClockOK(q)'
    BY <1>0, <1>4, <1>5, <2>1 DEF RequestOK, PathOK, ClockOK, At, Active, Filling, TypeOK, Stored
  <2>6. MeasureOK(q)' /\ FillOK(q)'
    BY <1>0, <1>5, <1>6, <2>1 DEF RequestOK, MeasureOK, FillOK, At, Filling
  <2>7. CurrentAt(o, got.version, started[q] - Expiry - Timeout)
    <3>1. CurrentAt(o, got.version, entry[o].until - Expiry - Timeout)
      BY <1>0, <1>6, <2>3 DEF EntryOK
    <3>2. started[q] \in Nat /\ started[q] <= now /\ now \in Nat /\ now < entry[o].until
      BY <1>0, <1>7 DEF TypeOK, RequestOK, ClockOK, Live
    <3>3. got.version \in 0..MaxVersion
      BY <2>3 DEF Objects
    <3>4. replaced[o][got.version] \in Int
      BY <1>0, <1>6, <3>3 DEF TypeOK
    <3>. QED
      BY <2>2, <3>1, <3>2, <3>4 DEF CurrentAt
  <2>8. ListOK(q)'
    <3> SUFFICES ASSUME NEW x \in Listed(q)'
                 PROVE  CurrentAt(x, list'[q][x].version, started[q] - Expiry - Timeout)
      BY <1>5, <1>6 DEF ListOK, CurrentAt
    <3>1. CASE x = o
      BY <1>0, <1>6, <2>1, <2>7, <3>1 DEF TypeOK
    <3>2. CASE x # o
      <4>1. x \in Orgs /\ list'[q][x] = list[q][x]
        BY <1>0, <2>1, <3>2 DEF Listed, TypeOK
      <4>2. x \in Listed(q)
        BY <4>1 DEF Listed
      <4>. QED
        BY <1>0, <1>6, <4>1, <4>2 DEF RequestOK, ListOK
    <3>. QED
      BY <3>1, <3>2
  <2>. QED
    BY <1>1, <2>4, <2>5, <2>6, <2>8, QuietStep DEF RequestOK
<1>8. CASE ~Live(o)
  <2>1. at' = [at EXCEPT ![q] = o] /\ pc' = [pc EXCEPT ![q] = "drop"] /\ UNCHANGED list
    BY <1>4, <1>8 DEF Goto
  <2>2. TypeOK'
    BY <1>0, <1>4, <1>5, <1>6, <2>1 DEF TypeOK
  <2>3. PathOK(q)' /\ ClockOK(q)'
    BY <1>0, <1>4, <1>5, <1>6, <2>1 DEF RequestOK, PathOK, ClockOK, At, Active, Filling, TypeOK, Stored
  <2>4. ListOK(q)' /\ MeasureOK(q)' /\ FillOK(q)'
    BY <1>0, <1>5, <1>6, <2>1 DEF RequestOK, ListOK, MeasureOK, FillOK, At, Filling, Listed, CurrentAt
  <2>. QED
    BY <1>1, <2>2, <2>3, <2>4, QuietStep DEF RequestOK
<1>. QED
  BY <1>7, <1>8

\* The fill copies an object of its listing.
LEMMA CopyStep ==
  ASSUME DirectoryInv, NEW q \in Requests, Copy(q)
  PROVE  DirectoryInv'
<1>. USE DirectoryAssumption
<1>0. TypeOK /\ RequestOK(q) /\ IdsOK /\ EntryOK
  BY DEF DirectoryInv
<1>4. PICK o \in Orgs :
        /\ IsFirst(o, fillTodo[q])
        /\ copy' = [copy EXCEPT ![q] =
             [org |-> o, version |-> list[q][o].version, located |-> list[q][o].located]]
        /\ fillTodo' = [fillTodo EXCEPT ![q] = @ \ {o}]
  BY DEF Copy, CopyFor
<1>5. /\ fill' = [fill EXCEPT ![q] = "set"] /\ fill[q] = "next" /\ o \in fillTodo[q]
      /\ UNCHANGED <<version, ids, entry, now, op, pc, reply, started, isEmpty, todo, at, list, replaced>>
  BY <1>4 DEF Copy, CopyFor, IsFirst, redis, locals
<1>6. o \in Listed(q) /\ isEmpty[q] /\ pc[q] = "measure"
  BY <1>0, <1>5 DEF RequestOK, FillOK, Filling
<1>7. list[q][o] \in Objects
  BY <1>0, <1>6 DEF TypeOK, Listed
<1> DEFINE new == [org |-> o, version |-> list[q][o].version, located |-> list[q][o].located]
<1>8. /\ new \in [org : Orgs, version : 0..MaxVersion, located : BOOLEAN]
      /\ new.org = o /\ new.version = list[q][o].version /\ new # NoCopy
  <2>1. list[q][o].version \in 0..MaxVersion /\ list[q][o].located \in BOOLEAN
    BY <1>7 DEF Objects
  <2>2. new.version # NoCopy.version
    BY <2>1 DEF NoCopy
  <2>. QED
    BY <2>1, <2>2
<1>9. copy' = [copy EXCEPT ![q] = new]
  BY <1>4
<1>. HIDE DEF new
<1>1. Quiet(q)
  BY <1>0, <1>4, <1>5 DEF Quiet, Of, TypeOK
<1>2. TypeOK'
  BY <1>0, <1>4, <1>5, <1>8, <1>9 DEF TypeOK
<1>3. RequestOK(q)'
  <2>1. PathOK(q)' /\ ClockOK(q)'
    BY <1>0, <1>5 DEF RequestOK, PathOK, ClockOK, At, Active, Filling, Stored, Listed
  <2>2. ListOK(q)' /\ MeasureOK(q)'
    BY <1>0, <1>5 DEF RequestOK, ListOK, MeasureOK, At, Listed, CurrentAt
  <2>3. FillOK(q)'
    <3>1. CurrentAt(o, new.version, started[q])
      BY <1>0, <1>6, <1>8 DEF RequestOK, ListOK
    <3>2. copy'[q] = new /\ fill'[q] = "set" /\ fillTodo'[q] \subseteq fillTodo[q]
      BY <1>0, <1>4, <1>5, <1>9 DEF TypeOK
    <3>3. fillTodo[q] \subseteq Listed(q) /\ Listed(q)' = Listed(q)
      BY <1>0, <1>5 DEF RequestOK, FillOK, Filling, Listed
    <3>. QED
      BY <1>5, <1>6, <1>8, <3>1, <3>2, <3>3 DEF FillOK, Filling, CurrentAt
  <2>. QED
    BY <2>1, <2>2, <2>3 DEF RequestOK
<1>. QED
  BY <1>1, <1>2, <1>3, QuietStep

\* A command of the fill fails.
LEMMA FillFailsStep ==
  ASSUME DirectoryInv, NEW q \in Requests, FillFails(q)
  PROVE  DirectoryInv'
<1>. USE DirectoryAssumption
<1>0. TypeOK /\ RequestOK(q) /\ IdsOK /\ EntryOK
  BY DEF DirectoryInv
<1>1. Quiet(q)
  BY <1>0 DEF FillFails, Goto, Answer, redis, filling, locals, Quiet, Of, TypeOK
<1>2. TypeOK'
  BY <1>0 DEF FillFails, Goto, Answer, redis, filling, locals, At, TypeOK
<1>3. RequestOK(q)'
  <2>1. PathOK(q)'
    BY <1>0 DEF FillFails, Goto, Answer, redis, filling, locals, At, Active, Filling, Listed, Stored, CurrentAt, TypeOK, RequestOK, PathOK
  <2>2. ClockOK(q)'
    BY <1>0 DEF FillFails, Goto, Answer, redis, filling, locals, At, Active, Filling, Listed, Stored, CurrentAt, TypeOK, RequestOK, ClockOK
  <2>3. ListOK(q)'
    BY <1>0 DEF FillFails, Goto, Answer, redis, filling, locals, At, Active, Filling, Listed, Stored, CurrentAt, TypeOK, RequestOK, ListOK
  <2>4. MeasureOK(q)'
    BY <1>0 DEF FillFails, Goto, Answer, redis, filling, locals, At, Active, Filling, Listed, Stored, CurrentAt, TypeOK, RequestOK, MeasureOK
  <2>5. FillOK(q)'
    BY <1>0 DEF FillFails, Goto, Answer, redis, filling, locals, At, Active, Filling, Listed, Stored, CurrentAt, TypeOK, RequestOK, FillOK
  <2>. QED
    BY <2>1, <2>2, <2>3, <2>4, <2>5 DEF RequestOK
<1>. QED
  BY <1>1, <1>2, <1>3, QuietStep

\* The fill ends.
LEMMA FillEndsStep ==
  ASSUME DirectoryInv, NEW q \in Requests, FillEnds(q)
  PROVE  DirectoryInv'
<1>. USE DirectoryAssumption
<1>0. TypeOK /\ RequestOK(q) /\ IdsOK /\ EntryOK
  BY DEF DirectoryInv
<1>1. Quiet(q)
  BY <1>0 DEF FillEnds, Goto, Answer, redis, filling, locals, Quiet, Of, TypeOK
<1>2. TypeOK'
  BY <1>0 DEF FillEnds, Goto, Answer, redis, filling, locals, At, TypeOK
<1>3. RequestOK(q)'
  <2>1. PathOK(q)'
    BY <1>0 DEF FillEnds, Goto, Answer, redis, filling, locals, At, Active, Filling, Listed, Stored, CurrentAt, TypeOK, RequestOK, PathOK
  <2>2. ClockOK(q)'
    BY <1>0 DEF FillEnds, Goto, Answer, redis, filling, locals, At, Active, Filling, Listed, Stored, CurrentAt, TypeOK, RequestOK, ClockOK
  <2>3. ListOK(q)'
    BY <1>0 DEF FillEnds, Goto, Answer, redis, filling, locals, At, Active, Filling, Listed, Stored, CurrentAt, TypeOK, RequestOK, ListOK
  <2>4. MeasureOK(q)'
    BY <1>0 DEF FillEnds, Goto, Answer, redis, filling, locals, At, Active, Filling, Listed, Stored, CurrentAt, TypeOK, RequestOK, MeasureOK
  <2>5. FillOK(q)'
    BY <1>0 DEF FillEnds, Goto, Answer, redis, filling, locals, At, Active, Filling, Listed, Stored, CurrentAt, TypeOK, RequestOK, FillOK
  <2>. QED
    BY <2>1, <2>2, <2>3, <2>4, <2>5 DEF RequestOK
<1>. QED
  BY <1>1, <1>2, <1>3, QuietStep
-----------------------------------------------------------------------------
(* Steps that write Redis or the table, and the clock.                     *)

\* SREM leaves the keys alone.
LEMMA DropStep == ASSUME DirectoryInv, NEW q \in Requests, Drop(q) PROVE DirectoryInv'
<1>. USE DirectoryAssumption
<1>0. TypeOK /\ RequestOK(q) /\ IdsOK /\ EntryOK
  BY DEF DirectoryInv
<1>1. /\ pc' = [pc EXCEPT ![q] = "get"] /\ at' = [at EXCEPT ![q] = 0]
      /\ ids' \subseteq ids /\ At(q, "drop")
      /\ UNCHANGED <<version, entry, now, op, reply, started, isEmpty, todo, list, replaced>>
      /\ UNCHANGED <<fill, fillTodo, copy>>
  BY DEF Drop, Goto, filling
<1>2. TypeOK'
  BY <1>0, <1>1 DEF TypeOK
<1>3. PastKept /\ Stored' = Stored
  BY <1>1 DEF PastKept, CurrentAt, Stored
<1>4. IdsOK' /\ EntryOK'
  BY <1>0, <1>1, <1>3 DEF IdsOK, EntryOK, CurrentAt
<1>5. RequestOK(q)'
  <2>1. PathOK(q)' /\ ClockOK(q)'
    BY <1>0, <1>1, <1>3 DEF RequestOK, PathOK, ClockOK, At, Active, Filling, TypeOK
  <2>2. ListOK(q)' /\ MeasureOK(q)'
    BY <1>0, <1>1 DEF RequestOK, PathOK, ListOK, MeasureOK, At, Listed, CurrentAt, TypeOK
  <2>3. FillOK(q)'
    BY <1>0, <1>1, <1>3 DEF RequestOK, FillOK, At, Filling, Listed, CurrentAt, TypeOK
  <2>. QED
    BY <2>1, <2>2, <2>3 DEF RequestOK
<1>6. ASSUME NEW r \in Requests, r # q PROVE RequestOK(r)'
  <2>1. UNCHANGED Of(r)
    BY <1>0, <1>1, <1>6 DEF Of, TypeOK
  <2>2. ClockOK(r)'
    BY <1>1, <2>1 DEF DirectoryInv, RequestOK, ClockOK, Of, Active, Filling
  <2>. QED
    BY <1>3, <2>1, <2>2, OtherRequest
<1>. QED
  BY <1>2, <1>4, <1>5, <1>6 DEF DirectoryInv

\* SET stores what was current when its listing began, no longer than a context ago.
LEMMA SetStep == ASSUME DirectoryInv, NEW q \in Requests, Set(q) PROVE DirectoryInv'
<1>. USE DirectoryAssumption
<1>0. TypeOK /\ RequestOK(q) /\ IdsOK /\ EntryOK
  BY DEF DirectoryInv
<1> DEFINE o == copy[q].org
           new == [version |-> copy[q].version, located |-> copy[q].located, until |-> now + Expiry]
           next == IF Cancelled(q) THEN "next" ELSE "add"
<1>1. /\ entry' = [entry EXCEPT ![o] = new] /\ fill' = [fill EXCEPT ![q] = next]
      /\ fill[q] = "set"
      /\ UNCHANGED <<version, ids, now, op, pc, reply, started, isEmpty, todo, at, list, replaced>>
      /\ UNCHANGED <<fillTodo, copy>>
  BY DEF Set, Until, locals
<1>2. copy[q] \in [org : Orgs, version : 0..MaxVersion, located : BOOLEAN]
  BY <1>0, <1>1 DEF TypeOK, RequestOK, FillOK
<1>3. o \in Orgs /\ CurrentAt(o, copy[q].version, started[q])
  BY <1>0, <1>1, <1>2 DEF RequestOK, FillOK
<1>4. /\ new \in [version : 0..MaxVersion, located : BOOLEAN, until : Nat]
      /\ new.version = copy[q].version /\ new.until = now + Expiry /\ new # NoEntry
  <2>1. now + Expiry \in Nat
    BY <1>0 DEF TypeOK
  <2>2. copy[q].version \in 0..MaxVersion /\ copy[q].located \in BOOLEAN
    BY <1>2
  <2>3. new.version # NoEntry.version
    BY <2>2 DEF NoEntry
  <2>. QED
    BY <2>1, <2>2, <2>3
<1>5. next \in {"next", "add"}
  OBVIOUS
<1>6. CurrentAt(o, new.version, new.until - Expiry - Timeout)
  <2>1. started[q] \in Nat /\ now \in Nat /\ now <= started[q] + Timeout
    BY <1>0, <1>1 DEF TypeOK, RequestOK, ClockOK, Filling
  <2>2. replaced[o][new.version] \in Int
    BY <1>0, <1>3, <1>4 DEF TypeOK
  <2>. QED
    BY <1>3, <1>4, <2>1, <2>2 DEF CurrentAt
<1>. HIDE DEF o, new, next
<1>7. TypeOK'
  BY <1>0, <1>1, <1>3, <1>4, <1>5 DEF TypeOK
<1>8. Stored' = Stored \cup {o} /\ entry'[o] = new
  BY <1>0, <1>1, <1>3, <1>4 DEF Stored, TypeOK
<1>9. PastKept
  BY <1>1 DEF PastKept, CurrentAt
<1>10. IdsOK'
  BY <1>0, <1>1, <1>8 DEF IdsOK
<1>11. EntryOK'
  <2> SUFFICES ASSUME NEW x \in Stored'
               PROVE  /\ entry'[x].until <= now' + Expiry
                      /\ CurrentAt(x, entry'[x].version, entry'[x].until - Expiry - Timeout)
    BY <1>1 DEF EntryOK, CurrentAt
  <2>1. CASE x = o
    BY <1>0, <1>1, <1>4, <1>6, <1>8, <2>1 DEF TypeOK
  <2>2. CASE x # o
    <3>1. x \in Stored /\ entry'[x] = entry[x]
      BY <1>0, <1>1, <1>8, <2>2 DEF Stored, TypeOK
    <3>. QED
      BY <1>0, <1>1, <3>1 DEF EntryOK
  <2>. QED
    BY <2>1, <2>2
<1>12. RequestOK(q)'
  <2>1. PathOK(q)' /\ ClockOK(q)'
    BY <1>0, <1>1, <1>5, <1>8 DEF RequestOK, PathOK, ClockOK, FillOK, At, Active, Filling, Listed
  <2>2. ListOK(q)' /\ MeasureOK(q)'
    BY <1>0, <1>1 DEF RequestOK, ListOK, MeasureOK, At, Listed, CurrentAt
  <2>3. FillOK(q)'
    <3>1. fill'[q] \in {"next", "add"}
      BY <1>0, <1>1, <1>5 DEF TypeOK
    <3>2. copy[q].org \in Stored'
      BY <1>8 DEF o
    <3>. QED
      BY <1>0, <1>1, <3>1, <3>2 DEF RequestOK, FillOK, Filling, Listed, CurrentAt
  <2>. QED
    BY <2>1, <2>2, <2>3 DEF RequestOK
<1>13. ASSUME NEW r \in Requests, r # q PROVE RequestOK(r)'
  <2>1. UNCHANGED Of(r)
    BY <1>0, <1>1, <1>13 DEF Of, TypeOK
  <2>2. ClockOK(r)'
    BY <1>1, <2>1 DEF DirectoryInv, RequestOK, ClockOK, Of, Active, Filling
  <2>. QED
    BY <1>8, <1>9, <2>1, <2>2, OtherRequest
<1>. QED
  BY <1>7, <1>10, <1>11, <1>12, <1>13 DEF DirectoryInv

\* SADD comes after SET: the id has had its key.
LEMMA AddStep == ASSUME DirectoryInv, NEW q \in Requests, Add(q) PROVE DirectoryInv'
<1>. USE DirectoryAssumption
<1>0. TypeOK /\ RequestOK(q) /\ IdsOK /\ EntryOK
  BY DEF DirectoryInv
<1>1. /\ ids' = ids \cup {copy[q].org} /\ fill' = [fill EXCEPT ![q] = "next"] /\ fill[q] = "add"
      /\ UNCHANGED <<version, entry, now, op, pc, reply, started, isEmpty, todo, at, list, replaced>>
      /\ UNCHANGED <<fillTodo, copy>>
  BY DEF Add, locals
<1>2. copy[q].org \in Stored
  BY <1>0, <1>1 DEF RequestOK, FillOK
<1>3. TypeOK'
  BY <1>0, <1>1, <1>2 DEF TypeOK, Stored
<1>4. PastKept /\ Stored' = Stored
  BY <1>1 DEF PastKept, CurrentAt, Stored
<1>5. IdsOK' /\ EntryOK'
  BY <1>0, <1>1, <1>2, <1>4 DEF IdsOK, EntryOK, CurrentAt
<1>6. RequestOK(q)'
  <2>1. PathOK(q)' /\ ClockOK(q)'
    BY <1>0, <1>1, <1>4 DEF RequestOK, PathOK, ClockOK, At, Active, Filling, Listed, TypeOK
  <2>2. ListOK(q)' /\ MeasureOK(q)'
    BY <1>0, <1>1 DEF RequestOK, ListOK, MeasureOK, At, Listed, CurrentAt
  <2>3. FillOK(q)'
    BY <1>0, <1>1, <1>4 DEF RequestOK, FillOK, Filling, Listed, CurrentAt, TypeOK
  <2>. QED
    BY <2>1, <2>2, <2>3 DEF RequestOK
<1>7. ASSUME NEW r \in Requests, r # q PROVE RequestOK(r)'
  <2>1. UNCHANGED Of(r)
    BY <1>0, <1>1, <1>7 DEF Of, TypeOK
  <2>2. ClockOK(r)'
    BY <1>1, <2>1 DEF DirectoryInv, RequestOK, ClockOK, Of, Active, Filling
  <2>. QED
    BY <1>4, <2>1, <2>2, OtherRequest
<1>. QED
  BY <1>3, <1>5, <1>6, <1>7 DEF DirectoryInv

\* An update replaces a version now: it was current until now.
LEMMA UpdateStep == ASSUME DirectoryInv, NEW o \in Orgs, Update(o) PROVE DirectoryInv'
<1>. USE DirectoryAssumption
<1>0. TypeOK /\ IdsOK /\ EntryOK
  BY DEF DirectoryInv
<1>1. /\ version[o] < MaxVersion
      /\ version' = [version EXCEPT ![o] = version[o] + 1]
      /\ replaced' = [replaced EXCEPT ![o] = [replaced[o] EXCEPT ![version[o]] = now]]
      /\ UNCHANGED <<ids, entry, now, op, pc, reply, started, isEmpty, todo, at, list>>
      /\ UNCHANGED <<fill, fillTodo, copy>>
  BY DEF Update, redis, locals, filling
<1>2. TypeOK'
  <2>1. version' \in [Orgs -> 0..MaxVersion]
    BY <1>0, <1>1 DEF TypeOK
  <2>2. replaced' \in [Orgs -> [0..MaxVersion -> Nat \cup {-1}]]
    BY <1>0, <1>1 DEF TypeOK
  <2>. QED
    BY <1>0, <1>1, <2>1, <2>2 DEF TypeOK
<1>3. PastKept
  BY <1>0, <1>1 DEF PastKept, CurrentAt, TypeOK
<1>4. Stored' = Stored
  BY <1>1 DEF Stored
<1>5. IdsOK'
  BY <1>0, <1>1, <1>4 DEF IdsOK
<1>6. EntryOK'
  <2> SUFFICES ASSUME NEW x \in Stored
               PROVE  /\ entry'[x].until <= now' + Expiry
                      /\ CurrentAt(x, entry[x].version, entry[x].until - Expiry - Timeout)'
    BY <1>1, <1>4 DEF EntryOK
  <2> DEFINE t == entry[x].until - Expiry - Timeout
  <2>1. entry[x] \in [version : 0..MaxVersion, located : BOOLEAN, until : Nat] /\ x \in Orgs
    BY <1>0 DEF TypeOK, Stored
  <2>2. entry[x].until <= now + Expiry /\ CurrentAt(x, entry[x].version, t)
    BY <1>0 DEF EntryOK
  <2>3. t \in Int /\ t <= now
    BY <1>0, <2>1, <2>2 DEF TypeOK
  <2>. HIDE DEF t
  <2>4. entry[x].version \in 0..MaxVersion
    BY <2>1
  <2>5. entry[x].version = version'[x] \/ t <= replaced'[x][entry[x].version]
    BY <1>3, <2>1, <2>2, <2>3, <2>4 DEF PastKept, CurrentAt
  <2>. QED
    BY <1>1, <2>2, <2>5 DEF CurrentAt, t
<1>7. ASSUME NEW r \in Requests PROVE RequestOK(r)'
  <2>1. UNCHANGED Of(r)
    BY <1>1 DEF Of
  <2>2. ClockOK(r)'
    BY <1>1 DEF DirectoryInv, RequestOK, ClockOK, Active, Filling
  <2>. QED
    BY <1>3, <1>4, <2>1, <2>2, OtherRequest
<1>. QED
  BY <1>2, <1>5, <1>6, <1>7 DEF DirectoryInv

\* Time passes only for listings whose context allows it.
LEMMA TickStep == ASSUME DirectoryInv, Tick PROVE DirectoryInv'
<1>. USE DirectoryAssumption
<1>0. TypeOK /\ IdsOK /\ EntryOK
  BY DEF DirectoryInv
<1>1. /\ now' = now + 1
      /\ \A q \in Requests : Active(q) \/ Filling(q) => now < started[q] + Timeout
      /\ UNCHANGED <<version, ids, entry, op, pc, reply, started, isEmpty, todo, at, list, replaced>>
      /\ UNCHANGED <<fill, fillTodo, copy>>
  BY DEF Tick, redis, locals, filling
<1>2. TypeOK'
  BY <1>0, <1>1 DEF TypeOK
<1>3. PastKept /\ Stored' = Stored
  BY <1>1 DEF PastKept, CurrentAt, Stored
<1>4. IdsOK'
  BY <1>0, <1>1, <1>3 DEF IdsOK
<1>5. EntryOK'
  BY <1>0, <1>1, <1>3 DEF EntryOK, CurrentAt, TypeOK, Stored
<1>6. ASSUME NEW r \in Requests PROVE RequestOK(r)'
  <2>1. UNCHANGED Of(r)
    BY <1>1 DEF Of
  <2>2. ClockOK(r)'
    BY <1>0, <1>1 DEF DirectoryInv, RequestOK, ClockOK, Active, Filling, TypeOK
  <2>. QED
    BY <1>3, <2>1, <2>2, OtherRequest
<1>. QED
  BY <1>2, <1>4, <1>5, <1>6 DEF DirectoryInv

\* Every step preserves the invariant.
LEMMA StepDirectory == DirectoryInv /\ [Next]_vars => DirectoryInv'
<1> SUFFICES ASSUME DirectoryInv, [Next]_vars PROVE DirectoryInv'
  OBVIOUS
<1>1. ASSUME NEW q \in Requests, Request(q) \/ IsEmpty(q) \/ Members(q) PROVE DirectoryInv'
  BY <1>1, RequestStep, IsEmptyStep, MembersStep
<1>2. ASSUME NEW q \in Requests, MembersFails(q) \/ QueryFails(q) \/ GetFails(q) PROVE DirectoryInv'
  BY <1>2, FailSteps, GetFailsStep
<1>3. ASSUME NEW q \in Requests, Get(q) \/ Drop(q) \/ GotAll(q) PROVE DirectoryInv'
  BY <1>3, GetStep, DropStep, GotAllStep
<1>4. ASSUME NEW q \in Requests, Query(q) \/ Measure(q) \/ Done(q) PROVE DirectoryInv'
  BY <1>4, QueryStep, MeasureStep, DoneStep
<1>5. ASSUME NEW q \in Requests, Copy(q) \/ Set(q) \/ Add(q) PROVE DirectoryInv'
  BY <1>5, CopyStep, SetStep, AddStep
<1>6. ASSUME NEW q \in Requests, FillFails(q) \/ FillEnds(q) PROVE DirectoryInv'
  BY <1>6, FillFailsStep, FillEndsStep
<1>7. ASSUME NEW o \in Orgs, Update(o) PROVE DirectoryInv'
  BY <1>7, UpdateStep
<1>8. CASE Tick
  BY <1>8, TickStep
<1>9. CASE UNCHANGED vars
  <2>1. /\ UNCHANGED <<version, ids, entry, now, op, pc, reply, started, isEmpty, todo, at, list>>
        /\ UNCHANGED <<fill, fillTodo, copy, replaced>>
    BY <1>9 DEF vars, redis, locals, filling
  <2>2. TypeOK'
    BY <2>1 DEF DirectoryInv, TypeOK
  <2>3. IdsOK' /\ EntryOK' /\ PastKept /\ Stored' = Stored
    BY <2>1 DEF DirectoryInv, IdsOK, EntryOK, CurrentAt, Stored, PastKept
  <2>4. ASSUME NEW r \in Requests PROVE RequestOK(r)'
    <3>1. UNCHANGED Of(r)
      BY <2>1 DEF Of
    <3>2. ClockOK(r)'
      BY <2>1 DEF DirectoryInv, RequestOK, ClockOK, Active, Filling
    <3>. QED
      BY <2>3, <3>1, <3>2, OtherRequest
  <2>. QED
    BY <2>2, <2>3, <2>4 DEF DirectoryInv
<1>. QED
  BY <1>1, <1>2, <1>3, <1>4, <1>5, <1>6, <1>7, <1>8, <1>9 DEF Next
-----------------------------------------------------------------------------
\* The inductive invariant of listings, fills, Redis and clock holds always.
THEOREM DirectoryInvariant == Spec => []DirectoryInv
  BY InitDirectory, StepDirectory, PTL DEF Spec

\* A listing (org_repository.go:170) shows nothing older than a key's life and
\* two contexts, although updates do not touch Redis.
THEOREM StalenessBound == Spec => []StaleAtMost
<1>. USE DirectoryAssumption
<1>1. DirectoryInv => StaleAtMost
  <2> SUFFICES ASSUME DirectoryInv, NEW q \in Requests, NEW o \in Orgs, Active(q), o \in Listed(q)
               PROVE  CurrentAt(o, list[q][o].version, now - Expiry - 2 * Timeout)
    BY DEF StaleAtMost
  <2>1. TypeOK /\ RequestOK(q)
    BY DEF DirectoryInv
  <2>2. list[q][o].version \in 0..MaxVersion
    <3>1. list[q][o] \in Objects
      BY <2>1 DEF TypeOK, Listed
    <3>. QED
      BY <3>1 DEF Objects
  <2>3. replaced[o][list[q][o].version] \in Int
    BY <2>1, <2>2 DEF TypeOK
  <2>4. started[q] \in Nat /\ now \in Nat /\ now <= started[q] + Timeout
    BY <2>1 DEF TypeOK, RequestOK, ClockOK
  <2>5. CurrentAt(o, list[q][o].version,
                  IF isEmpty[q] THEN started[q] ELSE started[q] - Expiry - Timeout)
    BY <2>1 DEF RequestOK, ListOK
  <2>. QED
    BY <2>3, <2>4, <2>5 DEF CurrentAt
<1>. QED
  BY <1>1, DirectoryInvariant, PTL

\* The fill (org_repository.go:254) does not disturb the answer it is left
\* behind by: a listing from the table never panics.
THEOREM TableAnswers == Spec => []TableListsAnswered
<1>1. DirectoryInv => TableListsAnswered
  BY DEF DirectoryInv, RequestOK, MeasureOK, TableListsAnswered
<1>. QED
  BY <1>1, DirectoryInvariant, PTL

\* SET comes before SADD (org_cache.go:29): ids leave for expired keys only.
THEOREM OnlyExpiredDropped == Spec => []DropsExpired
<1>1. DirectoryInv => DropsExpired
  BY DEF DirectoryInv, RequestOK, PathOK, DropsExpired, At, Stored
<1>. QED
  BY <1>1, DirectoryInvariant, PTL
=============================================================================
