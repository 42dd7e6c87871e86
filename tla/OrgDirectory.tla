---------------------------- MODULE OrgDirectory ----------------------------
(***************************************************************************)
(* The list of organizations (features/organization): the table, the Redis *)
(* set of ids and its keys, and the listings, which are served from Redis  *)
(* whenever the set is not empty.  A listing that found it empty leaves a  *)
(* goroutine behind that fills it, on the request's context, from the very *)
(* objects the request goes on working on.  Organizations are numbered in  *)
(* the order a listing sorts them; a version stands for a row's contents.  *)
(***************************************************************************)
EXTENDS Integers, FiniteSets

CONSTANTS NumOrgs,
          Filters,     \* bound: the sets of organizations searches may match
          PageSize, MaxPage,
          Requests,    \* bound: the listings ever asked for
          MaxActive,   \* bound: listings and fills under way at a time
          Expiry,      \* the life of a Redis key
          Timeout,     \* the life of a request's context
          MaxTime,     \* bound: the clock stops there
          MaxVersion,  \* bound: the updates of an organization
          MayBreak     \* bound: whether statements and commands may fail

Orgs == 1..NumOrgs

ASSUME DirectoryAssumption ==
  /\ NumOrgs \in Nat /\ Filters \subseteq SUBSET Orgs
  /\ PageSize \in Nat \ {0} /\ MaxPage \in Nat /\ MaxActive \in Nat
  /\ Expiry \in Nat /\ Timeout \in Nat /\ MaxTime \in Nat /\ MaxVersion \in Nat
  /\ MayBreak \in BOOLEAN

VARIABLES
  version,    \* organizations
  ids,        \* the Redis set
  entry,      \* the Redis key of each organization
  now,
  op, pc, reply, started,
  isEmpty,    \* the local is_empty
  todo, at,   \* the rest of the loop a listing is in, and the id it is at
  list,       \* orgList: the objects of the listing, shared with its fill
  fill, fillTodo, copy,   \* the goroutine that fills Redis, and its argument
  replaced    \* history: when each version of a row was replaced

redis   == <<ids, entry>>
filling == <<fill, fillTodo, copy>>
locals  == <<op, started, isEmpty, todo, at, list>>
vars    == <<version, redis, now, pc, reply, locals, filling, replaced>>

None  == [version |-> -1, located |-> FALSE]
Objects == [version : 0..MaxVersion, located : BOOLEAN]
NoEntry == [version |-> -1, located |-> FALSE, until |-> 0]
Listing == [filter : Filters, page : 1..MaxPage]
NoOp == [filter |-> {}, page |-> 0]
NoCopy == [org |-> 0, version |-> -1, located |-> FALSE]

Init ==
  /\ version = [o \in Orgs |-> 0]
  /\ ids = {} /\ entry = [o \in Orgs |-> NoEntry]
  /\ now = 0
  /\ op = [q \in Requests |-> NoOp]
  /\ pc = [q \in Requests |-> "idle"] /\ reply = [q \in Requests |-> "none"]
  /\ started = [q \in Requests |-> 0]
  /\ isEmpty = [q \in Requests |-> FALSE]
  /\ todo = [q \in Requests |-> {}] /\ at = [q \in Requests |-> 0]
  /\ list = [q \in Requests |-> [o \in Orgs |-> None]]
  /\ fill = [q \in Requests |-> "none"] /\ fillTodo = [q \in Requests |-> {}]
  /\ copy = [q \in Requests |-> NoCopy]
  /\ replaced = [o \in Orgs |-> [v \in 0..MaxVersion |-> -1]]
-----------------------------------------------------------------------------
Goto(q, l)   == pc' = [pc EXCEPT ![q] = l] /\ UNCHANGED reply
Answer(q, a) == reply' = [reply EXCEPT ![q] = a] /\ UNCHANGED pc
At(q, l)  == pc[q] = l /\ reply[q] = "none"
Active(q) == pc[q] # "idle" /\ reply[q] = "none"
Filling(q) == fill[q] # "none"

Listed(q) == {o \in Orgs : list[q][o] # None}

IsFirst(o, S) == o \in S /\ \A x \in S : o <= x

\* LIMIT and OFFSET over the rows that match, in their order.
Page(f, p) ==
  {o \in f : Cardinality({x \in f : x <= o}) \in (p - 1) * PageSize + 1 .. p * PageSize}

\* The slice of SMEMBERS' answer that a page takes; its order is arbitrary.
Slices(S, p) ==
  {T \in SUBSET S : LET rest == Cardinality(S) - (p - 1) * PageSize
                    IN Cardinality(T) = IF rest < 0 THEN 0
                                        ELSE IF rest > PageSize THEN PageSize ELSE rest}

\* A row as the query reads it.
Row(o) == [version |-> version[o], located |-> TRUE]

Until == now + Expiry

\* LiveAlways: a key set without an expiry.
LiveAlways(o) == entry[o] # NoEntry
Live(o) == now < entry[o].until

\* A listing: the filter and the page come from the app's search and scrolling.
Request(q) ==
  /\ At(q, "idle")
  /\ Cardinality({r \in Requests : Active(r) \/ Filling(r)}) < MaxActive
  /\ \E f \in Filters, p \in 1..MaxPage : op' = [op EXCEPT ![q] = [filter |-> f, page |-> p]]
  /\ started' = [started EXCEPT ![q] = now]
  /\ Goto(q, "isEmpty")
  /\ UNCHANGED <<version, redis, now, isEmpty, todo, at, list, filling, replaced>>

\* SCARD.  When it fails, the set counts as filled.
IsEmpty(q) ==
  /\ At(q, "isEmpty")
  /\ \E b \in {ids = {}} \cup (IF MayBreak THEN {FALSE} ELSE {}) :
       /\ isEmpty' = [isEmpty EXCEPT ![q] = b]
       /\ Goto(q, IF b THEN "query" ELSE "members")
  /\ UNCHANGED <<version, redis, now, op, started, todo, at, list, filling, replaced>>

Members(q) ==
  /\ At(q, "members")
  /\ \E T \in Slices(ids, op[q].page) : todo' = [todo EXCEPT ![q] = T]
  /\ Goto(q, "get")
  /\ UNCHANGED <<version, redis, now, op, started, isEmpty, at, list, filling, replaced>>

MembersFails(q) ==
  /\ MayBreak /\ At(q, "members")
  /\ Goto(q, "query")
  /\ UNCHANGED <<version, redis, now, locals, filling, replaced>>

\* GET, for one id after the other; an id without its key is dropped from the set.
Get(q) ==
  /\ At(q, "get")
  /\ \E o \in todo[q] :
       /\ todo' = [todo EXCEPT ![q] = @ \ {o}]
       /\ IF Live(o)
          THEN /\ list' = [list EXCEPT ![q][o] = [version |-> entry[o].version, located |-> entry[o].located]]
               /\ Goto(q, "get") /\ UNCHANGED at
          ELSE /\ at' = [at EXCEPT ![q] = o]
               /\ Goto(q, "drop") /\ UNCHANGED list
  /\ UNCHANGED <<version, redis, now, op, started, isEmpty, filling, replaced>>

GetFails(q) ==
  /\ MayBreak /\ At(q, "get")
  /\ \E o \in todo[q] : todo' = [todo EXCEPT ![q] = @ \ {o}]
  /\ Goto(q, "get")
  /\ UNCHANGED <<version, redis, now, op, started, isEmpty, at, list, filling, replaced>>

\* SREM, its outcome not looked at.
Drop(q) ==
  /\ At(q, "drop")
  /\ ids' = ids \ {at[q]} \/ (MayBreak /\ UNCHANGED ids)
  /\ at' = [at EXCEPT ![q] = 0]
  /\ Goto(q, "get")
  /\ UNCHANGED <<version, entry, now, op, started, isEmpty, todo, list, filling, replaced>>

GotAll(q) ==
  /\ At(q, "get") /\ todo[q] = {}
  /\ todo' = [todo EXCEPT ![q] = Listed(q)]
  /\ Goto(q, "measure")
  /\ UNCHANGED <<version, redis, now, op, started, isEmpty, at, list, filling, replaced>>

Query(q) ==
  /\ At(q, "query")
  /\ LET page == Page(op[q].filter, op[q].page) IN
       /\ list' = [list EXCEPT ![q] =
            [o \in Orgs |-> IF o \in page THEN Row(o) ELSE None]]
       /\ todo' = [todo EXCEPT ![q] = page]
       /\ IF isEmpty[q]
          THEN fill' = [fill EXCEPT ![q] = "next"] /\ fillTodo' = [fillTodo EXCEPT ![q] = page]
          ELSE UNCHANGED <<fill, fillTodo>>
  /\ Goto(q, "measure")
  /\ UNCHANGED <<version, redis, now, op, started, isEmpty, at, copy, replaced>>

QueryFails(q) ==
  /\ MayBreak /\ At(q, "query")
  /\ Answer(q, "error")
  /\ UNCHANGED <<version, redis, now, locals, filling, replaced>>

\* The distance to the user is computed and the location taken out of the object.
Measure(q) ==
  /\ At(q, "measure")
  /\ \E o \in Orgs :
       /\ IsFirst(o, todo[q])
       /\ IF list[q][o].located
          THEN /\ list' = [list EXCEPT ![q][o] = [version |-> @.version, located |-> FALSE]]
               /\ todo' = [todo EXCEPT ![q] = @ \ {o}]
               /\ UNCHANGED <<pc, reply>>
          ELSE Answer(q, "panic") /\ UNCHANGED <<list, todo>>
  /\ UNCHANGED <<version, redis, now, op, started, isEmpty, at, filling, replaced>>

Done(q) ==
  /\ At(q, "measure") /\ todo[q] = {}
  /\ Answer(q, "ok")
  /\ UNCHANGED <<version, redis, now, locals, filling, replaced>>
-----------------------------------------------------------------------------
(* The goroutine that fills Redis.  Once its request is answered, and the  *)
(* context cancelled, only a command already sent takes effect.            *)

Cancelled(q) == reply[q] # "none"

\* The next object, copied as it is at this moment, for the next command.
CopyFor(q, command) ==
  /\ fill[q] = "next" /\ ~Cancelled(q)
  /\ \E o \in Orgs :
       /\ IsFirst(o, fillTodo[q])
       /\ copy' = [copy EXCEPT ![q] =
            [org |-> o, version |-> list[q][o].version, located |-> list[q][o].located]]
       /\ fillTodo' = [fillTodo EXCEPT ![q] = @ \ {o}]
  /\ fill' = [fill EXCEPT ![q] = command]
  /\ UNCHANGED <<version, redis, now, pc, reply, locals, replaced>>

\* CopyForAdd: the id goes into the set before its key.
CopyForAdd(q) == CopyFor(q, "add")
Copy(q) == CopyFor(q, "set")

\* SET with the key's expiry.
Set(q) ==
  /\ fill[q] = "set"
  /\ entry' = [entry EXCEPT ![copy[q].org] =
       [version |-> copy[q].version, located |-> copy[q].located, until |-> Until]]
  /\ fill' = [fill EXCEPT ![q] = IF Cancelled(q) THEN "next" ELSE "add"]
  /\ UNCHANGED <<version, ids, now, pc, reply, locals, fillTodo, copy, replaced>>

\* SADD.
Add(q) ==
  /\ fill[q] = "add"
  /\ ids' = ids \cup {copy[q].org}
  /\ fill' = [fill EXCEPT ![q] = "next"]
  /\ UNCHANGED <<version, entry, now, pc, reply, locals, fillTodo, copy, replaced>>

FillFails(q) ==
  /\ fill[q] \in {"set", "add"} /\ (MayBreak \/ Cancelled(q))
  /\ fill' = [fill EXCEPT ![q] = "next"]
  /\ UNCHANGED <<version, redis, now, pc, reply, locals, fillTodo, copy, replaced>>

FillEnds(q) ==
  /\ fill[q] = "next" /\ (fillTodo[q] = {} \/ Cancelled(q))
  /\ fill' = [fill EXCEPT ![q] = "none"]
  /\ fillTodo' = [fillTodo EXCEPT ![q] = {}] /\ copy' = [copy EXCEPT ![q] = NoCopy]
  /\ UNCHANGED <<version, redis, now, pc, reply, locals, replaced>>
-----------------------------------------------------------------------------
\* UpdateOrgInfo, or an upload of the icon: Redis is left as it is.
Update(o) ==
  /\ version[o] < MaxVersion
  /\ version' = [version EXCEPT ![o] = @ + 1]
  /\ replaced' = [replaced EXCEPT ![o][version[o]] = now]
  /\ UNCHANGED <<redis, now, pc, reply, locals, filling>>

\* No listing, and no fill, outlives its request's context.
Tick ==
  /\ now < MaxTime
  /\ \A q \in Requests : Active(q) \/ Filling(q) => now < started[q] + Timeout
  /\ now' = now + 1
  /\ UNCHANGED <<version, redis, pc, reply, locals, filling, replaced>>

Next ==
  \/ \E q \in Requests :
       \/ Request(q) \/ IsEmpty(q) \/ Members(q) \/ MembersFails(q)
       \/ Get(q) \/ GetFails(q) \/ Drop(q) \/ GotAll(q)
       \/ Query(q) \/ QueryFails(q) \/ Measure(q) \/ Done(q)
       \/ Copy(q) \/ Set(q) \/ Add(q) \/ FillFails(q) \/ FillEnds(q)
  \/ \E o \in Orgs : Update(o)
  \/ Tick

Spec == Init /\ [][Next]_vars
-----------------------------------------------------------------------------
\* The variables hold what the code puts there.
TypeOK ==
  /\ version \in [Orgs -> 0..MaxVersion]
  /\ ids \subseteq Orgs
  /\ entry \in [Orgs -> [version : 0..MaxVersion, located : BOOLEAN, until : Nat] \cup {NoEntry}]
  /\ now \in Nat
  /\ op \in [Requests -> Listing \cup {NoOp}]
  /\ pc \in [Requests -> {"idle", "isEmpty", "members", "get", "drop", "query", "measure"}]
  /\ reply \in [Requests -> {"none", "ok", "error", "panic"}]
  /\ started \in [Requests -> Nat] /\ isEmpty \in [Requests -> BOOLEAN]
  /\ todo \in [Requests -> SUBSET Orgs] /\ at \in [Requests -> Orgs \cup {0}]
  /\ list \in [Requests -> [Orgs -> Objects \cup {None}]]
  /\ fill \in [Requests -> {"none", "next", "set", "add"}]
  /\ fillTodo \in [Requests -> SUBSET Orgs]
  /\ copy \in [Requests -> [org : Orgs, version : 0..MaxVersion, located : BOOLEAN] \cup {NoCopy}]
  /\ replaced \in [Orgs -> [0..MaxVersion -> Nat \cup {-1}]]

\* Was version v of o current at time t, or later?
CurrentAt(o, v, t) == v = version[o] \/ t <= replaced[o][v]

Stored == {o \in Orgs : entry[o] # NoEntry}

\* What a listing shows of an organization was true within the life of a key
\* and of two contexts, the one that read it last and the one that stored it,
\* although no update touches Redis.
StaleAtMost ==
  \A q \in Requests, o \in Orgs :
    Active(q) /\ o \in Listed(q)
      => CurrentAt(o, list[q][o].version, now - Expiry - 2 * Timeout)

\* A listing read from the table is answered with every location, whatever its
\* own fill does with the objects they share.
TableListsAnswered == \A q \in Requests : reply[q] = "panic" => ~isEmpty[q]

\* A listing drops an id because its key expired, never because a fill under
\* way has yet to store it.
DropsExpired == \A q \in Requests : At(q, "drop") => entry[at[q]] # NoEntry

\* The rest of what the code relies on to keep them: an id in the set had its
\* key, a key holds what was current when its fill began, and a listing knows
\* by isEmpty whether its objects are its own rows or come from Redis.
IdsOK == ids \subseteq Stored

EntryOK ==
  \A o \in Stored :
    /\ entry[o].until <= now + Expiry
    /\ CurrentAt(o, entry[o].version, entry[o].until - Expiry - Timeout)

PathOK(q) ==
  /\ pc[q] \in {"idle", "isEmpty"} => Listed(q) = {}
  /\ pc[q] \in {"members", "get", "drop"} => ~isEmpty[q]
  /\ pc[q] \in {"get", "drop"} => todo[q] \subseteq Stored
  /\ pc[q] = "drop" => at[q] \in Stored

ClockOK(q) ==
  /\ started[q] <= now
  /\ Active(q) \/ Filling(q) => now <= started[q] + Timeout

ListOK(q) ==
  \A o \in Listed(q) :
    CurrentAt(o, list[q][o].version,
              IF isEmpty[q] THEN started[q] ELSE started[q] - Expiry - Timeout)

MeasureOK(q) ==
  /\ isEmpty[q] /\ At(q, "measure") => \A o \in todo[q] : list[q][o].located
  /\ reply[q] = "panic" => ~isEmpty[q]

FillOK(q) ==
  /\ Filling(q) => pc[q] = "measure" /\ isEmpty[q] /\ fillTodo[q] \subseteq Listed(q)
  /\ fill[q] \in {"set", "add"} =>
       copy[q] # NoCopy /\ CurrentAt(copy[q].org, copy[q].version, started[q])
  /\ fill[q] = "add" => copy[q].org \in Stored

RequestOK(q) == PathOK(q) /\ ClockOK(q) /\ ListOK(q) /\ MeasureOK(q) /\ FillOK(q)

DirectoryInv == TypeOK /\ IdsOK /\ EntryOK /\ \A q \in Requests : RequestOK(q)

\* get_organizations.go:28 dereferences every location, which
\* org_list_response.go:8 declares optional: every listing has them all.
ListingsAnswered == \A q \in Requests : reply[q] # "panic"

\* The app asks for a page of a search ('Search for Organization',
\* volunteer_home.dart:143) and shows "That is all" (line 251) after a short
\* page: while nothing is updated, an answer is the page that was asked for.
AnswersWhatWasAsked ==
  \A q \in Requests : reply[q] = "ok" => Listed(q) = Page(op[q].filter, op[q].page)
=============================================================================
