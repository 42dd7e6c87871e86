# HelpMatch: TLA+ models, model checking and proofs

HelpMatch matches volunteers with organizations. The repository holds a Go
server (`src/server/help_match`, PostgreSQL, Redis, a WebSocket chat) and a
Flutter app (`src/client/help_match`). There are no tests and no design
documents; the models below are read off the code, the SQL of its repositories
and the migrations.

## 1. Inventory

| component | source | state | operations | what is hard |
|---|---|---|---|---|
| chat hub | `internals/server/ws/{manager,client,event,event_handlers}.go` | `Manager.Clients` behind a `sync.RWMutex`, an unbuffered `egress` channel per client | `ServeWS`, `readMessages`, `writeMessages`, broadcasts, `addClient`, `removeClient` | five goroutines per connection; blocking sends under the read lock; departures during broadcasts |
| one-time passwords | `internals/server/ws/otp.go` | a map behind a mutex, a ticker | `NewOTP`, `VerifyOTP`, `Retention` | only the sweep looks at the age; late and dropped ticks |
| job service | `features/job`, parts of `features/chat` and `features/notifications` | `org_jobs`, `user_jobs`, `job_chat_rooms`, `job_chat_members`, `notifications` | add and delete a job, apply, update an applicant's status | several statements per request and no transaction; overlapping requests; cascades |
| chat repository | `features/chat` | `group_messages`, `job_chat_members`, `users.is_online` | insert a message, set the online status, listings | called from the hub's goroutines, errors dropped |
| authentication | `features/auth` | `users`, `organizations`, `refresh_tokens` | sign-up, login, renewal | three tables in one transaction; all rows of a user are updated; expiry computed at start-up |
| HTTP server, routing | `internals/server/http/{server,routes}.go` | the listener, a goroutine per connection, `quit` and `shutdownError` | start, serve, shut down on a signal | a shutdown next to handlers that outlast its grace |
| middleware | `features/auth/middleware`, `features/utils/claim_util.go` | limiters per address behind a mutex | recovery, rate limit, JWT, roles | a sweep next to requests; what answers a request, and that only one does |
| organization directory | `features/organization` | `organizations`, a Redis set of ids and a key per id | list, fetch, update | filled by a goroutine that shares its objects with the answer; never invalidated; keyed by organization, read for every search |
| user profiles | `features/users` | `users.interests` and columns | partial update, reads | array arithmetic in SQL; overlapping saves |
| uploads | `features/file_handler` | files, picture columns | upload | a file, then its row |
| app: volunteer's profile | `volunteer_profile.dart`, `profile_bloc`, `core/current_user` | the form, a Hive box of users | open, save, give up | a cache that nothing refreshes; differences to an old list; a timeout shorter than the server's |
| paging | `features/utils/filter.go` | none | metadata arithmetic | boundaries |
| app: session | `core/interceptor`, `core/local_storage`, `core/current_user`, `features/auth`, `core/ws_manager` | the stored token, the user's state, one socket for the life of the process | log in, dial with a password, kick out | a 401 of an earlier session; dialling again; a `late final` channel |
| app: chat view | `features/chat/presentation/bloc/message_bloc` | the list of messages, the listenings | open a room, take up an event, send | concurrent handlers of one bloc; two sources of one list |
| app: volunteer home | `features/volunteer` | page, list, filter of the screen | search, category, scroll, refresh | answers of overlapping searches; a page appended to another search's list |
| app: screens | the rest of `lib/` | none of interest | layout | |

How they interact: the job service and the hub meet in the tables (a membership
written by `UpdateJobStatus` is what `ServeWS` loads as the rooms of a client);
`RenewOTP` and `ServeWS` meet in the retention map; the hub writes
`users.is_online`, which the listings read; sign-up writes the organizations the
directory lists; a renewal is sent by the app's interceptor with what its storage
holds; the profile page reads a user through a cache and writes it through the upload
and the update. A login of the app asks for a one-time password and dials with it, so the
session and the retention map are composed (`AppSession` extends `OtpRetention`); the
chat view has its messages from the hub's events and from the table the hub writes
after it has handed an event out. Every request reaches a handler through the
middleware, on a goroutine that a shutdown waits for. Within the hub, goroutines meet
in the registry (under the lock) and in the rendezvous on `egress`.

## 2. Modules

| module | models | composes |
|---|---|---|
| `RWMutex` | Go's `sync.RWMutex`, as the hub depends on it (external) | |
| `GroupChat` | abstract specification of the hub's messages | |
| `WsHub` | the chat hub | `EXTENDS RWMutex`; `Chat == INSTANCE GroupChat WITH ...` |
| `WsHubProofs` | theorems of the hub | |
| `OtpRetention` | the one-time passwords | |
| `AppSession` | the app's logins and their connections | `EXTENDS OtpRetention` |
| `ChatView` | the list of messages the app shows | |
| `AppProofs` | theorems of the one-time passwords, the app's session and the chat view | `EXTENDS AppSession, ChatView` |
| `HttpServer`, `HttpServerProofs` | start, requests through the middleware, shutdown, and their theorems | |
| `RateLimit`, `RateLimitProofs` | the limiters per address and their theorems | |
| `Matching` | abstract specification of the job service | |
| `JobMatching` | the job service, statement by statement | `M == INSTANCE Matching WITH ...` |
| `JobMatchingProofs` | theorems of the job service | |
| `AuthTokens`, `AuthTokensProofs` | sign-up, login, renewal and their theorems | |
| `OrgDirectory`, `OrgDirectoryProofs` | the listings next to table and Redis, and their theorems | |
| `Profiles`, `ProfilesProofs` | the app's edit page and cache, upload and update of a profile, and their theorems | |
| `MCWsHub`, `MCAppSession`, `MCChatView`, `MCHttpServer`, `MCRateLimit`, `MCJobMatching`, `MCAuthTokens`, `MCOrgDirectory`, `MCProfiles` | the instances TLC checks | |

### 2.1 WsHub

State: `clients` is `Manager.Clients`; `roomIds[c]` is the snapshot in `Client`;
`closed` are the connections `removeClient` closed; `member`, `stored` and
`online` are the three pieces of the database the hub touches; `rlocked`,
`parked`, `announced` are the lock. `pc[g]` is the statement that goroutine `g`
runs next, with `g` one of `<<"serve", c>>`, `<<"reader", c>>`, `<<"writer", c>>`,
`<<"notify", c>>`, `<<"online", c>>`; `event`, `todo`, `at` are the local state of
a broadcast (what, to whom still, blocked on whom). `sent`, `audience`,
`received`, `told` are history: they record what was accepted and handed over
and guard nothing except that a message is sent once.

Actions follow the code's blocking points. `Lock` is two steps (`AwaitLock`, then
the critical section of `AddClient` or `RemoveClient`, whose guard is `Locked`),
`RLock` one or two (`BeginBroadcast`, and `ResumeBroadcast` when a writer was
announced). A send on `egress` is the joint step `Hand` of a broadcaster and the
client's writer in its `select`; the order of the range loop is arbitrary.
`StoreMessage`, `SetOnline` and `SetOffline` are the database statements; each may
fail and its error is dropped, as in the code. `ReadFails` stands for every way out
of the read loop, `PingFails` for the return of the write loop. `LoadRoomsFails` is
the early return that leaks the connection. `Restart` is the death of the process.

Abstracted: payloads (a message is a model value with a room), the encodings, the
512-byte limit and the read deadline (both are a `ReadFails`), `PushNewNotification`
(empty and unused). The `sender_id` of a message is what the app sends, its own
user. A client that sends `online_status_change` would be routed to the same
broadcast; the app never does.

`GroupChat` is what the hub promises of its messages: a connection sends one at a time;
when its turn comes the room it goes to is fixed; it reaches each of them once, in any
order among them; and it is stored when it has reached all, or is lost to the history.
`WsHub` implements it under `Stages` (where a reader is with its message) and
`Audiences`: connecting, leaving, announcing, locking, pinging and the online status are
stutters, an insert that fails is a `Finish` that stores nothing, `Restart` is
`GiveUp`.

### 2.2 OtpRetention

`data` is the map, `created[k]` the time stamp, `next`/`waiting`/`fired` the ticker
and its one-slot channel, `now` the clock. Each operation is one step because it
runs under the mutex. `Slack` bounds how late the goroutine may react to a tick. It is
checked as a part of `AppSession`, whose steps it restricts.

### 2.3 JobMatching and Matching

`pc[q]` is the statement request `q` executes next, `room[q]` the local `roomId`, and
the tables are sets and functions. One action per statement; `Fail` lets any of them
fail (a missing row, a constraint, the connection, the handlers' 7 s timeout) and
`Lost` lets a write be applied while the request is answered with an error. The
constraints of the migrations are guards (`CanApply`: unique pair and foreign key,
`RoomAllowed`, `InsertMember`), the cascades are `Cascade`. `Request` lets in what the
server lets in: a volunteer may apply to a job deleted since; an organization may set any
status, an unknown one too, of any user for any job, since the server asks neither
whether the user applied nor whose job it is (section 6). The admin of a room is whoever
called (`op[q].caller`). The app's screens offer an organization the applicants of its
own jobs only. `accepted` and `invited` are history: whose row was set to accepted, and whom
an update was to accept although they had no row when it arrived.

`Matching` is the promise in stages: published, applied, chosen, joined, closed, with
`Invites` as the way past the application that the server leaves open. `JobMatching`
implements it under the mapping at the end of the module: a user joins only after having
been chosen or invited, and is chosen only after having applied.

### 2.4 AuthTokens

Accounts stand for a `users` row, with an `organizations` row for owners; tokens are
the random strings of `refresh_tokens`. A request is a sign-up, a login or a renewal
(`op`), `pc[q]` its next statement. Sign-up runs in `TransactionScope`: its inserts
become visible at `Commit`, and the unique index on the name makes the second of two
inserts wait for, or fail on, the first. A renewal looks its token up, compares the
expiry, reads the account and rewrites every row of it (`Rotate`). A reply may be lost
after the write, a statement may fail, and `Restart` recomputes the expiry that the
process hands out, which is a package variable. `LookupBreaks` is the error that
`GetRefreshToken` drops: the empty holder's zero time counts as expired. Passwords,
access tokens and the wording of answers are left out; a wrong password is a failing
statement.

### 2.5 OrgDirectory

`ids` is the Redis set, `entry[o]` the key of an organization with the version it was
stored at, whether it holds a location, and the end of its life. A listing goes
through SCARD, then SMEMBERS and one GET per id (with an SREM when the key is gone)
or the query; it then takes the locations out of its objects one by one (`Measure`).
A listing that found the set empty leaves a fill behind, which copies the same
objects one by one (`Copy`) and sends SET and SADD for each. `list[q]` is shared by
both, so every interleaving of `Measure` and `Copy` is a behaviour. The race on one
object is the order of the two steps; a copy torn in the middle of a struct is not
modelled. Once the listing is answered its context is cancelled: the fill sends
nothing more, and what it had sent may still take effect. SCARD's error counts as
"not empty", as in the code. `Update` stands for every write of a row. Searches are
sets of organizations they match; sorting by another column is left out, since it
does not change what is listed. The recommended listing is left out: it filters on
`org_type = 'recommended'`, which no row has.

### 2.6 Profiles

The row is `interests` and `picture` (the save whose file it names); `holder` is the
save whose transaction has locked it and `draft` what that transaction sees. A device
has its edit page (`page`, with `prev` for `_previousSelectedCategories`) and its Hive
box (`known`, `cache`). A save is confirmed with any chips (`op[s]`: what to add, what
to remove, what is shown, whether a picture was picked) and goes through `pc[s]`: the
file is created, written and named by the row; the app has the answer and sends the
update; names, additions, removals, commit. `file[s]` is the file on disk, which has a
fresh name. The form stays up after Confirm, so the same page may confirm again, and
there are two devices. The app gives up after five seconds (`GiveUp`) while the server,
with its seven, goes on; a statement may fail (`Fail`, a taken username included), the
process may die (`Restart`), and the reply of a commit may be lost.

`interests` is a set: the column is an array in which `array_cat` may repeat a value,
but `array_remove` takes out every copy and nobody reads order or number. A page is
one per device; a failed save leaves the page without its form (the bloc is shared and
its state is no longer a fetched profile), and the user opens it again. `PictureIsWhole`
is about volunteers' pictures: posts and organizations' icons are left out.

### 2.7 RateLimit

A unit of time is the half second in which a bucket gains a token. `Level` is the
arithmetic of `limiter.Allow` of `x/time/rate` (external): time since the last token
given, at most the burst. A request's lookup, its `lastSeen` and its `Allow` run under
one mutex and are one step (`Admit`, `Refuse`), and so is a round of the goroutine
(`Sweep`), which may be up to `Slack` late. `asks`, `admitted` and `refused` are history.
Fractions of a token are left out: a request that would find one is refused.

### 2.8 HttpServer

`serve` is where `Serve` stands, `quitter` where `gracefulShutDown` does; `quit` is the
buffered channel of signals and `report` what goes over `shutdownError`. A connection has
`net/http`'s states (`conn`, external) and, while it carries a request, the goroutine's
next step in `RecoverPanic(RateLimit(cors(router(AuthMiddleware(RequireRole(h))))))`:
the limiter's mutex, its two answers, the token and role checks for each kind of route,
the handler, or the upgrade to a socket. A signal that comes before `signal.Notify` kills
the process. `jwt.Parse` returns no token for a string that is not three segments, and
`checkAuth` reads `token.Valid` before the error: this panics (`NilToken`), and
`RecoverPanic` answers 500 where 401 was meant; the app's `Bearer null` is such a string.
Handlers may run for seven seconds and the grace is five, so `GraceOver` needs no clock.
Accepting is one step with the listener's check, and closing idle connections one step
per round of `Shutdown`'s poll.

### 2.9 AppSession

Login `k` of one run of the app has password `k`. `token`, `checking`, `user`, `kicking`
are the secure storage and the steps of `UserAuthCubit`; `pc[k]`, `try[k]` are the loop
of `WsManager.connect`; `flights` are handshakes under way, `heard` the dial whose stream
is listened to, `accepted` (history) the dials the server took up. The renewal posts to
`/v1/auth/renew` while the server has `/v1/auth/refresh`, so every 401 ends in `kickOut`;
as the request may be one of an earlier session, `KickOut` may come at any time after the first
login. `_channel` is `late final`: a later login opens up to three more connections,
listens to none of them, and fails (`DialThrows`). Nothing closes the socket at logout.
The delays between two dials are left out: a round may take any time.

### 2.10 ChatView

One `ChatBloc` whose handlers run concurrently: `load[p]` is `ChatMessagesRequested` of
page `p`, `listening` the logins for which `NewMessageListening` runs (each further login
adds one), `queue[l]` and `looking[l]` its `asyncMap`. The server is abstract: a message
is handed out and then stored (`WsHub`), a listing is one `SELECT` of the room's rows.
`list` counts how often a message is shown. `base`, `live` and `passed` are history. The
error a socket ends with reaches the listenings behind its events (`SocketError`), and so
does a failed lookup, as a state of the bloc that changes nothing in the list.
What the model shows and no property forbids: a message handed out before a load and
stored after its `SELECT` is missing until the next load; the answer to a page that was
left replaces the list; every room's messages go to the open room's list; a message is
shown once for each login of the run; the stream, once closed, stays closed.

## 3. Runs

| run | instance | what it shows |
|---|---|---|
| `hub_safety` | 4 open sessions of 3 users, 1 room, 2 messages, one session may fail, a late member, restarts | a stored message was handed to its whole audience; per-sender order; offline is written last, when all others were told; nothing is handed outside the registry; a broadcast blocked on a writer that has returned stays blocked, and the registry as it is |
| `hub_progress` | 1 open, 1 connecting and departing session, 1 message, fairness | broadcasts, connect announcements and departures end while every registered writer serves; refinement of `GroupChat` |
| `hub_ping_loss` | 2 open sessions, 1 message, fairness | violation: see findings |
| `job_race` | 3 requests (2 at a time), 2 volunteers, 2 organizations with a job each, 3 rooms, lost replies | what the tables never say whatever overlaps; a job never has more rooms than requests were in flight at a time (`SplitOnlyByOverlap`); refinement of `Matching` |
| `auth_tokens` | 3 requests (2 at a time), a token lives 1 tick, clock to 3, restarts, lost replies | a replaced token is never accepted; only the owner's renewal ends a session; sign-up is atomic; no late renewal |
| `directory` | 2 listings (both at a time), 2 organizations, pages of 1, keys live 1 tick, contexts 1, clock to 4, one update each, failures | how stale a listing may be; ids are dropped for expired keys only |
| `directory_panic` | 2 listings, no failures, no time | violation: see findings |
| `profile_edits` | 2 devices, 2 saves at a time, 3 interests, failures, restarts | pictures are whole, no addition is lost, the interests change by whole saves |
| `rate_limit` | 2 addresses, burst 2, idle 2, pause 1, lateness 1, 2 requests per unit, clock to 5 | over any stretch of time nobody gets more than the rate, by being forgotten either; nobody is refused below it; silent addresses are forgotten in time |
| `http_server` | 2 connections of 2 requests, 2 signals, fairness | a shutdown called graceful has answered each request exactly once; every request ends, and every signal ends the process |
| `app_session` | 2 logins, 3 dials each, period 2, interval 1, lateness 2, clock to 6, fairness of `connect` | a password is kept while fresh and forgotten in time; a login gets one connection however its dials overtake each other; "connected" is said of the connection that is heard; connecting ends |
| `chat_view` | 2 messages of 2 rooms, 2 logins, 2 pages, fairness | the list is the last listing and what was looked up since; events are added in their order; loading ends; a failed lookup costs its own message only |

Bounds. Three sessions are the least in which a broadcast has one client behind it,
one it is blocked on and one leaving, and the fourth is outside the room for a while; two messages of one sender are the least that
can be swapped. The clock of `app_session` passes two whole lives of a password and the lateness
lets ticks be dropped; three dials are what the app makes, and two logins the least of which
one finds the channel taken. Three requests with two in flight cover every pair of
operations racing with a third that follows or precedes them (apply, accept and
delete of one job; two acceptances and an application). The updates (`Updates`) are of
applicants, of a volunteer who has not applied and of an organization, by the owner of
the job and by the other organization. Three rooms are one more than two requests at a
time may make of one job. `Requests` and `Rooms` in
`JobMatching`, `Addrs` in `RateLimit`, `Requests` and `Accounts` in `AuthTokens`,
`Requests` in `OrgDirectory` and the messages of `WsHub` (one room) are
interchangeable (no definition names or orders them), so `SYMMETRY` is used in those
safety runs; no liveness run uses it.
In `profile_edits` saves and devices are interchangeable too.
Deadlock is not checked: sessions, requests and the clock are bounded and end, and the
hub itself can come to a stop, which `hub_ping_loss` is about.
In `auth_tokens` a token lives one tick and the clock makes three, so a token can be
written, expire, and be met again by a process that has itself outlived the expiry it
hands out; times are compared as they are written, which assumes a server in UTC, as its
container is (`expires_at` is a `TIMESTAMP` without a zone). In `directory` two listings are the least in which one fills what the other
reads and both fill at once; the clock passes more than the bound of `StaleAtMost`
(three ticks), so that the bound can fail; pages of one make the second page differ
from the set's contents. In `profile_edits` the two saves are from one page or from
two devices, and three interests let one save add two and remove one, or the reverse.
In `rate_limit` an address can use its burst, fall silent, be forgotten and start over
twice before the clock ends, and `Burst <= Idle` holds with equality, as sharp as the
theorems allow (in the code it is 4 to 360). In `http_server` a request can be held by
the limiter while another is refused, panics or is drained, and the second signal comes
while the first is dealt with. In `chat_view` two loads overlap with each other and
with two listenings, and the messages belong to different rooms.

Fairness (`WsHub!Fairness`). Weak fairness of a goroutine that can run is what the Go
scheduler gives. Strong fairness of `AwaitLock` and `Hand` stands for the FIFO queues of
the mutex and of channels: a waiter is not overtaken for ever. `WriteEvent` is weakly
fair: a write to a socket returns in the end, which assumes a peer that drains its
socket (no write deadline is set). Nothing is assumed of reads, pings, messages
or arrivals. `BroadcastsEnd` and `DeparturesEnd` are conditional on
`[]WritersServe`, the condition that `hub_ping_loss` shows the code not to guarantee.

`HttpServer!Fairness`: goroutines run; a context or the connection's deadlines end every
handler; strong fairness of `Lock` is `sync.Mutex` handing itself over to a waiter that
starves. Nothing is assumed of clients or signals. `AppSpec`: the event loop turns and
the requests time out, so every step of `connect` is taken (`WF`); of logins, kick-outs,
handshakes and the server's clock nothing is assumed. `ChatView!Fairness`: dio's five
seconds end a load and a lookup, and the event loop turns; no message need arrive, no
`SELECT` need return.

The inductive invariants that the proofs use (`HubInv`, `DeliveryInv`, `DepartureInv`,
`OtpInv`, `AppInv`, `ChatInv`, `ServerInv`, `RateInv`, `JobInv`, `StoryInv`, `SplitInv`, `AuthInv`,
`DirectoryInv`, `ProfileInv`) are proved; before the proof each was checked by TLC, and
each can be again by naming it under `INVARIANTS` of the component's configuration. So
can `LoopSeesRegistry`, `NotToldOfOwnDeparture` and `AnsweredOnce`, which the runs leave
to their theorems. `ChatHolds` is checked in the smaller instance of `hub_progress`; on that of
`hub_safety` it holds as well.
Every property has a mutant: a variant of one definition (`LockedEarly`, `TakenNot`,
`StaleSoon`, `AnyOrder`, ...), defined next to the original, under which TLC finds the
property violated.

### Findings

* `hub_ping_loss`: when a ping fails, `writeMessages` returns into `removeClient`
  (`client.go:108-113`, `85-88`) and waits for the write lock. If a broadcaster has
  already reached that client's `egress <-` (`event.go:44`), it holds the read lock and
  has no receiver any more. Both wait for ever, and with them every later
  connection, departure and message.
* `directory_panic`: the fill copies objects whose location the service has taken out
  meanwhile; read back, they have none, and `*org.Location`
  (`get_organizations.go:28`) panics for every listing that meets them, until the key
  expires.

Three more need one actor and no overlap; nothing in the repository says otherwise, so
they are no runs. TLC reproduces them with the configurations named
(`tlc -config DirectorySearch.cfg MCOrgDirectory`, the other two with `MCProfiles`):

* `DirectorySearch.cfg`: Redis is filled with one page of one search and then answers for
  all of them: another search lists what it did not ask for, and the next page is
  empty, upon which the app shows "That is all".
* `ProfileRemovals.cfg`: `UPDATE ... FROM unnest($1)` (`user_repository.go:174-177`) joins
  the row with each interest to remove and updates it once: of several removals one is
  done, and the app says "User data updated!".
* `ProfileCache.cfg`: `UserRepo` answers from the Hive box whenever the user is there
  (`user_repo.dart:14-17`), and no save refreshes it: the page opened again shows what
  was there before, and the next save computes its differences from that.

## 4. Proofs

TLAPS checks, for every value of the constants that satisfies the named assumptions
(`HubAssumption`, `OtpAssumption`, `JobAssumption`, `UpdatesAssumption`, `AuthAssumption`,
`DirectoryAssumption`, `ProfileAssumption`, `RateAssumption`, `AppAssumption`,
`ChatAssumption`, `ServerAssumption`):

* `WsHubProofs`, the registry: `HubInvariant` (`Spec => []HubInv`), and from it
  `TypeCorrect`, `LoopsAreStable`, `DepartureNotEchoed` and the action property
  `HandedOnlyToRegistered`. `LoopSeesRegistry` is not inductive alone: that the registry
  does not change under a loop needs that a goroutine in its loop is in `rlocked`
  (`LockOK`), which `Locked` excludes; that a departure is not handed to its
  own writer needs that a client announced as gone is out of the registry and cannot
  be added again (`DepartedOK`, `SpawnOK`), and that the events a goroutine carries
  are its own (`EventsOK`, `CarriesOK`).
* `WsHubProofs`, the messages: `DeliveryInvariant`, and from it `StoredMeansHanded` and
  `OrderIsKept`. Neither is inductive: that a stored message reached its room needs, of a
  loop that is still going, that everybody in its audience was handed the event, is the
  one it is blocked on, or is among those to come (`CoverageOK`); the order needs that
  the message a reader carries is the last it accepted and is in no log it has not come
  to yet (`CarriedOK`), and that a message is accepted once (`SentOK`).
* `WsHubProofs`, the ends of sessions: `DepartureInvariant`, and from it
  `OfflineAfterTelling`: a reader about to write `is_online = false` has its connection
  out of the registry and closed, and its loop has come to everybody in its audience.
  `AbandonedIsFinal` is the general form of the finding `hub_ping_loss`: for any number
  of connections, from the moment a broadcaster is blocked on a client whose writer loop
  has returned no step but the death of the process takes it from there, nor does any
  step add or remove a client, because the read lock it holds (`LockOK`) excludes both.
* `WsHubProofs`, the refinement: `ImplementsGroupChat`. Under `HubInv /\ DeliveryInv` every
  step of the hub is a step of `GroupChat` or a stutter; `Hand` needs that a client is
  handed a message it has not had, the store that nobody of the audience is left.
* `JobMatchingProofs`, the tables: `JobInvariant`, `NoOrphans`, `OnlyAcceptedMembers`, and
  `ImplementsMatching`, the refinement of `Matching`. The strengthening is
  `RequestOK`: what a request relies on between two of its statements survives every
  statement of the others as long as the job exists (`Settled`, `OtherRequest`). Of an
  acceptance it says that its user has applied or was invited before the row is written,
  and has been accepted or was invited after: an applicant's row goes only with its job,
  so an update that found an applicant when it arrived writes an acceptance. The
  refinement maps each step to one of the abstract steps or a stutter under this
  invariant.
* `JobMatchingProofs`, what is told: `StoryInvariant`, and from it `ToldOfOneApplication`,
  `CongratulationIsTrue` and `OrganizationInItsRooms`. A notification is about what a
  request did some statements earlier, so the invariant follows it from there: the row is
  inserted by one request only (`ApplicationsTold`), a volunteer about to be congratulated
  is in a room while the job lasts (`CongratulationsHold`), and a request that will make
  a room has none (`RoomsTraced`), so that a second room does not hide the first.
* `JobMatchingProofs`, the rooms of a job: `SplitInvariant`, and from it `SplitsAreOverlaps`.
  The number of rooms is not inductive: it is counted together with the requests that
  have found none and are about to make one (`Making`). A request joins those only while
  there is no room, and they are among the requests in flight; one that makes its room
  leaves them.
* `AuthTokensProofs`: `AuthInvariant`, and from it `Revoked`, `SessionsLast`,
  `OwnersRenew`, `SignUpIsAtomic` and `NoLateRenewal`. None of them is inductive: a
  renewal writes what it looked up several statements before, so the invariant says
  what each request may still rely on (`PathOK`, `TxOK`, `FoundOK`, `RenewalOK`), that
  a name is held by one transaction at most (`NameHeld`), and how rows and clock
  relate (`RowsOK`, `ClockOK`).
* `OrgDirectoryProofs`: `DirectoryInvariant`, and from it `StalenessBound`,
  `TableAnswers` and `OnlyExpiredDropped`. The bound needs that a key holds what was
  current when the listing that filled it began (`EntryOK`, `FillOK`), that no context
  outlives its timeout (`ClockOK`), and that a listing knows by `isEmpty` where its
  objects come from (`PathOK`, `ListOK`); `OtherRequest` says that what was current at
  a past time stays so under every step of the others.
* `ProfilesProofs`: `ProfileInvariant`, and from it `PictureWhole`, `LockFreed`,
  `SavesStay` and `AtomicEdits`. The last two need what the open transaction has done
  up to each statement (`DraftOK`), that no other save is between its statements
  (`PathOK`), and that additions survive in every state, not only when reported
  (`WrittenOK`).
* `RateLimitProofs`: `RateInvariant`, and from it `RateIsBounded`, `RefusalsAreEarned` and
  `IdleAreForgotten`. The two bounds need what a bucket owes: what it holds is covered
  from above for every earlier moment (`Upper`) and accounted for from below since one
  moment at which it was full (`Lower`). A forgotten address starts full, which
  `Upper` survives because it was silent for longer than a bucket takes to fill
  (`Burst <= Idle`).
* `AppProofs`, the one-time passwords: `OtpInvariant`, `SingleUse`, `FreshIsKept`,
  `AgeBound`. The age bound needs `TickerOK` (the next tick, or the waiting one, is at most
  an interval after the last sweep) and that every key in the map was fresh at the last
  sweep.
* `AppProofs`, the session: `AppImplementsOtp`, that every step of the app is a step of the
  one-time passwords or leaves them alone, so their theorems hold of the composition;
  `AppInvariant`, and from it `LoginsConnectOnce` and `ConnectedIsTrue`. That a login is
  taken up once needs that a dial the server accepted has used its password, and
  that a used password is not in the map again.
* `AppProofs`, the chat view: `ChatInvariant`, and from it `ListIsWhole` and `AddedInOrder`.
  What a login added, looks up and has waiting are one order of the stream, and in this
  sequence nothing repeats (`InOrder`, `ToldOnce`): so a login adds a message once, and the
  count of the list is a cardinality that grows by one.
* `HttpServerProofs`: `ServerInvariant`, and from it `OneAnswerEach` and
  `GracefulIsComplete`. A goroutine owes exactly one answer from reading a request until
  its connection is idle, closed or taken over (`AnswersOK`), and once `Shutdown` has
  found every connection quiescent the closed listener lets no other begin
  (`ShutdownOK`).

Only model-checked: the liveness properties (fairness is out of the prover's reach), that
is `BroadcastsEnd`, `DeparturesEnd`, `EveryRequestEnds`, `SignalStops`, `ConnectsEnd`,
`LoadingEnds` and `EachIsTakenUp`, and the two violations. Every safety property of a
passing run is a theorem. The values the models compute with are sets, counters and
sequences without recursion, so no theorem was given up for induction over data.

## 5. Plan

Done: the hub with its abstract specification, the passwords, the app's session on top
of them, the job service with its abstract specification, authentication, the directory,
the profiles, the limiter, the HTTP server with its middleware, the chat view, and a
theorem for every safety property. To come, in order of weight:

1. Abstract specifications of more components, and their refinements: accounts and
   their sessions for `AuthTokens` (a session is opened, renewed, ended), and the whole
   edits of a profile for `Profiles`.
2. `VolunteerHome`: the app's searches, categories, scrolling and refresh
   (`volunteer_home.dart`, `volunteer_bloc.dart`, `load_more_cubit.dart`): overlapping
   searches answered out of order, a further page appended to the list of another
   search, `_page` and `_hasMore` kept across a change of category.
3. The room list (`rooms_bloc`), next to `ChatView`.

## 6. Not modelled

Seen while reading, and left out because one step of one actor shows them: a
connection whose rooms cannot be read is neither registered nor closed
(`manager.go:84`, the action `LoadRoomsFails`); `GetRefreshToken` answers any error but
"no rows" with an empty holder (`auth_repository.go:88`, `LookupBreaks`); the app posts
renewals to `/v1/auth/renew` while `routes.go:24` serves `/v1/auth/refresh`; the
metadata of a listing from Redis is computed from offsets (`org_repository.go:188`);
an update of an organization without a location dereferences nil
(`org_repository.go:379`), and one with a location writes longitude first where the
listings read latitude first (`org_repository.go:62`, `:123`); the recommended listing
filters on a type no row has (`org_handler.go:87`); the listing of jobs with a user's
status joins outer and then asks for that user's row (`job_repository.go:59`), so it
shows only jobs already applied to; an organization's icon is updated where the
organization's id equals the user's (`repository.go:30`), which no row satisfies; a
failed write leaves a file that no row names (`upload_handler.go:79`); `ApplyJob` answers
"failed to apply job" when only the notification failed, and the retry meets the unique
constraint (`job_service.go:66-80`); `ExpiresAt` is computed once, at process start
(`auth_repository.go:44`), so that a process that is up for more than a week hands out
refresh tokens it refuses; a message above 512 bytes ends its sender's connection
(`client.go:52`); the chat's listings never ask for `rows.Err` (`GetMessages` of
`ChatView` may therefore answer with a part), and `GetMembersOfRoomByRoomId`, which
nothing calls, lacks a comma in its SQL (`chat/repository/repository.go:193`); the server's
`WaitGroup` is never waited for; a one-time password is not tied to a user.

Seen as well, and part of the model (2.3): an update of
an applicant's status takes any user and any job (`update_job_status_handler.go:13-22`):
the service asks neither whether the job is the caller's nor whether the user applied
(`job_service.go:83-107`), an `UPDATE` of no row is no error (`job_repository.go:101-108`),
and "accepted" then adds the user to the job's chat, and the caller as the admin of a new
one (`job_service.go:119`, `:129-134`).

Formats, layouts and SQL listings without effect; `RecoverPanic` (a handler's panic
ends that request only) beyond its answer; configuration and connection pools; TLS, CORS and
static files; paging, whose arithmetic is a few lines of one function without state; the
volunteer's home and the room list (see the plan); the app's screens. Google login is an empty file.
