----------------------------- MODULE HttpServer -----------------------------
(***************************************************************************)
(* AppServer.Serve and gracefulShutDown next to the requests that pass     *)
(* RecoverPanic(RateLimit(cors(router(AuthMiddleware(RequireRole(h)))))).  *)
(* net/http gives every connection a goroutine, Shutdown waits for the     *)
(* connections that carry a request.  What the limiter counts is in        *)
(* RateLimit; here it is its mutex, and either answer.                     *)
(***************************************************************************)
EXTENDS Naturals

CONSTANTS Conns,
          MaxRequests,  \* bound: requests of one connection
          MaxSignals    \* bound: SIGINT and SIGTERM together

ASSUME ServerAssumption == "free" \notin Conns

VARIABLES
  serve,     \* Serve: "starting", "accepting", or "closed": waits for shutdownError
  quitter,   \* gracefulShutDown: "new", "waiting", "draining" or "reporting"
  quit,      \* the channel quit: a signal is buffered
  signals,   \* history: signals sent
  report,    \* what is sent on shutdownError
  exit,      \* "running", or how the process ended
  conn,      \* net/http's ConnState, or "none"
  pc,        \* what a connection's goroutine does next
  mu,        \* the limiter's mutex: its holder, or "free"
  requests,  \* history: requests read from a connection
  answers    \* history: answers written to it

server == <<serve, quitter, quit, signals, report>>
work   == <<conn, pc, mu, requests, answers>>
vars   == <<server, exit, work>>

Running == exit = "running"

Init ==
  /\ serve = "starting" /\ quitter = "new" /\ quit = FALSE /\ signals = 0
  /\ report = "none" /\ exit = "running"
  /\ conn = [c \in Conns |-> "none"] /\ pc = [c \in Conns |-> "none"]
  /\ mu = "free"
  /\ requests = [c \in Conns |-> 0] /\ answers = [c \in Conns |-> 0]
-----------------------------------------------------------------------------
(* Starting.  A signal that comes before signal.Notify ends the process;   *)
(* later ones are buffered, one at a time.                                 *)

ShuttingDown == quitter \in {"draining", "reporting"}

Listen ==
  /\ Running /\ serve = "starting"
  /\ serve' = IF ShuttingDown THEN "closed" ELSE "accepting"
  /\ UNCHANGED <<quitter, quit, signals, report, exit, work>>

ListenFails ==
  /\ Running /\ serve = "starting" /\ ~ShuttingDown
  /\ exit' = "failed"
  /\ UNCHANGED <<server, work>>

Notify ==
  /\ Running /\ quitter = "new"
  /\ quitter' = "waiting"
  /\ UNCHANGED <<serve, quit, signals, report, exit, work>>

Signal ==
  /\ Running /\ signals < MaxSignals
  /\ signals' = signals + 1
  /\ IF quitter = "new" THEN exit' = "killed" /\ UNCHANGED quit
                        ELSE quit' = TRUE /\ UNCHANGED exit
  /\ UNCHANGED <<serve, quitter, report, work>>
-----------------------------------------------------------------------------
(* Shutdown closes the listeners, then idle connections until no other is  *)
(* left or five seconds are over; a handler may run for seven.             *)

StartShutdown ==
  /\ Running /\ quitter = "waiting" /\ quit
  /\ quitter' = "draining" /\ quit' = FALSE
  /\ UNCHANGED <<serve, signals, report, exit, work>>

\* ListenAndServe returns as soon as Shutdown is called.
ListenerClosed ==
  /\ Running /\ serve = "accepting" /\ ShuttingDown
  /\ serve' = "closed"
  /\ UNCHANGED <<quitter, quit, signals, report, exit, work>>

\* A connection that has been open for five seconds without a request counts as
\* idle.
CloseIdle ==
  /\ Running /\ quitter = "draining"
  /\ \E old \in SUBSET {c \in Conns : conn[c] = "new"} :
       LET closing == old \cup {c \in Conns : conn[c] = "idle"} IN
       /\ closing # {}
       /\ conn' = [c \in Conns |-> IF c \in closing THEN "closed" ELSE conn[c]]
  /\ UNCHANGED <<server, exit, pc, mu, requests, answers>>

Quiescent == \A c \in Conns : conn[c] \in {"none", "closed", "hijacked"}

Drained ==
  /\ Running /\ quitter = "draining" /\ Quiescent
  /\ quitter' = "reporting" /\ report' = "done"
  /\ UNCHANGED <<serve, quit, signals, exit, work>>

\* KeepToItself: only a complete shutdown is reported.
KeepToItself == quitter' = "waiting" /\ UNCHANGED report
ReportTimeout == quitter' = "reporting" /\ report' = "timeout"

GraceOver ==
  /\ Running /\ quitter = "draining"
  /\ ReportTimeout
  /\ UNCHANGED <<serve, quit, signals, exit, work>>

\* Unawaited: Serve returns with ListenAndServe.
Unawaited == TRUE
Reported == quitter = "reporting"

ServeReturns ==
  /\ Running /\ serve = "closed" /\ Reported
  /\ exit' = IF report = "timeout" THEN "ungraceful" ELSE "graceful"
  /\ UNCHANGED <<server, work>>
-----------------------------------------------------------------------------
(* A connection and its requests, one after the other.                     *)

Accept(c) ==
  /\ Running /\ serve = "accepting" /\ ~ShuttingDown /\ conn[c] = "none"
  /\ conn' = [conn EXCEPT ![c] = "new"]
  /\ UNCHANGED <<server, exit, pc, mu, requests, answers>>

ReadRequest(c) ==
  /\ Running /\ conn[c] \in {"new", "idle"} /\ requests[c] < MaxRequests
  /\ conn' = [conn EXCEPT ![c] = "active"]
  /\ pc' = [pc EXCEPT ![c] = "limit"]
  /\ requests' = [requests EXCEPT ![c] = @ + 1]
  /\ UNCHANGED <<server, exit, mu, answers>>

\* IdleTimeout, ReadTimeout, or the client hangs up.
HangUp(c) ==
  /\ Running /\ conn[c] \in {"new", "idle"}
  /\ conn' = [conn EXCEPT ![c] = "closed"]
  /\ UNCHANGED <<server, exit, pc, mu, requests, answers>>

\* The handlers have returned: the connection is kept, unless the client or
\* Shutdown wants it closed.
Done(c) ==
  /\ pc' = [pc EXCEPT ![c] = "none"]
  /\ \E next \in {"idle", "closed"} :
       /\ ShuttingDown => next = "closed"
       /\ conn' = [conn EXCEPT ![c] = next]
Answer(c) == answers' = [answers EXCEPT ![c] = @ + 1]

Lock(c) ==
  /\ Running /\ pc[c] = "limit" /\ mu = "free"
  /\ mu' = c
  /\ pc' = [pc EXCEPT ![c] = "locked"]
  /\ UNCHANGED <<server, exit, conn, requests, answers>>

\* The limiter unlocks before it answers, and before it calls the next handler.
\* StillLocked: it does not.
StillLocked == UNCHANGED mu
UnlockRefused == mu' = "free"

Limit(c) ==
  /\ Running /\ pc[c] = "locked"
  /\ \/ UnlockRefused /\ Answer(c) /\ Done(c)
     \/ mu' = "free" /\ pc' = [pc EXCEPT ![c] = "route"] /\ UNCHANGED <<conn, answers>>
  /\ UNCHANGED <<server, exit, requests>>

\* What a route asks of the caller, and what the caller sends.
Routes == {"public", "claims", "socket", "user", "organization"}
Tokens == {"none", "malformed", "rejected", "user", "organization"}

Unauthorized(route, token) ==
  /\ route # "public"
  /\ \/ token \in {"none", "rejected"}
     \/ token \in {"user", "organization"} /\ route \in {"user", "organization"} \ {token}

\* checkAuth reads token.Valid before the error, and jwt.Parse returns no token
\* for a string that is not three segments.
NilToken(route, token) == route # "public" /\ token = "malformed"

\* RecoverPanic answers 500 and closes the connection; Unrecovered: net/http's own
\* recover only closes it.
Unrecovered(c) == UNCHANGED answers
RecoverPanic(c) == Answer(c)

Panic(c) ==
  /\ RecoverPanic(c)
  /\ pc' = [pc EXCEPT ![c] = "none"]
  /\ conn' = [conn EXCEPT ![c] = "closed"]

\* 401 and return.  NoReturn: the handler runs all the same.
NoReturn(c) == pc' = [pc EXCEPT ![c] = "handle"] /\ UNCHANGED conn
ReturnUnauthorized(c) == Done(c)

Route(c) ==
  /\ Running /\ pc[c] = "route"
  /\ \E route \in Routes, token \in Tokens :
       \/ Unauthorized(route, token) /\ Answer(c) /\ ReturnUnauthorized(c)
       \/ NilToken(route, token) /\ Panic(c)
       \/ /\ ~Unauthorized(route, token) /\ ~NilToken(route, token)
          /\ pc' = [pc EXCEPT ![c] = IF route = "socket" THEN "upgrade" ELSE "handle"]
          /\ UNCHANGED <<conn, answers>>
  /\ UNCHANGED <<server, exit, mu, requests>>

Handle(c) ==
  /\ Running /\ pc[c] = "handle"
  /\ \/ Answer(c) /\ Done(c)
     \/ Panic(c)
  /\ UNCHANGED <<server, exit, mu, requests>>

\* ServeWS refuses a wrong one-time password or takes the connection over.
Upgrade(c) ==
  /\ Running /\ pc[c] = "upgrade"
  /\ Answer(c)
  /\ \/ Done(c)
     \/ conn' = [conn EXCEPT ![c] = "hijacked"] /\ pc' = [pc EXCEPT ![c] = "none"]
  /\ UNCHANGED <<server, exit, mu, requests>>
-----------------------------------------------------------------------------
Request(c) == Lock(c) \/ Limit(c) \/ Route(c) \/ Handle(c) \/ Upgrade(c)

ShutdownStep == Notify \/ StartShutdown \/ CloseIdle \/ Drained \/ GraceOver
ServeStep == Listen \/ ListenFails \/ ListenerClosed \/ ServeReturns

Next ==
  \/ ServeStep \/ ShutdownStep \/ Signal
  \/ \E c \in Conns : Accept(c) \/ ReadRequest(c) \/ HangUp(c) \/ Request(c)

\* Goroutines run, contexts end every handler, and the mutex is handed over to
\* whoever waits for it.
Fairness ==
  /\ WF_vars(ServeStep) /\ WF_vars(Notify) /\ WF_vars(StartShutdown)
  /\ WF_vars(Drained \/ GraceOver)
  /\ \A c \in Conns : WF_vars(Limit(c) \/ Route(c) \/ Handle(c) \/ Upgrade(c)) /\ SF_vars(Lock(c))

Spec == Init /\ [][Next]_vars /\ Fairness
-----------------------------------------------------------------------------
\* "stopped server gracefully": no request that was read is left unanswered.
GracefulMeansAnswered ==
  exit = "graceful" => \A c \in Conns : answers[c] = requests[c]

\* Whatever answers a request, the limiter, the token checks, the handler or
\* RecoverPanic, nothing answers it a second time, and no connection is given up
\* before its last request was answered.
AnsweredOnce ==
  \A c \in Conns :
    /\ answers[c] <= requests[c]
    /\ conn[c] \in {"idle", "closed", "hijacked"} => answers[c] = requests[c]

\* A request that was read is answered, however many are refused or panic around
\* it, or else the process ends.
EveryRequestEnds ==
  \A c \in Conns : \A n \in 1..MaxRequests :
    (Running /\ requests[c] >= n) ~> (answers[c] >= n \/ ~Running)

\* A signal ends the process, handlers that outlast the grace or not.
SignalStops == (signals > 0) ~> ~Running
-----------------------------------------------------------------------------
TypeOK ==
  /\ serve \in {"starting", "accepting", "closed"}
  /\ quitter \in {"new", "waiting", "draining", "reporting"}
  /\ quit \in BOOLEAN /\ signals \in Nat
  /\ report \in {"none", "done", "timeout"}
  /\ exit \in {"running", "failed", "killed", "ungraceful", "graceful"}
  /\ conn \in [Conns -> {"none", "new", "active", "idle", "closed", "hijacked"}]
  /\ pc \in [Conns -> {"none", "limit", "locked", "route", "handle", "upgrade"}]
  /\ mu \in Conns \cup {"free"}
  /\ requests \in [Conns -> Nat] /\ answers \in [Conns -> Nat]

\* A goroutine that carries a request owes one answer, the others owe none.
Owes(c) == pc[c] # "none"
AnswersOK ==
  \A c \in Conns :
    /\ Owes(c) <=> conn[c] = "active"
    /\ requests[c] = IF Owes(c) THEN answers[c] + 1 ELSE answers[c]

\* The limiter's mutex is held by the one request between its two statements.
MutexOK == \A c \in Conns : pc[c] = "locked" <=> mu = c

\* What Shutdown has reported, and the process ended with, stays true: no
\* connection begins another request.
ShutdownOK ==
  /\ quitter = "reporting" => report # "none"
  /\ exit = "graceful" => report = "done"
  /\ report = "done" => ShuttingDown /\ Quiescent

\* The inductive invariant; GracefulMeansAnswered and AnsweredOnce follow.
ServerInv == TypeOK /\ AnswersOK /\ MutexOK /\ ShutdownOK
=============================================================================
