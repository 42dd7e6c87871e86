-------------------------- MODULE HttpServerProofs --------------------------
(***************************************************************************)
(* What AppServer.Serve and the middleware promise, for any number of      *)
(* connections, requests and signals.                                      *)
(***************************************************************************)
EXTENDS HttpServer, TLAPS

LEMMA InitServer == Init => ServerInv
<1> SUFFICES ASSUME Init PROVE ServerInv
  OBVIOUS
<1>1. TypeOK
  BY DEF Init, TypeOK
<1>2. AnswersOK /\ MutexOK
  BY ServerAssumption DEF Init, AnswersOK, Owes, MutexOK
<1>3. ShutdownOK
  BY DEF Init, ShutdownOK
<1>. QED
  BY <1>1, <1>2, <1>3 DEF ServerInv

\* What the ways in which a request goes on have in common: its goroutine moves to
\* another statement that is not under the mutex, or it ends with an answer.
LEMMA GoesOn ==
  ASSUME ServerInv, NEW c \in Conns, Running, Owes(c),
         pc[c] = "locked" => mu' = "free", pc[c] # "locked" => mu' = mu,
         UNCHANGED <<server, exit, requests>>,
         \/ \E l \in {"route", "handle", "upgrade"} :
              pc' = [pc EXCEPT ![c] = l] /\ UNCHANGED <<conn, answers>>
         \/ \E s \in {"idle", "closed", "hijacked"} :
              /\ pc' = [pc EXCEPT ![c] = "none"] /\ conn' = [conn EXCEPT ![c] = s]
              /\ answers' = [answers EXCEPT ![c] = @ + 1]
              /\ ShuttingDown => s # "idle"
  PROVE  ServerInv'
<1>. USE ServerAssumption DEF ServerInv
<1>1. TypeOK'
  BY DEF TypeOK, server
<1>2. AnswersOK'
  BY DEF AnswersOK, Owes, TypeOK
<1>3. MutexOK'
  BY DEF MutexOK, TypeOK
<1>4. ~Quiescent
  BY DEF AnswersOK, Quiescent
<1>5. ShutdownOK'
  BY <1>4 DEF ShutdownOK, ShuttingDown, server
<1>. QED
  BY <1>1, <1>2, <1>3, <1>5

\* One action of the middleware after another.
LEMMA RequestStep ==
  ASSUME ServerInv, NEW c \in Conns, Request(c)
  PROVE  ServerInv'
<1>. USE DEF Answer
<1>1. CASE Lock(c)
  <2>1. TypeOK' /\ AnswersOK' /\ MutexOK'
    BY <1>1, ServerAssumption
    DEF Lock, ServerInv, TypeOK, AnswersOK, Owes, MutexOK, server
  <2>2. ShutdownOK'
    BY <1>1 DEF Lock, ServerInv, ShutdownOK, ShuttingDown, Quiescent, server
  <2>. QED
    BY <2>1, <2>2 DEF ServerInv
<1>2. CASE Limit(c)
  BY <1>2, GoesOn DEF Limit, UnlockRefused, Done, Owes
<1>3. CASE Route(c)
  <2>. USE <1>3 DEF Route
  <2>1. PICK route \in Routes, token \in Tokens :
           \/ Unauthorized(route, token) /\ Answer(c) /\ ReturnUnauthorized(c)
           \/ NilToken(route, token) /\ Panic(c)
           \/ /\ pc' = [pc EXCEPT ![c] = IF route = "socket" THEN "upgrade" ELSE "handle"]
              /\ UNCHANGED <<conn, answers>>
    OBVIOUS
  <2>. QED
    BY <2>1, GoesOn DEF ReturnUnauthorized, Done, Panic, RecoverPanic, Owes
<1>4. CASE Handle(c)
  BY <1>4, GoesOn DEF Handle, Done, Panic, RecoverPanic, Owes
<1>5. CASE Upgrade(c)
  BY <1>5, GoesOn DEF Upgrade, Done, Owes
<1>. QED
  BY <1>1, <1>2, <1>3, <1>4, <1>5 DEF Request

\* Connections come, send and go.
LEMMA ConnectionStep ==
  ASSUME ServerInv, NEW c \in Conns, Accept(c) \/ ReadRequest(c) \/ HangUp(c)
  PROVE  ServerInv'
<1>. USE DEF Accept, ReadRequest, HangUp
<1>1. TypeOK'
  BY DEF ServerInv, TypeOK, server
<1>2. AnswersOK' /\ MutexOK'
  BY DEF ServerInv, TypeOK, AnswersOK, Owes, MutexOK
<1>3. report' = "done" => Quiescent'
  <2>1. CASE Accept(c)
    BY <2>1 DEF ServerInv, ShutdownOK, server
  <2>2. CASE ReadRequest(c) \/ HangUp(c)
    BY <2>2 DEF ServerInv, ShutdownOK, Quiescent, server
  <2>. QED
    BY <2>1, <2>2
<1>4. ShutdownOK'
  BY <1>3 DEF ServerInv, ShutdownOK, ShuttingDown, server
<1>. QED
  BY <1>1, <1>2, <1>4 DEF ServerInv

\* Serve, gracefulShutDown and signals leave the requests alone.
LEMMA ProcessStep ==
  ASSUME ServerInv, ServeStep \/ ShutdownStep \/ Signal
  PROVE  ServerInv'
<1>1. CASE CloseIdle
  <2>1. TypeOK' /\ AnswersOK' /\ MutexOK'
    BY <1>1 DEF CloseIdle, ServerInv, TypeOK, AnswersOK, Owes, MutexOK, server
  <2>2. ShutdownOK'
    BY <1>1 DEF CloseIdle, ServerInv, ShutdownOK, ShuttingDown, Quiescent, server
  <2>. QED
    BY <2>1, <2>2 DEF ServerInv
<1>2. ASSUME UNCHANGED work,
             serve' \in {"starting", "accepting", "closed"},
             quitter' \in {"new", "waiting", "draining", "reporting"},
             quit' \in BOOLEAN, signals' \in Nat, report' \in {"none", "done", "timeout"},
             exit' \in {"running", "failed", "killed", "ungraceful", "graceful"},
             ShuttingDown => ShuttingDown',
             quitter' = "reporting" => report' # "none",
             exit' = "graceful" => report' = "done",
             report' = "done" => ShuttingDown' /\ Quiescent
      PROVE  ServerInv'
  <2>1. UNCHANGED <<conn, pc, mu, requests, answers>>
    BY <1>2 DEF work
  <2>2. TypeOK'
    BY <1>2, <2>1 DEF ServerInv, TypeOK
  <2>3. AnswersOK' /\ MutexOK'
    BY <2>1 DEF ServerInv, AnswersOK, Owes, MutexOK
  <2>4. Quiescent' <=> Quiescent
    BY <2>1 DEF Quiescent
  <2>5. ShutdownOK'
    BY <1>2, <2>4 DEF ShutdownOK
  <2>. QED
    BY <2>2, <2>3, <2>5 DEF ServerInv
<1>3. /\ serve \in {"starting", "accepting", "closed"}
      /\ quitter \in {"new", "waiting", "draining", "reporting"}
      /\ quit \in BOOLEAN /\ signals \in Nat /\ report \in {"none", "done", "timeout"}
      /\ exit \in {"running", "failed", "killed", "ungraceful", "graceful"}
      /\ quitter = "reporting" => report # "none"
      /\ exit = "graceful" => report = "done"
      /\ report = "done" => ShuttingDown /\ Quiescent
  BY DEF ServerInv, TypeOK, ShutdownOK
<1>. USE DEF ShuttingDown, server
<1>4. CASE ServeStep
  BY <1>2, <1>3, <1>4 DEF ServeStep, Listen, ListenFails, ListenerClosed, ServeReturns, Reported
<1>5. CASE Notify \/ StartShutdown
  BY <1>2, <1>3, <1>5 DEF Notify, StartShutdown
<1>6. CASE Drained \/ GraceOver
  BY <1>2, <1>3, <1>6 DEF Drained, GraceOver, ReportTimeout, Running
<1>7. CASE Signal
  <2>1. UNCHANGED <<serve, quitter, report, work>> /\ signals' = signals + 1
    BY <1>7 DEF Signal
  <2>2. /\ exit' \in {"killed", exit}
        /\ quit' \in BOOLEAN
    BY <1>3, <1>7, Zenon DEF Signal
  <2>. QED
    BY <1>2, <1>3, <2>1, <2>2
<1>. QED
  BY <1>1, <1>4, <1>5, <1>6, <1>7 DEF ShutdownStep

LEMMA ServerStep == ServerInv /\ [Next]_vars => ServerInv'
<1> SUFFICES ASSUME ServerInv, [Next]_vars PROVE ServerInv'
  OBVIOUS
<1>1. CASE UNCHANGED vars
  BY <1>1 DEF ServerInv, TypeOK, AnswersOK, Owes, MutexOK, ShutdownOK, ShuttingDown,
              Quiescent, vars, server, work
<1>. QED
  BY <1>1, RequestStep, ConnectionStep, ProcessStep DEF Next
-----------------------------------------------------------------------------
\* The inductive invariant of the server: who owes an answer, who holds the
\* limiter's mutex, and what a finished shutdown found.
THEOREM ServerInvariant == Spec => []ServerInv
  BY InitServer, ServerStep, PTL DEF Spec

\* RecoverPanic, RateLimit, AuthMiddleware and the handlers: between them a request
\* gets one answer, and no connection is kept, closed or taken over before.
THEOREM OneAnswerEach == Spec => []AnsweredOnce
<1>1. ServerInv => AnsweredOnce
  <2> SUFFICES ASSUME ServerInv, NEW c \in Conns
               PROVE  /\ answers[c] <= requests[c]
                      /\ conn[c] \in {"idle", "closed", "hijacked"} => answers[c] = requests[c]
    BY DEF AnsweredOnce
  <2>1. answers[c] \in Nat /\ (Owes(c) <=> conn[c] = "active")
        /\ requests[c] = IF Owes(c) THEN answers[c] + 1 ELSE answers[c]
    BY DEF ServerInv, TypeOK, AnswersOK
  <2>. QED
    BY <2>1
<1>. QED
  BY <1>1, ServerInvariant, PTL

\* gracefulShutDown: "stopped server gracefully" is said with every request answered.
THEOREM GracefulIsComplete == Spec => []GracefulMeansAnswered
<1>1. ServerInv => GracefulMeansAnswered
  BY DEF ServerInv, AnswersOK, Owes, ShutdownOK, Quiescent, GracefulMeansAnswered
<1>. QED
  BY <1>1, ServerInvariant, PTL
=============================================================================
