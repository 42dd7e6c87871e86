------------------------------ MODULE RWMutex ------------------------------
(***************************************************************************)
(* The sync.RWMutex embedded in ws.Manager (manager.go:29), with the two   *)
(* rules of the Go library that decide who waits for whom:                 *)
(*   - Lock first announces the writer (one at a time), then waits for     *)
(*     the readers that already hold the lock;                             *)
(*   - RLock parks behind an announced writer, and Unlock admits every     *)
(*     parked reader before the next writer can announce itself.           *)
(* A goroutine g holds the read lock when g \in rlocked, and the write     *)
(* lock when HoldsLock(g).                                                 *)
(***************************************************************************)
CONSTANT Nobody      \* the value of "announced" when no writer is pending

VARIABLES rlocked,   \* goroutines inside RLock .. RUnlock
          parked,    \* goroutines blocked in RLock by an announced writer
          announced  \* the goroutine inside Lock .. Unlock, waiting included

lockVars == <<rlocked, parked, announced>>

LockInit == rlocked = {} /\ parked = {} /\ announced = Nobody

RLock(g) ==
  /\ IF announced = Nobody
       THEN rlocked' = rlocked \cup {g} /\ UNCHANGED parked
       ELSE parked' = parked \cup {g} /\ UNCHANGED rlocked
  /\ UNCHANGED announced

RUnlock(g) == rlocked' = rlocked \ {g} /\ UNCHANGED <<parked, announced>>

Announce(g) ==
  /\ announced = Nobody
  /\ announced' = g
  /\ UNCHANGED <<rlocked, parked>>

HoldsLock(g) == announced = g /\ rlocked = {}

Unlock == rlocked' = parked /\ parked' = {} /\ announced' = Nobody
=============================================================================
