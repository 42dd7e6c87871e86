----------------------------- MODULE GroupChat -----------------------------
(***************************************************************************)
(* What the chat hub promises of its messages: a connection sends one      *)
(* message at a time, to the connections that are in the room when its     *)
(* turn comes; each of them gets it once; and only when all have it may it *)
(* be stored.                                                              *)
(***************************************************************************)
EXTENDS Naturals, Sequences, Functions

CONSTANTS Conns, Msgs

VARIABLES
  sent,      \* sent[c]: what c has sent, in order
  stage,     \* stage[c]: where the last message of c is
  audience,  \* audience[m]: to whom m goes
  received,  \* received[c]: what has reached c, in order
  stored     \* the room's history

chat == <<sent, stage, audience, received, stored>>

Latest(c) == sent[c][Len(sent[c])]
Reached(c) == {d \in Conns : Latest(c) \in Range(received[d])}

Start ==
  /\ sent = [c \in Conns |-> <<>>] /\ received = [c \in Conns |-> <<>>]
  /\ stage = [c \in Conns |-> "idle"]
  /\ audience = [m \in Msgs |-> {}]
  /\ stored = <<>>

Send(c, m) ==
  /\ stage[c] = "idle"
  /\ \A d \in Conns : m \notin Range(sent[d])
  /\ sent' = [sent EXCEPT ![c] = Append(@, m)]
  /\ stage' = [stage EXCEPT ![c] = "waiting"]
  /\ UNCHANGED <<audience, received, stored>>

Address(c, S) ==
  /\ stage[c] = "waiting"
  /\ audience' = [audience EXCEPT ![Latest(c)] = S]
  /\ stage' = [stage EXCEPT ![c] = "going"]
  /\ UNCHANGED <<sent, received, stored>>

Reach(c, d) ==
  /\ stage[c] = "going"
  /\ d \in audience[Latest(c)] \ Reached(c)
  /\ received' = [received EXCEPT ![d] = Append(@, Latest(c))]
  /\ UNCHANGED <<sent, stage, audience, stored>>

\* The message is stored, or lost to the history.
Finish(c) ==
  /\ stage[c] = "going"
  /\ audience[Latest(c)] \subseteq Reached(c)
  /\ stored' \in {stored, Append(stored, Latest(c))}
  /\ stage' = [stage EXCEPT ![c] = "idle"]
  /\ UNCHANGED <<sent, audience, received>>

\* The process dies: whatever was on its way is given up.
GiveUp ==
  /\ stage' = [c \in Conns |-> "idle"]
  /\ UNCHANGED <<sent, audience, received, stored>>

Progress ==
  \/ \E c \in Conns :
       \/ \E m \in Msgs : Send(c, m)
       \/ \E S \in SUBSET Conns : Address(c, S)
       \/ \E d \in Conns : Reach(c, d)
       \/ Finish(c)
  \/ GiveUp

ChatSpec == Start /\ [][Progress]_chat
=============================================================================
