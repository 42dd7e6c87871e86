----------------------------- MODULE MCChatView -----------------------------
(* A small instance of the chat page for TLC.                              *)
EXTENDS ChatView

CONSTANTS m1, m2, r1, r2

MCRoomOf == [m \in Messages |-> IF m = m2 THEN r2 ELSE r1]
=============================================================================
