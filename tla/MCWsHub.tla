------------------------------ MODULE MCWsHub ------------------------------
(* Small instances of the hub for TLC.                                     *)
EXTENDS WsHub, TLC

CONSTANTS c1, c2, c3, c4, m1, m2, ann, bob, cleo, a

OneEach    == [c \in Conns |-> IF c = c1 THEN ann ELSE IF c = c4 THEN cleo ELSE bob]
OneRoom    == [m \in Msgs |-> a]
AllMembers == Users \X Rooms
CleoLater  == {<<ann, a>>, <<bob, a>>}
Symmetry   == Permutations(Msgs)
=============================================================================
