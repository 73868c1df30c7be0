--------------------------- MODULE WriteBehindMC ---------------------------
(***************************************************************************)
(* A finite instance of WriteBehind for TLC: three mutations, an intent    *)
(* between two writes of one concept, or one mutation and two concepts     *)
(* that are read, so that more is dirty than the access budget admits.     *)
(***************************************************************************)
EXTENDS WriteBehind

CONSTANTS c1, c2, none

MCConcepts == {c1, c2}
MCTarget == [w \in Writes |-> IF w = 2 THEN none ELSE c1]

ReadsOrWrites == (\E c \in Concepts : count'[c] > 0) => nextWrite' <= 1

MCFairSpec == Init /\ [][Next /\ ReadsOrWrites]_vars /\ Fairness

=============================================================================
