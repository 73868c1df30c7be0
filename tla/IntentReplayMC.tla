--------------------------- MODULE IntentReplayMC ---------------------------
(***************************************************************************)
(* Finite instances of IntentReplay for TLC.                               *)
(***************************************************************************)
EXTENDS IntentReplay

CONSTANTS a1, a2

MCAgents == {a1, a2}
MCOwner == [id \in Ids |-> IF id = 3 THEN a2 ELSE a1]

=============================================================================
