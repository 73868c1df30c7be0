--------------------------- MODULE SessionLeaseMC ---------------------------
(***************************************************************************)
(* Finite instances of SessionLease for TLC. Two processes are enough: a   *)
(* holder and one that takes over from it, refuses it or erases the        *)
(* session. MaxToken 4 lets the session change hands twice and be erased,  *)
(* or be re-taken by a refresh that runs late, and then be erased.         *)
(***************************************************************************)
EXTENDS SessionLease

CONSTANTS h1, h2, none, released, erased

MCHolders == {h1, h2}

=============================================================================
