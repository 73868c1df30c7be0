--------------------------- MODULE ServeRegistryMC ---------------------------
(***************************************************************************)
(* A finite instance of ServeRegistry for TLC: a pinned session and three  *)
(* on-demand ones over two places, under Bounds that let different parts   *)
(* of the registry meet: attaches over the places and a shutdown; the      *)
(* retry loop, an attach and an erase over the permits; one session with   *)
(* erases and another process that takes its lease.                        *)
(***************************************************************************)
EXTENDS ServeRegistry

CONSTANTS p1, d1, d2, d3, k1, k2, q1, nobody, nothing

MCPinned   == {p1}
MCOnDemand == {d1, d2, d3}
MCCreds    == {k1, k2}
MCRequests == {q1}

Anyone(id) == {id} \X {k1} \X BOOLEAN

MCBounds ==
  {[used |-> {d1, d2, d3}, erased |-> {}, contended |-> {}, requests |-> {},
    askers |-> {<<d1, k1, TRUE>>, <<d2, k1, TRUE>>, <<d3, k2, TRUE>>},
    dies |-> FALSE, shutdown |-> TRUE],
   [used |-> {p1, d1}, erased |-> {p1}, contended |-> {}, requests |-> {q1},
    askers |-> Anyone(d1), dies |-> FALSE, shutdown |-> TRUE],
   [used |-> {d1}, erased |-> {d1}, contended |-> {d1}, requests |-> {q1},
    askers |-> Anyone(d1), dies |-> TRUE, shutdown |-> TRUE],
   [used |-> {p1}, erased |-> {p1}, contended |-> {p1}, requests |-> {q1},
    askers |-> {}, dies |-> FALSE, shutdown |-> TRUE],
   [used |-> {d1, d2}, erased |-> {d1}, contended |-> {}, requests |-> {},
    askers |-> {<<d1, k1, TRUE>>, <<d2, k2, TRUE>>}, dies |-> FALSE, shutdown |-> FALSE]}

\* What is not used does not matter; a lease of another process only where
\* one may take it.
MCInit ==
  /\ Init
  /\ \A id \in Ids \ (bound.used \cap bound.contended) : row[id] # "other"
  /\ \A id \in OnDemand \ bound.used : row[id] = "free"

MCSpec == MCInit /\ [][Next]_vars
MCFairSpec == MCSpec /\ Fairness
=============================================================================
