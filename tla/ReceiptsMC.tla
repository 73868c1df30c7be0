----------------------------- MODULE ReceiptsMC -----------------------------
(***************************************************************************)
(* A finite instance of Receipts for TLC, explored under three Bounds: two *)
(* receipts and a debt with a moving clock, a fetching call and piggybacks,*)
(* so that expiry, eviction, delivery and close meet in every order; one   *)
(* receipt and a debt with a call that waits; a debt with two such calls,  *)
(* of one agent or of two, so that the share and the slot are refused.     *)
(***************************************************************************)
EXTENDS Receipts

CONSTANTS a1, a2, own, layer, unknown, c1, c2

MCAgents  == {a1, a2}
MCDests   == {own, layer}
MCCallers == {c1, c2}
MCForeign == {MaxSeq + 1}
MCAgentOf == [id \in OwnIds |-> a1]
MCDestOf  == [id \in OwnIds |-> IF id = 2 THEN layer ELSE own]

MCBounds ==
  {[seq |-> MaxSeq, clock |-> MaxClock, ask |-> {c1}, wait |-> {}, piggyback |-> TRUE],
   [seq |-> 1, clock |-> 0, ask |-> {}, wait |-> {c1}, piggyback |-> FALSE],
   [seq |-> 0, clock |-> 0, ask |-> {}, wait |-> {c1, c2}, piggyback |-> FALSE]}

\* Up to symmetry the first call is the first agent's, which is owed the debt.
MCInit ==
  /\ Init
  /\ call[c1].agent = a1
  /\ c2 \notin bound.wait => call[c2].agent = a2
  /\ \A f \in Foreign : restart[f].agent = a1 /\ restart[f].to # layer
  /\ bound.seq = MaxSeq => \A f \in Foreign : restart[f].to = own

MCSpec == MCInit /\ [][Next]_vars
MCFairSpec == MCSpec /\ Fairness
=============================================================================
