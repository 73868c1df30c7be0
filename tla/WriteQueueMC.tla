---------------------------- MODULE WriteQueueMC ----------------------------
(***************************************************************************)
(* A finite instance of WriteQueue for TLC. Lanes only interact through    *)
(* the shared bounds and the close, so two agents are enough; which of     *)
(* them submits which receipt is fixed up to symmetry: all on one lane, or *)
(* the second of them on the other. One receipt meets everything a close,  *)
(* a lost lease and the flush loop can do. With two, the loop's batches    *)
(* end while the close waits for it, and on two lanes nothing fails; the   *)
(* third, which fills every bound, comes where the close succeeds and the  *)
(* loop drains nothing before it, and on two lanes where there is none.    *)
(***************************************************************************)
EXTENDS WriteQueue

CONSTANTS a1, a2

MCAgents == {a1, a2}
MCSizeOf == [id \in Ids |-> IF id = 2 THEN 2 ELSE 1]
MCOwners == {[id \in Ids |-> a1], [id \in Ids |-> IF id = 2 THEN a2 ELSE a1]}

\* What a step may do once two receipts, and once three, are issued.
Calm ==
  /\ nextSeq' = 2 =>
       /\ LoopFlushes \/ LoopDrops => closing = "flushing"
       /\ owner[2] = a2 => ~leaseLost' /\ closing' # "failed" /\ ~LoopDrops
  /\ nextSeq' = 3 =>
       /\ ~leaseLost' /\ closing' # "failed"
       /\ ~LoopFlushes /\ ~LoopDrops
       /\ owner[2] = a2 => closing' = "open"
       /\ closing' \notin {"flushing", "closed"} =>
            \A id \in Ids : intent'[id] \in {"none", "logged"}

MCInit     == Init /\ owner \in MCOwners
MCSpec     == MCInit /\ [][Next]_vars
MCFairSpec == MCInit /\ [][Next /\ Calm]_vars /\ Fairness

=============================================================================
