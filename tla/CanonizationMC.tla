--------------------------- MODULE CanonizationMC ---------------------------
(***************************************************************************)
(* Finite instances of Canonization for TLC.                               *)
(***************************************************************************)
EXTENDS Canonization

Quiet == [status |-> <<"absent", "absent", "absent", "absent">>, batch |-> 1, max |-> 1, cap |-> 1,
          hops |-> 0, edits |-> 0, contra |-> {}, goals |-> {}, flush |-> FALSE, dies |-> FALSE,
          watched |-> 1]

\* A candidate whose root goal may lift it, with bumps, a collection, deaths
\* and restarts; the same of a concept that is created first.
Lifted ==
  [Quiet EXCEPT !.status[1] = "candidate", !.hops = 3, !.edits = 1, !.goals = {{1}},
                !.flush = TRUE, !.dies = TRUE]
Created ==
  [Quiet EXCEPT !.hops = 2, !.edits = 2, !.goals = {{1}}, !.flush = TRUE, !.dies = TRUE]

\* Two Canonicals over a budget of one: a demotion, its cooldown, a return.
Lowered ==
  [Quiet EXCEPT !.status = <<"canonical", "canonical", "absent", "absent">>, !.hops = 4,
                !.flush = TRUE]

\* A ring of Venerables evaluated one a cycle, with inflow and outflow.
Ring ==
  [Quiet EXCEPT !.status = <<"venerable", "candidate", "venerable", "venerable">>, !.max = 3,
                !.hops = 4, !.edits = 1, !.goals = {{2}}, !.watched = 3]

\* A full budget, contradictions both ways, and room for two probes.
Rivals ==
  [Quiet EXCEPT !.status = <<"canonical", "canonical", "venerable", "absent">>, !.max = 2,
                !.batch = 2, !.cap = 2, !.hops = 4,
                !.contra = {<<1, 2>>, <<2, 1>>, <<2, 3>>}, !.watched = 3]

\* Contradicted Venerables and room for one probe: windows held in place.
Holds ==
  [Quiet EXCEPT !.status = <<"venerable", "venerable", "venerable", "none">>, !.max = 2,
                !.batch = 2, !.hops = 3,
                !.contra = {<<4, 1>>, <<4, 3>>, <<3, 2>>}, !.watched = 3]

MCSetups == {Lifted, Created, Lowered, Ring, Rivals, Holds}

\* Where no flush runs the records are of no account: all succeed. Where one
\* runs, hops are given up with one batch at most.
Focus ==
  /\ RecordStops => RecordNext \/ setup.flush
  /\ DropBatch => dropped = {}

MCSpec == Init /\ [][Next /\ Focus]_vars

=============================================================================
