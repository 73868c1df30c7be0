---------------------------- MODULE Canonization ----------------------------
(***************************************************************************)
(* Canonization: the evaluator (src/src/canon/eval.rs, supersession.rs,    *)
(* task.rs) that moves concepts up and down the ladder                     *)
(*     none -> candidate -> venerable -> canonical -> none,                *)
(* the other writers of the graph it works beside, and the two ways by     *)
(* which each of its hops reaches the store: record_canonization at once,  *)
(* and the mutation log with the next flush (src/src/store/pg).            *)
(*                                                                         *)
(* A cycle gathers its plan under the read guard, asks the store with no   *)
(* lock held, and applies the verdicts under the write guard. What the     *)
(* store answers about evidence is a free choice: Apply picks which hops   *)
(* pass. Concepts are numbered in NodeId order. The policy is Swarm's,     *)
(* which admits whatever the evidence does. A hop's event id is its        *)
(* position in hops; a hop that demotes starts a cooldown.                 *)
(*                                                                         *)
(* An operator named X_Y is a mutated form of X, used only to check that a *)
(* property depends on X.                                                  *)
(***************************************************************************)
EXTENDS Integers, FiniteSetsExt, SequencesExt

CONSTANTS
  MaxNode,       \* bound: concepts, 1..MaxNode in NodeId order
  MaxDeferrals,  \* MAX_HOLD_DEFERRALS
  Setups         \* EvalParams and the bounds of one behaviour, chosen in Init

Nodes == 1..MaxNode
Alive == {"none", "candidate", "venerable", "canonical"}

ASSUME CanonizationAssumption ==
  /\ MaxNode \in Nat /\ MaxDeferrals \in Nat \ {0}
  /\ \A s \in Setups : /\ s.max \in Nat /\ s.batch \in Nat /\ s.watched \in Nodes
                       /\ s.goals \subseteq SUBSET Nodes
                       /\ s.status \in [Nodes -> Alive \cup {"absent"}]

VARIABLES
  setup,
  \* the graph, guarded by its lock
  status, demoted, \* canonization_status; the hop last_demotion_time comes from, 0 for none
  contra,          \* Contradicts edges <<source, target>>
  goal,            \* concepts the root goal names
  hops,            \* every hop ever applied
  trail,           \* canonization_events: the hops this life of the graph knows
  log,             \* mutation_log
  cooled,          \* demotions whose cooldown is over
  \* the flush
  batch,           \* drained and not yet confirmed
  \* the store
  row, rowDemoted, audit,
  \* the evaluator
  pc, plan, toRecord, cursor, streak,
  \* bounds and history
  edits,           \* concepts created, collected or bumped
  dropped,         \* hops of the batches the flush loop gave up
  overtaken,       \* concepts of which a direct write landed out of the order of their hops
  over             \* windows that moved on past each concept while setup.watched waited

graphVars == <<status, demoted, contra, goal, hops, trail, log, cooled>>
storeVars == <<row, rowDemoted, audit>>
evalVars  == <<pc, plan, toRecord, cursor, streak>>
vars == <<setup, graphVars, batch, storeVars, evalVars, edits, dropped, overtaken, over>>

Ids == 1..Len(hops)

Of(s)      == {n \in Nodes : status[n] = s}
Cooling(n) == demoted[n] # 0 /\ demoted[n] \notin cooled

\* A concept that may act in, or suffer, a supersession.
Usable(n) == status[n] \in Alive /\ ~Cooling(n)

Contradictions(t) == {s \in Nodes : <<s, t>> \in contra /\ Usable(s)}

-----------------------------------------------------------------------------
(* Rings                                                                    *)

\* How far n lies after the cursor, going round.
Distance(c, n) == IF n > c THEN n - c ELSE n - c + MaxNode

\* The next size members of a ring after the cursor, an identity, and where
\* the cursor goes. (The mutated form keeps a position instead.)
RingWindow_Positional(ring, c, size) ==
  LET n == Cardinality(ring)
      k == IF n = 0 THEN 0 ELSE c % n
      Place(m) == Cardinality({x \in ring : x < m})
      members == {m \in ring : (Place(m) - k + n) % n < size}
  IN  [members |-> members, cursor |-> IF n = 0 THEN c ELSE k + Cardinality(members)]
RingWindow(ring, c, size) ==
  LET members == {m \in ring :
                    Cardinality({x \in ring : Distance(c, x) < Distance(c, m)}) < size}
  IN  [members |-> members,
       cursor  |-> IF members = {} THEN c
                   ELSE CHOOSE m \in members :
                          \A x \in members : Distance(c, x) <= Distance(c, m)]

\* The contradictions to probe for targets taken in ring order from the
\* cursor, whole targets only, up to the cap; the first that has any is
\* always taken. Targets the cap leaves out are deferred. A pair probed one
\* way is probed the other way too, for the pair rule.
Probes(targets, c) ==
  LET Pairs(t)   == Cardinality(Contradictions(t))
      Cost(S)    == MapThenSumSet(Pairs, S)
      Ahead(t)   == {x \in targets : Distance(c, x) < Distance(c, t)}
      Covered(t) == Cost(Ahead(t)) = 0 \/ Cost(Ahead(t) \cup {t}) <= setup.cap
      probed   == {t \in targets : Contradictions(t) # {} /\ Covered(t)}
      forward  == {p \in probed \X Nodes : p[2] \in Contradictions(p[1])}
      reverse  == {p \in Nodes \X probed :
                     <<p[2], p[1]>> \in forward /\ p[2] \in Contradictions(p[1])}
  IN  [forward  |-> forward,
       all      |-> forward \cup reverse,
       deferred |-> {t \in targets : Contradictions(t) # {} /\ ~Covered(t)},
       capped   |-> Cost(targets) > setup.cap,
       last     |-> IF probed = {} THEN c
                    ELSE CHOOSE t \in probed :
                           \A x \in probed : Distance(c, x) <= Distance(c, t)]

NoProbes == [forward |-> {}, all |-> {}, deferred |-> {}, capped |-> FALSE, last |-> 0]
NoPlan   == [supersede |-> NoProbes, deferred |-> {}, speculative |-> FALSE, before |-> 0,
             stage1 |-> {}, stage2 |-> {}, stage3 |-> {}, clear |-> {}, demotion |-> {},
             waits |-> FALSE]
NoCursor == [supersede |-> 0, stage2 |-> 0, stage3 |-> 0, hold |-> 0]

Minus(m, n) == IF m > n THEN m - n ELSE 0
Lesser(m, n) == IF m < n THEN m ELSE n

-----------------------------------------------------------------------------
(* The write gate, the log and the store                                    *)

\* Hops of one write-guard hold, [node, to, turn] with at most one per
\* concept, are applied and logged in the order of their turns.
InTurn(h, g) == h.turn < g.turn \/ (h.turn = g.turn /\ h.node < g.node)
InOrder(S, Before(_, _)) ==
  [i \in 1..Cardinality(S) |-> CHOOSE x \in S : Cardinality({y \in S : Before(y, x)}) = i - 1]
NewHops(H) == [i \in 1..Cardinality(H) |->
  LET h == InOrder(H, InTurn)[i] IN [node |-> h.node, from |-> status[h.node], to |-> h.to]]
NewIds(H) == [i \in 1..Cardinality(H) |-> Len(hops) + i]

Demotes(h) == h.from = "canonical"

\* append_mutation of each hop. (The mutated form leaves what the evaluator
\* records directly to that.)
LogOfHops_Promotions(new, ids) ==
  LET logged == SelectSeq(ids, LAMBDA i : ~Demotes(new[i - Len(hops)]))
  IN  [k \in 1..Len(logged) |-> [kind |-> "hop", id |-> logged[k]]]
LogOfHops(new, ids) == [k \in 1..Len(ids) |-> [kind |-> "hop", id |-> ids[k]]]

\* apply_canonization_transition for each of H.
Commit(H) ==
  LET new == NewHops(H)
      ids == NewIds(H)
  IN  /\ Len(hops) + Cardinality(H) <= setup.hops
      /\ hops' = hops \o new
      /\ trail' = trail \cup ToSet(ids)
      /\ log' = log \o LogOfHops(new, ids)
      /\ status' = [n \in Nodes |->
           IF \E h \in H : h.node = n THEN (CHOOSE h \in H : h.node = n).to ELSE status[n]]
      /\ demoted' = [n \in Nodes |->
           IF \E i \in 1..Len(new) : new[i].node = n /\ Demotes(new[i])
           THEN ids[CHOOSE i \in 1..Len(new) : new[i].node = n] ELSE demoted[n]]

Store == [row |-> row, demoted |-> rowDemoted, audit |-> audit]

\* One mutation in the store's transaction. An event id that is already there
\* makes a hop a no-op; an upsert writes no status over a row that exists.
StoreHop_Again(st, id) ==
  LET h == hops[id] IN
  [row     |-> [st.row EXCEPT ![h.node] = h.to],
   demoted |-> IF Demotes(h) THEN [st.demoted EXCEPT ![h.node] = id] ELSE st.demoted,
   audit   |-> st.audit \cup {id}]
StoreHop(st, id) ==
  LET h == hops[id] IN
  IF id \in st.audit THEN st ELSE
  [row     |-> [st.row EXCEPT ![h.node] = h.to],
   demoted |-> IF Demotes(h) THEN [st.demoted EXCEPT ![h.node] = id] ELSE st.demoted,
   audit   |-> st.audit \cup {id}]

StoreUpsert(st, m) ==
  IF st.row[m.node] \in Alive THEN st
  ELSE [st EXCEPT !.row[m.node] = m.status, !.demoted[m.node] = m.demoted]

StoreMutation(st, m) ==
  CASE m.kind = "hop"    -> StoreHop(st, m.id)
    [] m.kind = "upsert" -> StoreUpsert(st, m)
    [] m.kind = "delete" -> [st EXCEPT !.row[m.node] = "gone", !.demoted[m.node] = 0]

StoreBecomes(st) == row' = st.row /\ rowDemoted' = st.demoted /\ audit' = st.audit

-----------------------------------------------------------------------------
\* Loaded from the store: no hop of this process yet.
Init ==
  /\ setup \in Setups
  /\ status = setup.status /\ row = setup.status
  /\ demoted = [n \in Nodes |-> 0] /\ rowDemoted = demoted
  /\ contra = {} /\ goal = {}
  /\ hops = <<>> /\ trail = {} /\ log = <<>> /\ cooled = {}
  /\ batch = <<>> /\ audit = {}
  /\ pc = "idle" /\ plan = NoPlan /\ toRecord = <<>>
  /\ cursor = NoCursor /\ streak = 0
  /\ edits = 0 /\ dropped = {} /\ overtaken = {} /\ over = [n \in Nodes |-> 0]

-----------------------------------------------------------------------------
(* The other writers of the graph                                           *)

Upsert(n, s) == [kind |-> "upsert", node |-> n, status |-> s, demoted |-> demoted[n]]

\* A derive creates a concept.
Create(n) ==
  /\ status[n] = "absent" /\ edits < setup.edits
  /\ status' = [status EXCEPT ![n] = "none"]
  /\ log' = Append(log, Upsert(n, "none"))
  /\ edits' = edits + 1
  /\ UNCHANGED <<setup, demoted, contra, goal, hops, trail, cooled, batch, storeVars, evalVars,
                 dropped, overtaken, over>>

\* drain_survivor_bumps, confirm_human: an upsert that carries the status of now.
Bump(n) ==
  /\ status[n] \in Alive /\ edits < setup.edits
  /\ log' = Append(log, Upsert(n, status[n]))
  /\ edits' = edits + 1
  /\ UNCHANGED <<setup, status, demoted, contra, goal, hops, trail, cooled, batch, storeVars,
                 evalVars, dropped, overtaken, over>>

Promoted == {"venerable", "canonical"}

\* Not collected: a promoted concept, the root goal's, a contradiction of a
\* promoted one. (What else a sweep spares, by score, is a free choice.)
Collectable(n) ==
  /\ status[n] \in {"none", "candidate"}
  /\ n \notin goal
  /\ \A t \in Nodes : <<n, t>> \in contra => status[t] \notin Promoted

Deletes(S) == [i \in 1..Cardinality(S) |-> [kind |-> "delete", node |-> InOrder(S, <)[i]]]
Upserts(S) == [i \in 1..Cardinality(S) |->
  LET n == InOrder(S, <)[i] IN Upsert(n, status[n])]

\* A GC sweep removes concepts, their edges with them, then bumps survivors.
Sweep ==
  /\ edits < setup.edits
  /\ \E gone \in SUBSET {n \in Nodes : Collectable(n)} :
     \E bumped \in SUBSET {n \in Nodes \ gone : status[n] \in Alive} :
       /\ gone \cup bumped # {}
       /\ edits' = edits + Cardinality(gone) + Cardinality(bumped)
       /\ edits' <= setup.edits
       /\ status' = [n \in Nodes |-> IF n \in gone THEN "gone" ELSE status[n]]
       /\ demoted' = [n \in Nodes |-> IF n \in gone THEN 0 ELSE demoted[n]]
       /\ contra' = {e \in contra : e[1] \notin gone /\ e[2] \notin gone}
       /\ log' = log \o Deletes(gone) \o Upserts(bumped)
  /\ UNCHANGED <<setup, goal, hops, trail, cooled, batch, storeVars, evalVars, dropped, overtaken, over>>

\* set_root_goal: what the goal names becomes venerable at once, with no
\* direct write to the store.
SetRootGoal(G) ==
  LET lifted == {n \in G : status[n] \in {"none", "candidate"}} IN
  /\ goal' = G
  /\ Commit({[node |-> n, to |-> "venerable", turn |-> 1] : n \in lifted})
  /\ UNCHANGED <<setup, contra, cooled, batch, storeVars, evalVars, edits, dropped, overtaken, over>>

\* A concept is declared to contradict another.
Contradict(s, t) ==
  /\ <<s, t>> \in setup.contra \ contra
  /\ status[s] \in Alive /\ status[t] \in Alive
  /\ contra' = contra \cup {<<s, t>>}
  /\ UNCHANGED <<setup, status, demoted, goal, hops, trail, log, cooled, batch, storeVars,
                 evalVars, edits, dropped, overtaken, over>>

\* The cooldown of the oldest demotion still cooling is over.
CooldownEnds ==
  /\ \E i \in Ids \ cooled :
       /\ Demotes(hops[i])
       /\ \A j \in 1..i - 1 : Demotes(hops[j]) => j \in cooled
       /\ cooled' = cooled \cup {i}
  /\ UNCHANGED <<setup, status, demoted, contra, goal, hops, trail, log, batch, storeVars,
                 evalVars, edits, dropped, overtaken, over>>

-----------------------------------------------------------------------------
(* The evaluator                                                            *)

\* eval_cycle, phase 1: the plan is read off the graph and the cursors move.
Gather ==
  LET canonical  == Of("canonical")
      full       == Cardinality(canonical) >= setup.max
      suspects   == {n \in canonical : Usable(n) /\ Contradictions(n) # {}}
      ring       == RingWindow(suspects, cursor.supersede, setup.batch)
      supersede  == Probes(ring.members, cursor.supersede)
      two        == RingWindow(Of("candidate"), cursor.stage2, setup.batch)
      three      == RingWindow(IF full /\ supersede.all = {} THEN {} ELSE Of("venerable"),
                               cursor.stage3, setup.batch)
      clear      == {n \in three.members : ~Cooling(n)}
      hold       == Probes(clear, cursor.hold)
  IN
  /\ pc = "idle"
  /\ pc' = "asking"
  /\ plan' = [supersede   |-> supersede,
              deferred    |-> hold.deferred,
              speculative |-> full /\ supersede.all # {},
              before      |-> cursor.stage3,
              stage1      |-> Of("none"),
              stage2      |-> two.members,
              stage3      |-> three.members,
              clear       |-> clear,
              demotion    |-> IF Cardinality(canonical) > setup.max THEN canonical ELSE {},
              waits       |-> status[setup.watched] = "venerable"]
  /\ cursor' = [supersede |-> IF supersede.capped THEN supersede.last ELSE ring.cursor,
                stage2    |-> two.cursor,
                stage3    |-> three.cursor,
                hold      |-> IF hold.capped THEN hold.last ELSE cursor.hold]
  /\ UNCHANGED <<setup, graphVars, batch, storeVars, toRecord, streak, edits, dropped, overtaken, over>>

\* Stage 1 takes a batch of what was and still is None.
Stage1Takes(S) ==
  /\ S \subseteq plan.stage1 \cap Of("none")
  /\ Cardinality(S) <= setup.batch

Hops(S, to, turn) == {[node |-> n, to |-> to, turn |-> turn] : n \in S}

Finish(ids) ==
  /\ toRecord' = ids
  /\ pc' = IF ids = <<>> THEN "idle" ELSE "recording"
  /\ plan' = NoPlan

\* A query failed: Stage 1, which asked the store nothing, lands alone, and
\* nothing is recorded directly.
StoreFails ==
  /\ pc = "asking"
  /\ cursor' = [cursor EXCEPT !.stage3 = plan.before]
  /\ \E S \in SUBSET plan.stage1 : Stage1Takes(S) /\ Commit(Hops(S, "candidate", 2))
  /\ Finish(<<>>)
  /\ UNCHANGED <<setup, contra, goal, cooled, batch, storeVars, streak, edits, dropped, overtaken, over>>

\* decide: of two concepts that each pass against the other one is outranked,
\* and at most one source wins each target.
Outranked_None(P) == {{}}
Outranked(P) ==
  LET mutual == {p \in P : <<p[2], p[1]>> \in P}
  IN  {B \in SUBSET mutual : \A p \in mutual : (p \in B) # (<<p[2], p[1]>> \in B)}
Verdicts(P, B) ==
  LET left == (P \cap plan.supersede.forward) \ B
  IN  {V \in SUBSET left : \A p \in left : Cardinality({v \in V : v[1] = p[1]}) = 1}

\* still_holds, from the graph as it is now.
StillHolds(v) ==
  /\ status[v[1]] = "canonical"
  /\ Usable(v[1]) /\ Usable(v[2])
  /\ <<v[2], v[1]>> \in contra

\* A window the hold's cap did not cover is kept in place, but not for more
\* than MAX_HOLD_DEFERRALS cycles in a row.
KeptInPlace(skipped) == ~skipped /\ plan.deferred # {} /\ streak + 1 < MaxDeferrals
Streak(skipped) ==
  IF skipped THEN streak ELSE IF KeptInPlace(skipped) THEN streak + 1 ELSE 0

\* The slots of the budget, spent one by one.
Fits_Each(S, count) == S = {} \/ count < setup.max
Fits(S, count) == Cardinality(S) <= Minus(setup.max, count)

\* History: whom the windows that moved on have evaluated since setup.watched
\* was evaluated itself, or its window forced on past it, counted while that
\* concept waits at Venerable. A window kept in place ends no wait.
Passed(E, moved) ==
  over' = [n \in Nodes |->
    IF \/ ~plan.waits \/ status'[setup.watched] # "venerable"
       \/ setup.watched \in E \/ (moved /\ setup.watched \in plan.deferred)
    THEN 0
    ELSE Lesser(over[n] + (IF moved /\ n \in E THEN 1 ELSE 0), 2)]

\* The verdicts W that still hold are applied under the write guard:
\* supersessions, Stage 1, 2 and 3 within the budget, then what is over it,
\* lowest blast radius first.
ApplyHeld(V, W) ==
  LET skipped   == plan.speculative /\ V = {}
      asked     == IF skipped THEN {} ELSE plan.stage3
      gone      == {v[1] : v \in W}
      count     == Cardinality(Of("canonical") \ gone)
      ranked    == (plan.demotion \cap Of("canonical")) \ gone
  IN
  /\ \E S1 \in SUBSET plan.stage1, S2 \in SUBSET (plan.stage2 \cap Of("candidate")),
        S3 \in SUBSET ((asked \cap plan.clear \cap Of("venerable")) \ plan.deferred) :
       /\ Stage1Takes(S1)
       /\ Fits(S3, count)
       /\ \E D \in kSubset(Lesser(Minus(count + Cardinality(S3), setup.max), Cardinality(ranked)),
                           ranked) :
            LET H == Hops(gone, "none", 1) \cup Hops(S1, "candidate", 2)
                       \cup Hops(S2, "venerable", 3) \cup Hops(S3, "canonical", 4)
                       \cup Hops(D, "none", 5)
            IN  Commit(H) /\ Finish(NewIds(H))
  /\ cursor' = [cursor EXCEPT !.stage3 =
       IF skipped \/ KeptInPlace(skipped) THEN plan.before ELSE @]
  /\ streak' = Streak(skipped)
  /\ Passed(asked \ plan.deferred, ~KeptInPlace(skipped))

\* Phases 2 and 3: the store answered every query, with the passes P.
Apply ==
  /\ pc = "asking"
  /\ \E P \in SUBSET plan.supersede.all : \E B \in Outranked(P) : \E V \in Verdicts(P, B) :
     \E W \in SUBSET {v \in V : StillHolds(v)} : ApplyHeld(V, W)
  /\ UNCHANGED <<setup, contra, goal, cooled, batch, storeVars, edits, dropped, overtaken>>

\* The hops among some mutations, and those a flush still carries.
HopsOf(s) == {m.id : m \in {m \in ToSet(s) : m.kind = "hop"}}
InFlight  == HopsOf(log \o batch)

\* History: a direct write of this hop overtakes an earlier hop of its concept
\* that a flush still carries, or comes after a later one.
OutOfOrder(id) ==
  \/ \E i \in InFlight \ audit : i < id /\ hops[i].node = hops[id].node
  \/ id \notin audit /\ \E i \in audit : i > id /\ hops[i].node = hops[id].node

\* Phase 4: record_canonization of the next hop, in a transaction of its own;
\* a concept without a row is NotFound.
DirectWrite(id) ==
  LET h == hops[id] IN
  /\ row[h.node] \in Alive \/ id \in audit
  /\ StoreBecomes(StoreHop(Store, id))
  /\ overtaken' = IF OutOfOrder(id) THEN overtaken \cup {h.node} ELSE overtaken

RecordNext ==
  /\ pc = "recording"
  /\ DirectWrite(Head(toRecord))
  /\ Finish(Tail(toRecord))
  /\ UNCHANGED <<setup, graphVars, batch, cursor, streak, edits, dropped, over>>

\* The first error ends the phase, whether or not that write had landed.
RecordStops ==
  /\ pc = "recording"
  /\ DirectWrite(Head(toRecord)) \/ UNCHANGED <<storeVars, overtaken>>
  /\ Finish(<<>>)
  /\ UNCHANGED <<setup, graphVars, batch, cursor, streak, edits, dropped, over>>

\* Memory::close aborts the task at an await.
Abort ==
  /\ pc \in {"idle", "asking", "recording"} /\ setup.dies
  /\ pc' = "stopped" /\ plan' = NoPlan /\ toRecord' = <<>>
  /\ UNCHANGED <<setup, graphVars, batch, storeVars, cursor, streak, edits, dropped, overtaken, over>>

-----------------------------------------------------------------------------
(* The flush and a restart                                                  *)

\* What is drained goes behind what an earlier cycle retained.
Drain ==
  /\ log # <<>> /\ setup.flush
  /\ batch' = batch \o log /\ log' = <<>>
  /\ UNCHANGED <<setup, status, demoted, contra, goal, hops, trail, cooled, storeVars, evalVars,
                 edits, dropped, overtaken, over>>

\* apply_canonization finds no row of the concept: NotFound, which rolls back
\* the batch, and the loop retains it as after any other passing error.
Refused(st, m) ==
  m.kind = "hop" /\ m.id \notin st.audit /\ st.row[hops[m.id].node] \notin Alive
Writable ==
  \A i \in 1..Len(batch) :
    ~Refused(FoldLeft(StoreMutation, Store, SubSeq(batch, 1, i - 1)), batch[i])

\* The whole batch in one transaction; a lost answer leaves it to be sent again.
Flush ==
  /\ batch # <<>> /\ Writable
  /\ StoreBecomes(FoldLeft(StoreMutation, Store, batch))
  /\ batch' \in {<<>>, batch}
  /\ UNCHANGED <<setup, graphVars, evalVars, edits, dropped, overtaken, over>>

\* The loop gives up its batch: a constraint of the store dead-letters it, the
\* degraded session drops it, or so does the fence, its lease lost or its
\* session erased. The graph lives on.
DropBatch ==
  /\ batch # <<>>
  /\ batch' = <<>>
  /\ dropped' = dropped \cup HopsOf(batch)
  /\ UNCHANGED <<setup, graphVars, storeVars, evalVars, edits, overtaken, over>>

\* The process dies and the next one loads the session: the log is gone, and
\* with it a root goal that was not stored.
Restart ==
  /\ setup.dies
  /\ status' = row /\ demoted' = rowDemoted /\ trail' = audit
  /\ log' = <<>> /\ batch' = <<>>
  /\ contra' = {e \in contra : row[e[1]] \in Alive /\ row[e[2]] \in Alive}
  /\ pc' = "idle" /\ plan' = NoPlan /\ toRecord' = <<>> /\ cursor' = NoCursor /\ streak' = 0
  /\ over' = [n \in Nodes |-> 0]
  /\ goal' \in {goal, {}}
  /\ UNCHANGED <<setup, hops, cooled, storeVars, edits, dropped, overtaken>>

-----------------------------------------------------------------------------
Next ==
  \/ \E n \in Nodes : Create(n) \/ Bump(n)
  \/ Sweep
  \/ \E G \in setup.goals : SetRootGoal(G)
  \/ \E s, t \in Nodes : Contradict(s, t)
  \/ CooldownEnds
  \/ Gather \/ StoreFails \/ Apply \/ RecordNext \/ RecordStops \/ Abort
  \/ Drain \/ Flush \/ DropBatch \/ Restart

Spec == Init /\ [][Next]_vars

-----------------------------------------------------------------------------
(* Correctness                                                              *)

\* A hop of the graph's audit trail is in the durable audit or a flush still
\* carries it, whatever became of its direct write and of the task, unless the
\* loop gave up the batch it was in: "the write-behind log carries them to the
\* store" (canon/task.rs).
NoHopLost == trail \subseteq audit \cup InFlight \cup dropped

\* The newest hop of a concept that the store's audit knows.
NewestStatus(n) ==
  LET known == {i \in audit : hops[i].node = n}
  IN  IF known = {} THEN row[n] ELSE hops[Max(known)].to

\* The dual write keeps the durable status at the newest audited hop, under
\* replays, lost answers, stale upserts, dropped batches and restarts, for every
\* concept whose hops reach the store in order.
RowIsNewest ==
  \A n \in Nodes : n \notin overtaken /\ row[n] \in Alive => row[n] = NewestStatus(n)

\* "A lagging replay of hop 1 arriving after hop 2's immediate write must NOT
\* regress the durable status" (store/memory.rs): the same of every concept.
ReplayNeverRegresses == \A n \in Nodes : row[n] \in Alive => row[n] = NewestStatus(n)

Later == {n \in Nodes : status'[n] = "canonical"}

Budgeted ==
  /\ Cardinality(Later) > setup.max => Later \subseteq Of("canonical")
  /\ Cardinality(Of("canonical")) > setup.max /\ plan.supersede.all = {} =>
       Cardinality(Later) >= setup.max

\* No cycle lifts the number of Canonicals over the budget, and none demotes
\* for the budget below it.
BudgetKept == [][Apply => Budgeted]_vars

OneStays ==
  \A a, b \in Nodes :
    /\ a # b /\ {status[a], status[b]} = {"canonical"}
    /\ {s \in Nodes : <<s, a>> \in contra} = {b}
    /\ {s \in Nodes : <<s, b>> \in contra} = {a}
    /\ Cardinality(Of("canonical")) <= setup.max
    => "canonical" \in {status'[a], status'[b]}

\* Of two Canonicals that contradict each other, and that no third concept
\* contradicts, one cycle supersedes at most one (canon/supersession.rs).
OneOfAPair == [][Apply => OneStays]_vars

\* Anti-starvation: while a Venerable waits for its evaluation, through windows
\* put back by a deferral, a skip or a store failure, no window that moves on
\* takes another concept twice, whoever enters and leaves the ring. (It says
\* nothing of how long a window stays, nor of how often the hold may defer the
\* concept and force its window on.)
FairRing == \A n \in Nodes : over[n] <= 1

=============================================================================
