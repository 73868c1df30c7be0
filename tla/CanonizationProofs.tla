-------------------------- MODULE CanonizationProofs --------------------------
(***************************************************************************)
(* Proofs about Canonization, for any concepts, parameters and bounds.     *)
(*                                                                         *)
(* What one application of verdicts does to the Canonicals follows from    *)
(* what it may choose, and needs no more than IInv. The fairness of the    *)
(* ring rests on RingInv, which relates the windows to the concept that    *)
(* waits. What reaches the store rests on StoreInv, which relates every    *)
(* pending mutation to the rows, with Midway for the rows in the middle of *)
(* a flush.                                                                *)
(***************************************************************************)
EXTENDS Canonization, DataInduction, FiniteSetTheorems, TLAPS

(* The budget and the limits are the ones of a setup, and a plan probes pairs *)
(* of concepts.                                                               *)
IInv == setup \in Setups /\ plan.supersede.forward \subseteq Nodes \X Nodes

LEMMA Invariance == Spec => []IInv
<1>1. NoPlan.supersede.forward = {}
  BY DEF NoPlan, NoProbes
<1>2. Init => IInv
  BY <1>1 DEF Init, IInv
<1>3. IInv /\ [Next]_vars => IInv'
  <2> SUFFICES ASSUME IInv, [Next]_vars PROVE IInv'
    OBVIOUS
  <2>1. setup' \in Setups
    BY DEF IInv, Next, vars, Create, Bump, Sweep, SetRootGoal, Contradict, CooldownEnds,
           Gather, StoreFails, Apply, RecordNext, RecordStops, Abort, Drain, Flush, DropBatch, Restart
  <2>2. ASSUME NEW targets \in SUBSET Nodes, NEW c
        PROVE  Probes(targets, c).forward \subseteq Nodes \X Nodes
    BY DEF Probes
  <2>3. ASSUME NEW ring \in SUBSET Nodes, NEW c, NEW size
        PROVE  RingWindow(ring, c, size).members \subseteq Nodes
    BY DEF RingWindow
  <2>4. CASE Gather
    <3>1. plan'.supersede.forward =
            Probes(RingWindow({n \in Of("canonical") : Usable(n) /\ Contradictions(n) # {}},
                              cursor.supersede, setup.batch).members, cursor.supersede).forward
      BY <2>4 DEF Gather
    <3>2. {n \in Of("canonical") : Usable(n) /\ Contradictions(n) # {}} \in SUBSET Nodes
      BY DEF Of
    <3>3. QED
      BY <2>1, <2>2, <2>3, <3>1, <3>2 DEF IInv
  <2>5. CASE plan' = plan \/ plan' = NoPlan
    BY <1>1, <2>1, <2>5 DEF IInv
  <2>6. ASSUME ~Gather PROVE plan' = plan \/ plan' = NoPlan
    <3>1. CASE \/ \E n \in Nodes : Create(n) \/ Bump(n)
               \/ Sweep \/ (\E G \in setup.goals : SetRootGoal(G))
               \/ (\E s, t \in Nodes : Contradict(s, t)) \/ CooldownEnds \/ Drain \/ Flush \/ DropBatch
               \/ UNCHANGED vars
      BY <3>1 DEF vars, evalVars, Create, Bump, Sweep, SetRootGoal, Contradict, CooldownEnds,
                  Drain, Flush, DropBatch
    <3>2. CASE StoreFails \/ Apply \/ RecordNext \/ RecordStops \/ Abort \/ Restart
      <4>1. ASSUME NEW V, NEW W, ApplyHeld(V, W) PROVE plan' = NoPlan
        BY <4>1 DEF ApplyHeld, Finish
      <4>2. QED
        BY <3>2, <4>1 DEF StoreFails, Apply, RecordNext, RecordStops, Abort, Restart, Finish
    <3>3. QED
      BY <2>6, <3>1, <3>2 DEF Next
  <2>7. QED
    BY <2>4, <2>5, <2>6
<1>4. QED
  BY <1>2, <1>3, PTL DEF Spec

LEMMA NodesFinite == IsFiniteSet(Nodes)
BY CanonizationAssumption, FS_Interval DEF CanonizationAssumption, Nodes

(* What one Apply chooses: the passes P, the outranked B, the verdicts V and  *)
(* those of them, W, that still hold; whom it lifts to Canonical, S, and whom *)
(* it demotes for the budget, D.                                              *)
Superseded(W) == {v[1] : v \in W}
Remaining(W)  == Of("canonical") \ Superseded(W)
Overflow(W, S) == Minus(Cardinality(Remaining(W)) + Cardinality(S), setup.max)

Choice(P, B, V, W, S, D) ==
  /\ P \in SUBSET plan.supersede.all /\ B \in Outranked(P) /\ V \in Verdicts(P, B)
  /\ W \in SUBSET {v \in V : StillHolds(v)}
  /\ S \subseteq Of("venerable") /\ Fits(S, Cardinality(Remaining(W)))
  /\ D \subseteq Remaining(W)
  /\ Cardinality(D) = Lesser(Overflow(W, S),
                       Cardinality((plan.demotion \cap Of("canonical")) \ Superseded(W)))

(* The Canonicals after hops of disjoint sets of concepts.                    *)
LEMMA HopsLand ==
  ASSUME NEW G, NEW S1, NEW S2, NEW S3, NEW D,
         S3 \cap (G \cup S1 \cup S2 \cup D) = {}, S3 \subseteq Nodes,
         Commit(Hops(G, "none", 1) \cup Hops(S1, "candidate", 2)
                  \cup Hops(S2, "venerable", 3) \cup Hops(S3, "canonical", 4)
                  \cup Hops(D, "none", 5))
  PROVE  \A n \in Nodes : status'[n] = "canonical" <=>
           n \in S3 \/ (status[n] = "canonical" /\ n \notin G \cup S1 \cup S2 \cup D)
<1> DEFINE H == Hops(G, "none", 1) \cup Hops(S1, "candidate", 2)
                  \cup Hops(S2, "venerable", 3) \cup Hops(S3, "canonical", 4)
                  \cup Hops(D, "none", 5)
<1> SUFFICES ASSUME NEW n \in Nodes
             PROVE  status'[n] = "canonical" <=>
               n \in S3 \/ (status[n] = "canonical" /\ n \notin G \cup S1 \cup S2 \cup D)
  OBVIOUS
<1>1. status'[n] = IF \E h \in H : h.node = n THEN (CHOOSE h \in H : h.node = n).to ELSE status[n]
  BY DEF Commit
<1>2. ASSUME NEW h \in H
      PROVE  /\ h.node \in G \cup S1 \cup S2 \cup S3 \cup D
             /\ h.to = "canonical" <=> h.node \in S3
  BY <1>2 DEF Hops
<1>3. (\E h \in H : h.node = n) <=> n \in G \cup S1 \cup S2 \cup S3 \cup D
  <2>1. ASSUME NEW S, NEW to, NEW turn, NEW m \in S
        PROVE  \E h \in Hops(S, to, turn) : h.node = m
    <3> DEFINE hop == [node |-> m, to |-> to, turn |-> turn]
    <3>1. hop \in Hops(S, to, turn)
      BY <2>1 DEF Hops
    <3>2. hop.node = m
      OBVIOUS
    <3>3. QED
      BY <3>1, <3>2
  <2>2. ASSUME NEW m \in G \cup S1 \cup S2 \cup S3 \cup D PROVE \E h \in H : h.node = m
    BY <2>1, <2>2
  <2>3. QED
    BY <1>2, <2>2
<1> HIDE DEF H
<1>4. QED
  BY <1>1, <1>2, <1>3

LEMMA ApplyChooses ==
  ASSUME Apply
  PROVE  \E P, B, V, W, S, D :
           /\ Choice(P, B, V, W, S, D)
           /\ \A n \in Nodes : status'[n] = "canonical" <=> n \in (Remaining(W) \ D) \cup S
<1> DEFINE Ranked(W) == (plan.demotion \cap Of("canonical")) \ Superseded(W)
           Moves(W, S1, S2, S3, D) ==
             Hops(Superseded(W), "none", 1) \cup Hops(S1, "candidate", 2)
               \cup Hops(S2, "venerable", 3) \cup Hops(S3, "canonical", 4) \cup Hops(D, "none", 5)
           Chosen(W, S1, S2, S3) ==
             /\ Stage1Takes(S1)
             /\ Fits(S3, Cardinality(Remaining(W)))
             /\ \E D \in kSubset(Lesser(Overflow(W, S3), Cardinality(Ranked(W))), Ranked(W)) :
                  Commit(Moves(W, S1, S2, S3, D))
<1>1. PICK P \in SUBSET plan.supersede.all :
        \E B \in Outranked(P) : \E V \in Verdicts(P, B) :
        \E W \in SUBSET {v \in V : StillHolds(v)} : ApplyHeld(V, W)
  BY DEF Apply
<1>2. PICK B \in Outranked(P) : \E V \in Verdicts(P, B) :
        \E W \in SUBSET {v \in V : StillHolds(v)} : ApplyHeld(V, W)
  BY <1>1
<1>3. PICK V \in Verdicts(P, B) : \E W \in SUBSET {v \in V : StillHolds(v)} : ApplyHeld(V, W)
  BY <1>2
<1>4. PICK W \in SUBSET {v \in V : StillHolds(v)} : ApplyHeld(V, W)
  BY <1>3
<1>5. \E S1 \in SUBSET plan.stage1, S2 \in SUBSET (plan.stage2 \cap Of("candidate")),
         S3 \in SUBSET Of("venerable") : Chosen(W, S1, S2, S3)
  BY <1>4 DEF ApplyHeld, Superseded, Remaining, Overflow
<1> HIDE DEF Chosen
<1>6. PICK S1 \in SUBSET plan.stage1, S2 \in SUBSET (plan.stage2 \cap Of("candidate")),
           S3 \in SUBSET Of("venerable") : Chosen(W, S1, S2, S3)
  BY <1>5
<1>7. PICK D \in kSubset(Lesser(Overflow(W, S3), Cardinality(Ranked(W))), Ranked(W)) :
             Commit(Moves(W, S1, S2, S3, D))
  BY <1>6 DEF Chosen
<1>8. /\ D \subseteq Remaining(W)
      /\ Cardinality(D) = Lesser(Overflow(W, S3), Cardinality(Ranked(W)))
  BY <1>7 DEF kSubset, Remaining
<1>9. Choice(P, B, V, W, S3, D)
  BY <1>1, <1>2, <1>3, <1>4, <1>6, <1>8 DEF Choice, Chosen
<1>10. \A n \in Superseded(W) : status[n] = "canonical"
  BY <1>4 DEF Superseded, StillHolds
<1>11. \A n \in S1 \cup S2 : status[n] # "canonical" /\ status[n] # "venerable"
  BY <1>6 DEF Chosen, Stage1Takes, Of
<1>12. S3 \cap (Superseded(W) \cup S1 \cup S2 \cup D) = {} /\ S3 \subseteq Nodes
  BY <1>6, <1>8, <1>10, <1>11 DEF Remaining, Of
<1>13. \A n \in Nodes : status'[n] = "canonical" <=>
         n \in S3 \/ (status[n] = "canonical" /\ n \notin Superseded(W) \cup S1 \cup S2 \cup D)
  BY <1>7, <1>12, HopsLand
<1>14. \A n \in Nodes : status'[n] = "canonical" <=> n \in (Remaining(W) \ D) \cup S3
  BY <1>11, <1>13 DEF Remaining, Of
<1>15. QED
  BY <1>9, <1>14

(* Of two concepts that each passed against the other, one is superseded.     *)
LEMMA OneOutranked ==
  ASSUME NEW P, NEW B \in Outranked(P), NEW V \in Verdicts(P, B), NEW a, NEW b,
         a # b, <<a, b>> \in V, <<b, a>> \in V
  PROVE  FALSE
<1>1. <<a, b>> \in P /\ <<b, a>> \in P /\ <<a, b>> \notin B /\ <<b, a>> \notin B
  BY DEF Verdicts
<1>2. QED
  BY <1>1 DEF Outranked

(* Arithmetic of the budget.                                                  *)
LEMMA BudgetSpent ==
  ASSUME IInv, NEW P, NEW B, NEW V, NEW W, NEW S, NEW D, Choice(P, B, V, W, S, D)
  PROVE  /\ IsFiniteSet(Remaining(W)) /\ IsFiniteSet(S) /\ IsFiniteSet(D)
         /\ Cardinality(Remaining(W)) \in Nat /\ Cardinality(S) \in Nat /\ Cardinality(D) \in Nat
         /\ setup.max \in Nat
         /\ Cardinality(S) <= Minus(setup.max, Cardinality(Remaining(W)))
         /\ Cardinality(D) <= Overflow(W, S)
<1>1. IsFiniteSet(Remaining(W)) /\ IsFiniteSet(S) /\ IsFiniteSet(D)
  BY NodesFinite, FS_Subset DEF Choice, Remaining, Of
<1>2. IsFiniteSet((plan.demotion \cap Of("canonical")) \ Superseded(W))
  BY NodesFinite, FS_Subset DEF Of
<1>3. setup.max \in Nat
  BY CanonizationAssumption DEF IInv, CanonizationAssumption
<1>4. /\ Cardinality(Remaining(W)) \in Nat /\ Cardinality(S) \in Nat /\ Cardinality(D) \in Nat
      /\ Cardinality((plan.demotion \cap Of("canonical")) \ Superseded(W)) \in Nat
  BY <1>1, <1>2, FS_CardinalityType
<1>5. QED
  BY <1>1, <1>3, <1>4 DEF Choice, Fits, Overflow, Minus, Lesser

-----------------------------------------------------------------------------
(* No cycle lifts the number of Canonicals over the budget, and none demotes  *)
(* for the budget below it.                                                   *)
THEOREM BudgetHolds == Spec => BudgetKept
<1>1. ASSUME IInv, Apply PROVE Budgeted
  <2>1. PICK P, B, V, W, S, D :
          /\ Choice(P, B, V, W, S, D)
          /\ \A n \in Nodes : status'[n] = "canonical" <=> n \in (Remaining(W) \ D) \cup S
    BY <1>1, ApplyChooses
  <2>2. Later = (Remaining(W) \ D) \cup S
    BY <2>1 DEF Choice, Remaining, Of, Later
  <2>3. /\ IsFiniteSet(Remaining(W)) /\ IsFiniteSet(S) /\ IsFiniteSet(D)
        /\ Cardinality(Remaining(W)) \in Nat /\ Cardinality(S) \in Nat /\ Cardinality(D) \in Nat
        /\ setup.max \in Nat
        /\ Cardinality(S) <= Minus(setup.max, Cardinality(Remaining(W)))
        /\ Cardinality(D) <= Overflow(W, S)
    BY <1>1, <2>1, BudgetSpent
  <2>4. /\ Cardinality(Remaining(W) \ D) = Cardinality(Remaining(W)) - Cardinality(D)
        /\ Cardinality(Later) \in Nat
        /\ Cardinality(Later) = Cardinality(Remaining(W) \ D) + Cardinality(S)
    <3>1. Remaining(W) \cap D = D /\ (Remaining(W) \ D) \cap S = {}
      BY <2>1 DEF Choice, Remaining, Of
    <3>2. /\ IsFiniteSet(Remaining(W) \ D)
          /\ Cardinality(Remaining(W) \ D) = Cardinality(Remaining(W)) - Cardinality(D)
      BY <2>3, <3>1, FS_Difference, ZenonT(40)
    <3>3. /\ IsFiniteSet(Later)
          /\ Cardinality(Later) = Cardinality(Remaining(W) \ D) + Cardinality(S) - Cardinality({})
      BY <2>2, <2>3, <3>1, <3>2, FS_Union
    <3>4. Cardinality({}) = 0 /\ Cardinality(Later) \in Nat
      BY <3>3, FS_EmptySet, FS_CardinalityType
    <3>5. QED
      BY <2>3, <3>2, <3>3, <3>4
  <2>5. ASSUME Cardinality(Later) > setup.max PROVE Later \subseteq Of("canonical")
    <3>1. Cardinality(S) = 0
      BY <2>3, <2>4, <2>5 DEF Minus
    <3>2. S = {}
      BY <2>3, <3>1, FS_EmptySet
    <3>3. QED
      BY <2>2, <3>2 DEF Remaining
  <2>6. ASSUME Cardinality(Of("canonical")) > setup.max, plan.supersede.all = {}
        PROVE  Cardinality(Later) >= setup.max
    <3>1. V = {}
      BY <2>1, <2>6 DEF Choice, Verdicts
    <3>2. Remaining(W) = Of("canonical")
      BY <2>1, <3>1 DEF Choice, Remaining, Superseded
    <3>3. QED
      BY <2>3, <2>4, <2>6, <3>2 DEF Overflow, Minus
  <2>7. QED
    BY <2>5, <2>6 DEF Budgeted
<1>2. IInv /\ [Next]_vars => (Apply => Budgeted)
  BY <1>1
<1>3. Spec => [][Apply => Budgeted]_vars
  BY <1>2, Invariance, PTL DEF Spec
<1>4. QED
  BY <1>3 DEF BudgetKept

-----------------------------------------------------------------------------
(* Of two Canonicals that contradict each other and nobody else does, one     *)
(* cycle supersedes at most one, and demotes none for the budget.             *)
THEOREM PairKeepsOne == Spec => OneOfAPair
<1>1. ASSUME IInv, Apply, NEW a \in Nodes, NEW b \in Nodes,
             a # b, {status[a], status[b]} = {"canonical"},
             {s \in Nodes : <<s, a>> \in contra} = {b},
             {s \in Nodes : <<s, b>> \in contra} = {a},
             Cardinality(Of("canonical")) <= setup.max,
             status'[a] # "canonical", status'[b] # "canonical"
      PROVE  FALSE
  <2>1. PICK P, B, V, W, S, D :
          /\ Choice(P, B, V, W, S, D)
          /\ \A n \in Nodes : status'[n] = "canonical" <=> n \in (Remaining(W) \ D) \cup S
    BY <1>1, ApplyChooses
  <2>2. /\ IsFiniteSet(Remaining(W)) /\ IsFiniteSet(S) /\ IsFiniteSet(D)
        /\ Cardinality(Remaining(W)) \in Nat /\ Cardinality(S) \in Nat /\ Cardinality(D) \in Nat
        /\ setup.max \in Nat
        /\ Cardinality(S) <= Minus(setup.max, Cardinality(Remaining(W)))
        /\ Cardinality(D) <= Overflow(W, S)
    BY <1>1, <2>1, BudgetSpent
  <2>3. Cardinality(Remaining(W)) <= setup.max
    <3>1. IsFiniteSet(Of("canonical"))
      BY NodesFinite, FS_Subset DEF Of
    <3>2. Cardinality(Remaining(W)) <= Cardinality(Of("canonical"))
      BY <3>1, FS_Subset DEF Remaining
    <3>3. QED
      BY <1>1, <2>2, <3>1, <3>2, FS_CardinalityType
  <2>4. D = {}
    <3>1. Cardinality(D) = 0
      BY <2>2, <2>3 DEF Overflow, Minus
    <3>2. QED
      BY <2>2, <3>1, FS_EmptySet
  <2>5. a \in Superseded(W) /\ b \in Superseded(W)
    BY <1>1, <2>1, <2>4 DEF Remaining, Of
  <2>6. \A v \in W : /\ v \in V /\ v \in Nodes \X Nodes
                     /\ <<v[2], v[1]>> \in contra
    <3>1. V \subseteq Nodes \X Nodes
      BY <1>1, <2>1 DEF Choice, Verdicts, IInv
    <3>2. QED
      BY <2>1, <3>1 DEF Choice, StillHolds
  <2>7. ASSUME NEW x \in Nodes, NEW y, x \in Superseded(W), {s \in Nodes : <<s, x>> \in contra} = {y}
        PROVE  <<x, y>> \in V
    <3>1. PICK v \in W : v[1] = x
      BY <2>7 DEF Superseded
    <3>2. PICK s \in Nodes : v = <<x, s>>
      <4>1. v \in Nodes \X Nodes
        BY <2>6
      <4>2. v = <<v[1], v[2]>> /\ v[2] \in Nodes
        BY ONLY <4>1
      <4>3. QED
        BY <3>1, <4>2
    <3>3. s = y
      BY <2>6, <2>7, <3>2
    <3>4. QED
      BY <2>6, <3>2, <3>3
  <2>8. QED
    BY <1>1, <2>1, <2>5, <2>7, OneOutranked DEF Choice
<1>2. IInv /\ [Next]_vars => (Apply => OneStays)
  BY <1>1 DEF OneStays
<1>3. Spec => [][Apply => OneStays]_vars
  BY <1>2, Invariance, PTL DEF Spec
<1>4. QED
  BY <1>3 DEF OneOfAPair

-----------------------------------------------------------------------------
(* The ring. How far a cursor has gone since it was at the watched concept:   *)
(* no window that leaves that concept out gets round to it.                   *)
Since(c) == IF c >= setup.watched THEN c - setup.watched ELSE c - setup.watched + MaxNode

(* Where the next window starts, once the one in hand is undone.              *)
Start == IF pc = "asking" THEN plan.before ELSE cursor.stage3

(* Whom a window that moved on has evaluated lies behind the cursor; a        *)
(* window gathered while the watched concept waits moves on towards it.       *)
RingInv ==
  /\ over \in [Nodes -> 0..1]
  /\ cursor = [supersede |-> cursor.supersede, stage2 |-> cursor.stage2,
               stage3 |-> cursor.stage3, hold |-> cursor.hold]
  /\ cursor.stage3 \in 0..MaxNode /\ plan.before \in 0..MaxNode
  /\ pc # "stopped" =>
       \A n \in Nodes : over[n] = 1 => n # setup.watched /\ Since(n) <= Since(Start)
  /\ pc = "asking" => plan.stage3 \subseteq Nodes
  /\ pc = "asking" /\ plan.waits /\ setup.watched \notin plan.stage3 =>
       /\ Since(plan.before) <= Since(cursor.stage3)
       /\ \A m \in plan.stage3 :
            Since(plan.before) < Since(m) /\ Since(m) <= Since(cursor.stage3)

LEMMA Bounds ==
  ASSUME setup \in Setups
  PROVE  /\ MaxNode \in Nat /\ MaxDeferrals \in Nat \ {0} /\ Nodes = 1..MaxNode
         /\ setup.watched \in Nodes /\ setup.batch \in Nat /\ setup.goals \subseteq SUBSET Nodes
         /\ setup.status \in [Nodes -> Alive \cup {"absent"}]
BY CanonizationAssumption DEF CanonizationAssumption, Nodes

LEMMA Furthest ==
  ASSUME NEW M \in SUBSET Nodes, M # {}, NEW c \in 0..MaxNode
  PROVE  \E m \in M : \A x \in M : Distance(c, x) <= Distance(c, m)
<1> DEFINE T == {Distance(c, x) : x \in M}
<1>1. MaxNode \in Nat /\ Nodes = 1..MaxNode
  BY CanonizationAssumption DEF CanonizationAssumption, Nodes
<1>2. \A x \in M : Distance(c, x) \in 0..MaxNode
  BY <1>1 DEF Distance
<1>3. T \in SUBSET (0..MaxNode) /\ T # {}
  BY <1>2
<1>4. \E t \in T : \A u \in T : u <= t
  <2> HIDE DEF T
  <2>1. QED
    BY <1>1, <1>3, Greatest
<1>5. QED
  BY <1>4

LEMMA WindowMovesOn ==
  ASSUME setup \in Setups, NEW ring \in SUBSET Nodes, NEW c \in 0..MaxNode
  PROVE  LET r == RingWindow(ring, c, setup.batch) IN
         /\ r.members \in SUBSET Nodes /\ r.cursor \in 0..MaxNode
         /\ (setup.watched \in ring \/ ring = {}) /\ setup.watched \notin r.members =>
              /\ Since(c) <= Since(r.cursor)
              /\ \A m \in r.members : Since(c) < Since(m) /\ Since(m) <= Since(r.cursor)
<1> DEFINE w == setup.watched
           Closer(m) == {x \in ring : Distance(c, x) < Distance(c, m)}
           members == {m \in ring : Cardinality(Closer(m)) < setup.batch}
           r == RingWindow(ring, c, setup.batch)
<1>1. /\ MaxNode \in Nat /\ Nodes = 1..MaxNode /\ w \in Nodes /\ setup.batch \in Nat
  BY Bounds
<1>2. /\ r.members = members
      /\ r.cursor = IF members = {} THEN c
                    ELSE CHOOSE m \in members :
                           \A x \in members : Distance(c, x) <= Distance(c, m)
  BY DEF RingWindow
<1>3. members \in SUBSET Nodes
  OBVIOUS
<1>4. members # {} =>
        r.cursor \in members /\ \A x \in members : Distance(c, x) <= Distance(c, r.cursor)
  <2> HIDE DEF members
  <2>1. QED
    BY <1>2, <1>3, Furthest
<1>5. ASSUME w \in ring, w \notin members, NEW m \in members
      PROVE  Distance(c, m) < Distance(c, w)
  <2> SUFFICES ASSUME ~(Distance(c, m) < Distance(c, w)) PROVE FALSE
    OBVIOUS
  <2>1. Distance(c, m) \in Int /\ Distance(c, w) \in Int /\ \A x \in ring : Distance(c, x) \in Int
    BY <1>1 DEF Distance
  <2>2. Closer(w) \subseteq Closer(m)
    BY <2>1
  <2>3. IsFiniteSet(Closer(m)) /\ IsFiniteSet(Closer(w))
    BY NodesFinite, FS_Subset
  <2>4. /\ Cardinality(Closer(w)) <= Cardinality(Closer(m))
        /\ Cardinality(Closer(w)) \in Nat /\ Cardinality(Closer(m)) \in Nat
    BY <2>2, <2>3, FS_Subset, FS_CardinalityType
  <2>5. Cardinality(Closer(m)) < setup.batch
    OBVIOUS
  <2>6. Cardinality(Closer(w)) < setup.batch
    BY <1>1, <2>4, <2>5
  <2>7. QED
    BY <1>5, <2>6
<1>6. ASSUME NEW m \in Nodes, Distance(c, m) < Distance(c, w)
      PROVE  Since(m) = Since(c) + Distance(c, m) /\ Since(c) < Since(m)
  BY <1>1, <1>6 DEF Since, Distance
<1> HIDE DEF members, r
<1>7. r.members \in SUBSET Nodes /\ r.cursor \in 0..MaxNode
  <2>1. members = {} => r.cursor = c
    BY <1>2
  <2>2. members # {} => r.cursor \in 1..MaxNode
    BY <1>1, <1>3, <1>4
  <2>3. QED
    BY <1>1, <1>2, <1>3, <2>1, <2>2
<1>8. ASSUME w \in ring \/ ring = {}, w \notin r.members
      PROVE  /\ Since(c) <= Since(r.cursor)
             /\ \A m \in r.members : Since(c) < Since(m) /\ Since(m) <= Since(r.cursor)
  <2>1. CASE members = {}
    <3>1. r.cursor = c /\ Since(c) \in Int
      BY <1>1, <1>2, <2>1 DEF Since
    <3>2. QED
      BY <1>2, <2>1, <3>1
  <2>2. CASE members # {}
    <3>1. w \in ring
      BY <1>8, <2>2 DEF members
    <3>2. \A m \in members : m \in Nodes /\ Since(m) = Since(c) + Distance(c, m) /\ Since(c) < Since(m)
      BY <1>2, <1>3, <1>5, <1>6, <1>8, <3>1
    <3>3. r.cursor \in members /\ \A m \in members : Distance(c, m) <= Distance(c, r.cursor)
      BY <1>4, <2>2
    <3>4. Since(c) \in Int /\ \A m \in Nodes : Distance(c, m) \in Int
      BY <1>1 DEF Since, Distance
    <3>5. \A m \in members : Since(m) <= Since(r.cursor)
      BY <3>2, <3>3, <3>4
    <3>6. QED
      BY <1>2, <3>2, <3>3, <3>4, <3>5
  <2>3. QED
    BY <2>1, <2>2
<1>9. QED
  BY <1>7, <1>8 DEF r

LEMMA RingInit == Init => RingInv
<1> SUFFICES ASSUME Init PROVE RingInv
  OBVIOUS
<1>1. MaxNode \in Nat
  BY Bounds DEF Init
<1>2. QED
  BY <1>1 DEF Init, RingInv, NoCursor, NoPlan

LEMMA RingGather ==
  ASSUME IInv, RingInv, Gather
  PROVE  RingInv'
<1> DEFINE canonical == Of("canonical")
           full      == Cardinality(canonical) >= setup.max
           suspects  == {n \in canonical : Usable(n) /\ Contradictions(n) # {}}
           ring      == RingWindow(suspects, cursor.supersede, setup.batch)
           supersede == Probes(ring.members, cursor.supersede)
           venerable == IF full /\ supersede.all = {} THEN {} ELSE Of("venerable")
           three     == RingWindow(venerable, cursor.stage3, setup.batch)
<1>1. /\ pc = "idle" /\ pc' = "asking" /\ setup' = setup /\ streak' = streak /\ over' = over
      /\ plan'.before = cursor.stage3 /\ plan'.stage3 = three.members
      /\ plan'.waits = (status[setup.watched] = "venerable")
      /\ cursor'.stage3 = three.cursor
  BY DEF Gather
<1>2. cursor' = [supersede |-> cursor'.supersede, stage2 |-> cursor'.stage2,
                 stage3 |-> cursor'.stage3, hold |-> cursor'.hold]
  BY DEF Gather
<1>3. setup \in Setups /\ setup.watched \in Nodes
  BY Bounds DEF IInv
<1>4. /\ venerable \in SUBSET Nodes
      /\ plan'.waits => setup.watched \in venerable \/ venerable = {}
  BY <1>1, <1>3 DEF Of
<1> HIDE DEF venerable
<1>5. /\ three.members \in SUBSET Nodes /\ three.cursor \in 0..MaxNode
      /\ (setup.watched \in venerable \/ venerable = {}) /\ setup.watched \notin three.members =>
              /\ Since(cursor.stage3) <= Since(three.cursor)
              /\ \A m \in three.members :
                   Since(cursor.stage3) < Since(m) /\ Since(m) <= Since(three.cursor)
  BY <1>3, <1>4, WindowMovesOn DEF RingInv
<1> HIDE DEF three
<1>6. \A c : Since(c)' = Since(c) 
  BY <1>1 DEF Since
<1>7. Start' = Start /\ Start = cursor.stage3
  BY <1>1 DEF Start
<1>8. QED
  BY <1>1, <1>2, <1>4, <1>5, <1>7 DEF RingInv, Since

(* The windows a cycle does not move past, and the ones it does.              *)
LEMMA RingApply ==
  ASSUME IInv, RingInv, pc = "asking", NEW V, NEW W, ApplyHeld(V, W), UNCHANGED setup
  PROVE  RingInv'
<1> DEFINE skipped == plan.speculative /\ V = {}
           asked == IF skipped THEN {} ELSE plan.stage3
           E == asked \ plan.deferred
           w == setup.watched
           moved == ~KeptInPlace(skipped)
           reset == \/ ~plan.waits \/ status'[w] # "venerable"
                    \/ w \in E \/ (moved /\ w \in plan.deferred)
<1>1. /\ pc' \in {"idle", "recording"} /\ plan' = NoPlan
      /\ cursor' = [cursor EXCEPT !.stage3 =
           IF skipped \/ KeptInPlace(skipped) THEN plan.before ELSE @]
      /\ Passed(E, ~KeptInPlace(skipped))
  BY DEF ApplyHeld, Finish
<1>2. /\ MaxNode \in Nat /\ MaxDeferrals \in Nat \ {0} /\ Nodes = 1..MaxNode /\ w \in Nodes
  BY Bounds DEF IInv
<1>3. /\ over \in [Nodes -> 0..1]
      /\ cursor = [supersede |-> cursor.supersede, stage2 |-> cursor.stage2,
                   stage3 |-> cursor.stage3, hold |-> cursor.hold]
      /\ cursor.stage3 \in 0..MaxNode /\ plan.before \in 0..MaxNode
      /\ \A n \in Nodes : over[n] = 1 => n # w /\ Since(n) <= Since(plan.before)
      /\ plan.stage3 \subseteq Nodes
      /\ plan.waits /\ w \notin plan.stage3 =>
           /\ Since(plan.before) <= Since(cursor.stage3)
           /\ \A m \in plan.stage3 :
                Since(plan.before) < Since(m) /\ Since(m) <= Since(cursor.stage3)
  BY DEF RingInv, Start
<1>5. cursor'.stage3 = IF skipped \/ KeptInPlace(skipped) THEN plan.before ELSE cursor.stage3
  BY <1>1, <1>3
<1>6. cursor' = [supersede |-> cursor'.supersede, stage2 |-> cursor'.stage2,
                 stage3 |-> cursor'.stage3, hold |-> cursor'.hold]
  BY <1>1, <1>3
<1>7. over' = [n \in Nodes |-> IF reset THEN 0
                ELSE Lesser(over[n] + (IF ~KeptInPlace(skipped) /\ n \in E THEN 1 ELSE 0), 2)]
  BY <1>1 DEF Passed
<1>8. \A c \in 0..MaxNode : Since(c) \in Int
  BY <1>2 DEF Since
<1>9. ASSUME NEW n \in Nodes
      PROVE  /\ over'[n] \in 0..1
             /\ over'[n] = 1 => n # w /\ Since(n) <= Since(cursor'.stage3)
  <2>1. over[n] \in 0..1
    BY <1>3
  <2>2. CASE reset
    BY <1>7, <2>2
  <2>3. CASE ~reset /\ (KeptInPlace(skipped) \/ n \notin E)
    <3>1. over'[n] = over[n]
      BY <1>7, <2>1, <2>3 DEF Lesser
    <3>2. CASE skipped \/ KeptInPlace(skipped)
      BY <1>3, <1>5, <2>1, <3>1, <3>2
    <3>3. CASE ~skipped /\ ~KeptInPlace(skipped)
      <4>1. plan.waits /\ w \notin plan.stage3
        BY <2>3, <3>3
      <4>2. Since(plan.before) <= Since(cursor.stage3) /\ cursor'.stage3 = cursor.stage3
        BY <1>3, <1>5, <3>3, <4>1
      <4>3. Since(n) \in Int /\ Since(plan.before) \in Int /\ Since(cursor.stage3) \in Int
        BY <1>2, <1>3, <1>8
      <4>4. QED
        BY <1>3, <2>1, <3>1, <4>2, <4>3
    <3>4. QED
      BY <3>2, <3>3
  <2>4. CASE ~reset /\ ~KeptInPlace(skipped) /\ n \in E
    <3>1. ~skipped /\ plan.waits /\ w \notin plan.stage3 /\ n \in plan.stage3
      BY <2>4
    <3>2. /\ Since(plan.before) < Since(n) /\ Since(n) <= Since(cursor.stage3)
          /\ cursor'.stage3 = cursor.stage3
      BY <1>3, <1>5, <2>4, <3>1
    <3>3. Since(n) \in Int /\ Since(plan.before) \in Int
      BY <1>2, <1>3, SMTT(30) DEF Since
    <3>4. over[n] # 1
      BY <1>3, <3>2, <3>3
    <3>5. over'[n] = 1
      BY <1>7, <2>1, <2>4, <3>4 DEF Lesser
    <3>6. QED
      BY <3>1, <3>2, <3>5
  <2>5. QED
    BY <2>2, <2>3, <2>4
<1>10. over' \in [Nodes -> 0..1]
  BY <1>7, <1>9
<1>11. cursor'.stage3 \in 0..MaxNode /\ plan'.before \in 0..MaxNode
  BY <1>1, <1>2, <1>3, <1>5 DEF NoPlan
<1>12. Start' = cursor'.stage3 /\ pc' # "asking"
  BY <1>1 DEF Start
<1>13. QED
  BY <1>6, <1>9, <1>10, <1>11, <1>12 DEF RingInv, Since

LEMMA RingStep == IInv /\ RingInv /\ [Next]_vars => RingInv'
<1> SUFFICES ASSUME IInv, RingInv, [Next]_vars PROVE RingInv'
  OBVIOUS
<1>1. MaxNode \in Nat /\ MaxDeferrals \in Nat \ {0} /\ Nodes = 1..MaxNode
  BY Bounds DEF IInv
<1>2. CASE Gather
  BY <1>2, RingGather
<1>3. CASE Apply
  <2>1. pc = "asking" /\ UNCHANGED setup
    BY <1>3 DEF Apply
  <2>2. \E V, W : ApplyHeld(V, W)
    BY <1>3 DEF Apply
  <2>3. QED
    BY <2>1, <2>2, RingApply
<1>4. CASE StoreFails
  <2>1. /\ pc = "asking" /\ pc' = "idle" /\ plan' = NoPlan /\ setup' = setup
        /\ streak' = streak /\ over' = over
        /\ cursor' = [cursor EXCEPT !.stage3 = plan.before]
    BY <1>4 DEF StoreFails, Finish
  <2>2. /\ cursor'.stage3 = plan.before
        /\ cursor' = [supersede |-> cursor'.supersede, stage2 |-> cursor'.stage2,
                      stage3 |-> cursor'.stage3, hold |-> cursor'.hold]
    BY <2>1 DEF RingInv
  <2>3. Start' = Start /\ Start = plan.before
    BY <2>1, <2>2 DEF Start
  <2>4. QED
    BY <1>1, <2>1, <2>2, <2>3 DEF RingInv, Since, NoPlan
<1>5. CASE Restart
  <2>1. /\ pc' = "idle" /\ plan' = NoPlan /\ cursor' = NoCursor /\ streak' = 0
        /\ over' = [n \in Nodes |-> 0]
    BY <1>5 DEF Restart
  <2>2. QED
    BY <1>1, <2>1 DEF RingInv, NoCursor, NoPlan
<1>6. CASE Abort
  <2>1. /\ pc' = "stopped" /\ plan' = NoPlan /\ cursor' = cursor /\ streak' = streak
        /\ over' = over
    BY <1>6 DEF Abort
  <2>2. QED
    BY <1>1, <2>1 DEF RingInv, NoPlan
<1>7. CASE RecordNext \/ RecordStops
  <2>1. /\ pc = "recording" /\ pc' \in {"idle", "recording"} /\ plan' = NoPlan
        /\ cursor' = cursor /\ streak' = streak /\ over' = over /\ setup' = setup
    BY <1>7 DEF RecordNext, RecordStops, Finish
  <2>2. Start' = Start
    BY <2>1 DEF Start
  <2>3. QED
    BY <1>1, <2>1, <2>2 DEF RingInv, Since, NoPlan
<1>8. CASE \/ \E n \in Nodes : Create(n) \/ Bump(n)
           \/ Sweep \/ (\E G \in setup.goals : SetRootGoal(G))
           \/ (\E s, t \in Nodes : Contradict(s, t)) \/ CooldownEnds \/ Drain \/ Flush \/ DropBatch
           \/ UNCHANGED vars
  <2>1. UNCHANGED <<setup, evalVars, over>>
    BY <1>8 DEF vars, Create, Bump, Sweep, SetRootGoal, Contradict, CooldownEnds, Drain, Flush,
                DropBatch
  <2>2. Start' = Start
    BY <2>1 DEF Start, evalVars
  <2>3. QED
    BY <2>1, <2>2 DEF RingInv, Since, evalVars
<1>9. QED
  BY <1>2, <1>3, <1>4, <1>5, <1>6, <1>7, <1>8 DEF Next

(* Anti-starvation of the ring, whoever enters and leaves it.                 *)
THEOREM RingIsFair == Spec => []FairRing
<1>1. Spec => []RingInv
  BY RingInit, RingStep, Invariance, PTL DEF Spec
<1>2. RingInv => FairRing
  BY DEF RingInv, FairRing
<1>3. QED
  BY <1>1, <1>2, PTL

-----------------------------------------------------------------------------
(* What reaches the store.                                                    *)

Statuses   == Alive \cup {"absent", "gone"}
HopRecords == [node : Nodes, from : Statuses, to : Alive]
Mutations  == [kind : {"hop"}, id : Nat]
         \cup [kind : {"upsert"}, node : Nodes, status : Alive, demoted : Nat]
         \cup [kind : {"delete"}, node : Nodes]
Tables     == [row : [Nodes -> Statuses], demoted : [Nodes -> Nat], audit : SUBSET Ids]

TypeInv ==
  /\ status \in [Nodes -> Statuses] /\ demoted \in [Nodes -> Nat]
  /\ hops \in Seq(HopRecords)
  /\ trail \subseteq Ids /\ audit \subseteq trail
  /\ log \in Seq(Mutations) /\ batch \in Seq(Mutations)
  /\ row \in [Nodes -> Statuses] /\ rowDemoted \in [Nodes -> Nat]
  /\ toRecord \in Seq(Nat) /\ \A i \in 1..Len(toRecord) : toRecord[i] \in trail
  /\ pc = "recording" => toRecord # <<>>

(* What the flush will send, in order.                                        *)
Pending == batch \o log

Revives(m, n) == \/ m.kind = "hop" /\ hops[m.id].node = n
                 \/ m.kind = "upsert" /\ m.node = n
Kills(m, n)   == m.kind = "delete" /\ m.node = n

(* A hop of the trail has reached the audit, is pending, or was in a batch the *)
(* loop gave up; only hops of the trail are pending.                          *)
Carried ==
  /\ \A i \in 1..Len(Pending) : Pending[i].kind = "hop" => Pending[i].id \in trail
  /\ \A i \in (trail \ audit) \ dropped :
       \E j \in 1..Len(Pending) : Pending[j].kind = "hop" /\ Pending[j].id = i

(* Hops are pending in the order of their ids, nothing of a concept after its *)
(* deletion.                                                                  *)
Ordered ==
  \A i, j \in 1..Len(Pending) : i < j =>
    /\ Pending[i].kind = "hop" /\ Pending[j].kind = "hop" => Pending[i].id < Pending[j].id
    /\ \A n \in Nodes : Kills(Pending[i], n) => ~Revives(Pending[j], n)

(* A concept whose row was deleted is gone, and a batch sent again that still *)
(* holds older writes of it holds the deletion after them.                    *)
Buried(n) ==
  /\ status[n] = "gone"
  /\ \A i \in 1..Len(Pending) : Revives(Pending[i], n) =>
       \E j \in 1..Len(batch) : i < j /\ Kills(Pending[j], n)

Graves ==
  \A n \in Nodes :
    /\ \A i \in 1..Len(Pending) : Kills(Pending[i], n) => status[n] = "gone"
    /\ row[n] = "gone" => Buried(n)
    /\ row[n] = "absent" => \A i \in audit : hops[i].node # n

(* Of a concept whose hops arrived in order, every hop still to come is newer *)
(* than those known.                                                          *)
Behind(n, known) ==
  \A k \in 1..Len(Pending) :
    Pending[k].kind = "hop" /\ hops[Pending[k].id].node = n /\ Pending[k].id \notin known =>
      \A i \in known : hops[i].node = n => i < Pending[k].id

InSequence == \A n \in Nodes \ overtaken : Behind(n, audit)

(* The row of n shows the newest audited hop, if there is any.                *)
UpToDate(st, n) ==
  \A i \in st.audit :
    hops[i].node = n /\ (\A j \in st.audit : hops[j].node = n => j <= i) => st.row[n] = hops[i].to

Current == \A n \in Nodes \ overtaken : row[n] \in Alive => UpToDate(Store, n)

StoreInv == TypeInv /\ Carried /\ Ordered /\ Graves /\ InSequence /\ Current

-----------------------------------------------------------------------------
(* The hops of one write-guard hold, each of a concept that is there, and one *)
(* per concept and turn.                                                      *)
LegalHops(H) ==
  /\ IsFiniteSet(H)
  /\ \A h \in H : h.node \in Nodes /\ status[h.node] \in Alive /\ h.to \in Alive /\ h.turn \in Nat
  /\ \A g, h \in H : g.node = h.node /\ g.turn = h.turn => g = h

LEMMA OrderOfHops ==
  ASSUME NEW H, LegalHops(H)
  PROVE  \A i \in 1..Cardinality(H) : InOrder(H, InTurn)[i] \in H
<1> DEFINE R == {p \in H \X H : InTurn(p[1], p[2])}
<1>1. \A x, y \in H : <<x, y>> \in R <=> InTurn(x, y)
  OBVIOUS
<1>2. \A h \in H : h.turn \in Int /\ h.node \in Int
  BY DEF LegalHops, Nodes
<1>3. StrictTotal(R, H)
  <2> SUFFICES ASSUME NEW x \in H, NEW y \in H
               PROVE  /\ InTurn(x, y) => ~InTurn(y, x)
                      /\ x # y => InTurn(x, y) \/ InTurn(y, x)
                      /\ \A z \in H : InTurn(x, y) /\ InTurn(y, z) => InTurn(x, z)
    <3> HIDE DEF R
    <3>1. QED
      BY <1>1 DEF StrictTotal
  <2>1. x # y => x.node # y.node \/ x.turn # y.turn
    BY DEF LegalHops
  <2>2. QED
    BY <1>2, <2>1 DEF InTurn
<1>4. \A k \in 1..Cardinality(H) : \E x \in H : Cardinality({y \in H : <<y, x>> \in R}) = k - 1
  <2> HIDE DEF R
  <2>1. QED
    BY <1>3, Ranks DEF LegalHops
<1>5. \A x \in H : {y \in H : <<y, x>> \in R} = {y \in H : InTurn(y, x)}
  BY <1>1
<1>6. \A k \in 1..Cardinality(H) : \E x \in H : Cardinality({y \in H : InTurn(y, x)}) = k - 1
  BY <1>4, <1>5
<1>7. QED
  BY <1>6 DEF InOrder

LEMMA OrderOfNodes ==
  ASSUME NEW S \in SUBSET Nodes
  PROVE  Cardinality(S) \in Nat /\ \A i \in 1..Cardinality(S) : InOrder(S, <)[i] \in S
<1> DEFINE R == {p \in S \X S : p[1] < p[2]}
<1>1. \A x, y \in S : <<x, y>> \in R <=> x < y
  OBVIOUS
<1>2. S \subseteq Int /\ IsFiniteSet(S) /\ Cardinality(S) \in Nat
  <2>1. S \subseteq Int
    BY DEF Nodes
  <2>2. IsFiniteSet(S)
    BY NodesFinite, FS_Subset
  <2>3. QED
    BY <2>1, <2>2, FS_CardinalityType
<1>3. StrictTotal(R, S)
  <2> SUFFICES ASSUME NEW x \in S, NEW y \in S
               PROVE  /\ x < y => ~(y < x)
                      /\ x # y => x < y \/ y < x
                      /\ \A z \in S : x < y /\ y < z => x < z
    <3> HIDE DEF R
    <3>1. QED
      BY <1>1 DEF StrictTotal
  <2>1. QED
    BY <1>2
<1>4. \A k \in 1..Cardinality(S) : \E x \in S : Cardinality({y \in S : <<y, x>> \in R}) = k - 1
  <2> HIDE DEF R
  <2>1. IsFiniteSet(S)
    BY <1>2
  <2>2. QED
    BY ONLY <1>3, <2>1, Ranks
<1>5. \A x \in S : {y \in S : <<y, x>> \in R} = {y \in S : y < x}
  BY <1>1
<1>6. \A k \in 1..Cardinality(S) : \E x \in S : Cardinality({y \in S : y < x}) = k - 1
  BY <1>4, <1>5
<1>7. QED
  BY <1>2, <1>6 DEF InOrder

(* A step of the graph's writers: it logs more, of concepts that are there.   *)
Revived(m, n) == \/ m.kind = "hop" /\ hops'[m.id].node = n
                 \/ m.kind = "upsert" /\ m.node = n

Extends(more) ==
  /\ UNCHANGED <<batch, storeVars, dropped, overtaken>>
  /\ more \in Seq(Mutations) /\ log' = log \o more
  /\ hops' \in Seq(HopRecords) /\ Len(hops) <= Len(hops') /\ \A i \in Ids : hops'[i] = hops[i]
  /\ trail' = trail \cup (Len(hops) + 1)..Len(hops')
  /\ status' \in [Nodes -> Statuses] /\ demoted' \in [Nodes -> Nat]
  /\ \A n \in Nodes : status[n] = "gone" => status'[n] = "gone"
  /\ \A i \in (Len(hops) + 1)..Len(hops') :
       \E k \in 1..Len(more) : more[k].kind = "hop" /\ more[k].id = i
  /\ \A k \in 1..Len(more) : more[k].kind = "hop" => more[k].id \in (Len(hops) + 1)..Len(hops')
  /\ \A k, l \in 1..Len(more) : k < l =>
       /\ more[k].kind = "hop" /\ more[l].kind = "hop" => more[k].id < more[l].id
       /\ \A n \in Nodes : Kills(more[k], n) => ~Revived(more[l], n)
  /\ \A k \in 1..Len(more), n \in Nodes :
       /\ Revived(more[k], n) => status[n] # "gone"
       /\ Kills(more[k], n) => status'[n] = "gone"

LEMMA PendingShape ==
  ASSUME TypeInv
  PROVE  /\ Pending \in Seq(Mutations) /\ Len(Pending) = Len(batch) + Len(log)
         /\ Len(batch) \in Nat /\ Len(log) \in Nat /\ Len(Pending) \in Nat
         /\ \A i \in 1..Len(batch) : i \in 1..Len(Pending) /\ Pending[i] = batch[i]
         /\ \A i \in 1..Len(log) : Len(batch) + i \in 1..Len(Pending) /\ Pending[Len(batch) + i] = log[i]
<1>1. log \in Seq(Mutations) /\ batch \in Seq(Mutations)
  BY DEF TypeInv
<1> HIDE DEF Mutations
<1>2. /\ Pending \in Seq(Mutations) /\ Len(Pending) = Len(batch) + Len(log)
      /\ Len(batch) \in Nat /\ Len(log) \in Nat
      /\ \A i \in 1..Len(batch) + Len(log) :
           Pending[i] = IF i <= Len(batch) THEN batch[i] ELSE log[i - Len(batch)]
  BY <1>1, ConcatProperties, LenProperties DEF Pending
<1>3. QED
  BY <1>2

(* What is pending is what a flush still carries.                             *)
LEMMA PendingInFlight ==
  ASSUME TypeInv, NEW j \in 1..Len(Pending), Pending[j].kind = "hop"
  PROVE  Pending[j].id \in InFlight
<1>1. log \in Seq(Mutations) /\ batch \in Seq(Mutations) /\ Len(batch) \in Nat /\ Len(log) \in Nat
  BY PendingShape DEF TypeInv
<1>2. /\ Len(log \o batch) = Len(log) + Len(batch) /\ DOMAIN (log \o batch) = 1..(Len(log) + Len(batch))
      /\ \A k \in 1..Len(log) + Len(batch) :
           (log \o batch)[k] = IF k <= Len(log) THEN log[k] ELSE batch[k - Len(log)]
  <2> HIDE DEF Mutations
  <2>1. QED
    BY <1>1, ConcatProperties, LenProperties
<1>3. \E k \in DOMAIN (log \o batch) : (log \o batch)[k] = Pending[j]
  <2>1. CASE j <= Len(batch)
    <3>1. Pending[j] = batch[j] /\ Len(log) + j \in 1..(Len(log) + Len(batch))
          /\ ~(Len(log) + j <= Len(log)) /\ (Len(log) + j) - Len(log) = j
      BY <1>1, <2>1, PendingShape
    <3>2. QED
      BY <1>2, <3>1
  <2>2. CASE ~(j <= Len(batch))
    <3>1. j - Len(batch) \in 1..Len(log) /\ Len(batch) + (j - Len(batch)) = j
      BY <1>1, <2>2, PendingShape
    <3>2. Pending[j] = log[j - Len(batch)] /\ j - Len(batch) \in 1..(Len(log) + Len(batch))
      BY <1>1, <3>1, PendingShape
    <3>3. j - Len(batch) <= Len(log)
      BY <1>1, <3>1
    <3>4. QED
      BY <1>2, <3>2, <3>3
  <2>3. QED
    BY <2>1, <2>2
<1>4. Pending[j] \in ToSet(log \o batch)
  BY <1>3 DEF ToSet
<1>5. QED
  BY <1>4 DEF InFlight, HopsOf

LEMMA PendingGrows ==
  ASSUME TypeInv, NEW more \in Seq(Mutations), log' = log \o more, batch' = batch
  PROVE  /\ Len(more) \in Nat /\ Len(Pending') = Len(Pending) + Len(more)
         /\ \A i \in 1..Len(Pending) : i \in 1..Len(Pending') /\ Pending'[i] = Pending[i]
         /\ \A k \in 1..Len(more) : /\ Len(Pending) + k \in 1..Len(Pending')
                                    /\ Pending'[Len(Pending) + k] = more[k]
         /\ \A i \in 1..Len(Pending') :
              i \in 1..Len(Pending) \/ \E k \in 1..Len(more) : i = Len(Pending) + k
<1>1. log \in Seq(Mutations) /\ batch \in Seq(Mutations)
  BY DEF TypeInv
<1>2. Pending \in Seq(Mutations) /\ Len(Pending) \in Nat
  BY PendingShape
<1>3. Pending' = Pending \o more
  BY <1>1, ConcatAssociative, SMTT(30) DEF Pending
<1>4. /\ Len(more) \in Nat /\ Len(Pending') = Len(Pending) + Len(more)
      /\ \A i \in 1..Len(Pending) + Len(more) :
           Pending'[i] = IF i <= Len(Pending) THEN Pending[i] ELSE more[i - Len(Pending)]
  BY <1>2, <1>3, ConcatProperties, LenProperties
<1>5. \A k \in 1..Len(more) : /\ Len(Pending) + k \in 1..Len(Pending')
                              /\ Pending'[Len(Pending) + k] = more[k]
  <2> SUFFICES ASSUME NEW k \in 1..Len(more)
               PROVE  /\ Len(Pending) + k \in 1..Len(Pending')
                      /\ Pending'[Len(Pending) + k] = more[k]
    OBVIOUS
  <2>1. /\ Len(Pending) + k \in 1..Len(Pending) + Len(more)
        /\ ~(Len(Pending) + k <= Len(Pending)) /\ (Len(Pending) + k) - Len(Pending) = k
    BY <1>2, <1>4
  <2>2. QED
    BY <1>4, <2>1
<1>6. ASSUME NEW i \in 1..Len(Pending'), i \notin 1..Len(Pending)
      PROVE  \E k \in 1..Len(more) : i = Len(Pending) + k
  <2>1. i - Len(Pending) \in 1..Len(more) /\ i = Len(Pending) + (i - Len(Pending))
    BY <1>2, <1>4, <1>6
  <2>2. QED
    BY <2>1
<1>7. QED
  BY <1>2, <1>4, <1>5, <1>6

LEMMA ExtendsKeeps ==
  ASSUME StoreInv, NEW more, Extends(more),
         toRecord' \in Seq(Nat), \A i \in 1..Len(toRecord') : toRecord'[i] \in trail',
         pc' = "recording" => toRecord' # <<>>
  PROVE  StoreInv'
<1> DEFINE p == Len(Pending)
           new == (Len(hops) + 1)..Len(hops')
<1> USE DEF StoreInv
<1>1. /\ Len(hops) \in Nat /\ Len(hops') \in Nat /\ Len(hops) <= Len(hops')
      /\ trail \subseteq 1..Len(hops) /\ audit \subseteq trail
      /\ trail' = trail \cup new /\ audit' = audit
      /\ \A i \in 1..Len(hops) : hops'[i] = hops[i]
  BY DEF TypeInv, Extends, storeVars, Ids
<1>2. TypeInv'
  <2>1. log' \in Seq(Mutations)
    BY ConcatProperties DEF TypeInv, Extends
  <2>2. trail' \subseteq Ids' /\ audit' \subseteq trail'
    <3>1. Ids' = 1..Len(hops')
      BY DEF Ids
    <3>2. 1..Len(hops) \subseteq 1..Len(hops') /\ new \subseteq 1..Len(hops')
      BY <1>1
    <3>3. QED
      BY <1>1, <3>1, <3>2
  <2>3. QED
    BY <2>1, <2>2 DEF TypeInv, Extends, storeVars
<1>3. /\ p \in Nat /\ Len(more) \in Nat /\ Len(Pending') = p + Len(more)
      /\ \A i \in 1..p : i \in 1..Len(Pending') /\ Pending'[i] = Pending[i]
      /\ \A k \in 1..Len(more) : p + k \in 1..Len(Pending') /\ Pending'[p + k] = more[k]
      /\ \A i \in 1..Len(Pending') : i \in 1..p \/ \E k \in 1..Len(more) : i = p + k
  BY PendingShape, PendingGrows DEF Extends
<1>4. /\ Len(batch) \in Nat /\ Len(batch) <= p
      /\ \A i \in 1..p : Pending[i] \in Mutations
  BY PendingShape
<1> HIDE DEF p, Mutations
<1>5. \A i \in 1..p : Pending[i].kind = "hop" => Pending[i].id \in trail /\ Pending[i].id \in 1..Len(hops)
  BY <1>1 DEF Carried, p
<1>6. \A i \in 1..p, n \in Nodes : Revives(Pending[i], n)' <=> Revives(Pending[i], n)
  <2> SUFFICES ASSUME NEW i \in 1..p, NEW n \in Nodes
               PROVE  Revives(Pending[i], n)' <=> Revives(Pending[i], n)
    OBVIOUS
  <2>1. Pending'[i] = Pending[i]
    BY <1>3
  <2>2. Pending[i].kind = "hop" => hops'[Pending[i].id] = hops[Pending[i].id]
    BY <1>1, <1>5
  <2>3. QED
    BY <2>1, <2>2 DEF Revives
<1>7. \A k \in 1..Len(more), n \in Nodes : Revives(more[k], n)' <=> Revived(more[k], n)
  BY DEF Revives, Revived
<1>8. Carried'
  <2>1. ASSUME NEW i \in 1..Len(Pending'), Pending'[i].kind = "hop" PROVE Pending'[i].id \in trail'
    <3>1. CASE i \in 1..p
      BY <1>1, <1>3, <1>5, <2>1, <3>1
    <3>2. CASE \E k \in 1..Len(more) : i = p + k
      <4>1. PICK k \in 1..Len(more) : Pending'[i] = more[k]
        BY <1>3, <3>2
      <4>2. more[k].id \in new
        BY <2>1, <4>1 DEF Extends
      <4>3. QED
        BY <1>1, <4>1, <4>2
    <3>3. QED
      BY <1>3, <3>1, <3>2
  <2>2. ASSUME NEW i \in (trail' \ audit') \ dropped'
        PROVE  \E j \in 1..Len(Pending') : Pending'[j].kind = "hop" /\ Pending'[j].id = i
    <3>1. CASE i \in trail
      <4>1. i \in (trail \ audit) \ dropped
        BY <1>1, <2>2, <3>1 DEF Extends
      <4>2. PICK j \in 1..p : Pending[j].kind = "hop" /\ Pending[j].id = i
        BY <4>1 DEF Carried, p
      <4>3. QED
        BY <1>3, <4>2
    <3>2. CASE i \in new
      <4>1. PICK k \in 1..Len(more) : more[k].kind = "hop" /\ more[k].id = i
        BY <3>2 DEF Extends
      <4>2. QED
        BY <1>3, <4>1
    <3>3. QED
      BY <1>1, <3>1, <3>2
  <2>3. QED
    BY <2>1, <2>2 DEF Carried
<1>9. ASSUME NEW i \in 1..p, NEW n \in Nodes, Kills(Pending[i], n) PROVE status[n] = "gone"
  BY <1>9 DEF Graves, p
<1>10. Ordered'
  <2> SUFFICES ASSUME NEW i \in 1..Len(Pending'), NEW j \in 1..Len(Pending'), i < j
               PROVE  /\ Pending'[i].kind = "hop" /\ Pending'[j].kind = "hop" =>
                           Pending'[i].id < Pending'[j].id
                      /\ \A n \in Nodes : Kills(Pending'[i], n) => ~Revives(Pending[j], n)'
    BY DEF Ordered, Kills
  <2>1. CASE i \in 1..p /\ j \in 1..p
    BY <1>3, <1>6, <2>1 DEF Ordered, p
  <2>2. CASE i \in 1..p /\ \E k \in 1..Len(more) : j = p + k
    <3>1. PICK k \in 1..Len(more) : j = p + k
      BY <2>2
    <3>2. Pending'[i] = Pending[i] /\ Pending'[j] = more[k]
      BY <1>3, <2>2, <3>1
    <3>3. Pending[i].kind = "hop" /\ more[k].kind = "hop" => Pending[i].id < more[k].id
      <4>1. more[k].kind = "hop" => more[k].id \in new
        BY DEF Extends
      <4>2. QED
        BY <1>1, <1>5, <2>2, <4>1, SMTT(30)
    <3>4. ASSUME NEW n \in Nodes, Kills(Pending[i], n) PROVE ~Revives(Pending[j], n)'
      <4>1. ~Revived(more[k], n)
        BY <1>9, <2>2, <3>4 DEF Extends
      <4>2. QED
        BY <3>2, <4>1 DEF Revives, Revived
    <3>5. QED
      BY <3>2, <3>3, <3>4
  <2>3. CASE (\E k \in 1..Len(more) : i = p + k) /\ (\E k \in 1..Len(more) : j = p + k)
    <3>1. PICK k \in 1..Len(more), l \in 1..Len(more) : i = p + k /\ j = p + l
      BY <2>3
    <3>2. k < l /\ Pending'[i] = more[k] /\ Pending'[j] = more[l]
      BY <1>3, <3>1
    <3>3. /\ more[k].kind = "hop" /\ more[l].kind = "hop" => more[k].id < more[l].id
          /\ \A n \in Nodes : Kills(more[k], n) => ~Revived(more[l], n)
      BY <3>2 DEF Extends
    <3>4. QED
      BY <3>2, <3>3 DEF Revives, Revived
  <2>4. CASE (\E k \in 1..Len(more) : i = p + k) /\ j \in 1..p
    BY <1>3, <2>4
  <2>5. QED
    BY <1>3, <2>1, <2>2, <2>3, <2>4
<1>11. Graves'
  <2> SUFFICES ASSUME NEW n \in Nodes
               PROVE  /\ \A i \in 1..Len(Pending') : Kills(Pending'[i], n) => status'[n] = "gone"
                      /\ row[n] = "gone" => Buried(n)'
                      /\ row[n] = "absent" => \A i \in audit : hops'[i].node # n
    BY DEF Graves, Kills, Extends, storeVars
  <2>1. status[n] = "gone" => status'[n] = "gone"
    BY DEF Extends
  <2>2. ASSUME NEW i \in 1..Len(Pending'), Kills(Pending'[i], n) PROVE status'[n] = "gone"
    <3>1. CASE i \in 1..p
      BY <1>3, <1>9, <2>1, <2>2, <3>1
    <3>2. CASE \E k \in 1..Len(more) : i = p + k
      BY <1>3, <2>2, <3>2 DEF Extends
    <3>3. QED
      BY <1>3, <3>1, <3>2
  <2>3. ASSUME row[n] = "gone" PROVE Buried(n)'
    <3>1. /\ status[n] = "gone"
          /\ \A i \in 1..p : Revives(Pending[i], n) =>
               \E j \in 1..Len(batch) : i < j /\ Kills(Pending[j], n)
      BY <2>3 DEF Graves, Buried, p
    <3>2. batch' = batch
      BY DEF Extends
    <3>3. ASSUME NEW i \in 1..Len(Pending'), Revives(Pending[i], n)'
          PROVE  \E j \in 1..Len(batch) : i < j /\ Kills(Pending'[j], n)
      <4>1. CASE i \in 1..p
        <5>1. PICK j \in 1..Len(batch) : i < j /\ Kills(Pending[j], n)
          BY <1>6, <3>1, <3>3, <4>1
        <5>2. Pending'[j] = Pending[j]
          BY <1>3, <1>4
        <5>3. QED
          BY <5>1, <5>2
      <4>2. CASE \E k \in 1..Len(more) : i = p + k
        <5>1. PICK k \in 1..Len(more) : Pending'[i] = more[k]
          BY <1>3, <4>2
        <5>2. Revived(more[k], n)
          BY <3>3, <5>1 DEF Revives, Revived
        <5>3. QED
          BY <3>1, <5>2 DEF Extends
      <4>3. QED
        BY <1>3, <4>1, <4>2
    <3>4. QED
      BY <2>1, <3>1, <3>2, <3>3 DEF Buried, Kills
  <2>4. ASSUME row[n] = "absent" PROVE \A i \in audit : hops'[i].node # n
    BY <1>1, <2>4 DEF Graves
  <2>5. QED
    BY <2>2, <2>3, <2>4
<1>12. InSequence'
  <2> SUFFICES ASSUME NEW n \in Nodes \ overtaken, NEW k \in 1..Len(Pending'),
                      Pending'[k].kind = "hop", hops'[Pending'[k].id].node = n,
                      Pending'[k].id \notin audit,
                      NEW i \in audit, hops'[i].node = n
               PROVE  i < Pending'[k].id
    BY <1>1 DEF InSequence, Behind, Extends
  <2>1. i \in 1..Len(hops) /\ hops[i].node = n
    BY <1>1
  <2>2. CASE k \in 1..p
    <3>1. Pending'[k] = Pending[k] /\ hops'[Pending[k].id] = hops[Pending[k].id]
      BY <1>1, <1>3, <1>5, <2>2
    <3>2. QED
      BY <2>1, <2>2, <3>1 DEF InSequence, Behind, p
  <2>3. CASE \E l \in 1..Len(more) : k = p + l
    <3>1. PICK l \in 1..Len(more) : Pending'[k] = more[l]
      BY <1>3, <2>3
    <3>2. more[l].id \in new
      BY <3>1 DEF Extends
    <3>3. QED
      BY <1>1, <2>1, <3>1, <3>2
  <2>4. QED
    BY <1>3, <2>2, <2>3
<1>13. Current'
  <2> SUFFICES ASSUME NEW n \in Nodes \ overtaken, row[n] \in Alive PROVE UpToDate(Store, n)'
    BY DEF Current, Extends, storeVars
  <2>1. UpToDate(Store, n)
    BY DEF Current
  <2>2. Store' = Store /\ Store.audit = audit
    BY DEF Store, Extends, storeVars
  <2>3. \A i \in audit : hops'[i] = hops[i]
    BY <1>1
  <2>4. QED
    BY <2>1, <2>2, <2>3 DEF UpToDate
<1>14. QED
  BY <1>2, <1>8, <1>10, <1>11, <1>12, <1>13

LEMMA SameStore ==
  ASSUME StoreInv, UNCHANGED <<status, demoted, hops, trail, log, batch, storeVars, dropped, overtaken>>,
         toRecord' \in Seq(Nat), \A i \in 1..Len(toRecord') : toRecord'[i] \in trail,
         pc' = "recording" => toRecord' # <<>>
  PROVE  StoreInv'
<1>1. UNCHANGED <<status, demoted, hops, trail, log, batch, row, rowDemoted, audit, dropped,
                  overtaken>>
  BY DEF storeVars
<1>2. TypeInv'
  BY <1>1 DEF StoreInv, TypeInv, Ids
<1>3. Pending' = Pending
  BY <1>1 DEF Pending
<1>4. \A i, n : Revives(Pending[i], n)' <=> Revives(Pending[i], n)
  BY <1>1, <1>3 DEF Revives
<1>5. Carried'
  BY <1>1, <1>3 DEF StoreInv, Carried
<1>6. Ordered'
  BY <1>3, <1>4 DEF StoreInv, Ordered, Kills
<1>7. \A n \in Nodes : Buried(n)' <=> Buried(n)
  BY <1>1, <1>3, <1>4 DEF Buried, Kills
<1>8. Graves'
  BY <1>1, <1>3, <1>4, <1>7 DEF StoreInv, Graves, Kills
<1>9. InSequence' /\ Current'
  BY <1>1, <1>3 DEF StoreInv, InSequence, Behind, Current, UpToDate, Store
<1>10. QED
  BY <1>2, <1>5, <1>6, <1>8, <1>9 DEF StoreInv

-----------------------------------------------------------------------------
(* What Commit adds.                                                          *)
LEMMA CommitExtends ==
  ASSUME TypeInv, NEW H, LegalHops(H), Commit(H), UNCHANGED <<batch, storeVars, dropped, overtaken>>
  PROVE  /\ Extends(LogOfHops(NewHops(H), NewIds(H)))
         /\ NewIds(H) \in Seq(Nat) /\ \A i \in 1..Len(NewIds(H)) : NewIds(H)[i] \in trail'
<1> DEFINE c == Cardinality(H)
           new == NewHops(H)
           ids == NewIds(H)
           more == LogOfHops(new, ids)
           from == Len(hops)
<1>1. c \in Nat /\ from \in Nat
  BY FS_CardinalityType DEF LegalHops, TypeInv
<1>2. \A i \in 1..c : InOrder(H, InTurn)[i] \in H
  BY OrderOfHops
<1>3. \A h \in H : h.node \in Nodes /\ status[h.node] \in Alive /\ h.to \in Alive
  BY DEF LegalHops
<1>4. /\ new = [i \in 1..c |-> [node |-> InOrder(H, InTurn)[i].node,
                                from |-> status[InOrder(H, InTurn)[i].node],
                                to   |-> InOrder(H, InTurn)[i].to]]
      /\ ids = [i \in 1..c |-> from + i]
  BY DEF NewHops, NewIds
<1>5. new \in Seq(HopRecords) /\ Len(new) = c
  <2>1. \A i \in 1..c : new[i] \in HopRecords
    BY <1>2, <1>3, <1>4 DEF HopRecords, Statuses
  <2> HIDE DEF HopRecords
  <2>2. QED
    BY <1>1, <1>4, <2>1
<1>6. ids \in Seq(Nat) /\ Len(ids) = c /\ DOMAIN ids = 1..c /\ \A i \in 1..c : ids[i] = from + i
  BY <1>1, <1>4
<1>7. /\ more = [k \in 1..c |-> [kind |-> "hop", id |-> from + k]]
      /\ more \in Seq(Mutations) /\ Len(more) = c
  <2>1. more = [k \in 1..Len(ids) |-> [kind |-> "hop", id |-> ids[k]]]
    BY DEF LogOfHops
  <2> HIDE DEF more, ids
  <2>2. more = [k \in 1..c |-> [kind |-> "hop", id |-> from + k]]
    BY <1>6, <2>1
  <2>3. \A k \in 1..c : [kind |-> "hop", id |-> from + k] \in Mutations
    BY <1>1 DEF Mutations
  <2> HIDE DEF Mutations
  <2>4. QED
    BY <1>1, <2>2, <2>3
<1>8. /\ hops' = hops \o new /\ trail' = trail \cup ToSet(ids) /\ log' = log \o more
      /\ status' = [n \in Nodes |->
           IF \E h \in H : h.node = n THEN (CHOOSE h \in H : h.node = n).to ELSE status[n]]
      /\ demoted' = [n \in Nodes |->
           IF \E i \in 1..Len(new) : new[i].node = n /\ Demotes(new[i])
           THEN ids[CHOOSE i \in 1..Len(new) : new[i].node = n] ELSE demoted[n]]
  BY DEF Commit
<1> HIDE DEF new, ids, more, c
<1>9. ToSet(ids) = (from + 1)..(from + c)
  <2>1. ToSet(ids) = {ids[i] : i \in 1..c}
    BY <1>6 DEF ToSet
  <2>2. \A i \in (from + 1)..(from + c) : i - from \in 1..c /\ i = from + (i - from)
    BY <1>1
  <2>3. \A i \in 1..c : from + i \in (from + 1)..(from + c)
    BY <1>1
  <2>4. QED
    BY <1>6, <2>1, <2>2, <2>3
<1>10. /\ hops' \in Seq(HopRecords) /\ Len(hops') = from + c
       /\ \A i \in 1..from : hops'[i] = hops[i]
       /\ \A i \in 1..c : hops'[from + i] = new[i]
  <2>1. hops \in Seq(HopRecords)
    BY DEF TypeInv
  <2> HIDE DEF HopRecords, from
  <2>2. /\ hops' \in Seq(HopRecords) /\ Len(hops') = from + c
        /\ \A i \in 1..(from + c) : hops'[i] = IF i <= from THEN hops[i] ELSE new[i - from]
    BY <1>5, <1>8, <2>1, ConcatProperties DEF from
  <2>3. \A i \in 1..c : from + i \in 1..(from + c) /\ ~(from + i <= from) /\ (from + i) - from = i
    BY <1>1
  <2>4. \A i \in 1..from : i \in 1..(from + c) /\ i <= from
    BY <1>1
  <2>5. QED
    BY <2>2, <2>3, <2>4
<1>11. status' \in [Nodes -> Statuses] /\ \A n \in Nodes : status[n] = "gone" => status'[n] = "gone"
  <2>1. \A n \in Nodes : (\E h \in H : h.node = n) => (CHOOSE h \in H : h.node = n) \in H
    OBVIOUS
  <2>2. \A n \in Nodes : status[n] = "gone" => ~\E h \in H : h.node = n
    BY <1>3 DEF Alive
  <2>3. \A n \in Nodes : status[n] \in Statuses
    BY DEF TypeInv
  <2>4. QED
    BY <1>3, <1>8, <2>1, <2>2, <2>3 DEF Statuses
<1>12. demoted' \in [Nodes -> Nat]
  <2> SUFFICES ASSUME NEW n \in Nodes PROVE demoted'[n] \in Nat
    BY <1>8
  <2>1. demoted[n] \in Nat
    BY DEF TypeInv
  <2>2. ASSUME NEW i \in 1..Len(new), new[i].node = n
        PROVE  ids[CHOOSE i_1 \in 1..Len(new) : new[i_1].node = n] \in Nat
    <3>1. (CHOOSE i_1 \in 1..Len(new) : new[i_1].node = n) \in 1..c
      BY <1>5, <2>2
    <3>2. \A k \in 1..c : ids[k] \in Nat
      BY <1>1, <1>6
    <3>3. QED
      BY <3>1, <3>2
  <2>3. QED
    BY <1>8, <2>1, <2>2
<1>13. \A k \in 1..c : more[k].kind = "hop" /\ more[k].id = from + k
  <2>1. \A k \in 1..c : more[k] = [kind |-> "hop", id |-> from + k]
    BY <1>7
  <2>2. ASSUME NEW k \in 1..c PROVE more[k].kind = "hop" /\ more[k].id = from + k
    <3> DEFINE id == from + k
    <3>1. more[k] = [kind |-> "hop", id |-> id]
      BY <2>1
    <3> HIDE DEF id
    <3>2. more[k].kind = "hop" /\ more[k].id = id
      BY <3>1
    <3>3. QED
      BY <3>2 DEF id
  <2>3. QED
    BY <2>2
<1>14. \A k \in 1..c, n \in Nodes : /\ Revived(more[k], n) => status[n] # "gone"
                                    /\ ~Kills(more[k], n)
  <2> SUFFICES ASSUME NEW k \in 1..c, NEW n \in Nodes
               PROVE  (Revived(more[k], n) => status[n] # "gone") /\ ~Kills(more[k], n)
    OBVIOUS
  <2>1. more[k].kind = "hop" /\ more[k].id = from + k
    BY <1>13
  <2> HIDE DEF from
  <2>2. Revived(more[k], n) => new[k].node = n
    BY <1>10, <2>1 DEF Revived
  <2>3. status[new[k].node] \in Alive
    BY <1>2, <1>3, <1>4 DEF new
  <2>4. QED
    BY <2>1, <2>2, <2>3 DEF Kills, Alive
<1>15. Extends(more)
  <2>1. \A i \in (from + 1)..(from + c) : i - from \in 1..c /\ from + (i - from) = i
    BY <1>1
  <2>2. \A i \in (from + 1)..Len(hops') :
          \E k \in 1..Len(more) : more[k].kind = "hop" /\ more[k].id = i
    BY <1>7, <1>10, <1>13, <2>1
  <2>3. \A k \in 1..Len(more) : more[k].kind = "hop" => more[k].id \in (from + 1)..Len(hops')
    BY <1>1, <1>7, <1>10, <1>13
  <2>4. \A k, l \in 1..Len(more) : k < l =>
          /\ more[k].kind = "hop" /\ more[l].kind = "hop" => more[k].id < more[l].id
          /\ \A n \in Nodes : Kills(more[k], n) => ~Revived(more[l], n)
    <3>1. \A k, l \in 1..c : k < l => more[k].id < more[l].id
      <4> HIDE DEF from
      <4>1. QED
        BY <1>1, <1>13
    <3>2. QED
      BY <1>7, <1>14, <3>1
  <2>5. Len(hops) <= Len(hops') /\ \A i \in Ids : hops'[i] = hops[i]
    BY <1>1, <1>10 DEF Ids
  <2>6. \A k \in 1..Len(more), n \in Nodes :
          /\ Revived(more[k], n) => status[n] # "gone"
          /\ Kills(more[k], n) => status'[n] = "gone"
    BY <1>7, <1>14
  <2>7. trail' = trail \cup (Len(hops) + 1)..Len(hops')
    BY <1>8, <1>9, <1>10
  <2> HIDE DEF from
  <2>8. QED
    BY <1>7, <1>8, <1>10, <1>11, <1>12, <2>2, <2>3, <2>4, <2>5, <2>6, <2>7 DEF Extends, from
<1>16. \A i \in 1..Len(ids) : ids[i] \in trail'
  BY <1>6, <1>8, <1>9
<1>17. QED
  BY <1>6, <1>15, <1>16 DEF more, new, ids

LEMMA HopsFinite ==
  ASSUME NEW S \in SUBSET Nodes, NEW to, NEW turn
  PROVE  IsFiniteSet(Hops(S, to, turn))
<1> DEFINE f == [n \in S |-> [node |-> n, to |-> to, turn |-> turn]]
<1>1. IsFiniteSet(S)
  BY NodesFinite, FS_Subset
<1>2. f \in [S -> Hops(S, to, turn)] /\ \A h \in Hops(S, to, turn) : \E n \in S : f[n] = h
  BY DEF Hops
<1> HIDE DEF f
<1>3. f \in Surjection(S, Hops(S, to, turn))
  BY <1>2 DEF Surjection
<1>4. QED
  BY <1>1, <1>3, FS_Surjection

LEMMA HopsAreLegal ==
  ASSUME NEW G \in SUBSET Nodes, NEW S1 \in SUBSET Nodes, NEW S2 \in SUBSET Nodes,
         NEW S3 \in SUBSET Nodes, NEW D \in SUBSET Nodes,
         \A n \in G \cup S1 \cup S2 \cup S3 \cup D : status[n] \in Alive
  PROVE  LegalHops(Hops(G, "none", 1) \cup Hops(S1, "candidate", 2)
                     \cup Hops(S2, "venerable", 3) \cup Hops(S3, "canonical", 4)
                     \cup Hops(D, "none", 5))
<1> DEFINE H == Hops(G, "none", 1) \cup Hops(S1, "candidate", 2)
                  \cup Hops(S2, "venerable", 3) \cup Hops(S3, "canonical", 4)
                  \cup Hops(D, "none", 5)
           To == [t \in 1..5 |-> IF t = 2 THEN "candidate" ELSE IF t = 3 THEN "venerable"
                                 ELSE IF t = 4 THEN "canonical" ELSE "none"]
           M == G \cup S1 \cup S2 \cup S3 \cup D
<1>1. IsFiniteSet(H)
  BY HopsFinite, FS_Union
<1>2. ASSUME NEW h \in H
      PROVE  /\ h.turn \in 1..5 /\ h.node \in M
             /\ h = [node |-> h.node, to |-> To[h.turn], turn |-> h.turn]
  <2>1. ASSUME NEW S, NEW to, NEW turn \in 1..5, h \in Hops(S, to, turn), to = To[turn], S \subseteq M
        PROVE  /\ h.turn \in 1..5 /\ h.node \in M
               /\ h = [node |-> h.node, to |-> To[h.turn], turn |-> h.turn]
    <3> HIDE DEF To, M, H
    <3>1. PICK n \in S : h = [node |-> n, to |-> to, turn |-> turn]
      BY <2>1 DEF Hops
    <3>2. QED
      BY <2>1, <3>1
  <2>2. /\ To[1] = "none" /\ To[2] = "candidate" /\ To[3] = "venerable" /\ To[4] = "canonical"
        /\ To[5] = "none"
    OBVIOUS
  <2>3. G \subseteq M /\ S1 \subseteq M /\ S2 \subseteq M /\ S3 \subseteq M /\ D \subseteq M
    OBVIOUS
  <2>4. \/ h \in Hops(G, "none", 1) \/ h \in Hops(S1, "candidate", 2)
        \/ h \in Hops(S2, "venerable", 3) \/ h \in Hops(S3, "canonical", 4)
        \/ h \in Hops(D, "none", 5)
    OBVIOUS
  <2> HIDE DEF H, To, M
  <2>5. QED
    BY <2>1, <2>2, <2>3, <2>4
<1>3. \A t \in 1..5 : To[t] \in Alive
  BY DEF Alive
<1> HIDE DEF H, To
<1>4. \A h \in H : h.node \in Nodes /\ status[h.node] \in Alive /\ h.to \in Alive /\ h.turn \in Nat
  BY <1>2, <1>3
<1>5. \A g, h \in H : g.node = h.node /\ g.turn = h.turn => g = h
  BY <1>2
<1>6. LegalHops(H)
  BY <1>1, <1>4, <1>5 DEF LegalHops
<1>7. QED
  BY <1>6 DEF H

LEMMA LiftsAreLegal ==
  ASSUME NEW S \in SUBSET Nodes, \A n \in S : status[n] \in Alive
  PROVE  LegalHops({[node |-> n, to |-> "venerable", turn |-> 1] : n \in S})
<1> DEFINE H == Hops(S, "venerable", 1)
<1>1. IsFiniteSet(H)
  BY HopsFinite
<1>2. \A h \in H : \E n \in S : h = [node |-> n, to |-> "venerable", turn |-> 1]
  BY DEF Hops
<1> HIDE DEF H
<1>3. \A h \in H : h.node \in Nodes /\ status[h.node] \in Alive /\ h.to \in Alive /\ h.turn \in Nat
  BY <1>2 DEF Alive
<1>4. \A g, h \in H : g.node = h.node /\ g.turn = h.turn => g = h
  BY <1>2
<1>5. QED
  BY <1>1, <1>3, <1>4 DEF LegalHops, H, Hops

(* What the writers that make no hop log.                                     *)
LEMMA LogExtends ==
  ASSUME TypeInv, NEW more \in Seq(Mutations), log' = log \o more,
         UNCHANGED <<hops, trail, batch, storeVars, dropped, overtaken>>,
         status' \in [Nodes -> Statuses], demoted' \in [Nodes -> Nat],
         \A n \in Nodes : status[n] = "gone" => status'[n] = "gone",
         \A k \in 1..Len(more) : more[k].kind # "hop",
         \A k, l \in 1..Len(more), n \in Nodes :
           k < l /\ Kills(more[k], n) => ~(more[l].kind = "upsert" /\ more[l].node = n),
         \A k \in 1..Len(more), n \in Nodes :
           /\ more[k].kind = "upsert" /\ more[k].node = n => status[n] # "gone"
           /\ Kills(more[k], n) => status'[n] = "gone"
  PROVE  Extends(more)
<1>1. Len(hops) \in Nat /\ hops' = hops /\ trail' = trail /\ hops \in Seq(HopRecords)
  BY DEF TypeInv
<1>2. (Len(hops) + 1)..Len(hops') = {}
  BY <1>1
<1>3. \A k \in 1..Len(more), n \in Nodes :
        Revived(more[k], n) <=> more[k].kind = "upsert" /\ more[k].node = n
  BY DEF Revived
<1> HIDE DEF Mutations, HopRecords, Statuses
<1>4. /\ Len(hops) <= Len(hops') /\ \A i \in Ids : hops'[i] = hops[i]
      /\ trail' = trail \cup (Len(hops) + 1)..Len(hops')
      /\ \A i \in (Len(hops) + 1)..Len(hops') :
           \E k \in 1..Len(more) : more[k].kind = "hop" /\ more[k].id = i
  BY <1>1, <1>2
<1>5. \A k, l \in 1..Len(more) : k < l =>
        /\ more[k].kind = "hop" /\ more[l].kind = "hop" => more[k].id < more[l].id
        /\ \A n \in Nodes : Kills(more[k], n) => ~Revived(more[l], n)
  BY <1>3
<1>6. \A k \in 1..Len(more), n \in Nodes :
        /\ Revived(more[k], n) => status[n] # "gone"
        /\ Kills(more[k], n) => status'[n] = "gone"
  BY <1>3
<1>7. QED
  BY <1>1, <1>4, <1>5, <1>6 DEF Extends

LEMMA OneUpsert ==
  ASSUME TypeInv, NEW n \in Nodes, NEW s \in Alive, status[n] # "gone",
         log' = Append(log, Upsert(n, s)),
         UNCHANGED <<hops, trail, batch, storeVars, dropped, overtaken, demoted>>,
         status' \in [Nodes -> Statuses], \A x \in Nodes : status[x] = "gone" => status'[x] = "gone"
  PROVE  \E more : Extends(more)
<1> DEFINE more == <<Upsert(n, s)>>
<1>1. Upsert(n, s) \in Mutations
  BY DEF Upsert, Mutations, TypeInv
<1>2. /\ Upsert(n, s).kind = "upsert" /\ Upsert(n, s).node = n
  BY DEF Upsert
<1>3. log \in Seq(Mutations) /\ demoted' \in [Nodes -> Nat]
  BY DEF TypeInv
<1> HIDE DEF Mutations, Statuses
<1>4. more \in Seq(Mutations) /\ log' = log \o more /\ Len(more) = 1
  BY <1>1, <1>3, AppendIsConcat
<1>5. \A k \in 1..Len(more) : k = 1 /\ more[k] = Upsert(n, s)
  BY <1>4
<1> HIDE DEF more
<1>6. \A k \in 1..Len(more), x \in Nodes : ~Kills(more[k], x)
  BY <1>2, <1>5 DEF Kills
<1>7. Extends(more)
  BY <1>2, <1>3, <1>4, <1>5, <1>6, LogExtends
<1>8. QED
  BY <1>7

LEMMA SweepExtends ==
  ASSUME TypeInv, Sweep
  PROVE  \E more : Extends(more)
<1>1. PICK gone \in SUBSET {n \in Nodes : Collectable(n)} :
        \E bumped \in SUBSET {n \in Nodes \ gone : status[n] \in Alive} :
          /\ status' = [n \in Nodes |-> IF n \in gone THEN "gone" ELSE status[n]]
          /\ demoted' = [n \in Nodes |-> IF n \in gone THEN 0 ELSE demoted[n]]
          /\ log' = log \o Deletes(gone) \o Upserts(bumped)
  BY DEF Sweep
<1>2. PICK bumped \in SUBSET {n \in Nodes \ gone : status[n] \in Alive} :
          /\ status' = [n \in Nodes |-> IF n \in gone THEN "gone" ELSE status[n]]
          /\ demoted' = [n \in Nodes |-> IF n \in gone THEN 0 ELSE demoted[n]]
          /\ log' = log \o Deletes(gone) \o Upserts(bumped)
  BY <1>1
<1>3. /\ gone \in SUBSET Nodes /\ bumped \in SUBSET Nodes
      /\ \A n \in bumped : n \notin gone /\ status[n] \in Alive
  BY <1>1, <1>2
<1> DEFINE d == Cardinality(gone)
           u == Cardinality(bumped)
           del == Deletes(gone)
           ups == Upserts(bumped)
           more == del \o ups
<1>4. /\ d \in Nat /\ \A i \in 1..d : InOrder(gone, <)[i] \in gone
      /\ u \in Nat /\ \A i \in 1..u : InOrder(bumped, <)[i] \in bumped
  BY <1>3, OrderOfNodes
<1>c. d \in Nat /\ u \in Nat
  BY <1>4
<1>5. /\ del \in Seq(Mutations) /\ Len(del) = d
      /\ \A i \in 1..d : del[i].kind = "delete" /\ del[i].node \in gone
  <2>1. del = [i \in 1..d |-> [kind |-> "delete", node |-> InOrder(gone, <)[i]]]
    BY DEF Deletes
  <2> HIDE DEF del, d
  <2>2. \A i \in 1..d : del[i].kind = "delete" /\ del[i].node \in gone /\ del[i] \in Mutations
    BY <1>3, <1>4, <2>1 DEF Mutations
  <2> HIDE DEF Mutations
  <2>3. DOMAIN del = 1..d /\ del \in [1..d -> Mutations]
    BY <2>1, <2>2
  <2>4. QED
    BY ONLY <1>c, <2>2, <2>3
<1>6. /\ ups \in Seq(Mutations) /\ Len(ups) = u
      /\ \A i \in 1..u : ups[i].kind = "upsert" /\ ups[i].node \in bumped
  <2>1. ups = [i \in 1..u |-> Upsert(InOrder(bumped, <)[i], status[InOrder(bumped, <)[i]])]
    BY DEF Upserts
  <2>2. \A n \in bumped : /\ Upsert(n, status[n]) \in Mutations
                          /\ Upsert(n, status[n]).kind = "upsert" /\ Upsert(n, status[n]).node = n
    BY <1>3 DEF Upsert, Mutations, TypeInv
  <2> HIDE DEF ups, u, Mutations
  <2>3. \A i \in 1..u : ups[i].kind = "upsert" /\ ups[i].node \in bumped /\ ups[i] \in Mutations
    BY <1>4, <2>1, <2>2
  <2>4. DOMAIN ups = 1..u /\ ups \in [1..u -> Mutations]
    BY <2>1, <2>3
  <2>5. QED
    BY ONLY <1>c, <2>3, <2>4
<1> HIDE DEF del, ups, d, u, Mutations, Statuses
<1>7. /\ more \in Seq(Mutations) /\ Len(more) = d + u
      /\ \A i \in 1..d + u : more[i] = IF i <= d THEN del[i] ELSE ups[i - d]
  <2>1. del \in Seq(Mutations) /\ Len(del) = d
    BY <1>5
  <2>2. ups \in Seq(Mutations) /\ Len(ups) = u
    BY <1>6
  <2>3. /\ more \in Seq(Mutations) /\ Len(more) = Len(del) + Len(ups)
        /\ \A i \in 1..Len(del) + Len(ups) : more[i] = IF i <= Len(del) THEN del[i] ELSE ups[i - Len(del)]
    BY ONLY <2>1, <2>2, ConcatProperties
  <2>4. QED
    BY <2>1, <2>2, <2>3
<1>8. log' = log \o more
  <2>1. log \in Seq(Mutations)
    BY DEF TypeInv
  <2>2. (log \o del) \o ups = log \o more
    BY <1>5, <1>6, <2>1, ConcatAssociative, SMTT(30)
  <2>3. log' = (log \o del) \o ups
    BY <1>2 DEF del, ups
  <2>4. QED
    BY <2>2, <2>3
<1> HIDE DEF more
<1>9. \A k \in 1..Len(more) :
        \/ k <= d /\ more[k].kind = "delete" /\ more[k].node \in gone
        \/ d < k /\ more[k].kind = "upsert" /\ more[k].node \in bumped
  <2> SUFFICES ASSUME NEW k \in 1..Len(more)
               PROVE  \/ k <= d /\ more[k].kind = "delete" /\ more[k].node \in gone
                      \/ d < k /\ more[k].kind = "upsert" /\ more[k].node \in bumped
    OBVIOUS
  <2>1. CASE k <= d
    BY <1>c, <1>5, <1>7, <2>1
  <2>2. CASE ~(k <= d)
    <3>1. k - d \in 1..u /\ d < k /\ more[k] = ups[k - d]
      BY <1>c, <1>7, <2>2
    <3>2. QED
      BY <1>6, <3>1
  <2>3. QED
    BY <2>1, <2>2
<1>10. /\ status' \in [Nodes -> Statuses] /\ demoted' \in [Nodes -> Nat]
       /\ \A n \in Nodes : status[n] = "gone" => status'[n] = "gone"
       /\ \A n \in gone : status'[n] = "gone"
  BY <1>2, <1>3 DEF Statuses, TypeInv
<1>11. \A k \in 1..Len(more) : more[k].kind # "hop"
  BY <1>9
<1>12. \A k, l \in 1..Len(more), n \in Nodes :
         k < l /\ Kills(more[k], n) => ~(more[l].kind = "upsert" /\ more[l].node = n)
  BY <1>3, <1>9 DEF Kills
<1>13. \A k \in 1..Len(more), n \in Nodes :
         /\ more[k].kind = "upsert" /\ more[k].node = n => status[n] # "gone"
         /\ Kills(more[k], n) => status'[n] = "gone"
  BY <1>3, <1>9, <1>10 DEF Kills, Alive
<1>14. UNCHANGED <<hops, trail, batch, storeVars, dropped, overtaken>>
  BY DEF Sweep
<1>15. Extends(more)
  BY <1>7, <1>8, <1>10, <1>11, <1>12, <1>13, <1>14, LogExtends
<1>16. QED
  BY <1>15

(* Of each writer: it extends the log, and what it leaves to record is known. *)
LEMMA WritersExtend ==
  ASSUME IInv, TypeInv,
         \/ \E n \in Nodes : Create(n) \/ Bump(n)
         \/ Sweep \/ (\E G \in setup.goals : SetRootGoal(G)) \/ StoreFails \/ Apply
  PROVE  /\ \E more : Extends(more)
         /\ toRecord' \in Seq(Nat) /\ \A i \in 1..Len(toRecord') : toRecord'[i] \in trail'
         /\ pc' = "recording" => toRecord' # <<>>
<1>0. \A more : Extends(more) => trail \subseteq trail'
  BY DEF Extends
<1>1. ASSUME UNCHANGED evalVars, \E more : Extends(more)
      PROVE  /\ toRecord' \in Seq(Nat) /\ \A i \in 1..Len(toRecord') : toRecord'[i] \in trail'
             /\ pc' = "recording" => toRecord' # <<>>
  BY <1>0, <1>1 DEF TypeInv, evalVars
<1>2. ASSUME NEW n \in Nodes, Create(n) PROVE UNCHANGED evalVars /\ \E more : Extends(more)
  <2>1. /\ status[n] = "absent" /\ log' = Append(log, Upsert(n, "none"))
        /\ status' = [status EXCEPT ![n] = "none"]
        /\ UNCHANGED <<hops, trail, batch, storeVars, dropped, overtaken, demoted, evalVars>>
    BY <1>2 DEF Create
  <2>2. status' \in [Nodes -> Statuses] /\ \A x \in Nodes : status[x] = "gone" => status'[x] = "gone"
    BY <2>1 DEF TypeInv, Statuses, Alive
  <2>3. "none" \in Alive
    BY DEF Alive
  <2>4. QED
    BY <2>1, <2>2, <2>3, OneUpsert
<1>3. ASSUME NEW n \in Nodes, Bump(n) PROVE UNCHANGED evalVars /\ \E more : Extends(more)
  <2>1. /\ status[n] \in Alive /\ log' = Append(log, Upsert(n, status[n])) /\ status' = status
        /\ UNCHANGED <<hops, trail, batch, storeVars, dropped, overtaken, demoted, evalVars>>
    BY <1>3 DEF Bump
  <2>2. status[n] # "gone" /\ status' \in [Nodes -> Statuses]
    BY <2>1 DEF TypeInv, Alive
  <2>3. QED
    BY <2>1, <2>2, OneUpsert
<1>4. CASE Sweep
  BY <1>1, <1>4, SweepExtends DEF Sweep
<1>5. ASSUME NEW G \in setup.goals, SetRootGoal(G)
      PROVE  UNCHANGED evalVars /\ \E more : Extends(more)
  <2> DEFINE lifted == {n \in G : status[n] \in {"none", "candidate"}}
             H == {[node |-> n, to |-> "venerable", turn |-> 1] : n \in lifted}
  <2>1. lifted \in SUBSET Nodes /\ \A n \in lifted : status[n] \in Alive
    BY Bounds DEF IInv, Alive
  <2>2. Commit(H) /\ UNCHANGED <<batch, storeVars, dropped, overtaken>> /\ UNCHANGED evalVars
    BY <1>5 DEF SetRootGoal
  <2>3. LegalHops(H)
    <3> HIDE DEF lifted
    <3>1. QED
      BY <2>1, LiftsAreLegal
  <2> HIDE DEF H
  <2>4. QED
    BY <2>2, <2>3, CommitExtends
<1>6. CASE StoreFails
  <2>1. PICK S \in SUBSET plan.stage1 : Stage1Takes(S) /\ Commit(Hops(S, "candidate", 2))
    BY <1>6 DEF StoreFails
  <2>2. S \in SUBSET Nodes /\ \A n \in S : status[n] \in Alive
    BY <2>1 DEF Stage1Takes, Of, Alive
  <2>3. LegalHops(Hops(S, "candidate", 2))
    <3>1. LegalHops(Hops({}, "none", 1) \cup Hops(S, "candidate", 2) \cup Hops({}, "venerable", 3)
                      \cup Hops({}, "canonical", 4) \cup Hops({}, "none", 5))
      BY <2>2, HopsAreLegal
    <3>2. \A to, turn : Hops({}, to, turn) = {}
      BY DEF Hops
    <3>3. QED
      BY <3>1, <3>2
  <2>4. UNCHANGED <<batch, storeVars, dropped, overtaken>> /\ toRecord' = <<>> /\ pc' = "idle"
    BY <1>6 DEF StoreFails, Finish
  <2>5. QED
    BY <2>1, <2>3, <2>4, CommitExtends
<1>7. CASE Apply
  <2>1. PICK P \in SUBSET plan.supersede.all :
          \E B \in Outranked(P) : \E V \in Verdicts(P, B) :
          \E W \in SUBSET {v \in V : StillHolds(v)} : ApplyHeld(V, W)
    BY <1>7 DEF Apply
  <2>2. PICK B \in Outranked(P) : \E V \in Verdicts(P, B) :
          \E W \in SUBSET {v \in V : StillHolds(v)} : ApplyHeld(V, W)
    BY <2>1
  <2>3. PICK V \in Verdicts(P, B) : \E W \in SUBSET {v \in V : StillHolds(v)} : ApplyHeld(V, W)
    BY <2>2
  <2>4. PICK W \in SUBSET {v \in V : StillHolds(v)} : ApplyHeld(V, W)
    BY <2>3
  <2> DEFINE gone == {v[1] : v \in W}
             Chosen(S1, S2, S3, D) ==
               LET H == Hops(gone, "none", 1) \cup Hops(S1, "candidate", 2)
                          \cup Hops(S2, "venerable", 3) \cup Hops(S3, "canonical", 4)
                          \cup Hops(D, "none", 5)
               IN  Commit(H) /\ Finish(NewIds(H))
  <2>5. gone \in SUBSET Nodes /\ \A n \in gone : status[n] = "canonical"
    <3>1. W \subseteq Nodes \X Nodes
      BY <2>3, <2>4 DEF Verdicts, IInv
    <3>2. \A v \in W : v[1] \in Nodes /\ status[v[1]] = "canonical"
      BY <2>4, <3>1 DEF StillHolds
    <3>3. QED
      BY <3>2
  <2>6. \E S1 \in SUBSET Of("none"), S2 \in SUBSET Of("candidate"), S3 \in SUBSET Of("venerable"),
           D \in SUBSET Of("canonical") : Chosen(S1, S2, S3, D)
    BY <2>4 DEF ApplyHeld, Stage1Takes, kSubset
  <2> HIDE DEF Chosen
  <2>7. PICK S1 \in SUBSET Of("none"), S2 \in SUBSET Of("candidate"),
             S3 \in SUBSET Of("venerable"), D \in SUBSET Of("canonical") : Chosen(S1, S2, S3, D)
    BY <2>6
  <2> DEFINE H == Hops(gone, "none", 1) \cup Hops(S1, "candidate", 2)
                    \cup Hops(S2, "venerable", 3) \cup Hops(S3, "canonical", 4)
                    \cup Hops(D, "none", 5)
  <2>8. LegalHops(H)
    <3>1. /\ S1 \in SUBSET Nodes /\ S2 \in SUBSET Nodes /\ S3 \in SUBSET Nodes /\ D \in SUBSET Nodes
          /\ \A n \in gone \cup S1 \cup S2 \cup S3 \cup D : status[n] \in Alive
      BY <2>5, <2>7 DEF Of, Alive
    <3> HIDE DEF gone
    <3>2. QED
      BY <2>5, <3>1, HopsAreLegal
  <2>9. Commit(H) /\ Finish(NewIds(H))
    BY <2>7 DEF Chosen
  <2> HIDE DEF H
  <2>10. UNCHANGED <<batch, storeVars, dropped, overtaken>>
    BY <1>7 DEF Apply
  <2>11. /\ Extends(LogOfHops(NewHops(H), NewIds(H)))
         /\ NewIds(H) \in Seq(Nat) /\ \A i \in 1..Len(NewIds(H)) : NewIds(H)[i] \in trail'
    BY <2>8, <2>9, <2>10, CommitExtends
  <2>12. QED
    BY <2>9, <2>11 DEF Finish
<1>8. QED
  BY <1>1, <1>2, <1>3, <1>4, <1>5, <1>6, <1>7

-----------------------------------------------------------------------------
(* One hop in the store.                                                      *)
LEMMA StoreTyped == TypeInv => Store \in Tables
BY DEF TypeInv, Store, Tables

LEMMA HopResult ==
  ASSUME TypeInv, NEW st \in Tables, NEW id \in Ids
  PROVE  /\ hops[id].node \in Nodes /\ hops[id].to \in Alive
         /\ StoreHop(st, id) \in Tables
         /\ id \in st.audit => StoreHop(st, id) = st
         /\ id \notin st.audit =>
              /\ StoreHop(st, id).audit = st.audit \cup {id}
              /\ StoreHop(st, id).row = [st.row EXCEPT ![hops[id].node] = hops[id].to]
<1>1. id \in Nat /\ hops[id] \in HopRecords
  BY DEF TypeInv, Ids
<1>2. hops[id].node \in Nodes /\ hops[id].to \in Alive
  BY <1>1 DEF HopRecords
<1>3. /\ st.row \in [Nodes -> Statuses] /\ st.demoted \in [Nodes -> Nat] /\ st.audit \subseteq Ids
  BY DEF Tables
<1>4. CASE id \in st.audit
  BY <1>2, <1>4 DEF StoreHop
<1>5. CASE id \notin st.audit
  <2> DEFINE r == [st.row EXCEPT ![hops[id].node] = hops[id].to]
             d == IF Demotes(hops[id]) THEN [st.demoted EXCEPT ![hops[id].node] = id] ELSE st.demoted
             a == st.audit \cup {id}
  <2>1. r \in [Nodes -> Statuses]
    BY <1>2, <1>3 DEF Statuses
  <2>2. d \in [Nodes -> Nat]
    BY <1>1, <1>2, <1>3
  <2>3. a \in SUBSET Ids
    BY <1>3
  <2>4. StoreHop(st, id) = [row |-> r, demoted |-> d, audit |-> a]
    BY <1>5 DEF StoreHop
  <2> HIDE DEF r, d, a
  <2>5. StoreHop(st, id) \in Tables /\ StoreHop(st, id).audit = a /\ StoreHop(st, id).row = r
    BY <2>1, <2>2, <2>3, <2>4 DEF Tables
  <2>6. QED
    BY <1>2, <1>5, <2>5 DEF r, a
<1>6. QED
  BY <1>4, <1>5

(* A hop that is newer than those of its concept the audit knows.             *)
LEMMA HopLands ==
  ASSUME TypeInv, NEW st \in Tables, st.audit \subseteq trail, NEW id \in trail, id \notin st.audit
  PROVE  LET r == StoreHop(st, id) IN
         /\ \A n \in Nodes :
              /\ Behind(n, st.audit)
              /\ \A k \in 1..Len(Pending) :
                   /\ n = hops[id].node /\ Pending[k].kind = "hop"
                   /\ hops[Pending[k].id].node = n /\ Pending[k].id \notin r.audit
                   => id < Pending[k].id
              => Behind(n, r.audit)
         /\ (\A i \in st.audit : hops[i].node = hops[id].node => i < id) =>
              UpToDate(r, hops[id].node)
         /\ \A n \in Nodes : n # hops[id].node =>
              r.row[n] = st.row[n] /\ (UpToDate(st, n) => UpToDate(r, n))
         /\ r.row[hops[id].node] \in Alive
<1> DEFINE r == StoreHop(st, id)
           m == hops[id].node
<1>1. id \in Ids /\ id \in Int /\ \A i \in trail : i \in Int
  BY DEF TypeInv, Ids
<1>2. /\ m \in Nodes /\ hops[id].to \in Alive
      /\ r.audit = st.audit \cup {id} /\ r.row = [st.row EXCEPT ![m] = hops[id].to]
  BY <1>1, HopResult
<1>3. st.row \in [Nodes -> Statuses]
  BY DEF Tables
<1>4. r.row[m] = hops[id].to /\ \A n \in Nodes : n # m => r.row[n] = st.row[n]
  BY <1>2, <1>3
<1> HIDE DEF r
<1>5. ASSUME NEW n \in Nodes, Behind(n, st.audit),
             \A k \in 1..Len(Pending) :
               /\ n = m /\ Pending[k].kind = "hop"
               /\ hops[Pending[k].id].node = n /\ Pending[k].id \notin r.audit
               => id < Pending[k].id
      PROVE  Behind(n, r.audit)
  <2> SUFFICES ASSUME NEW k \in 1..Len(Pending), Pending[k].kind = "hop",
                      hops[Pending[k].id].node = n, Pending[k].id \notin r.audit,
                      NEW i \in r.audit, hops[i].node = n
               PROVE  i < Pending[k].id
    BY DEF Behind
  <2>1. CASE i = id
    BY <1>5, <2>1
  <2>2. CASE i # id
    BY <1>2, <1>5, <2>2 DEF Behind
  <2>3. QED
    BY <2>1, <2>2
<1>6. ASSUME \A i \in st.audit : hops[i].node = m => i < id PROVE UpToDate(r, m)
  <2> SUFFICES ASSUME NEW i \in r.audit, hops[i].node = m,
                      \A j \in r.audit : hops[j].node = m => j <= i
               PROVE  r.row[m] = hops[i].to
    BY DEF UpToDate
  <2>1. id <= i /\ i \in trail /\ i \in Int
    BY <1>1, <1>2
  <2>2. i = id
    BY <1>1, <1>2, <1>6, <2>1
  <2>3. QED
    BY <1>4, <2>2
<1>7. ASSUME NEW n \in Nodes, n # m, UpToDate(st, n) PROVE UpToDate(r, n)
  <2>1. \A i : hops[i].node = n => (i \in r.audit <=> i \in st.audit)
    BY <1>2, <1>7
  <2>2. QED
    BY <1>4, <1>7, <2>1 DEF UpToDate
<1>8. QED
  BY <1>2, <1>4, <1>5, <1>6, <1>7 DEF r

LEMMA DirectWriteKeeps ==
  ASSUME StoreInv, NEW id \in trail, DirectWrite(id),
         UNCHANGED <<status, demoted, hops, trail, log, batch, dropped>>,
         toRecord' \in Seq(Nat), \A i \in 1..Len(toRecord') : toRecord'[i] \in trail,
         pc' = "recording" => toRecord' # <<>>
  PROVE  StoreInv'
<1> DEFINE r == StoreHop(Store, id)
           m == hops[id].node
<1> USE DEF StoreInv
<1>1. Store \in Tables /\ Store.audit = audit /\ Store.row = row /\ Store.demoted = rowDemoted
  BY StoreTyped DEF Store
<1>2. id \in Ids /\ audit \subseteq trail /\ trail \subseteq Ids
  BY DEF TypeInv
<1>3. /\ row' = r.row /\ rowDemoted' = r.demoted /\ audit' = r.audit
      /\ row[m] \in Alive \/ id \in audit
      /\ overtaken' = IF OutOfOrder(id) THEN overtaken \cup {m} ELSE overtaken
  BY DEF DirectWrite, StoreBecomes
<1>4. /\ m \in Nodes /\ r \in Tables
      /\ id \in audit => r = Store
      /\ id \notin audit =>
           r.audit = audit \cup {id} /\ r.row = [row EXCEPT ![m] = hops[id].to] /\ hops[id].to \in Alive
  BY <1>1, <1>2, HopResult
<1> HIDE DEF r
<1>5. Store' = r
  <2>1. r = [row |-> r.row, demoted |-> r.demoted, audit |-> r.audit]
    BY <1>4 DEF Tables
  <2>2. QED
    BY <1>3, <2>1 DEF Store
<1>6. TypeInv'
  <2>1. /\ row' \in [Nodes -> Statuses] /\ rowDemoted' \in [Nodes -> Nat]
        /\ audit' \subseteq trail /\ audit \subseteq audit'
    BY <1>1, <1>2, <1>3, <1>4 DEF Tables
  <2>2. QED
    BY <2>1 DEF TypeInv, Ids
<1>7. audit \subseteq audit'
  BY <1>1, <1>3, <1>4
<1>8. Pending' = Pending
  BY DEF Pending
<1>9. \A i, n : Revives(Pending[i], n)' <=> Revives(Pending[i], n)
  BY <1>8 DEF Revives
<1>10. Carried'
  BY <1>7, <1>8 DEF Carried
<1>11. Ordered'
  BY <1>8, <1>9 DEF Ordered, Kills
<1>12. \A n \in Nodes : Buried(n)' <=> Buried(n)
  BY <1>8, <1>9 DEF Buried, Kills
<1>13. \A n \in Nodes : /\ row'[n] = "gone" => row[n] = "gone"
                        /\ row'[n] = "absent" => (row[n] = "absent" /\ (id \in audit \/ n # m))
                        /\ row'[n] \in Alive => row[n] \in Alive
  <2>1. row \in [Nodes -> Statuses]
    BY DEF TypeInv
  <2>2. CASE id \in audit
    BY <1>1, <1>3, <1>4, <2>2
  <2>3. CASE id \notin audit
    BY <1>3, <1>4, <2>1, <2>3 DEF Alive
  <2>4. QED
    BY <2>2, <2>3
<1>14. Graves'
  <2>1. ASSUME NEW n \in Nodes, row'[n] = "absent", NEW i \in audit' PROVE hops[i].node # n
    <3>1. row[n] = "absent" /\ (id \in audit \/ n # m)
      BY <1>13, <2>1
    <3>2. i \in audit \/ (i = id /\ n # m)
      BY <1>1, <1>3, <1>4, <3>1
    <3>3. QED
      BY <3>1, <3>2 DEF Graves
  <2>2. \A n \in Nodes : row'[n] = "gone" => Buried(n)'
    BY <1>12, <1>13 DEF Graves
  <2>3. QED
    BY <1>8, <2>1, <2>2 DEF Graves, Kills
<1>15. ASSUME id \in audit PROVE InSequence' /\ Current'
  <2>1. r = Store /\ audit' = audit /\ row' = row /\ overtaken \subseteq overtaken'
    BY <1>1, <1>3, <1>4, <1>15
  <2>2. InSequence'
    BY <1>8, <2>1 DEF InSequence, Behind
  <2>3. Current'
    BY <1>5, <2>1 DEF Current, UpToDate
  <2>4. QED
    BY <2>2, <2>3
<1>16. ASSUME id \notin audit PROVE InSequence' /\ Current'
  <2>1. /\ \A n \in Nodes :
              /\ Behind(n, audit)
              /\ \A k \in 1..Len(Pending) :
                   /\ n = m /\ Pending[k].kind = "hop"
                   /\ hops[Pending[k].id].node = n /\ Pending[k].id \notin audit'
                   => id < Pending[k].id
              => Behind(n, audit')
        /\ (\A i \in audit : hops[i].node = m => i < id) => UpToDate(r, m)
        /\ \A n \in Nodes : n # m /\ UpToDate(Store, n) => UpToDate(r, n)
    BY <1>1, <1>2, <1>3, <1>16, HopLands DEF r
  <2>2. overtaken \subseteq overtaken'
    BY <1>3
  <2>3. ASSUME m \notin overtaken'
        PROVE  /\ \A k \in 1..Len(Pending) :
                    /\ Pending[k].kind = "hop" /\ hops[Pending[k].id].node = m
                    /\ Pending[k].id \notin audit'
                    => id < Pending[k].id
               /\ \A i \in audit : hops[i].node = m => i < id
    <3>1. ~OutOfOrder(id)
      BY <1>3, <2>3
    <3>2. id \in Int /\ \A i \in trail : i \in Int
      BY <1>2 DEF Ids
    <3>3. \A i \in audit : i # id
      BY <1>16
    <3>4. \A i \in audit : hops[i].node = m => i < id
      BY <1>2, <1>16, <3>1, <3>2, <3>3 DEF OutOfOrder
    <3>5. ASSUME NEW k \in 1..Len(Pending), Pending[k].kind = "hop",
                 hops[Pending[k].id].node = m, Pending[k].id \notin audit'
          PROVE  id < Pending[k].id
      <4>1. Pending[k].id \in InFlight /\ Pending[k].id \in trail
        BY <3>5, PendingInFlight DEF Carried
      <4>2. Pending[k].id # id /\ Pending[k].id \notin audit
        BY <1>3, <1>4, <1>16, <3>5
      <4>3. ~(Pending[k].id < id)
        BY <3>1, <3>5, <4>1, <4>2 DEF OutOfOrder
      <4>4. Pending[k].id \in Int /\ id \in Int
        BY <3>2, <4>1
      <4>5. QED
        BY ONLY <4>2, <4>3, <4>4
    <3>6. QED
      BY <3>4, <3>5
  <2>4. ASSUME NEW n \in Nodes \ overtaken' PROVE Behind(n, audit')
    BY <2>1, <2>2, <2>3, <2>4 DEF InSequence
  <2>5. InSequence'
    BY <1>8, <2>4 DEF InSequence, Behind
  <2>6. ASSUME NEW n \in Nodes \ overtaken', row'[n] \in Alive PROVE UpToDate(r, n)
    <3>1. CASE n = m
      BY <2>1, <2>3, <2>6, <3>1
    <3>2. CASE n # m
      BY <1>13, <2>1, <2>2, <2>6, <3>2 DEF Current
    <3>3. QED
      BY <3>1, <3>2
  <2>7. Current'
    BY <1>5, <2>6 DEF Current, UpToDate
  <2>8. QED
    BY <2>5, <2>7
<1>17. QED
  BY <1>6, <1>10, <1>11, <1>14, <1>15, <1>16

-----------------------------------------------------------------------------
(* The flush, one mutation after the other.                                   *)

Written(st, n, s, d) == [st EXCEPT !.row[n] = s, !.demoted[n] = d]

LEMMA RowWritten ==
  ASSUME NEW st \in Tables, NEW n \in Nodes, NEW s \in Statuses, NEW d \in Nat
  PROVE  /\ Written(st, n, s, d) \in Tables
         /\ Written(st, n, s, d).audit = st.audit
         /\ Written(st, n, s, d).row = [st.row EXCEPT ![n] = s]
BY DEF Tables, Written

LEMMA MutationTyped ==
  ASSUME TypeInv, NEW st \in Tables, NEW m \in Mutations, m.kind = "hop" => m.id \in Ids
  PROVE  StoreMutation(st, m) \in Tables
<1>1. CASE m.kind = "hop"
  BY <1>1, HopResult DEF StoreMutation
<1>2. CASE m.kind = "upsert"
  <2>1. m.node \in Nodes /\ m.status \in Statuses /\ m.demoted \in Nat
    BY <1>2 DEF Mutations, Statuses
  <2>2. StoreMutation(st, m) = StoreUpsert(st, m)
    BY <1>2 DEF StoreMutation
  <2>3. StoreUpsert(st, m) = st \/ StoreUpsert(st, m) = Written(st, m.node, m.status, m.demoted)
    BY DEF StoreUpsert, Written
  <2>4. \A n \in Nodes, s \in Statuses, d \in Nat : Written(st, n, s, d) \in Tables
    BY RowWritten
  <2>5. QED
    BY <2>1, <2>2, <2>3, <2>4
<1>3. CASE m.kind = "delete"
  <2>1. m.node \in Nodes /\ "gone" \in Statuses
    BY <1>3 DEF Mutations, Statuses
  <2>2. StoreMutation(st, m) = Written(st, m.node, "gone", 0)
    BY <1>3 DEF StoreMutation, Written
  <2>3. \A n \in Nodes, s \in Statuses, d \in Nat : Written(st, n, s, d) \in Tables
    BY RowWritten
  <2>4. QED
    BY <2>1, <2>2, <2>3
<1>4. QED
  BY <1>1, <1>2, <1>3 DEF Mutations

Latest == [s \in SUBSET Nat |-> Max(s)]
Steps  == [kv \in (1..Len(batch)) \X Tables |-> StoreMutation(kv[2], batch[kv[1]])]

LEMMA LatestIsGreatest == ASSUME NEW n \in Nat PROVE PicksGreatest(Latest, n)
<1> SUFFICES ASSUME NEW s \in SUBSET (1..n), s # {}
             PROVE  Latest[s] \in s /\ \A k \in s : k <= Latest[s]
  BY DEF PicksGreatest
<1>1. s \in SUBSET (0..n) /\ s \in SUBSET Nat
  OBVIOUS
<1>2. \E m \in s : \A k \in s : k <= m
  BY <1>1, Greatest
<1>3. \E m \in s : \A k \in s : m >= k
  BY <1>1, <1>2
<1>4. QED
  BY <1>1, <1>3 DEF Latest, Max

LEMMA StepsTyped ==
  ASSUME TypeInv, Carried
  PROVE  /\ ChainSteps(Len(batch), Tables, Store, Steps)
         /\ \A k \in 1..Len(batch), st \in Tables :
              Steps[<<k, st>>] = StoreMutation(st, batch[k])
<1>1. Len(batch) \in Nat /\ Store \in Tables
  BY PendingShape, StoreTyped
<1>2. ASSUME NEW k \in 1..Len(batch)
      PROVE  batch[k] \in Mutations /\ (batch[k].kind = "hop" => batch[k].id \in Ids)
  <2>1. batch[k] \in Mutations
    BY DEF TypeInv
  <2>2. k \in 1..Len(Pending) /\ Pending[k] = batch[k]
    BY PendingShape
  <2>3. QED
    BY <2>1, <2>2 DEF Carried, TypeInv
<1>3. \A k \in 1..Len(batch), st \in Tables : Steps[<<k, st>>] = StoreMutation(st, batch[k])
  BY DEF Steps
<1>4. \A k \in 1..Len(batch), st \in Tables : Steps[<<k, st>>] \in Tables
  BY <1>2, <1>3, MutationTyped
<1>5. QED
  BY <1>1, <1>3, <1>4 DEF ChainSteps

LEMMA FlushIsChain ==
  ASSUME TypeInv, Carried
  PROVE  \E h : /\ IsChain(h, Len(batch), Tables, Store, Steps)
                /\ FoldLeft(StoreMutation, Store, batch) = h[Len(batch)]
<1> DEFINE n == Len(batch)
           Given(h, s) == IF s = {} THEN Store
                          ELSE StoreMutation(h[s \ {Max(s)}], batch[Max(s)])
           f == CHOOSE h : h = [s \in SUBSET (DOMAIN batch) |-> Given(h, s)]
<1>1. n \in Nat /\ DOMAIN batch = 1..n
  BY LenProperties DEF TypeInv
<1>p. \A s \in SUBSET (1..n) : s # {} => Latest[s] \in s
  BY <1>1, LatestIsGreatest DEF PicksGreatest
<1>2. PICK g : IsFold(g, n, Tables, Store, Latest, Steps)
  BY <1>1, StepsTyped, LatestIsGreatest, FoldChain
<1>3. /\ g \in [SUBSET (1..n) -> Tables]
      /\ \A s \in SUBSET (1..n) :
           g[s] = IF s = {} THEN Store ELSE Steps[<<Latest[s], g[s \ {Latest[s]}]>>]
  BY <1>2 DEF IsFold, IsSetRecursion
<1>4. ASSUME NEW s \in SUBSET (1..n) PROVE g[s] = Given(g, s)
  <2>1. CASE s = {}
    BY <1>3, <2>1
  <2>2. CASE s # {}
    <3>1. Latest[s] \in s /\ Latest[s] = Max(s)
      BY <1>1, <1>p, <2>2 DEF Latest
    <3>2. Latest[s] \in 1..n /\ g[s \ {Latest[s]}] \in Tables
      BY <1>3, <3>1
    <3>3. g[s] = StoreMutation(g[s \ {Latest[s]}], batch[Latest[s]])
      BY <1>3, <2>2, <3>2, StepsTyped
    <3>4. QED
      BY <2>2, <3>1, <3>3
  <2>3. QED
    BY <2>1, <2>2
<1>5. g = [s \in SUBSET (DOMAIN batch) |-> Given(g, s)]
  <2> HIDE DEF Given
  <2>1. QED
    BY <1>1, <1>3, <1>4
<1>6. f = [s \in SUBSET (DOMAIN batch) |-> Given(f, s)]
  BY <1>5
<1>7. FoldLeft(StoreMutation, Store, batch) = f[DOMAIN batch]
  BY DEF FoldLeft, MapThenFoldSet
<1> HIDE DEF f
<1>8. \A s \in SUBSET (1..n) : f[s] = g[s]
  <2> DEFINE G == {s \in SUBSET (1..n) : f[s] = g[s]}
  <2>1. {} \in G
    BY <1>1, <1>4, <1>6
  <2>2. ASSUME NEW s \in SUBSET (1..n), s # {} /\ s \ {Latest[s]} \in G PROVE s \in G
    <3>1. Latest[s] = Max(s)
      BY <1>1 DEF Latest
    <3>2. f[s] = Given(f, s) /\ g[s] = Given(g, s)
      BY <1>1, <1>4, <1>6
    <3>3. f[s \ {Max(s)}] = g[s \ {Max(s)}]
      BY <2>2, <3>1
    <3>4. QED
      BY <2>2, <3>2, <3>3
  <2>3. IsFiniteSet(1..n)
    BY <1>1, FS_Interval
  <2>4. \A s \in SUBSET (1..n) : s # {} /\ s \ {Latest[s]} \in G => s \in G
    BY <2>2
  <2>5. \A s \in SUBSET (1..n) : s \in G
    <3> HIDE DEF G, n
    <3> DEFINE S == 1..n
    <3>1. IsFiniteSet(S)
      BY <2>3
    <3>2. \A s \in SUBSET S : s # {} => Latest[s] \in s
      BY <1>p
    <3>3. {} \in G
      BY <2>1
    <3>4. \A s \in SUBSET S : s # {} /\ s \ {Latest[s]} \in G => s \in G
      BY <2>4
    <3> HIDE DEF S
    <3>5. \A s \in SUBSET S : s \in G
      BY ONLY <3>1, <3>2, <3>3, <3>4, Pickwise, SMTT(60)
    <3>6. QED
      BY <3>5 DEF S
  <2>6. QED
    BY <2>5
<1> DEFINE h == [k \in 0..n |-> g[1..k]]
<1>9. IsChain(h, n, Tables, Store, Steps)
  BY <1>2 DEF IsFold
<1>10. h[n] = g[1..n]
  BY <1>1
<1>11. f[DOMAIN batch] = g[1..n]
  BY <1>1, <1>8
<1>12. QED
  BY <1>7, <1>9, <1>10, <1>11

(* After k mutations of the batch. A row that a batch sent again has brought  *)
(* back is deleted before the batch ends.                                     *)
Midway(k, st) ==
  /\ audit \subseteq st.audit /\ st.audit \subseteq trail
  /\ \A j \in 1..k : batch[j].kind = "hop" => batch[j].id \in st.audit
  /\ \A n \in Nodes \ overtaken : Behind(n, st.audit)
  /\ \A n \in Nodes :
       /\ st.row[n] = "absent" => \A i \in st.audit : hops[i].node # n
       /\ st.row[n] = "gone" => Buried(n)
  /\ \A n \in Nodes \ overtaken : st.row[n] \in Alive =>
       UpToDate(st, n) \/ \E j \in (k + 1)..Len(batch) : Kills(batch[j], n)

LEMMA BatchInPending ==
  ASSUME StoreInv, NEW k \in 1..Len(batch)
  PROVE  /\ k \in 1..Len(Pending) /\ Pending[k] = batch[k] /\ batch[k] \in Mutations
         /\ k \in Int /\ Len(batch) \in Nat
         /\ batch[k].kind = "hop" => batch[k].id \in trail
BY PendingShape DEF StoreInv, Carried, TypeInv

LEMMA MidwayHop ==
  ASSUME StoreInv, NEW k \in 1..Len(batch), NEW st \in Tables, Midway(k - 1, st),
         batch[k].kind = "hop"
  PROVE  Midway(k, StoreMutation(st, batch[k]))
<1> DEFINE id == batch[k].id
           m == hops[id].node
           r == StoreHop(st, id)
<1> USE DEF StoreInv
<1>1. /\ k \in 1..Len(Pending) /\ Pending[k] = batch[k] /\ k \in Int /\ Len(batch) \in Nat
      /\ id \in trail
  BY BatchInPending
<1>2. StoreMutation(st, batch[k]) = r
  BY DEF StoreMutation
<1>3. \A n \in Nodes : (\E j \in k..Len(batch) : Kills(batch[j], n)) =>
        \E j \in (k + 1)..Len(batch) : Kills(batch[j], n)
  <2>1. \A n \in Nodes : ~Kills(batch[k], n)
    BY DEF Kills
  <2>2. \A j \in k..Len(batch) : j = k \/ j \in (k + 1)..Len(batch)
    BY <1>1
  <2>3. QED
    BY <2>1, <2>2
<1>4. /\ audit \subseteq st.audit /\ st.audit \subseteq trail
      /\ \A j \in 1..(k - 1) : batch[j].kind = "hop" => batch[j].id \in st.audit
      /\ \A n \in Nodes \ overtaken : Behind(n, st.audit)
      /\ \A n \in Nodes :
           /\ st.row[n] = "absent" => \A i \in st.audit : hops[i].node # n
           /\ st.row[n] = "gone" => Buried(n)
      /\ \A n \in Nodes \ overtaken : st.row[n] \in Alive =>
           UpToDate(st, n) \/ \E j \in k..Len(batch) : Kills(batch[j], n)
  BY <1>1 DEF Midway
<1>5. /\ id \in Ids /\ trail \subseteq Ids
      /\ \A j \in 1..k : j = k \/ j \in 1..(k - 1)
  BY <1>1 DEF TypeInv
<1> HIDE DEF id, r
<1>6. CASE id \in st.audit
  <2>1. r = st
    BY <1>5, <1>6, HopResult DEF r
  <2>2. \A j \in 1..k : batch[j].kind = "hop" => batch[j].id \in st.audit
    BY <1>4, <1>5, <1>6 DEF id
  <2>3. QED
    BY <1>2, <1>3, <1>4, <2>1, <2>2 DEF Midway
<1>7. CASE id \notin st.audit
  <2>1. r.audit = st.audit \cup {id} /\ m \in Nodes
    BY <1>5, <1>7, HopResult DEF r
  <2>2. ASSUME NEW j \in 1..Len(Pending), Pending[j].kind = "hop", Pending[j].id \notin r.audit
        PROVE  id < Pending[j].id
    <3>1. Pending[j].id # id /\ Pending[j].id \notin st.audit
      BY <2>1, <2>2
    <3>2. j # k
      BY <1>1, <3>1 DEF id
    <3>3. ~(j < k)
      <4> SUFFICES ASSUME j < k PROVE FALSE
        OBVIOUS
      <4>1. j \in 1..(k - 1) /\ j \in 1..Len(batch)
        BY <1>1
      <4>2. Pending[j] = batch[j]
        BY <4>1, BatchInPending
      <4>3. QED
        BY <1>4, <2>2, <3>1, <4>1, <4>2
    <3>4. k < j
      BY <1>1, <3>2, <3>3
    <3>5. QED
      BY <1>1, <2>2, <3>4 DEF Ordered, id
  <2>3. /\ \A n \in Nodes : Behind(n, st.audit) => Behind(n, r.audit)
        /\ (\A i \in st.audit : hops[i].node = m => i < id) => UpToDate(r, m)
        /\ \A n \in Nodes : n # m =>
             r.row[n] = st.row[n] /\ (UpToDate(st, n) => UpToDate(r, n))
        /\ r.row[m] \in Alive
    BY <1>1, <1>4, <1>7, <2>2, HopLands DEF r
  <2>4. m \notin overtaken => \A i \in st.audit : hops[i].node = m => i < id
    BY <1>1, <1>4, <1>7, <2>1 DEF Behind, id
  <2>5. \A j \in 1..k : batch[j].kind = "hop" => batch[j].id \in r.audit
    BY <1>4, <1>5, <2>1 DEF id
  <2>6. ASSUME NEW n \in Nodes
        PROVE  /\ r.row[n] = "absent" => \A i \in r.audit : hops[i].node # n
               /\ r.row[n] = "gone" => Buried(n)
    <3>1. CASE n = m
      BY <2>3, <3>1 DEF Alive
    <3>2. CASE n # m
      BY <1>4, <2>1, <2>3, <3>2
    <3>3. QED
      BY <3>1, <3>2
  <2>7. ASSUME NEW n \in Nodes \ overtaken, r.row[n] \in Alive
        PROVE  UpToDate(r, n) \/ \E j \in (k + 1)..Len(batch) : Kills(batch[j], n)
    <3>1. CASE n = m
      BY <2>3, <2>4, <3>1
    <3>2. CASE n # m
      BY <1>3, <1>4, <2>3, <2>7, <3>2
    <3>3. QED
      BY <3>1, <3>2
  <2>8. audit \subseteq r.audit /\ r.audit \subseteq trail
    BY <1>1, <1>4, <2>1
  <2>9. QED
    BY <1>2, <1>4, <2>3, <2>5, <2>6, <2>7, <2>8 DEF Midway
<1>8. QED
  BY <1>6, <1>7

LEMMA MidwayRow ==
  ASSUME StoreInv, NEW k \in 1..Len(batch), NEW st \in Tables, Midway(k - 1, st),
         NEW m \in Nodes, NEW s \in Statuses, NEW d \in Nat,
         batch[k].kind # "hop", batch[k].node = m,
         s \in Alive => batch[k].kind = "upsert" /\ st.row[m] \notin Alive,
         s \notin Alive => s = "gone" /\ batch[k].kind = "delete"
  PROVE  Midway(k, Written(st, m, s, d))
<1> DEFINE r == Written(st, m, s, d)
<1> USE DEF StoreInv
<1>1. /\ k \in 1..Len(Pending) /\ Pending[k] = batch[k] /\ k \in Int /\ Len(batch) \in Nat
  BY BatchInPending
<1>2. /\ r.audit = st.audit /\ r.row = [st.row EXCEPT ![m] = s]
      /\ st.row \in [Nodes -> Statuses]
  <2>1. st.row \in [Nodes -> Statuses]
    BY DEF Tables
  <2>2. QED
    BY <2>1, RowWritten
<1> HIDE DEF r
<1>3. r.row[m] = s /\ \A n \in Nodes : n # m => r.row[n] = st.row[n]
  BY <1>2
<1>4. /\ audit \subseteq st.audit /\ st.audit \subseteq trail
      /\ \A j \in 1..(k - 1) : batch[j].kind = "hop" => batch[j].id \in st.audit
      /\ \A n \in Nodes \ overtaken : Behind(n, st.audit)
      /\ \A n \in Nodes :
           /\ st.row[n] = "absent" => \A i \in st.audit : hops[i].node # n
           /\ st.row[n] = "gone" => Buried(n)
      /\ \A n \in Nodes \ overtaken : st.row[n] \in Alive =>
           UpToDate(st, n) \/ \E j \in k..Len(batch) : Kills(batch[j], n)
  BY <1>1 DEF Midway
<1>5. \A j \in 1..k : j = k \/ j \in 1..(k - 1)
  BY <1>1
<1>6. \A j \in 1..k : batch[j].kind = "hop" => batch[j].id \in r.audit
  BY <1>2, <1>4, <1>5
<1>7. \A n \in Nodes : n # m => ~Kills(batch[k], n)
  BY DEF Kills
<1>8. \A j \in k..Len(batch) : j = k \/ j \in (k + 1)..Len(batch)
  BY <1>1
<1>9. ASSUME NEW n \in Nodes, n # m
      PROVE  /\ r.row[n] = "absent" => \A i \in r.audit : hops[i].node # n
             /\ r.row[n] = "gone" => Buried(n)
             /\ n \notin overtaken /\ r.row[n] \in Alive =>
                  UpToDate(r, n) \/ \E j \in (k + 1)..Len(batch) : Kills(batch[j], n)
  <2>1. UpToDate(st, n) => UpToDate(r, n)
    BY <1>2, <1>3, <1>9 DEF UpToDate
  <2>2. (\E j \in k..Len(batch) : Kills(batch[j], n)) =>
          \E j \in (k + 1)..Len(batch) : Kills(batch[j], n)
    BY <1>7, <1>8, <1>9
  <2>3. QED
    BY <1>2, <1>3, <1>4, <1>9, <2>1, <2>2
<1>10. r.row[m] = "absent" => \A i \in r.audit : hops[i].node # m
  BY <1>3 DEF Alive
<1>11. r.row[m] = "gone" => Buried(m)
  <2> SUFFICES ASSUME s = "gone" PROVE Buried(m)
    BY <1>3
  <2>1. Kills(Pending[k], m) /\ batch[k].kind = "delete"
    BY <1>1 DEF Kills, Alive
  <2>2. status[m] = "gone"
    BY <1>1, <2>1 DEF Graves
  <2>3. ASSUME NEW i \in 1..Len(Pending), Revives(Pending[i], m)
        PROVE  \E j \in 1..Len(batch) : i < j /\ Kills(Pending[j], m)
    <3>1. ~(k < i)
      BY <1>1, <2>1, <2>3 DEF Ordered
    <3>2. i # k
      BY <1>1, <2>1, <2>3 DEF Revives
    <3>3. i < k
      BY <1>1, <3>1, <3>2
    <3>4. QED
      BY <2>1, <3>3
  <2>4. QED
    BY <2>2, <2>3 DEF Buried
<1>12. ASSUME r.row[m] \in Alive
       PROVE  UpToDate(r, m) \/ \E j \in (k + 1)..Len(batch) : Kills(batch[j], m)
  <2>1. batch[k].kind = "upsert" /\ st.row[m] \in {"absent", "gone"}
    BY <1>2, <1>3, <1>12 DEF Statuses
  <2>2. CASE st.row[m] = "absent"
    BY <1>2, <1>4, <2>2 DEF UpToDate
  <2>3. CASE st.row[m] = "gone"
    <3>1. Revives(Pending[k], m)
      BY <1>1, <2>1 DEF Revives
    <3>2. PICK j \in 1..Len(batch) : k < j /\ Kills(Pending[j], m)
      BY <1>1, <1>4, <2>3, <3>1 DEF Buried
    <3>3. Pending[j] = batch[j] /\ j \in (k + 1)..Len(batch)
      BY <1>1, <3>2, BatchInPending
    <3>4. QED
      BY <3>2, <3>3
  <2>4. QED
    BY <2>1, <2>2, <2>3
<1>13. ASSUME NEW n \in Nodes
       PROVE  /\ r.row[n] = "absent" => \A i \in r.audit : hops[i].node # n
              /\ r.row[n] = "gone" => Buried(n)
              /\ n \notin overtaken /\ r.row[n] \in Alive =>
                   UpToDate(r, n) \/ \E j \in (k + 1)..Len(batch) : Kills(batch[j], n)
  <2>1. CASE n = m
    BY <1>10, <1>11, <1>12, <2>1
  <2>2. CASE n # m
    BY <1>9, <2>2
  <2>3. QED
    BY <2>1, <2>2
<1>14. \A n \in Nodes \ overtaken : Behind(n, r.audit)
  BY <1>2, <1>4
<1>15. QED
  BY <1>2, <1>4, <1>6, <1>13, <1>14 DEF Midway, r

LEMMA MidwayStep ==
  ASSUME StoreInv, NEW k \in 1..Len(batch), NEW st \in Tables, Midway(k - 1, st)
  PROVE  Midway(k, StoreMutation(st, batch[k]))
<1> DEFINE m == batch[k]
<1>1. m \in Mutations /\ k \in Int /\ Len(batch) \in Nat
  BY BatchInPending
<1>2. CASE m.kind = "hop"
  BY <1>2, MidwayHop
<1>3. CASE m.kind = "upsert" /\ st.row[m.node] \in Alive
  <2>1. StoreMutation(st, m) = st
    BY <1>3 DEF StoreMutation, StoreUpsert
  <2>2. \A j \in 1..k : j = k \/ j \in 1..(k - 1)
    BY <1>1
  <2>3. \A j \in 1..k : batch[j].kind = "hop" => batch[j].id \in st.audit
    BY <1>3, <2>2 DEF Midway
  <2>4. \A n \in Nodes : ~Kills(m, n)
    BY <1>3 DEF Kills
  <2>5. (k - 1) + 1 = k /\ \A j \in k..Len(batch) : j = k \/ j \in (k + 1)..Len(batch)
    BY <1>1
  <2>6. \A n \in Nodes \ overtaken : st.row[n] \in Alive =>
          UpToDate(st, n) \/ \E j \in (k + 1)..Len(batch) : Kills(batch[j], n)
    BY <2>4, <2>5 DEF Midway
  <2>7. QED
    BY <2>1, <2>3, <2>6 DEF Midway
<1>4. CASE m.kind = "upsert" /\ st.row[m.node] \notin Alive
  <2>1. m.node \in Nodes /\ m.status \in Alive /\ m.status \in Statuses /\ m.demoted \in Nat
    BY <1>1, <1>4 DEF Mutations, Statuses
  <2>2. StoreMutation(st, m) = Written(st, m.node, m.status, m.demoted)
    BY <1>4 DEF StoreMutation, StoreUpsert, Written
  <2>3. \A n \in Nodes, s \in Statuses, d \in Nat :
          n = m.node /\ s \in Alive => Midway(k, Written(st, n, s, d))
    BY <1>4, MidwayRow
  <2>4. QED
    BY <2>1, <2>2, <2>3
<1>5. CASE m.kind = "delete"
  <2>1. m.node \in Nodes /\ "gone" \in Statuses /\ "gone" \notin Alive
    BY <1>1, <1>5 DEF Mutations, Statuses, Alive
  <2>2. StoreMutation(st, m) = Written(st, m.node, "gone", 0)
    BY <1>5 DEF StoreMutation, Written
  <2>3. \A n \in Nodes, s \in Statuses, d \in Nat :
          n = m.node /\ s = "gone" => Midway(k, Written(st, n, s, d))
    BY <1>5, <2>1, MidwayRow
  <2>4. QED
    BY <2>1, <2>2, <2>3
<1>6. QED
  BY <1>1, <1>2, <1>3, <1>4, <1>5 DEF Mutations

LEMMA MidwayStart == StoreInv => Midway(0, Store)
<1> SUFFICES ASSUME StoreInv, NEW st, st = Store PROVE Midway(0, st)
  OBVIOUS
<1>1. st.audit = audit /\ st.row = row
  BY DEF Store
<1>2. \A n \in Nodes :
        /\ st.row[n] = "absent" => \A i \in st.audit : hops[i].node # n
        /\ st.row[n] = "gone" => Buried(n)
  BY <1>1 DEF StoreInv, Graves
<1>3. \A n \in Nodes \ overtaken :
        /\ Behind(n, st.audit)
        /\ st.row[n] \in Alive => UpToDate(st, n)
  BY <1>1 DEF StoreInv, InSequence, Current
<1>4. audit \subseteq st.audit /\ st.audit \subseteq trail
  BY <1>1 DEF StoreInv, TypeInv
<1>5. 1..0 = {}
  OBVIOUS
<1>6. QED
  BY ONLY <1>2, <1>3, <1>4, <1>5 DEF Midway

LEMMA FlushEnds ==
  ASSUME StoreInv
  PROVE  LET st == FoldLeft(StoreMutation, Store, batch) IN
         st \in Tables /\ Midway(Len(batch), st)
<1> DEFINE n == Len(batch)
<1>1. TypeInv /\ Carried /\ n \in Nat
  BY PendingShape DEF StoreInv
<1>2. PICK h : /\ IsChain(h, n, Tables, Store, Steps)
               /\ FoldLeft(StoreMutation, Store, batch) = h[n]
  BY <1>1, FlushIsChain
<1>3. /\ h \in [0..n -> Tables] /\ h[0] = Store
      /\ \A k \in 1..n : h[k] = Steps[<<k, h[k - 1]>>]
  BY <1>2 DEF IsChain
<1> DEFINE G == {k \in 0..n : Midway(k, h[k])}
<1>4. 0 \in G
  BY <1>1, <1>3, MidwayStart
<1>5. ASSUME NEW k \in 1..n, k - 1 \in G PROVE k \in G
  <2>1. k - 1 \in 0..n /\ k \in 0..n /\ h[k - 1] \in Tables /\ Midway(k - 1, h[k - 1])
    BY <1>1, <1>3, <1>5
  <2>2. h[k] = StoreMutation(h[k - 1], batch[k])
    BY <1>1, <1>3, <2>1, StepsTyped
  <2>3. QED
    BY <2>1, <2>2, MidwayStep
<1>6. \A k \in 0..n : k \in G
  <2> HIDE DEF G, n
  <2>1. QED
    BY <1>1, <1>4, <1>5, UpTo
<1>7. n \in 0..n /\ Midway(n, h[n]) /\ h[n] \in Tables
  BY <1>1, <1>3, <1>6
<1>8. QED
  BY <1>2, <1>7

(* Once a batch is written or given up, the log alone is pending.             *)
LEMMA BatchLeaves ==
  ASSUME StoreInv, batch' = <<>>, UNCHANGED <<status, hops, trail, log>>
  PROVE  /\ \A i \in 1..Len(Pending') : \E j \in 1..Len(Pending) : Pending'[i] = Pending[j]
         /\ \A i \in 1..Len(Pending') : Pending'[i].kind = "hop" => Pending'[i].id \in trail
         /\ \A i \in 1..Len(Pending'), x \in Nodes : Kills(Pending'[i], x) => status[x] = "gone"
         /\ \A i \in (trail \ audit) \ dropped :
              \/ \E j \in 1..Len(batch) : batch[j].kind = "hop" /\ batch[j].id = i
              \/ \E j \in 1..Len(Pending') : Pending'[j].kind = "hop" /\ Pending'[j].id = i
         /\ Ordered'
         /\ \A x \in Nodes : Buried(x) => Buried(x)'
<1> DEFINE n == Len(batch)
<1> USE DEF StoreInv
<1>1. /\ n \in Nat /\ Len(log) \in Nat /\ Len(Pending) = n + Len(log)
      /\ \A i \in 1..n : i \in 1..Len(Pending) /\ Pending[i] = batch[i]
      /\ \A i \in 1..Len(log) : n + i \in 1..Len(Pending) /\ Pending[n + i] = log[i]
  BY PendingShape
<1>2. Pending' = log
  BY ConcatEmptySeq DEF Pending, TypeInv
<1>3. \A i \in 1..Len(log), x \in Nodes : Revives(Pending[i], x)' <=> Revives(Pending[n + i], x)
  BY <1>1, <1>2 DEF Revives
<1>4. \A i \in 1..Len(Pending) : i \in 1..n \/ \E j \in 1..Len(log) : i = n + j
  <2>1. \A i \in 1..Len(Pending) : i \notin 1..n => i - n \in 1..Len(log) /\ i = n + (i - n)
    BY <1>1
  <2>2. QED
    BY <2>1
<1>5. \A i \in 1..Len(Pending') : \E j \in 1..Len(Pending) : Pending'[i] = Pending[j]
  BY <1>1, <1>2
<1>6. \A i \in 1..Len(Pending') : Pending'[i].kind = "hop" => Pending'[i].id \in trail
  BY <1>5 DEF Carried
<1>7. \A i \in 1..Len(Pending'), x \in Nodes : Kills(Pending'[i], x) => status[x] = "gone"
  BY <1>5 DEF Graves
<1>8. ASSUME NEW i \in (trail \ audit) \ dropped
      PROVE  \/ \E j \in 1..n : batch[j].kind = "hop" /\ batch[j].id = i
             \/ \E j \in 1..Len(Pending') : Pending'[j].kind = "hop" /\ Pending'[j].id = i
  <2>1. PICK j \in 1..Len(Pending) : Pending[j].kind = "hop" /\ Pending[j].id = i
    BY <1>8 DEF Carried
  <2>2. CASE j \in 1..n
    BY <1>1, <2>1, <2>2
  <2>3. CASE \E l \in 1..Len(log) : j = n + l
    BY <1>1, <1>2, <2>1, <2>3
  <2>4. QED
    BY <1>4, <2>2, <2>3
<1>9. Ordered'
  <2> SUFFICES ASSUME NEW i \in 1..Len(log), NEW j \in 1..Len(log), i < j
               PROVE  /\ log[i].kind = "hop" /\ log[j].kind = "hop" => log[i].id < log[j].id
                      /\ \A x \in Nodes : Kills(log[i], x) => ~Revives(Pending[n + j], x)
    BY <1>2, <1>3 DEF Ordered, Kills
  <2>1. n + i < n + j /\ Pending[n + i] = log[i] /\ Pending[n + j] = log[j]
    BY <1>1
  <2>2. QED
    BY <1>1, <2>1 DEF Ordered
<1>10. ASSUME NEW x \in Nodes, Buried(x) PROVE Buried(x)'
  <2>1. ASSUME NEW i \in 1..Len(log) PROVE ~Revives(Pending[n + i], x)
    <3>1. n + i \in 1..Len(Pending) /\ \A j \in 1..n : ~(n + i < j)
      BY <1>1
    <3>2. QED
      BY <1>10, <3>1 DEF Buried
  <2>2. \A i \in 1..Len(Pending') : ~Revives(Pending[i], x)'
    BY <1>2, <1>3, <2>1
  <2>3. QED
    BY <1>10, <2>2 DEF Buried
<1>11. QED
  BY <1>5, <1>6, <1>7, <1>8, <1>9, <1>10

LEMMA FlushKeeps == ASSUME StoreInv, Flush PROVE StoreInv'
<1> DEFINE st == FoldLeft(StoreMutation, Store, batch)
           n == Len(batch)
<1>1. /\ row' = st.row /\ rowDemoted' = st.demoted /\ audit' = st.audit
      /\ batch' = <<>> \/ batch' = batch
      /\ UNCHANGED <<status, demoted, hops, trail, log, toRecord, pc, dropped, overtaken>>
  BY DEF Flush, StoreBecomes, graphVars, evalVars
<1>2. st \in Tables /\ Midway(n, st)
  BY FlushEnds
<1> HIDE DEF st
<1> USE DEF StoreInv
<1>3. Store' = st
  <2>1. st = [row |-> st.row, demoted |-> st.demoted, audit |-> st.audit]
    BY <1>2 DEF Tables
  <2>2. QED
    BY <1>1, <2>1 DEF Store
<1>4. /\ audit \subseteq audit' /\ audit' \subseteq trail
      /\ \A j \in 1..n : batch[j].kind = "hop" => batch[j].id \in audit'
      /\ \A x \in Nodes \ overtaken : Behind(x, audit')
      /\ \A x \in Nodes :
           /\ row'[x] = "absent" => \A i \in audit' : hops[i].node # x
           /\ row'[x] = "gone" => Buried(x)
      /\ \A x \in Nodes \ overtaken : row'[x] \in Alive => UpToDate(st, x)
  <2>1. n \in Nat /\ (n + 1)..n = {}
    BY PendingShape
  <2>2. QED
    BY <1>1, <1>2, <2>1 DEF Midway
<1>5. TypeInv'
  <2>1. row' \in [Nodes -> Statuses] /\ rowDemoted' \in [Nodes -> Nat]
    BY <1>1, <1>2 DEF Tables
  <2>2. batch' \in Seq(Mutations)
    <3> HIDE DEF Mutations
    <3>1. batch \in Seq(Mutations) /\ <<>> \in Seq(Mutations)
      BY DEF TypeInv
    <3>2. QED
      BY <1>1, <3>1
  <2>3. audit' \subseteq trail'
    BY <1>1, <1>4
  <2>4. /\ UNCHANGED <<status, demoted, hops, trail, log, toRecord, pc>> /\ TypeInv
    BY <1>1
  <2> HIDE DEF StoreInv, Mutations, Statuses, HopRecords
  <2>5. QED
    BY ONLY <2>1, <2>2, <2>3, <2>4 DEF TypeInv, Ids
<1>6. Current'
  BY <1>1, <1>3, <1>4 DEF Current, UpToDate
<1>7. CASE batch' = batch
  <2>1. Pending' = Pending
    BY <1>1, <1>7 DEF Pending
  <2>2. \A i, x : Revives(Pending[i], x)' <=> Revives(Pending[i], x)
    BY <1>1, <2>1 DEF Revives
  <2>3. Carried'
    BY <1>1, <1>4, <2>1 DEF Carried
  <2>4. Ordered'
    BY <2>1, <2>2 DEF Ordered, Kills
  <2>5. \A x \in Nodes : Buried(x)' <=> Buried(x)
    BY <1>1, <1>7, <2>1, <2>2 DEF Buried, Kills
  <2>6. Graves'
    BY <1>1, <1>4, <2>1, <2>5 DEF Graves, Kills
  <2>7. InSequence'
    BY <1>1, <1>4, <2>1 DEF InSequence, Behind
  <2>8. QED
    BY <1>5, <1>6, <2>3, <2>4, <2>6, <2>7
<1>8. CASE batch' = <<>>
  <2>1. UNCHANGED <<status, hops, trail, log>>
    BY <1>1
  <2>2. Carried'
    <3>1. ASSUME NEW i \in (trail \ audit') \ dropped
          PROVE  \E j \in 1..Len(Pending') : Pending'[j].kind = "hop" /\ Pending'[j].id = i
      BY <1>4, <1>8, <2>1, <3>1, BatchLeaves
    <3>2. QED
      BY <1>1, <1>8, <2>1, <3>1, BatchLeaves DEF Carried
  <2>3. Ordered'
    BY <1>8, <2>1, BatchLeaves
  <2>4. \A x \in Nodes : Buried(x) => Buried(x)'
    BY <1>8, <2>1, BatchLeaves
  <2>5. Graves'
    BY <1>1, <1>4, <1>8, <2>1, <2>4, BatchLeaves DEF Graves, Kills
  <2>6. InSequence'
    <3>1. \A i \in 1..Len(Pending') : \E j \in 1..Len(Pending) : Pending'[i] = Pending[j]
      BY <1>8, <2>1, BatchLeaves
    <3>2. QED
      BY <1>1, <1>4, <3>1 DEF InSequence, Behind
  <2>7. QED
    BY <1>5, <1>6, <2>2, <2>3, <2>5, <2>6
<1>9. QED
  BY <1>1, <1>7, <1>8

LEMMA DropKeeps == ASSUME StoreInv, DropBatch PROVE StoreInv'
<1> USE DEF StoreInv
<1>1. /\ batch' = <<>> /\ dropped' = dropped \cup HopsOf(batch)
      /\ UNCHANGED <<status, demoted, hops, trail, log, row, rowDemoted, audit, toRecord, pc, overtaken>>
  BY DEF DropBatch, graphVars, storeVars, evalVars
<1>2. UNCHANGED <<status, hops, trail, log>>
  BY <1>1
<1>3. TypeInv'
  BY <1>1 DEF TypeInv, Ids
<1>4. \A j \in 1..Len(batch) : batch[j].kind = "hop" => batch[j].id \in dropped'
  <2>1. DOMAIN batch = 1..Len(batch)
    BY LenProperties DEF TypeInv
  <2>2. \A j \in 1..Len(batch) : batch[j] \in ToSet(batch)
    BY <2>1 DEF ToSet
  <2>3. QED
    BY <1>1, <2>2 DEF HopsOf
<1>5. Carried'
  <2>1. ASSUME NEW i \in (trail \ audit) \ dropped'
        PROVE  \E j \in 1..Len(Pending') : Pending'[j].kind = "hop" /\ Pending'[j].id = i
    BY <1>1, <1>2, <1>4, <2>1, BatchLeaves
  <2>2. QED
    BY <1>1, <1>2, <2>1, BatchLeaves DEF Carried
<1>6. Ordered'
  BY <1>1, <1>2, BatchLeaves
<1>7. Graves'
  <2>1. \A x \in Nodes : Buried(x) => Buried(x)'
    BY <1>1, <1>2, BatchLeaves
  <2>2. QED
    BY <1>1, <1>2, <2>1, BatchLeaves DEF Graves, Kills
<1>8. InSequence'
  <2>1. \A i \in 1..Len(Pending') : \E j \in 1..Len(Pending) : Pending'[i] = Pending[j]
    BY <1>1, <1>2, BatchLeaves
  <2>2. QED
    BY <1>1, <2>1 DEF InSequence, Behind
<1>9. Current'
  BY <1>1 DEF Current, UpToDate, Store
<1>10. QED
  BY <1>3, <1>5, <1>6, <1>7, <1>8, <1>9

LEMMA DrainKeeps == ASSUME StoreInv, Drain PROVE StoreInv'
<1> USE DEF StoreInv
<1>1. /\ batch' = batch \o log /\ log' = <<>>
      /\ UNCHANGED <<status, demoted, hops, trail, row, rowDemoted, audit, toRecord, pc, dropped,
                     overtaken>>
  BY DEF Drain, storeVars, evalVars
<1>2. Pending \in Seq(Mutations) /\ Len(Pending) \in Nat /\ Len(batch) \in Nat /\ Len(batch) <= Len(Pending)
  BY PendingShape
<1>3. batch' = Pending /\ Pending' = Pending
  <2> HIDE DEF Mutations
  <2>1. QED
    BY <1>1, <1>2, ConcatEmptySeq DEF Pending
<1>4. TypeInv'
  <2> HIDE DEF Mutations
  <2>1. log' \in Seq(Mutations) /\ batch' \in Seq(Mutations)
    BY <1>1, <1>2, <1>3
  <2>2. QED
    BY <1>1, <2>1 DEF TypeInv, Ids
<1>5. \A i, x : Revives(Pending[i], x)' <=> Revives(Pending[i], x)
  BY <1>1, <1>3 DEF Revives
<1>6. Carried' /\ InSequence' /\ Current'
  BY <1>1, <1>3 DEF Carried, InSequence, Behind, Current, UpToDate, Store
<1>7. Ordered'
  BY <1>3, <1>5 DEF Ordered, Kills
<1>8. \A x \in Nodes : Buried(x) => Buried(x)'
  <2>1. 1..Len(batch) \subseteq 1..Len(batch')
    BY <1>2, <1>3
  <2>2. QED
    BY <1>1, <1>3, <1>5, <2>1 DEF Buried, Kills
<1>9. Graves'
  BY <1>1, <1>3, <1>8 DEF Graves, Kills
<1>10. QED
  BY <1>4, <1>6, <1>7, <1>9

LEMMA RestartKeeps == ASSUME StoreInv, Restart PROVE StoreInv'
<1>1. /\ status' = row /\ demoted' = rowDemoted /\ trail' = audit
      /\ log' = <<>> /\ batch' = <<>> /\ toRecord' = <<>> /\ pc' = "idle"
      /\ UNCHANGED <<hops, row, rowDemoted, audit, overtaken>>
  BY DEF Restart, storeVars
<1>2. Pending' = <<>>
  BY <1>1 DEF Pending
<1>3. 1..Len(Pending') = {}
  BY <1>2
<1>4. TypeInv'
  BY <1>1 DEF StoreInv, TypeInv, Ids
<1>5. Carried' /\ Ordered' /\ InSequence'
  BY <1>1, <1>3 DEF Carried, Ordered, InSequence, Behind
<1>6. Graves'
  BY <1>1, <1>3 DEF StoreInv, Graves, Buried
<1>7. Current'
  BY <1>1 DEF StoreInv, Current, UpToDate, Store
<1>8. QED
  BY <1>4, <1>5, <1>6, <1>7 DEF StoreInv

LEMMA StoreInvInit == Init => StoreInv
<1> SUFFICES ASSUME Init PROVE StoreInv
  OBVIOUS
<1>1. setup.status \in [Nodes -> Alive \cup {"absent"}]
  BY Bounds DEF Init
<1>2. /\ status = setup.status /\ row = setup.status /\ hops = <<>> /\ trail = {} /\ audit = {}
      /\ log = <<>> /\ batch = <<>> /\ toRecord = <<>> /\ pc = "idle"
      /\ demoted = [n \in Nodes |-> 0] /\ rowDemoted = demoted
  BY DEF Init
<1>3. Pending = <<>>
  BY <1>2 DEF Pending
<1>4. 1..Len(Pending) = {}
  BY <1>3
<1>5. TypeInv
  BY <1>1, <1>2 DEF TypeInv, Statuses
<1>6. Carried /\ Ordered /\ InSequence
  BY <1>2, <1>4 DEF Carried, Ordered, InSequence, Behind
<1>7. Graves
  <2>1. \A n \in Nodes : row[n] # "gone"
    BY <1>1, <1>2 DEF Alive
  <2>2. QED
    BY <1>2, <1>4, <2>1 DEF Graves
<1>8. Current
  BY <1>2 DEF Current, UpToDate, Store
<1>9. QED
  BY <1>5, <1>6, <1>7, <1>8 DEF StoreInv

LEMMA StoreInvStep == IInv /\ StoreInv /\ [Next]_vars => StoreInv'
<1> SUFFICES ASSUME IInv, StoreInv, [Next]_vars PROVE StoreInv'
  OBVIOUS
<1>1. CASE \/ \E n \in Nodes : Create(n) \/ Bump(n)
           \/ Sweep \/ (\E G \in setup.goals : SetRootGoal(G)) \/ StoreFails \/ Apply
  <2>1. /\ \E more : Extends(more)
        /\ toRecord' \in Seq(Nat) /\ \A i \in 1..Len(toRecord') : toRecord'[i] \in trail'
        /\ pc' = "recording" => toRecord' # <<>>
    BY <1>1, WritersExtend DEF StoreInv
  <2>2. QED
    BY <2>1, ExtendsKeeps
<1>2. CASE (\E s, t \in Nodes : Contradict(s, t)) \/ CooldownEnds \/ Gather \/ Abort \/ UNCHANGED vars
  <2>1. UNCHANGED <<status, demoted, hops, trail, log, batch, storeVars, dropped, overtaken>>
    BY <1>2 DEF Contradict, CooldownEnds, Gather, Abort, vars, graphVars
  <2>2. /\ (toRecord' = toRecord /\ (pc' = pc \/ pc' = "asking")) \/ (toRecord' = <<>> /\ pc' = "stopped")
    BY <1>2 DEF Contradict, CooldownEnds, Gather, Abort, vars, evalVars
  <2>3. /\ toRecord \in Seq(Nat) /\ \A i \in 1..Len(toRecord) : toRecord[i] \in trail
        /\ pc = "recording" => toRecord # <<>>
    BY DEF StoreInv, TypeInv
  <2>4. CASE toRecord' = toRecord /\ (pc' = pc \/ pc' = "asking")
    <3>1. /\ toRecord' \in Seq(Nat) /\ \A i \in 1..Len(toRecord') : toRecord'[i] \in trail
          /\ pc' = "recording" => toRecord' # <<>>
      BY <2>3, <2>4
    <3>2. QED
      BY <2>1, <3>1, SameStore
  <2>5. CASE toRecord' = <<>> /\ pc' = "stopped"
    <3>1. <<>> \in Seq(Nat) /\ 1..Len(<<>>) = {}
      OBVIOUS
    <3>2. /\ toRecord' \in Seq(Nat) /\ \A i \in 1..Len(toRecord') : toRecord'[i] \in trail
          /\ pc' = "recording" => toRecord' # <<>>
      BY <2>5, <3>1
    <3>3. QED
      BY <2>1, <3>2, SameStore
  <2>6. QED
    BY <2>2, <2>4, <2>5
<1>3. CASE RecordNext \/ RecordStops
  <2>1. /\ pc = "recording" /\ toRecord # <<>> /\ toRecord \in Seq(Nat)
        /\ \A i \in 1..Len(toRecord) : toRecord[i] \in trail
    BY <1>3 DEF RecordNext, RecordStops, StoreInv, TypeInv
  <2>2. Head(toRecord) \in trail /\ Tail(toRecord) \in Seq(Nat)
        /\ \A i \in 1..Len(Tail(toRecord)) : Tail(toRecord)[i] \in trail
    <3>1. /\ Tail(toRecord) \in Seq(Nat) /\ Len(Tail(toRecord)) = Len(toRecord) - 1
          /\ \A i \in 1..Len(Tail(toRecord)) : Tail(toRecord)[i] = toRecord[i + 1]
      BY <2>1, HeadTailProperties
    <3>2. Len(toRecord) \in Nat /\ Len(toRecord) >= 1 /\ Head(toRecord) = toRecord[1]
      BY <2>1
    <3>3. QED
      BY <2>1, <3>1, <3>2
  <2>3. /\ toRecord' \in {<<>>, Tail(toRecord)}
        /\ pc' = "recording" => toRecord' # <<>>
        /\ UNCHANGED <<status, demoted, hops, trail, log, batch, dropped>>
        /\ DirectWrite(Head(toRecord)) \/ UNCHANGED <<storeVars, overtaken>>
    BY <1>3 DEF RecordNext, RecordStops, Finish, graphVars
  <2>4. toRecord' \in Seq(Nat) /\ \A i \in 1..Len(toRecord') : toRecord'[i] \in trail
    <3>1. CASE toRecord' = <<>>
      <4>1. <<>> \in Seq(Nat) /\ 1..Len(<<>>) = {}
        OBVIOUS
      <4>2. QED
        BY <3>1, <4>1
    <3>2. CASE toRecord' = Tail(toRecord)
      BY <2>2, <3>2
    <3>3. QED
      BY <2>3, <3>1, <3>2
  <2>5. CASE DirectWrite(Head(toRecord))
    BY <2>2, <2>3, <2>4, <2>5, DirectWriteKeeps
  <2>6. CASE UNCHANGED <<storeVars, overtaken>>
    BY <2>3, <2>4, <2>6, SameStore
  <2>7. QED
    BY <2>3, <2>5, <2>6
<1>4. CASE Drain
  BY <1>4, DrainKeeps
<1>5. CASE Flush
  BY <1>5, FlushKeeps
<1>6. CASE Restart
  BY <1>6, RestartKeeps
<1>7. CASE DropBatch
  BY <1>7, DropKeeps
<1>8. QED
  BY <1>1, <1>2, <1>3, <1>4, <1>5, <1>6, <1>7 DEF Next

LEMMA StoreInvariance == Spec => []StoreInv
<1>1. QED
  BY StoreInvInit, StoreInvStep, Invariance, PTL DEF Spec

(* A hop of the graph's audit trail is in the durable audit, or a flush still *)
(* carries it, unless the loop gave up the batch it was in.                   *)
THEOREM HopsReachTheStore == Spec => []NoHopLost
<1>1. StoreInv => NoHopLost
  <2> SUFFICES ASSUME StoreInv, NEW i \in (trail \ audit) \ dropped PROVE i \in InFlight
    BY DEF NoHopLost
  <2>1. PICK j \in 1..Len(Pending) : Pending[j].kind = "hop" /\ Pending[j].id = i
    BY DEF StoreInv, Carried
  <2>2. i \in InFlight
    BY <2>1, PendingInFlight DEF StoreInv
  <2>3. QED
    BY <2>2
<1>2. QED
  BY <1>1, StoreInvariance, PTL

(* The durable status of a concept whose hops reached the store in order is   *)
(* that of its newest audited hop.                                            *)
THEOREM RowsStayNewest == Spec => []RowIsNewest
<1>1. StoreInv => RowIsNewest
  <2> SUFFICES ASSUME StoreInv, NEW n \in Nodes \ overtaken, row[n] \in Alive
               PROVE  row[n] = NewestStatus(n)
    BY DEF RowIsNewest
  <2> DEFINE known == {i \in audit : hops[i].node = n}
  <2>1. NewestStatus(n) = IF known = {} THEN row[n] ELSE hops[Max(known)].to
    BY DEF NewestStatus
  <2>2. CASE known = {}
    BY <2>1, <2>2
  <2>3. CASE known # {}
    <3>1. Len(hops) \in Nat /\ known \in SUBSET (0..Len(hops)) /\ \A i \in known : i \in Int
      <4>1. hops \in Seq(HopRecords) /\ known \subseteq 1..Len(hops)
        BY DEF StoreInv, TypeInv, Ids
      <4> HIDE DEF known
      <4>2. Len(hops) \in Nat
        BY <4>1
      <4>3. QED
        BY <4>1, <4>2
    <3>2. \E m \in known : \A k \in known : k <= m
      <4> HIDE DEF known
      <4>1. QED
        BY <2>3, <3>1, Greatest
    <3>3. \E m \in known : \A k \in known : m >= k
      BY <3>1, <3>2
    <3> DEFINE top == Max(known)
    <3>4. top \in known /\ \A k \in known : top >= k
      <4> HIDE DEF known
      <4>1. QED
        BY <3>3 DEF Max
    <3> HIDE DEF top
    <3>5. top \in audit /\ hops[top].node = n /\ \A j \in audit : hops[j].node = n => j <= top
      BY <3>1, <3>4
    <3>6. UpToDate(Store, n) /\ Store.audit = audit /\ Store.row = row
      BY DEF StoreInv, Current, Store
    <3>7. row[n] = hops[top].to
      BY <3>5, <3>6 DEF UpToDate
    <3>8. QED
      BY <2>1, <2>3, <3>7 DEF top
  <2>4. QED
    BY <2>2, <2>3
<1>2. QED
  BY <1>1, StoreInvariance, PTL
(* A concept whose row the store deleted was collected, and every write of it *)
(* that is still pending, as when a lost answer makes the flush send a batch  *)
(* again, is in a batch that holds the deletion after it.                     *)
THEOREM DeadStayBuried == Spec => []Graves
<1>1. StoreInv => Graves
  BY DEF StoreInv
<1>2. QED
  BY <1>1, StoreInvariance, PTL
=============================================================================
