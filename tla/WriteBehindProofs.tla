------------------------- MODULE WriteBehindProofs -------------------------
(***************************************************************************)
(* Proofs about WriteBehind for every set of concepts, every number of     *)
(* mutations and of accesses, and every bound on the log and on a batch.   *)
(*                                                                         *)
(* A mutation is in one of three places, the log, the loop's batch or the  *)
(* tail of a close, and the tail and the batch are never both in use. Each *)
(* of the properties is about what an operation may do to the three, to    *)
(* the store and to what the graph remembers of them.                      *)
(***************************************************************************)
EXTENDS WriteBehind, FiniteSetTheorems, TLAPS

Counts == [Concepts -> Nat]

MutationsOK ==
  /\ nextWrite \in 0..MaxWrite
  /\ log \in Seq(Writes) /\ pending \in Seq(Writes) /\ tail \in Seq(Writes)
  /\ stored \subseteq Writes /\ deadLettered \subseteq Writes /\ shed \subseteq Writes
CountsOK ==
  /\ count \in Counts /\ logAcc \in Counts /\ pendingAcc \in Counts
  /\ tailAcc \in Counts /\ storedAcc \in Counts
  /\ dirty \subseteq Concepts /\ shedAcc \subseteq Concepts
EpochsOK ==
  /\ unflushed \in [Concepts -> 0..PINNED]
  /\ drainedAt \in 0..MaxWrite /\ caughtUp \in 0..MaxWrite
  /\ pendingEpoch \in 0..MaxWrite /\ tailEpoch \in 0..MaxWrite /\ storeEpoch \in 0..MaxWrite
ControlOK ==
  /\ loop \in {"top", "select", "drained", "flushing", "exited"}
  /\ tick \in BOOLEAN /\ applied \in BOOLEAN /\ hold \in BOOLEAN /\ degraded \in BOOLEAN
  /\ lease \in {"ours", "taken", "erased"}
  /\ heartbeat \in {"beating", "saw_loss", "dying", "stopped"}
  /\ closing \in {"open", "shut", "fenced_join", "producer_joins", "flush_join", "final_drain",
                  "final_flush", "lease_release", "failed", "succeeded"}
GatesOK ==
  /\ holdsAccesses \in BOOLEAN /\ stopPermit \in BOOLEAN /\ producersJoined \in BOOLEAN
  /\ fence \in BOOLEAN
TypeOK == MutationsOK /\ CountsOK /\ EpochsOK /\ ControlOK /\ GatesOK

\* Who is where: the final steps of a close run without the loop and without
\* a producer, only they hold a tail, and only they leave accesses in the log.
PlacesInv ==
  /\ loop = "exited" => pending = <<>> /\ pendingAcc = NoAccess
  /\ loop # "exited" => logAcc = NoAccess
  /\ closing \in {"flush_join", "final_drain", "final_flush", "lease_release", "succeeded"} =>
       producersJoined
  /\ closing \in {"final_drain", "final_flush", "lease_release", "succeeded"} => loop = "exited"
  /\ closing # "final_flush" => tail = <<>> /\ tailAcc = NoAccess
  /\ closing = "final_flush" => log = <<>> /\ logAcc = NoAccess /\ dirty = {}
  /\ closing \in {"lease_release", "succeeded"} => log = <<>>
  /\ closing \in {"final_flush", "lease_release", "succeeded"} => ~degraded
  /\ closing = "fenced_join" => fence

\* What an attempt that the store has committed holds is in the store.
AppliedInv ==
  /\ applied /\ loop = "flushing" =>
       ToSet(pending) \subseteq stored /\ \A c \in Concepts : pendingAcc[c] <= storedAcc[c]
  /\ applied /\ closing = "final_flush" =>
       ToSet(tail) \subseteq stored /\ \A c \in Concepts : tailAcc[c] <= storedAcc[c]

\* A loop that lives has shed nothing unless it is degraded.
ShedInv ==
  /\ loop = "flushing" => ~degraded
  /\ shed # {} => degraded \/ (fence /\ loop = "exited")

Increasing(s) == \A i, j \in 1..Len(s) : i < j => s[i] < s[j]

\* The three places are in order, and with the store and what was dropped
\* they make up all that was appended.
OrderInv ==
  /\ Increasing(log) /\ Increasing(pending) /\ Increasing(tail)
  /\ \A v \in ToSet(pending), w \in ToSet(log) : v < w
  /\ Appended = stored \cup Dropped \cup ToSet(tail) \cup ToSet(pending) \cup ToSet(log)

\* A batch's epoch covers what it holds, and what the loop has not drained
\* came after its drain and after its batch's epoch.
EpochInv ==
  /\ \A w \in stored : EpochAt(w) <= storeEpoch
  /\ \A w \in ToSet(pending) : EpochAt(w) <= pendingEpoch
  /\ \A w \in ToSet(tail) : EpochAt(w) <= tailEpoch
  /\ pendingEpoch <= Epoch
  /\ loop # "exited" =>
       \A w \in ToSet(log) : Target[w] # NoConcept => pendingEpoch < EpochAt(w)
  /\ loop \in {"drained", "flushing"} =>
       drainedAt <= nextWrite /\ \A w \in ToSet(log) : drainedAt < w

\* The latest write of its concept.
Latest(w) == /\ Target[w] # NoConcept
             /\ \A v \in w + 1 .. nextWrite : Target[v] # Target[w]

\* The mark of a concept whose latest write is not in the store is pinned, or
\* is that write's epoch; only a loop that is gone drops a write unpinned.
MarksInv ==
  \A w \in Appended : Latest(w) =>
    \/ w \in stored
    \/ unflushed[Target[w]] = PINNED
    \/ unflushed[Target[w]] = EpochAt(w) /\ (w \in Dropped => loop = "exited")

\* No copy of a count is ahead of it, and what is taken out of the dirty set
\* while the batch holds none is all that the batch holds.
CountsInv ==
  /\ \A c \in Concepts : /\ storedAcc[c] <= count[c] /\ pendingAcc[c] <= count[c]
                         /\ logAcc[c] <= count[c] /\ tailAcc[c] <= count[c]
                         /\ c \in dirty => count[c] > 0
  /\ ~holdsAccesses => pendingAcc = NoAccess

LagInv == \A w \in 1..caughtUp : w \in stored \cup deadLettered

IInv ==
  /\ TypeOK /\ PlacesInv /\ AppliedInv /\ ShedInv /\ OrderInv /\ EpochInv /\ MarksInv
  /\ CountsInv /\ LagInv /\ StoredInOrder /\ AccessesKept

-----------------------------------------------------------------------------
(* Sequences, epochs and counts.                                           *)

LEMMA Zero == MaxWrite \in Nat /\ 0 \in 0..MaxWrite
BY FlushAssumption

LEMMA Empty == ToSet(<<>>) = {} /\ Increasing(<<>>)
BY DEF ToSet, Increasing

LEMMA Concat ==
  ASSUME NEW s \in Seq(Writes), NEW t \in Seq(Writes)
  PROVE  /\ s \o t \in Seq(Writes)
         /\ ToSet(s \o t) = ToSet(s) \cup ToSet(t)
         /\ Increasing(s) /\ Increasing(t) /\ (\A v \in ToSet(s), w \in ToSet(t) : v < w) =>
              Increasing(s \o t)
<1>1. /\ s \o t \in Seq(Writes) /\ Len(s) \in Nat /\ Len(t) \in Nat
      /\ Len(s \o t) = Len(s) + Len(t)
      /\ DOMAIN s = 1..Len(s) /\ DOMAIN t = 1..Len(t) /\ DOMAIN (s \o t) = 1..(Len(s) + Len(t))
      /\ \A i \in 1..Len(s) : (s \o t)[i] = s[i]
      /\ \A i \in 1..Len(t) : (s \o t)[Len(s) + i] = t[i]
  OBVIOUS
<1>2. \A i \in 1..(Len(s) + Len(t)) : i \in 1..Len(s) \/ i - Len(s) \in 1..Len(t)
  BY <1>1
<1>3. \A i \in 1..(Len(s) + Len(t)) : i \notin 1..Len(s) => (s \o t)[i] = t[i - Len(s)]
  <2> TAKE i \in 1..(Len(s) + Len(t))
  <2> HAVE i \notin 1..Len(s)
  <2>1. i - Len(s) \in 1..Len(t) /\ Len(s) + (i - Len(s)) = i
    BY <1>1, <1>2
  <2>2. QED
    BY <1>1, <2>1
<1>4. ToSet(s \o t) = ToSet(s) \cup ToSet(t)
  <2>1. ToSet(s \o t) \subseteq ToSet(s) \cup ToSet(t)
    BY <1>1, <1>2, <1>3 DEF ToSet
  <2>2. ToSet(s) \subseteq ToSet(s \o t)
    BY <1>1 DEF ToSet
  <2>3. ToSet(t) \subseteq ToSet(s \o t)
    <3> SUFFICES ASSUME NEW i \in 1..Len(t) PROVE t[i] \in ToSet(s \o t)
      BY <1>1 DEF ToSet
    <3>1. Len(s) + i \in 1..(Len(s) + Len(t))
      BY <1>1
    <3>2. QED
      BY <1>1, <3>1 DEF ToSet
  <2>4. QED
    BY <2>1, <2>2, <2>3
<1>5. ASSUME Increasing(s), Increasing(t), \A v \in ToSet(s), w \in ToSet(t) : v < w
      PROVE  Increasing(s \o t)
  <2> SUFFICES ASSUME NEW i \in 1..Len(s \o t), NEW j \in 1..Len(s \o t), i < j
               PROVE  (s \o t)[i] < (s \o t)[j]
    BY DEF Increasing
  <2>1. CASE j \in 1..Len(s)
    <3>1. i \in 1..Len(s)
      BY <1>1, <2>1
    <3>2. QED
      BY <1>1, <1>5, <2>1, <3>1 DEF Increasing
  <2>2. CASE j \notin 1..Len(s) /\ i \in 1..Len(s)
    <3>1. (s \o t)[i] \in ToSet(s) /\ (s \o t)[j] \in ToSet(t)
      BY <1>1, <1>2, <1>3, <2>2 DEF ToSet
    <3>2. QED
      BY <1>5, <3>1
  <2>3. CASE j \notin 1..Len(s) /\ i \notin 1..Len(s)
    <3>1. /\ i - Len(s) \in 1..Len(t) /\ j - Len(s) \in 1..Len(t) /\ i - Len(s) < j - Len(s)
          /\ (s \o t)[i] = t[i - Len(s)] /\ (s \o t)[j] = t[j - Len(s)]
      BY <1>1, <1>2, <1>3, <2>3
    <3>2. QED
      BY <1>5, <3>1 DEF Increasing
  <2>4. QED
    BY <2>1, <2>2, <2>3
<1>6. QED
  BY <1>1, <1>4, <1>5

LEMMA OneMore ==
  ASSUME NEW s \in Seq(Writes), NEW w \in Writes
  PROVE  /\ Append(s, w) \in Seq(Writes)
         /\ ToSet(Append(s, w)) = ToSet(s) \cup {w}
         /\ Increasing(s) /\ (\A v \in ToSet(s) : v < w) => Increasing(Append(s, w))
<1>1. /\ Append(s, w) \in Seq(Writes) /\ Len(s) \in Nat /\ Len(Append(s, w)) = Len(s) + 1
      /\ DOMAIN s = 1..Len(s) /\ DOMAIN Append(s, w) = 1..(Len(s) + 1)
      /\ \A i \in 1..Len(s) : Append(s, w)[i] = s[i]
      /\ Append(s, w)[Len(s) + 1] = w
  OBVIOUS
<1>2. ToSet(Append(s, w)) = ToSet(s) \cup {w}
  <2>1. \A i \in 1..(Len(s) + 1) : i \in 1..Len(s) \/ i = Len(s) + 1
    BY <1>1
  <2>2. 1..Len(s) \subseteq 1..(Len(s) + 1) /\ Len(s) + 1 \in 1..(Len(s) + 1)
    BY <1>1
  <2>3. QED
    BY <1>1, <2>1, <2>2 DEF ToSet
<1>3. ASSUME Increasing(s), \A v \in ToSet(s) : v < w
      PROVE  Increasing(Append(s, w))
  <2> SUFFICES ASSUME NEW i \in 1..(Len(s) + 1), NEW j \in 1..(Len(s) + 1), i < j
               PROVE  Append(s, w)[i] < Append(s, w)[j]
    BY <1>1 DEF Increasing
  <2>1. i \in 1..Len(s)
    BY <1>1
  <2>2. CASE j \in 1..Len(s)
    BY <1>1, <1>3, <2>1, <2>2 DEF Increasing
  <2>3. CASE j = Len(s) + 1
    BY <1>1, <1>3, <2>1, <2>3 DEF ToSet
  <2>4. QED
    BY <1>1, <2>2, <2>3
<1>4. QED
  BY <1>1, <1>2, <1>3

LEMMA InSeq ==
  ASSUME NEW s \in Seq(Writes)
  PROVE  ToSet(s) \subseteq Writes /\ (ToSet(s) = {} => s = <<>>)
<1>1. Len(s) \in Nat /\ DOMAIN s = 1..Len(s) /\ \A i \in 1..Len(s) : s[i] \in Writes
  OBVIOUS
<1>2. ToSet(s) \subseteq Writes
  BY <1>1 DEF ToSet
<1>3. Len(s) # 0 => s[1] \in ToSet(s)
  BY <1>1 DEF ToSet
<1>4. QED
  BY <1>1, <1>2, <1>3

\* Epochs count the mutations that are no intents.
LEMMA Epochs ==
  ASSUME NEW w \in 0..MaxWrite
  PROVE  /\ EpochAt(w) \in 0..w
         /\ \A v \in 0..w : EpochAt(v) <= EpochAt(w)
         /\ w \in Writes /\ Target[w] # NoConcept =>
              \A v \in 0..(w - 1) : EpochAt(v) < EpochAt(w)
<1> DEFINE Counted(v) == {x \in 1..v : Target[x] # NoConcept}
<1>0. MaxWrite \in Nat /\ w \in Nat
  BY FlushAssumption
<1>1. \A v \in 0..w : /\ IsFiniteSet(Counted(v)) /\ Cardinality(Counted(v)) \in Nat
                      /\ Cardinality(Counted(v)) <= v
  <2> TAKE v \in 0..w
  <2>1. v \in Int /\ v >= 0
    BY <1>0
  <2>2. IsFiniteSet(1..v) /\ Cardinality(1..v) = IF 1 > v THEN 0 ELSE v - 1 + 1
    BY <2>1, FS_Interval
  <2>3. Counted(v) \subseteq 1..v
    OBVIOUS
  <2>4. IsFiniteSet(Counted(v)) /\ Cardinality(Counted(v)) <= Cardinality(1..v)
    BY <2>2, <2>3, FS_Subset
  <2>5. Cardinality(Counted(v)) \in Nat
    BY <2>4, FS_CardinalityType
  <2>6. QED
    BY <2>1, <2>2, <2>4, <2>5
<1>2. \A v \in 0..w : Cardinality(Counted(v)) <= Cardinality(Counted(w))
  <2> TAKE v \in 0..w
  <2>1. Counted(v) \subseteq Counted(w) /\ w \in 0..w
    BY <1>0
  <2>2. QED
    BY <1>1, <2>1, FS_Subset
<1>3. ASSUME w \in Writes, Target[w] # NoConcept, NEW v \in 0..(w - 1)
      PROVE  Cardinality(Counted(v)) < Cardinality(Counted(w))
  <2>1. Counted(v) \subseteq Counted(w) /\ w \in Counted(w) /\ w \notin Counted(v)
        /\ v \in 0..w /\ w \in 0..w
    BY <1>0, <1>3
  <2>2. Counted(v) # Counted(w)
    BY <2>1
  <2>3. Cardinality(Counted(v)) <= Cardinality(Counted(w))
        /\ (Cardinality(Counted(v)) = Cardinality(Counted(w)) => Counted(v) = Counted(w))
    BY <1>1, <2>1, FS_Subset
  <2>4. QED
    BY <1>1, <2>1, <2>2, <2>3
<1>4. QED
  <2>1. \A v \in 0..w : EpochAt(v) = Cardinality(Counted(v))
    BY DEF EpochAt
  <2>2. w \in 0..w
    BY <1>0
  <2> HIDE DEF Counted
  <2>3. \A v \in 0..(w - 1) : v \in 0..w
    BY <1>0
  <2>4. QED
    BY <1>0, <1>1, <1>2, <1>3, <2>1, <2>2, <2>3

LEMMA NewWrite ==
  ASSUME MutationsOK, Append1
  PROVE  /\ nextWrite \in 0..MaxWrite /\ nextWrite \in Nat
         /\ nextWrite + 1 \in Writes /\ nextWrite + 1 \in 0..MaxWrite
BY Zero DEF MutationsOK, Append1, Writes

LEMMA NewEpoch ==
  ASSUME MutationsOK, Append1
  PROVE  /\ EpochAt(nextWrite) \in Int /\ EpochAt(nextWrite + 1) \in 0..PINNED
         /\ EpochAt(nextWrite) <= EpochAt(nextWrite + 1)
         /\ Target[nextWrite + 1] # NoConcept =>
              EpochAt(nextWrite) < EpochAt(nextWrite + 1)
<1>1. nextWrite \in 0..(nextWrite + 1) /\ nextWrite \in 0..((nextWrite + 1) - 1)
  BY NewWrite
<1>2. EpochAt(nextWrite) \in 0..nextWrite
  BY NewWrite, Epochs
<1>3. EpochAt(nextWrite + 1) \in 0..(nextWrite + 1)
  BY NewWrite, Epochs
<1>4. EpochAt(nextWrite) <= EpochAt(nextWrite + 1)
  BY <1>1, NewWrite, Epochs
<1>5. Target[nextWrite + 1] # NoConcept => EpochAt(nextWrite) < EpochAt(nextWrite + 1)
  BY <1>1, NewWrite, Epochs
<1>6. QED
  BY <1>2, <1>3, <1>4, <1>5, NewWrite, Zero DEF PINNED

LEMMA Budgets ==
  ASSUME NEW held \in Nat
  PROVE  AccessBudget(held) \in Nat /\ AccessBudget(held) <= AccessBudget(0)
<1>1. LogMax \in Nat /\ LogMax \div 2 \in Nat
  BY FlushAssumption
<1>2. QED
  BY <1>1 DEF AccessBudget, Higher

LEMMA NoneCarried ==
  /\ NoAccess \in Counts /\ Carried(NoAccess) = {}
  /\ Cardinality(Carried(NoAccess)) = 0 /\ 0 <= AccessBudget(0)
<1>1. NoAccess \in Counts /\ Carried(NoAccess) = {}
  BY DEF NoAccess, Carried, Counts
<1>2. QED
  BY <1>1, FS_EmptySet, Budgets

LEMMA NothingHeld ==
  ASSUME CountsOK, PendingLen = 0, pending \in Seq(Writes)
  PROVE  ToSet(pending) = {}
<1>1. IsFiniteSet(Carried(pendingAcc))
  BY FlushAssumption, FS_Subset DEF Carried
<1>2. Cardinality(Carried(pendingAcc)) \in Nat /\ Len(pending) \in Nat
  BY <1>1, FS_CardinalityType
<1>3. Len(pending) = 0
  BY <1>2 DEF PendingLen
<1>4. QED
  BY <1>3 DEF ToSet

-----------------------------------------------------------------------------
(* What a cycle that finds or leaves its batch in the store may claim, and *)
(* what becomes of the marks of a batch that is dropped.                   *)

LEMMA CaughtUp ==
  ASSUME IInv, loop \in {"drained", "flushing"}, ~degraded, ToSet(pending) \subseteq stored
  PROVE  \A w \in 1..drainedAt : w \in stored \cup deadLettered
<1> SUFFICES ASSUME NEW w \in 1..drainedAt PROVE w \in stored \cup deadLettered
  OBVIOUS
<1>1. drainedAt \in Nat /\ nextWrite \in Nat /\ drainedAt <= nextWrite
  BY Zero DEF IInv, TypeOK, MutationsOK, EpochsOK, EpochInv
<1>2. w \in Appended
  BY <1>1 DEF Appended
<1>3. ToSet(tail) = {} /\ shed = {}
  BY Empty DEF IInv, PlacesInv, ShedInv
<1>4. w \notin ToSet(log)
  BY <1>1 DEF IInv, EpochInv
<1>5. QED
  BY <1>2, <1>3, <1>4 DEF IInv, OrderInv, Dropped

LEMMA NothingDirty ==
  ASSUME IInv, TailEmpty
  PROVE  dirty = {}
<1> SUFFICES ASSUME NEW c \in dirty PROVE FALSE
  OBVIOUS
<1>1. c \in Concepts /\ count[c] \in Nat /\ count[c] > 0 /\ logAcc[c] \in Nat
  BY DEF IInv, TypeOK, CountsOK, CountsInv, Counts
<1>2. TailAcc[c] # 0
  BY <1>1 DEF TailAcc, HigherAcc, Higher, DirtyAcc
<1>3. QED
  BY <1>1, <1>2 DEF TailEmpty, Carried

\* What was appended is no later than now.
LEMMA LogEpochs ==
  ASSUME IInv
  PROVE  /\ Epoch \in 0..MaxWrite
         /\ \A w \in ToSet(log) : EpochAt(w) \in Int /\ EpochAt(w) <= Epoch
<1>1. nextWrite \in 0..MaxWrite /\ MaxWrite \in Nat
  BY Zero DEF IInv, TypeOK, MutationsOK
<1>2. \A w \in ToSet(log) : w \in 0..nextWrite /\ w \in 0..MaxWrite
  BY <1>1 DEF IInv, OrderInv, Appended
<1>3. QED
  BY <1>1, <1>2, Epochs DEF Epoch

\* A drain takes counts out of the dirty set only into a batch without any.
LEMMA DrainCounts ==
  ASSUME IInv, NEW onTick \in BOOLEAN, Drain(onTick)
  PROVE  \E A \in SUBSET dirty :
           /\ dirty' = dirty \ A
           /\ pendingAcc' = [c \in Concepts |-> IF c \in A THEN count[c] ELSE pendingAcc[c]]
           /\ holdsAccesses' = (holdsAccesses \/ A # {})
           /\ A # {} => /\ pendingAcc = NoAccess /\ IsFiniteSet(A)
                        /\ Cardinality(A) <= AccessBudget(0)
<1> DEFINE held == Len(pending) + Len(log) + Cardinality(Carried(pendingAcc))
<1>1. held \in Nat
  <2>1. IsFiniteSet(Carried(pendingAcc))
    BY FlushAssumption, FS_Subset DEF Carried
  <2>2. QED
    BY <2>1, FS_CardinalityType DEF IInv, TypeOK, MutationsOK
<1> HIDE DEF held
<1>2. PICK A \in AccessesTaken(held) :
        /\ dirty' = dirty \ A
        /\ pendingAcc' = [c \in Concepts |-> IF c \in A THEN count[c]
                                             ELSE Higher(pendingAcc[c], logAcc[c])]
        /\ holdsAccesses' = (holdsAccesses \/ A # {})
  BY DEF Drain, held
<1>3. logAcc = NoAccess
  BY DEF IInv, PlacesInv, Drain
<1>4. pendingAcc' = [c \in Concepts |-> IF c \in A THEN count[c] ELSE pendingAcc[c]]
  BY <1>2, <1>3 DEF IInv, TypeOK, CountsOK, Counts, NoAccess, Higher
<1>5. A \in SUBSET dirty
  BY <1>2 DEF AccessesTaken
<1>6. ASSUME A # {}
      PROVE  pendingAcc = NoAccess /\ IsFiniteSet(A) /\ Cardinality(A) <= AccessBudget(0)
  <2>1. ~holdsAccesses
    BY <1>2, <1>6 DEF AccessesTaken
  <2>2. IsFiniteSet(dirty) /\ IsFiniteSet(A)
    BY <1>5, FlushAssumption, FS_Subset DEF IInv, TypeOK, CountsOK
  <2>3. /\ Cardinality(dirty) \in Nat
        /\ Cardinality(A) = IF Cardinality(dirty) < AccessBudget(held)
                            THEN Cardinality(dirty) ELSE AccessBudget(held)
    BY <1>2, <1>6, <2>2, FS_CardinalityType DEF AccessesTaken
  <2>4. Cardinality(A) <= AccessBudget(0)
    <3>1. /\ AccessBudget(held) \in Nat /\ AccessBudget(0) \in Nat
          /\ AccessBudget(held) <= AccessBudget(0)
      BY <1>1, Budgets
    <3>2. QED
      BY <2>3, <3>1
  <2>5. QED
    BY <2>1, <2>2, <2>4 DEF IInv, CountsInv
<1>7. QED
  BY <1>2, <1>4, <1>5, <1>6

LEMMA DropMarks ==
  ASSUME IInv, unflushed' = Pinned(pending), UNCHANGED <<nextWrite, stored>>,
         Dropped' = Dropped \cup ToSet(pending), loop = "exited" => loop' = "exited"
  PROVE  MarksInv'
<1> SUFFICES ASSUME NEW w \in Appended, Latest(w), w \notin stored
             PROVE  \/ unflushed'[Target[w]] = PINNED
                    \/ /\ unflushed'[Target[w]] = EpochAt(w)
                       /\ w \in Dropped' => loop' = "exited"
  BY DEF MarksInv, Appended, Latest
<1>1. Target[w] \in Concepts
  BY FlushAssumption DEF Latest, Appended, Writes, IInv, TypeOK, MutationsOK
<1>2. \/ unflushed'[Target[w]] = PINNED
      \/ unflushed'[Target[w]] = unflushed[Target[w]] /\ w \notin ToSet(pending)
  BY <1>1 DEF Pinned
<1>3. QED
  BY <1>2 DEF IInv, MarksInv

LEMMA InitInv == Init => IInv
<1> SUFFICES ASSUME Init PROVE IInv
  OBVIOUS
<1>1. ToSet(log) = {} /\ ToSet(pending) = {} /\ ToSet(tail) = {}
  BY Empty DEF Init
<1>2. MutationsOK
  BY Zero DEF Init, MutationsOK
<1>3. CountsOK
  BY NoneCarried DEF Init, CountsOK
<1>4. EpochsOK
  BY Zero DEF Init, EpochsOK, PINNED
<1>5. ControlOK
  BY DEF Init, ControlOK
<1>6. PlacesInv /\ AppliedInv /\ ShedInv /\ LagInv /\ StoredInOrder
  BY DEF Init, PlacesInv, AppliedInv, ShedInv, LagInv, StoredInOrder
<1>7. OrderInv
  BY <1>1, Empty DEF Init, OrderInv, Appended, Dropped
<1>8. EpochInv
  <2>1. Epoch \in 0..0
    BY Zero, Epochs DEF Init, Epoch
  <2>2. QED
    BY <1>1, <2>1 DEF Init, EpochInv
<1>9. MarksInv
  BY DEF Init, MarksInv, Appended
<1>10. CountsInv
  BY NoneCarried DEF Init, CountsInv, NoAccess, Counts
<1>11. AccessesKept
  BY NoneCarried DEF Init, AccessesKept
<1>12. GatesOK
  BY DEF Init, GatesOK
<1>13. QED
  BY <1>12, <1>2, <1>3, <1>4, <1>5, <1>6, <1>7, <1>8, <1>9, <1>10, <1>11 DEF IInv, TypeOK

-----------------------------------------------------------------------------
(* Steps that leave the mutations and the counts where they are.           *)

USE DEF graphVars, batchVars, cycleVars, statVars, storeVars, fenceVars, tailVars, closeVars,
        pastVars

LEMMA QuietStep ==
  ASSUME IInv,
         UNCHANGED <<graphVars, batchVars, storeVars, tailVars, pastVars, caughtUp>>,
         loop' = "exited" <=> loop = "exited",
         loop' \in {"drained", "flushing"} =>
           loop \in {"drained", "flushing"} /\ drainedAt' = drainedAt,
         applied' /\ loop' = "flushing" => applied /\ loop = "flushing",
         applied' /\ closing' = "final_flush" => applied /\ closing = "final_flush",
         EpochsOK', ControlOK', GatesOK', PlacesInv', ShedInv'
  PROVE  IInv'
<1>0. MutationsOK' /\ CountsOK'
  BY DEF IInv, TypeOK, MutationsOK, CountsOK
<1>1. AppliedInv'
  BY DEF IInv, AppliedInv
<1>2. OrderInv'
  BY DEF IInv, OrderInv, Appended, Dropped
<1>3. EpochInv'
  BY DEF IInv, EpochInv, Epoch
<1>4. MarksInv'
  BY DEF IInv, MarksInv, Appended, Latest, Dropped
<1>5. CountsInv'
  BY DEF IInv, CountsInv
<1>6. LagInv'
  BY DEF IInv, LagInv
<1>7. StoredInOrder'
  BY DEF IInv, StoredInOrder, Dropped
<1>8. AccessesKept'
  BY DEF IInv, AccessesKept
<1>9. QED
  BY <1>0, <1>1, <1>2, <1>3, <1>4, <1>5, <1>6, <1>7, <1>8 DEF IInv, TypeOK

LEMMA QuietSteps ==
  ASSUME IInv,
         \/ Degrade \/ Waits \/ Attempt \/ FlushRetried \/ FlushRetained \/ FlushRefusedErased
         \/ LoopWaits \/ LoseSession \/ HeartbeatSees \/ HeartbeatLatches \/ CanonRefusedErased
         \/ CloseBegin \/ CloseReadsFence \/ CloseFenced \/ CloseProducersJoined
         \/ CloseFlushJoined \/ CloseDropped \/ CloseSucceeds
  PROVE  IInv'
<1>1. CASE Degrade
  <2>1. EpochsOK'
    BY Zero, <1>1 DEF IInv, TypeOK, EpochsOK, Degrade, CycleEnds
  <2>2. ControlOK'
    BY <1>1 DEF IInv, TypeOK, ControlOK, Degrade, CycleEnds
  <2>3. GatesOK'
    BY <1>1 DEF IInv, TypeOK, GatesOK, Degrade, CycleEnds
  <2>4. PlacesInv' /\ ShedInv'
    BY <1>1 DEF IInv, PlacesInv, ShedInv, Degrade, CycleEnds
  <2>5. QED
    BY <1>1, <2>1, <2>2, <2>3, <2>4, QuietStep DEF IInv, PlacesInv, Degrade, CycleEnds
<1>2. CASE Waits
  <2>1. EpochsOK'
    BY Zero, <1>2 DEF IInv, TypeOK, EpochsOK, Waits, CycleEnds
  <2>2. ControlOK'
    BY <1>2 DEF IInv, TypeOK, ControlOK, Waits, CycleEnds
  <2>3. GatesOK'
    BY <1>2 DEF IInv, TypeOK, GatesOK, Waits, CycleEnds
  <2>4. PlacesInv' /\ ShedInv'
    BY <1>2 DEF IInv, PlacesInv, ShedInv, Waits, MayFlush, OverLogMax, CycleEnds
  <2>5. QED
    BY <1>2, <2>1, <2>2, <2>3, <2>4, QuietStep DEF IInv, PlacesInv, Waits, MayFlush,
       OverLogMax, CycleEnds
<1>3. CASE Attempt
  <2>1. EpochsOK'
    BY <1>3 DEF IInv, TypeOK, EpochsOK, Attempt
  <2>2. ControlOK'
    BY <1>3 DEF IInv, TypeOK, ControlOK, Attempt
  <2>3. GatesOK'
    BY <1>3 DEF IInv, TypeOK, GatesOK, Attempt
  <2>4. PlacesInv' /\ ShedInv'
    BY <1>3 DEF IInv, PlacesInv, ShedInv, Attempt, MayFlush
  <2>5. QED
    BY <1>3, <2>1, <2>2, <2>3, <2>4, QuietStep DEF IInv, PlacesInv, Attempt, MayFlush
<1>4. CASE FlushRetried
  <2>1. EpochsOK'
    BY <1>4 DEF IInv, TypeOK, EpochsOK, FlushRetried
  <2>2. ControlOK'
    BY <1>4 DEF IInv, TypeOK, ControlOK, FlushRetried
  <2>3. GatesOK'
    BY <1>4 DEF IInv, TypeOK, GatesOK, FlushRetried
  <2>4. PlacesInv' /\ ShedInv'
    BY <1>4 DEF IInv, PlacesInv, ShedInv, FlushRetried
  <2>5. QED
    BY <1>4, <2>1, <2>2, <2>3, <2>4, QuietStep DEF IInv, PlacesInv, FlushRetried
<1>5. CASE FlushRetained
  <2>1. EpochsOK'
    BY Zero, <1>5 DEF IInv, TypeOK, EpochsOK, FlushRetained, CycleEnds
  <2>2. ControlOK'
    BY <1>5 DEF IInv, TypeOK, ControlOK, FlushRetained, CycleEnds
  <2>3. GatesOK'
    BY <1>5 DEF IInv, TypeOK, GatesOK, FlushRetained, CycleEnds
  <2>4. PlacesInv' /\ ShedInv'
    BY <1>5 DEF IInv, PlacesInv, ShedInv, FlushRetained, CycleEnds
  <2>5. QED
    BY <1>5, <2>1, <2>2, <2>3, <2>4, QuietStep DEF IInv, PlacesInv, FlushRetained, CycleEnds
<1>6. CASE FlushRefusedErased
  <2>1. EpochsOK'
    BY Zero, <1>6 DEF IInv, TypeOK, EpochsOK, FlushRefusedErased, CycleEnds
  <2>2. ControlOK'
    BY <1>6 DEF IInv, TypeOK, ControlOK, FlushRefusedErased, CycleEnds
  <2>3. GatesOK'
    BY <1>6 DEF IInv, TypeOK, GatesOK, FlushRefusedErased, CycleEnds
  <2>4. PlacesInv' /\ ShedInv'
    BY <1>6 DEF IInv, PlacesInv, ShedInv, FlushRefusedErased, CycleEnds
  <2>5. QED
    BY <1>6, <2>1, <2>2, <2>3, <2>4, QuietStep DEF IInv, PlacesInv, FlushRefusedErased,
       CycleEnds
<1>7. CASE LoopWaits
  <2>1. EpochsOK'
    BY <1>7 DEF IInv, TypeOK, EpochsOK, LoopWaits
  <2>2. ControlOK'
    BY <1>7 DEF IInv, TypeOK, ControlOK, LoopWaits
  <2>3. GatesOK'
    BY <1>7 DEF IInv, TypeOK, GatesOK, LoopWaits
  <2>4. PlacesInv' /\ ShedInv'
    BY <1>7 DEF IInv, PlacesInv, ShedInv, LoopWaits
  <2>5. QED
    BY <1>7, <2>1, <2>2, <2>3, <2>4, QuietStep DEF IInv, PlacesInv, LoopWaits
<1>8. CASE LoseSession
  <2>1. EpochsOK'
    BY <1>8 DEF IInv, TypeOK, EpochsOK, LoseSession
  <2>2. ControlOK'
    BY <1>8 DEF IInv, TypeOK, ControlOK, LoseSession
  <2>3. GatesOK'
    BY <1>8 DEF IInv, TypeOK, GatesOK, LoseSession
  <2>4. PlacesInv' /\ ShedInv'
    BY <1>8 DEF IInv, PlacesInv, ShedInv, LoseSession
  <2>5. QED
    BY <1>8, <2>1, <2>2, <2>3, <2>4, QuietStep DEF IInv, PlacesInv, LoseSession
<1>9. CASE HeartbeatSees
  <2>1. EpochsOK'
    BY <1>9 DEF IInv, TypeOK, EpochsOK, HeartbeatSees
  <2>2. ControlOK'
    BY <1>9 DEF IInv, TypeOK, ControlOK, HeartbeatSees
  <2>3. GatesOK'
    BY <1>9 DEF IInv, TypeOK, GatesOK, HeartbeatSees
  <2>4. PlacesInv' /\ ShedInv'
    BY <1>9 DEF IInv, PlacesInv, ShedInv, HeartbeatSees
  <2>5. QED
    BY <1>9, <2>1, <2>2, <2>3, <2>4, QuietStep DEF IInv, PlacesInv, HeartbeatSees
<1>10. CASE HeartbeatLatches
  <2>1. EpochsOK'
    BY <1>10 DEF IInv, TypeOK, EpochsOK, HeartbeatLatches
  <2>2. ControlOK'
    BY <1>10 DEF IInv, TypeOK, ControlOK, HeartbeatLatches
  <2>3. GatesOK'
    BY <1>10 DEF IInv, TypeOK, GatesOK, HeartbeatLatches
  <2>4. PlacesInv' /\ ShedInv'
    BY <1>10 DEF IInv, PlacesInv, ShedInv, HeartbeatLatches
  <2>5. QED
    BY <1>10, <2>1, <2>2, <2>3, <2>4, QuietStep DEF IInv, PlacesInv, HeartbeatLatches
<1>11. CASE CanonRefusedErased
  <2>1. EpochsOK'
    BY <1>11 DEF IInv, TypeOK, EpochsOK, CanonRefusedErased
  <2>2. ControlOK'
    BY <1>11 DEF IInv, TypeOK, ControlOK, CanonRefusedErased
  <2>3. GatesOK'
    BY <1>11 DEF IInv, TypeOK, GatesOK, CanonRefusedErased
  <2>4. PlacesInv' /\ ShedInv'
    BY <1>11 DEF IInv, PlacesInv, ShedInv, CanonRefusedErased
  <2>5. QED
    BY <1>11, <2>1, <2>2, <2>3, <2>4, QuietStep DEF IInv, PlacesInv, CanonRefusedErased
<1>12. CASE CloseBegin
  <2>1. EpochsOK'
    BY <1>12 DEF IInv, TypeOK, EpochsOK, CloseBegin
  <2>2. ControlOK'
    BY <1>12 DEF IInv, TypeOK, ControlOK, CloseBegin
  <2>3. GatesOK'
    BY <1>12 DEF IInv, TypeOK, GatesOK, CloseBegin
  <2>4. PlacesInv' /\ ShedInv'
    BY <1>12 DEF IInv, PlacesInv, ShedInv, CloseBegin
  <2>5. QED
    BY <1>12, <2>1, <2>2, <2>3, <2>4, QuietStep DEF IInv, PlacesInv, CloseBegin
<1>13. CASE CloseReadsFence
  <2>1. EpochsOK'
    BY <1>13 DEF IInv, TypeOK, EpochsOK, CloseReadsFence
  <2>2. ControlOK'
    BY <1>13 DEF IInv, TypeOK, ControlOK, CloseReadsFence
  <2>3. GatesOK'
    BY <1>13 DEF IInv, TypeOK, GatesOK, CloseReadsFence
  <2>4. PlacesInv' /\ ShedInv'
    BY <1>13 DEF IInv, PlacesInv, ShedInv, CloseReadsFence
  <2>5. QED
    BY <1>13, <2>1, <2>2, <2>3, <2>4, QuietStep DEF IInv, PlacesInv, CloseReadsFence
<1>14. CASE CloseFenced
  <2>1. EpochsOK'
    BY <1>14 DEF IInv, TypeOK, EpochsOK, CloseFenced
  <2>2. ControlOK'
    BY <1>14 DEF IInv, TypeOK, ControlOK, CloseFenced
  <2>3. GatesOK'
    BY <1>14 DEF IInv, TypeOK, GatesOK, CloseFenced
  <2>4. PlacesInv' /\ ShedInv'
    BY <1>14 DEF IInv, PlacesInv, ShedInv, CloseFenced
  <2>5. QED
    BY <1>14, <2>1, <2>2, <2>3, <2>4, QuietStep DEF IInv, PlacesInv, CloseFenced
<1>15. CASE CloseProducersJoined
  <2>1. EpochsOK'
    BY <1>15 DEF IInv, TypeOK, EpochsOK, CloseProducersJoined
  <2>2. ControlOK'
    BY <1>15 DEF IInv, TypeOK, ControlOK, CloseProducersJoined
  <2>3. GatesOK'
    BY <1>15 DEF IInv, TypeOK, GatesOK, CloseProducersJoined
  <2>4. PlacesInv' /\ ShedInv'
    BY <1>15 DEF IInv, PlacesInv, ShedInv, CloseProducersJoined
  <2>5. QED
    BY <1>15, <2>1, <2>2, <2>3, <2>4, QuietStep DEF IInv, PlacesInv, CloseProducersJoined
<1>16. CASE CloseFlushJoined
  <2>1. EpochsOK'
    BY <1>16 DEF IInv, TypeOK, EpochsOK, CloseFlushJoined
  <2>2. ControlOK'
    BY <1>16 DEF IInv, TypeOK, ControlOK, CloseFlushJoined
  <2>3. GatesOK'
    BY <1>16 DEF IInv, TypeOK, GatesOK, CloseFlushJoined
  <2>4. PlacesInv' /\ ShedInv'
    BY <1>16 DEF IInv, PlacesInv, ShedInv, CloseFlushJoined, FlushJoined
  <2>5. QED
    BY <1>16, <2>1, <2>2, <2>3, <2>4, QuietStep DEF IInv, PlacesInv, CloseFlushJoined,
       FlushJoined
<1>17. CASE CloseDropped
  <2>1. EpochsOK'
    BY <1>17 DEF IInv, TypeOK, EpochsOK, CloseDropped
  <2>2. ControlOK'
    BY <1>17 DEF IInv, TypeOK, ControlOK, CloseDropped
  <2>3. GatesOK'
    BY <1>17 DEF IInv, TypeOK, GatesOK, CloseDropped
  <2>4. PlacesInv' /\ ShedInv'
    BY <1>17 DEF IInv, PlacesInv, ShedInv, CloseDropped
  <2>5. QED
    BY <1>17, <2>1, <2>2, <2>3, <2>4, QuietStep DEF IInv, PlacesInv, CloseDropped
<1>18. CASE CloseSucceeds
  <2>1. EpochsOK'
    BY <1>18 DEF IInv, TypeOK, EpochsOK, CloseSucceeds
  <2>2. ControlOK'
    BY <1>18 DEF IInv, TypeOK, ControlOK, CloseSucceeds
  <2>3. GatesOK'
    BY <1>18 DEF IInv, TypeOK, GatesOK, CloseSucceeds
  <2>4. PlacesInv' /\ ShedInv'
    BY <1>18 DEF IInv, PlacesInv, ShedInv, CloseSucceeds
  <2>5. QED
    BY <1>18, <2>1, <2>2, <2>3, <2>4, QuietStep DEF IInv, PlacesInv, CloseSucceeds
<1>19. QED
  BY <1>1, <1>2, <1>3, <1>4, <1>5, <1>6, <1>7, <1>8, <1>9, <1>10, <1>11, <1>12, <1>13, <1>14,
     <1>15, <1>16, <1>17, <1>18

-----------------------------------------------------------------------------
(* Steps that move mutations or counts, one lemma for each action.        *)

LEMMA FoundNothingStep ==
  ASSUME IInv, FoundNothing
  PROVE  IInv'
<1>1. MutationsOK'
  BY DEF IInv, TypeOK, MutationsOK, FoundNothing
<1>2. CountsOK'
  BY DEF IInv, TypeOK, CountsOK, FoundNothing
<1>3. EpochsOK'
  BY Zero DEF IInv, TypeOK, EpochsOK, FoundNothing, CycleEnds
<1>4. ControlOK'
  BY DEF IInv, TypeOK, ControlOK, FoundNothing, CycleEnds
<1>5. GatesOK'
  BY DEF IInv, TypeOK, GatesOK, FoundNothing
<1>6. PlacesInv'
  BY DEF IInv, PlacesInv, FoundNothing, CycleEnds
<1>7. AppliedInv'
  BY DEF IInv, AppliedInv, FoundNothing, CycleEnds
<1>8. ShedInv'
  BY DEF IInv, ShedInv, FoundNothing, CycleEnds
<1>9. OrderInv'
  BY DEF IInv, OrderInv, Appended, Dropped, FoundNothing
<1>10. EpochInv'
  BY DEF IInv, EpochInv, Epoch, FoundNothing, CycleEnds
<1>11. MarksInv'
  BY DEF IInv, MarksInv, Appended, Latest, Dropped, FoundNothing, CycleEnds
<1>12. CountsInv'
  BY DEF IInv, CountsInv, FoundNothing
<1>13. LagInv'
  <2>1. CASE degraded
    BY <2>1 DEF IInv, LagInv, FoundNothing
  <2>2. CASE ~degraded
    <3>1. ToSet(pending) = {}
      BY NothingHeld DEF IInv, TypeOK, MutationsOK, FoundNothing
    <3>2. QED
      BY <2>2, <3>1, CaughtUp DEF FoundNothing, LagInv
  <2>3. QED
    BY <2>1, <2>2
<1>14. StoredInOrder'
  BY DEF IInv, StoredInOrder, Dropped, FoundNothing
<1>15. AccessesKept'
  BY DEF IInv, AccessesKept, FoundNothing
<1>16. QED
  BY <1>1, <1>2, <1>3, <1>4, <1>5, <1>6, <1>7, <1>8, <1>9, <1>10, <1>11, <1>12, <1>13, <1>14,
     <1>15 DEF IInv, TypeOK

LEMMA DropsDegradedStep ==
  ASSUME IInv, DropsDegraded
  PROVE  IInv'
<1>1. MutationsOK'
  BY InSeq DEF IInv, TypeOK, MutationsOK, DropsDegraded, ClearPending, DropPending
<1>2. CountsOK'
  BY NoneCarried DEF IInv, TypeOK, CountsOK, Carried, DropsDegraded, ClearPending, DropPending
<1>3. EpochsOK'
  BY Zero DEF IInv, TypeOK, EpochsOK, PINNED, DropsDegraded, CycleEnds, ClearPending,
     DropPending, Pinned
<1>4. ControlOK'
  BY DEF IInv, TypeOK, ControlOK, DropsDegraded, CycleEnds
<1>5. GatesOK'
  BY DEF IInv, TypeOK, GatesOK, DropsDegraded, ClearPending, DropPending
<1>6. PlacesInv'
  BY NoneCarried DEF IInv, PlacesInv, DropsDegraded, CycleEnds, ClearPending, DropPending
<1>7. AppliedInv'
  BY DEF IInv, AppliedInv, DropsDegraded, CycleEnds, ClearPending, DropPending
<1>8. ShedInv'
  BY DEF IInv, ShedInv, DropsDegraded, CycleEnds
<1>9. OrderInv'
  BY Empty DEF IInv, OrderInv, Appended, Dropped, DropsDegraded, ClearPending, DropPending
<1>10. EpochInv'
  BY Empty DEF IInv, EpochInv, Epoch, DropsDegraded, CycleEnds, ClearPending, DropPending
<1>11. MarksInv'
  BY DropMarks DEF Dropped, DropsDegraded, DropPending
<1>12. CountsInv'
  BY NoneCarried DEF IInv, CountsInv, TypeOK, CountsOK, Counts, NoAccess, DropsDegraded,
     ClearPending, DropPending
<1>13. LagInv'
  BY DEF IInv, LagInv, DropsDegraded
<1>14. StoredInOrder'
  BY DEF IInv, StoredInOrder, Dropped, DropsDegraded
<1>15. AccessesKept'
  BY NoneCarried DEF IInv, AccessesKept, CountsInv, TypeOK, CountsOK, Carried, NoAccess,
     DropsDegraded, ClearPending, DropPending
<1>16. QED
  BY <1>1, <1>2, <1>3, <1>4, <1>5, <1>6, <1>7, <1>8, <1>9, <1>10, <1>11, <1>12, <1>13, <1>14,
     <1>15 DEF IInv, TypeOK

LEMMA FlushDeadLetteredStep ==
  ASSUME IInv, FlushDeadLettered
  PROVE  IInv'
<1>1. MutationsOK'
  BY InSeq DEF IInv, TypeOK, MutationsOK, FlushDeadLettered, ClearPending, DropPending
<1>2. CountsOK'
  BY NoneCarried DEF IInv, TypeOK, CountsOK, Carried, FlushDeadLettered, ClearPending,
     DropPending
<1>3. EpochsOK'
  BY Zero DEF IInv, TypeOK, EpochsOK, PINNED, FlushDeadLettered, CycleEnds, ClearPending,
     DropPending, Pinned
<1>4. ControlOK'
  BY DEF IInv, TypeOK, ControlOK, FlushDeadLettered, CycleEnds
<1>5. GatesOK'
  BY DEF IInv, TypeOK, GatesOK, FlushDeadLettered, ClearPending, DropPending
<1>6. PlacesInv'
  BY NoneCarried DEF IInv, PlacesInv, FlushDeadLettered, CycleEnds, ClearPending, DropPending
<1>7. AppliedInv'
  BY DEF IInv, AppliedInv, FlushDeadLettered, CycleEnds, ClearPending, DropPending
<1>8. ShedInv'
  BY DEF IInv, ShedInv, FlushDeadLettered, CycleEnds
<1>9. OrderInv'
  BY Empty DEF IInv, OrderInv, Appended, Dropped, FlushDeadLettered, ClearPending, DropPending
<1>10. EpochInv'
  BY Empty DEF IInv, EpochInv, Epoch, FlushDeadLettered, CycleEnds, ClearPending, DropPending
<1>11. MarksInv'
  BY DropMarks DEF Dropped, FlushDeadLettered, DropPending
<1>12. CountsInv'
  BY NoneCarried DEF IInv, CountsInv, TypeOK, CountsOK, Counts, NoAccess, FlushDeadLettered,
     ClearPending, DropPending
<1>13. LagInv'
  BY DEF IInv, LagInv, FlushDeadLettered
<1>14. StoredInOrder'
  BY DEF IInv, StoredInOrder, Dropped, FlushDeadLettered
<1>15. AccessesKept'
  BY NoneCarried DEF IInv, AccessesKept, CountsInv, TypeOK, CountsOK, Carried, NoAccess,
     FlushDeadLettered, ClearPending, DropPending
<1>16. QED
  BY <1>1, <1>2, <1>3, <1>4, <1>5, <1>6, <1>7, <1>8, <1>9, <1>10, <1>11, <1>12, <1>13, <1>14,
     <1>15 DEF IInv, TypeOK

LEMMA LoopFencedStep ==
  ASSUME IInv, LoopFenced
  PROVE  IInv'
<1>1. MutationsOK'
  BY InSeq DEF IInv, TypeOK, MutationsOK, LoopFenced, ClearPending, DropPending
<1>2. CountsOK'
  BY NoneCarried DEF IInv, TypeOK, CountsOK, Carried, LoopFenced, ClearPending, DropPending
<1>3. EpochsOK'
  BY Zero DEF IInv, TypeOK, EpochsOK, PINNED, LoopFenced, ClearPending, DropPending, Pinned
<1>4. ControlOK'
  BY DEF IInv, TypeOK, ControlOK, LoopFenced
<1>5. GatesOK'
  BY DEF IInv, TypeOK, GatesOK, LoopFenced, ClearPending, DropPending
<1>6. PlacesInv'
  BY NoneCarried DEF IInv, PlacesInv, LoopFenced, ClearPending, DropPending
<1>7. AppliedInv'
  BY DEF IInv, AppliedInv, LoopFenced, ClearPending, DropPending
<1>8. ShedInv'
  BY DEF IInv, ShedInv, LoopFenced
<1>9. OrderInv'
  BY Empty DEF IInv, OrderInv, Appended, Dropped, LoopFenced, ClearPending, DropPending
<1>10. EpochInv'
  BY Empty DEF IInv, EpochInv, Epoch, LoopFenced, ClearPending, DropPending
<1>11. MarksInv'
  BY DropMarks DEF Dropped, LoopFenced, DropPending
<1>12. CountsInv'
  BY NoneCarried DEF IInv, CountsInv, TypeOK, CountsOK, Counts, NoAccess, LoopFenced,
     ClearPending, DropPending
<1>13. LagInv'
  BY DEF IInv, LagInv, LoopFenced
<1>14. StoredInOrder'
  BY DEF IInv, StoredInOrder, Dropped, LoopFenced
<1>15. AccessesKept'
  BY NoneCarried DEF IInv, AccessesKept, CountsInv, TypeOK, CountsOK, Carried, NoAccess,
     LoopFenced, ClearPending, DropPending
<1>16. QED
  BY <1>1, <1>2, <1>3, <1>4, <1>5, <1>6, <1>7, <1>8, <1>9, <1>10, <1>11, <1>12, <1>13, <1>14,
     <1>15 DEF IInv, TypeOK

LEMMA LoopAbortedStep ==
  ASSUME IInv, LoopAborted
  PROVE  IInv'
<1>1. MutationsOK'
  BY InSeq DEF IInv, TypeOK, MutationsOK, LoopAborted, ClearPending
<1>2. CountsOK'
  BY NoneCarried DEF IInv, TypeOK, CountsOK, Carried, LoopAborted, ClearPending
<1>3. EpochsOK'
  BY Zero DEF IInv, TypeOK, EpochsOK, PINNED, LoopAborted, ClearPending
<1>4. ControlOK'
  BY DEF IInv, TypeOK, ControlOK, LoopAborted
<1>5. GatesOK'
  BY DEF IInv, TypeOK, GatesOK, LoopAborted, ClearPending
<1>6. PlacesInv'
  BY NoneCarried DEF IInv, PlacesInv, LoopAborted, ClearPending
<1>7. AppliedInv'
  BY DEF IInv, AppliedInv, LoopAborted, ClearPending
<1>8. ShedInv'
  BY DEF IInv, ShedInv, PlacesInv, LoopAborted
<1>9. OrderInv'
  BY Empty DEF IInv, OrderInv, Appended, Dropped, LoopAborted, ClearPending
<1>10. EpochInv'
  BY Empty DEF IInv, EpochInv, Epoch, LoopAborted, ClearPending
<1>11. MarksInv'
  BY DEF IInv, MarksInv, Appended, Latest, Dropped, LoopAborted
<1>12. CountsInv'
  BY NoneCarried DEF IInv, CountsInv, TypeOK, CountsOK, Counts, NoAccess, LoopAborted,
     ClearPending
<1>13. LagInv'
  BY DEF IInv, LagInv, LoopAborted
<1>14. StoredInOrder'
  BY DEF IInv, StoredInOrder, Dropped, LoopAborted
<1>15. AccessesKept'
  BY NoneCarried DEF IInv, AccessesKept, CountsInv, TypeOK, CountsOK, Carried, NoAccess,
     LoopAborted, ClearPending
<1>16. QED
  BY <1>1, <1>2, <1>3, <1>4, <1>5, <1>6, <1>7, <1>8, <1>9, <1>10, <1>11, <1>12, <1>13, <1>14,
     <1>15 DEF IInv, TypeOK

LEMMA FlushOkStep ==
  ASSUME IInv, FlushOk
  PROVE  IInv'
<1>1. MutationsOK'
  BY InSeq DEF IInv, TypeOK, MutationsOK, FlushOk, ClearPending
<1>2. CountsOK'
  BY NoneCarried DEF IInv, TypeOK, CountsOK, Carried, FlushOk, ClearPending
<1>3. EpochsOK'
  BY Zero DEF IInv, TypeOK, EpochsOK, PINNED, FlushOk, CycleEnds, ClearPending, DurableThrough,
     CaughtUpAt
<1>4. ControlOK'
  BY DEF IInv, TypeOK, ControlOK, FlushOk, CycleEnds, Confirmed
<1>5. GatesOK'
  BY DEF IInv, TypeOK, GatesOK, FlushOk, ClearPending
<1>6. PlacesInv'
  BY NoneCarried DEF IInv, PlacesInv, FlushOk, CycleEnds, ClearPending
<1>7. AppliedInv'
  BY DEF IInv, AppliedInv, FlushOk, CycleEnds, ClearPending, Confirmed
<1>8. ShedInv'
  BY DEF IInv, ShedInv, FlushOk, CycleEnds
<1>9. OrderInv'
  BY Empty DEF IInv, OrderInv, Appended, Dropped, AppliedInv, Confirmed, FlushOk, ClearPending
<1>10. EpochInv'
  BY Empty DEF IInv, EpochInv, Epoch, FlushOk, CycleEnds, ClearPending
<1>11. MarksInv'
  <2> SUFFICES ASSUME NEW w \in Appended, Latest(w), w \notin stored
               PROVE  \/ unflushed'[Target[w]] = PINNED
                      \/ unflushed'[Target[w]] = EpochAt(w) /\ w \notin Dropped
    BY DEF MarksInv, Appended, Latest, Dropped, FlushOk
  <2>1. Target[w] \in Concepts /\ w \in 0..MaxWrite
    BY FlushAssumption DEF Latest, Appended, Writes, IInv, TypeOK, MutationsOK
  <2>2. unflushed'[Target[w]] = IF unflushed[Target[w]] <= pendingEpoch THEN 0
                                ELSE unflushed[Target[w]]
    BY <2>1 DEF FlushOk, DurableThrough
  <2>3. pendingEpoch < PINNED
    BY Zero DEF IInv, TypeOK, EpochsOK, PINNED
  <2>4. CASE unflushed[Target[w]] = PINNED
    BY <2>2, <2>3, <2>4, Zero DEF IInv, TypeOK, EpochsOK, PINNED
  <2>5. CASE unflushed[Target[w]] = EpochAt(w) /\ w \notin Dropped
    <3>1. w \in ToSet(log)
      BY <2>5, Empty DEF IInv, OrderInv, AppliedInv, PlacesInv, FlushOk, Confirmed
    <3>2. pendingEpoch < EpochAt(w)
      BY <3>1 DEF IInv, EpochInv, FlushOk, Latest
    <3>3. EpochAt(w) \in Int /\ pendingEpoch \in Int
      BY <2>1, Epochs, Zero DEF IInv, TypeOK, EpochsOK
    <3>4. QED
      BY <2>2, <2>5, <3>2, <3>3
  <2>6. QED
    BY <2>4, <2>5 DEF IInv, MarksInv, FlushOk
<1>12. CountsInv'
  BY NoneCarried DEF IInv, CountsInv, TypeOK, CountsOK, Counts, NoAccess, FlushOk, ClearPending
<1>13. LagInv'
  BY CaughtUp DEF IInv, LagInv, AppliedInv, ShedInv, FlushOk, Confirmed, CaughtUpAt
<1>14. StoredInOrder'
  BY DEF IInv, StoredInOrder, Dropped, FlushOk
<1>15. AccessesKept'
  BY NoneCarried DEF IInv, AccessesKept, AppliedInv, Confirmed, CountsInv, TypeOK, CountsOK,
     Counts, NoAccess, FlushOk, ClearPending
<1>16. QED
  BY <1>1, <1>2, <1>3, <1>4, <1>5, <1>6, <1>7, <1>8, <1>9, <1>10, <1>11, <1>12, <1>13, <1>14,
     <1>15 DEF IInv, TypeOK

LEMMA StoreTakesBatchStep ==
  ASSUME IInv, StoreTakesBatch
  PROVE  IInv'
<1>1. MutationsOK'
  BY InSeq DEF IInv, TypeOK, MutationsOK, StoreTakesBatch, Commits
<1>2. CountsOK'
  BY DEF IInv, TypeOK, CountsOK, Counts, Higher, StoreTakesBatch, Commits, HigherAcc
<1>3. EpochsOK'
  BY Zero DEF IInv, TypeOK, EpochsOK, Higher, StoreTakesBatch, Commits
<1>4. ControlOK'
  BY DEF IInv, TypeOK, ControlOK, StoreTakesBatch
<1>5. GatesOK'
  BY DEF IInv, TypeOK, GatesOK, StoreTakesBatch
<1>6. PlacesInv'
  BY DEF IInv, PlacesInv, StoreTakesBatch, HigherAcc
<1>7. AppliedInv'
  BY DEF IInv, AppliedInv, PlacesInv, TypeOK, CountsOK, Counts, Higher, StoreTakesBatch,
     Commits, HigherAcc
<1>8. ShedInv'
  BY DEF IInv, ShedInv, StoreTakesBatch
<1>9. OrderInv'
  BY DEF IInv, OrderInv, Appended, Dropped, StoreTakesBatch, Commits
<1>10. EpochInv'
  <2>1. \A w \in stored' : EpochAt(w) \in Nat
    BY <1>1, Epochs DEF MutationsOK, Writes
  <2>2. storeEpoch \in Int /\ pendingEpoch \in Int
    BY Zero DEF IInv, TypeOK, EpochsOK
  <2>3. storeEpoch' >= storeEpoch /\ storeEpoch' >= pendingEpoch /\ storeEpoch' \in Int
    BY <2>2 DEF StoreTakesBatch, Commits, Higher
  <2>4. \A w \in stored' : EpochAt(w) <= storeEpoch'
    BY <2>1, <2>2, <2>3 DEF IInv, EpochInv, StoreTakesBatch, Commits
  <2>5. QED
    BY <2>4 DEF IInv, EpochInv, Epoch, StoreTakesBatch
<1>11. MarksInv'
  BY DEF IInv, MarksInv, Appended, Latest, Dropped, StoreTakesBatch, Commits
<1>12. CountsInv'
  BY DEF IInv, CountsInv, TypeOK, CountsOK, Counts, Higher, StoreTakesBatch, Commits, HigherAcc
<1>13. LagInv'
  BY DEF IInv, LagInv, StoreTakesBatch, Commits
<1>14. StoredInOrder'
  <2> SUFFICES ASSUME NEW v \in Writes, NEW w \in Writes, v < w, w \in stored'
               PROVE  v \in stored' \cup Dropped
    BY DEF StoredInOrder, Dropped, StoreTakesBatch
  <2>1. CASE w \in stored
    BY <2>1 DEF IInv, StoredInOrder, StoreTakesBatch, Commits
  <2>2. CASE w \notin stored
    <3>1. w \in ToSet(pending)
      BY <2>2 DEF StoreTakesBatch, Commits
    <3>2. v \in Appended
      BY <3>1, Zero DEF IInv, OrderInv, Appended, Writes, TypeOK, MutationsOK
    <3>3. ToSet(tail) = {} /\ v \notin ToSet(log)
      BY <3>1, Empty DEF IInv, PlacesInv, OrderInv, Writes, StoreTakesBatch
    <3>4. QED
      BY <3>2, <3>3 DEF IInv, OrderInv, StoreTakesBatch, Commits
  <2>3. QED
    BY <2>1, <2>2
<1>15. AccessesKept'
  BY DEF IInv, AccessesKept, CountsInv, TypeOK, CountsOK, Counts, Higher, StoreTakesBatch,
     Commits, HigherAcc
<1>16. QED
  BY <1>1, <1>2, <1>3, <1>4, <1>5, <1>6, <1>7, <1>8, <1>9, <1>10, <1>11, <1>12, <1>13, <1>14,
     <1>15 DEF IInv, TypeOK

LEMMA StoreTakesTailStep ==
  ASSUME IInv, StoreTakesTail
  PROVE  IInv'
<1>1. MutationsOK'
  BY InSeq DEF IInv, TypeOK, MutationsOK, StoreTakesTail, Commits
<1>2. CountsOK'
  BY DEF IInv, TypeOK, CountsOK, Counts, Higher, StoreTakesTail, Commits, HigherAcc
<1>3. EpochsOK'
  BY Zero DEF IInv, TypeOK, EpochsOK, Higher, StoreTakesTail, Commits
<1>4. ControlOK'
  BY DEF IInv, TypeOK, ControlOK, StoreTakesTail
<1>5. GatesOK'
  BY DEF IInv, TypeOK, GatesOK, StoreTakesTail
<1>6. PlacesInv'
  BY DEF IInv, PlacesInv, StoreTakesTail, HigherAcc
<1>7. AppliedInv'
  BY DEF IInv, AppliedInv, PlacesInv, TypeOK, CountsOK, Counts, Higher, StoreTakesTail,
     Commits, HigherAcc
<1>8. ShedInv'
  BY DEF IInv, ShedInv, StoreTakesTail
<1>9. OrderInv'
  BY DEF IInv, OrderInv, Appended, Dropped, StoreTakesTail, Commits
<1>10. EpochInv'
  <2>1. \A w \in stored' : EpochAt(w) \in Nat
    BY <1>1, Epochs DEF MutationsOK, Writes
  <2>2. storeEpoch \in Int /\ tailEpoch \in Int
    BY Zero DEF IInv, TypeOK, EpochsOK
  <2>3. storeEpoch' >= storeEpoch /\ storeEpoch' >= tailEpoch /\ storeEpoch' \in Int
    BY <2>2 DEF StoreTakesTail, Commits, Higher
  <2>4. \A w \in stored' : EpochAt(w) <= storeEpoch'
    BY <2>1, <2>2, <2>3 DEF IInv, EpochInv, StoreTakesTail, Commits
  <2>5. QED
    BY <2>4 DEF IInv, EpochInv, Epoch, StoreTakesTail
<1>11. MarksInv'
  BY DEF IInv, MarksInv, Appended, Latest, Dropped, StoreTakesTail, Commits
<1>12. CountsInv'
  BY DEF IInv, CountsInv, TypeOK, CountsOK, Counts, Higher, StoreTakesTail, Commits, HigherAcc
<1>13. LagInv'
  BY DEF IInv, LagInv, StoreTakesTail, Commits
<1>14. StoredInOrder'
  <2> SUFFICES ASSUME NEW v \in Writes, NEW w \in Writes, v < w, w \in stored'
               PROVE  v \in stored' \cup Dropped
    BY DEF StoredInOrder, Dropped, StoreTakesTail
  <2>1. CASE w \in stored
    BY <2>1 DEF IInv, StoredInOrder, StoreTakesTail, Commits
  <2>2. CASE w \notin stored
    <3>1. w \in ToSet(tail)
      BY <2>2 DEF StoreTakesTail, Commits
    <3>2. v \in Appended
      BY <3>1, Zero DEF IInv, OrderInv, Appended, Writes, TypeOK, MutationsOK
    <3>3. ToSet(pending) = {} /\ ToSet(log) = {}
      BY Empty DEF IInv, PlacesInv, StoreTakesTail
    <3>4. QED
      BY <3>2, <3>3 DEF IInv, OrderInv, StoreTakesTail, Commits
  <2>3. QED
    BY <2>1, <2>2
<1>15. AccessesKept'
  BY DEF IInv, AccessesKept, CountsInv, TypeOK, CountsOK, Counts, Higher, StoreTakesTail,
     Commits, HigherAcc
<1>16. QED
  BY <1>1, <1>2, <1>3, <1>4, <1>5, <1>6, <1>7, <1>8, <1>9, <1>10, <1>11, <1>12, <1>13, <1>14,
     <1>15 DEF IInv, TypeOK

LEMMA Append1Step ==
  ASSUME IInv, Append1
  PROVE  IInv'
<1>1. MutationsOK'
  BY NewWrite, OneMore DEF IInv, TypeOK, MutationsOK, Append1
<1>2. CountsOK'
  BY DEF IInv, TypeOK, CountsOK, Append1
<1>3. EpochsOK'
  BY NewWrite, NewEpoch DEF IInv, TypeOK, EpochsOK, PINNED, Append1
<1>4. ControlOK'
  BY DEF IInv, TypeOK, ControlOK, Append1
<1>5. GatesOK'
  BY DEF IInv, TypeOK, GatesOK, Append1
<1>6. PlacesInv'
  BY DEF IInv, PlacesInv, Append1
<1>7. AppliedInv'
  BY DEF IInv, AppliedInv, Append1
<1>8. ShedInv'
  BY DEF IInv, ShedInv, Append1
<1>9. OrderInv'
  <2>1. nextWrite + 1 \in Writes /\ \A v \in Appended : v < nextWrite + 1
    BY NewWrite DEF Appended, Append1, IInv, TypeOK
  <2>2. ToSet(log') = ToSet(log) \cup {nextWrite + 1}
    BY <2>1, OneMore DEF Append1, IInv, TypeOK, MutationsOK
  <2>3. Increasing(log')
    BY <2>1, OneMore DEF Append1, IInv, TypeOK, MutationsOK, OrderInv
  <2>4. Appended' = Appended \cup {nextWrite + 1}
    BY NewWrite DEF Appended, Append1, IInv, TypeOK
  <2>5. QED
    BY <2>1, <2>2, <2>3, <2>4 DEF IInv, OrderInv, Dropped, Append1
<1>10. EpochInv'
  <2>1. ToSet(log') = ToSet(log) \cup {nextWrite + 1}
    BY NewWrite, OneMore DEF Append1, IInv, TypeOK, MutationsOK
  <2>2. nextWrite' = nextWrite + 1 /\ nextWrite \in Nat
        /\ EpochAt(nextWrite) <= EpochAt(nextWrite + 1)
        /\ EpochAt(nextWrite) \in Int /\ EpochAt(nextWrite + 1) \in Int
        /\ (Target[nextWrite + 1] # NoConcept => EpochAt(nextWrite) < EpochAt(nextWrite + 1))
    BY NewWrite, NewEpoch DEF IInv, TypeOK, Append1
  <2>3. pendingEpoch \in Int /\ drainedAt \in Int
    BY Zero DEF IInv, TypeOK, EpochsOK
  <2>4. QED
    BY <2>1, <2>2, <2>3 DEF IInv, EpochInv, Epoch, Append1
<1>11. MarksInv'
  <2> DEFINE n == nextWrite + 1
  <2>0. n \in Writes /\ nextWrite \in Nat /\ nextWrite' = n
    BY NewWrite DEF IInv, TypeOK, Append1
  <2>1. n \notin Dropped
    BY NewWrite DEF IInv, TypeOK, OrderInv, Appended
  <2> SUFFICES ASSUME NEW w \in Appended', Latest(w)', w \notin stored
               PROVE  \/ unflushed'[Target[w]] = PINNED
                      \/ unflushed'[Target[w]] = EpochAt(w) /\ (w \in Dropped => loop = "exited")
    BY DEF MarksInv, Dropped, Append1
  <2>2. w \in Writes /\ Target[w] \in Concepts
    BY <2>0, FlushAssumption DEF Latest, Appended, Writes
  <2>3. CASE w = n
    BY <2>1, <2>2, <2>3, NewWrite DEF IInv, TypeOK, EpochsOK, Latest, Append1
  <2>4. CASE w # n
    <3>1. w \in Appended /\ n \in w + 1 .. n /\ w + 1 .. nextWrite \subseteq w + 1 .. n
      BY <2>0, <2>4 DEF Appended
    <3>2. Latest(w) /\ Target[n] # Target[w]
      BY <2>0, <3>1 DEF Latest
    <3>3. unflushed'[Target[w]] = unflushed[Target[w]]
      BY <2>2, <3>2 DEF IInv, TypeOK, EpochsOK, Append1
    <3>4. QED
      BY <3>1, <3>2, <3>3 DEF IInv, MarksInv
  <2>5. QED
    BY <2>3, <2>4
<1>12. CountsInv'
  BY DEF IInv, CountsInv, Append1
<1>13. LagInv'
  BY DEF IInv, LagInv, Append1
<1>14. StoredInOrder'
  BY DEF IInv, StoredInOrder, Dropped, Append1
<1>15. AccessesKept'
  BY DEF IInv, AccessesKept, Append1
<1>16. QED
  BY <1>1, <1>2, <1>3, <1>4, <1>5, <1>6, <1>7, <1>8, <1>9, <1>10, <1>11, <1>12, <1>13, <1>14,
     <1>15 DEF IInv, TypeOK

LEMMA RecordAccessStep ==
  ASSUME IInv, NEW c \in Concepts, RecordAccess(c)
  PROVE  IInv'
<1>1. MutationsOK'
  BY DEF IInv, TypeOK, MutationsOK, RecordAccess
<1>2. CountsOK'
  BY DEF IInv, TypeOK, CountsOK, Counts, RecordAccess
<1>3. EpochsOK'
  BY DEF IInv, TypeOK, EpochsOK, RecordAccess
<1>4. ControlOK'
  BY DEF IInv, TypeOK, ControlOK, RecordAccess
<1>5. GatesOK'
  BY DEF IInv, TypeOK, GatesOK, RecordAccess
<1>6. PlacesInv'
  BY DEF IInv, PlacesInv, RecordAccess
<1>7. AppliedInv'
  BY DEF IInv, AppliedInv, RecordAccess
<1>8. ShedInv'
  BY DEF IInv, ShedInv, RecordAccess
<1>9. OrderInv'
  BY DEF IInv, OrderInv, Appended, Dropped, RecordAccess
<1>10. EpochInv'
  BY DEF IInv, EpochInv, Epoch, RecordAccess
<1>11. MarksInv'
  BY DEF IInv, MarksInv, Appended, Latest, Dropped, RecordAccess
<1>12. CountsInv'
  BY DEF IInv, CountsInv, TypeOK, CountsOK, Counts, RecordAccess
<1>13. LagInv'
  BY DEF IInv, LagInv, RecordAccess
<1>14. StoredInOrder'
  BY DEF IInv, StoredInOrder, Dropped, RecordAccess
<1>15. AccessesKept'
  BY DEF IInv, AccessesKept, TypeOK, CountsOK, Counts, RecordAccess
<1>16. QED
  BY <1>1, <1>2, <1>3, <1>4, <1>5, <1>6, <1>7, <1>8, <1>9, <1>10, <1>11, <1>12, <1>13, <1>14,
     <1>15 DEF IInv, TypeOK

LEMMA DrainStep ==
  ASSUME IInv, NEW onTick \in BOOLEAN, Drain(onTick)
  PROVE  IInv'
<1>1. MutationsOK'
  BY Concat DEF IInv, TypeOK, MutationsOK, Drain, Drained
<1>2. CountsOK'
  BY NoneCarried, DrainCounts DEF IInv, TypeOK, CountsOK, Counts, Drain
<1>3. EpochsOK'
  BY Epochs, Zero, SMTT(30) DEF IInv, TypeOK, EpochsOK, Higher, Epoch, MutationsOK, Drain
<1>4. ControlOK'
  BY DEF IInv, TypeOK, ControlOK, Drain
<1>5. GatesOK'
  BY DEF IInv, TypeOK, GatesOK, Drain, TickTaken
<1>6. PlacesInv'
  BY DEF IInv, PlacesInv, NoAccess, Drain, Drained
<1>7. AppliedInv'
  BY DEF IInv, AppliedInv, Drain, Drained
<1>8. ShedInv'
  BY DEF IInv, ShedInv, Drain
<1>9. OrderInv'
  <2>1. /\ ToSet(pending') = ToSet(pending) \cup ToSet(log) /\ ToSet(log') = {}
        /\ Increasing(pending') /\ Increasing(log')
    BY Concat, Empty DEF IInv, TypeOK, MutationsOK, OrderInv, Drain, Drained
  <2>2. QED
    BY <2>1 DEF IInv, OrderInv, Appended, Dropped, Drain
<1>10. EpochInv'
  <2>1. ToSet(pending') = ToSet(pending) \cup ToSet(log) /\ ToSet(log') = {}
    BY Concat, Empty DEF IInv, TypeOK, MutationsOK, Drain, Drained
  <2>2. nextWrite \in Nat /\ pendingEpoch \in Int /\ Epoch \in Int
    BY LogEpochs, Zero DEF IInv, TypeOK, MutationsOK, EpochsOK
  <2>3. /\ pendingEpoch' \in Int /\ pendingEpoch' >= pendingEpoch /\ pendingEpoch' >= Epoch
        /\ pendingEpoch' <= Epoch
    BY <2>2 DEF IInv, EpochInv, Drain, Higher
  <2>4. \A w \in ToSet(log) : EpochAt(w) \in Int /\ EpochAt(w) <= Epoch
    BY LogEpochs
  <2>5. \A w \in ToSet(pending) : EpochAt(w) \in Int
    BY InSeq, Epochs, Zero DEF IInv, TypeOK, MutationsOK, Writes
  <2>6. \A w \in ToSet(pending') : EpochAt(w) <= pendingEpoch'
    BY <2>1, <2>2, <2>3, <2>4, <2>5 DEF IInv, EpochInv
  <2>7. drainedAt' <= nextWrite'
    BY <2>2 DEF Drain
  <2>8. QED
    BY <2>1, <2>3, <2>6, <2>7 DEF IInv, EpochInv, Epoch, Drain
<1>11. MarksInv'
  BY DEF IInv, MarksInv, Appended, Latest, Dropped, Drain
<1>12. CountsInv'
  <2>1. PICK A \in SUBSET dirty :
          /\ dirty' = dirty \ A
          /\ pendingAcc' = [c \in Concepts |-> IF c \in A THEN count[c] ELSE pendingAcc[c]]
          /\ holdsAccesses' = (holdsAccesses \/ A # {})
    BY DrainCounts
  <2>2. \A c \in Concepts : pendingAcc'[c] <= count[c] /\ logAcc'[c] <= count[c]
    BY <2>1, NoneCarried DEF IInv, TypeOK, CountsOK, CountsInv, Counts, NoAccess, Drain
  <2>3. ~holdsAccesses' => pendingAcc' = NoAccess
    <3> SUFFICES ASSUME ~holdsAccesses' PROVE pendingAcc' = NoAccess
      OBVIOUS
    <3>1. ~holdsAccesses /\ A = {}
      BY <2>1
    <3>2. pendingAcc = NoAccess
      BY <3>1 DEF IInv, CountsInv
    <3>3. QED
      BY <2>1, <3>1, <3>2 DEF NoAccess
  <2>4. QED
    BY <2>1, <2>2, <2>3 DEF IInv, CountsInv, Drain
<1>13. LagInv'
  BY DEF IInv, LagInv, Drain
<1>14. StoredInOrder'
  BY DEF IInv, StoredInOrder, Dropped, Drain
<1>15. AccessesKept'
  <2>1. PICK A \in SUBSET dirty :
          /\ dirty' = dirty \ A
          /\ pendingAcc' = [c \in Concepts |-> IF c \in A THEN count[c] ELSE pendingAcc[c]]
          /\ A # {} => /\ pendingAcc = NoAccess /\ IsFiniteSet(A)
                       /\ Cardinality(A) <= AccessBudget(0)
    BY DrainCounts
  <2>2. \A c \in Concepts :
          \/ c \in dirty' \cup shedAcc
          \/ count[c] \in {storedAcc[c], pendingAcc'[c], NoAccess[c], tailAcc[c]}
    <3> SUFFICES ASSUME NEW c \in Concepts, c \notin dirty', c \notin shedAcc
                 PROVE  count[c] \in {storedAcc[c], pendingAcc'[c], NoAccess[c], tailAcc[c]}
      OBVIOUS
    <3>1. CASE c \in A
      BY <2>1, <3>1
    <3>2. CASE c \notin A
      BY <2>1, <3>2 DEF IInv, AccessesKept, PlacesInv, Drain
    <3>3. QED
      BY <3>1, <3>2
  <2>3. Cardinality(Carried(pendingAcc')) <= AccessBudget(0)
    <3>1. CASE A = {}
      <4>1. Carried(pendingAcc') = Carried(pendingAcc)
        BY <2>1, <3>1 DEF Carried
      <4>2. QED
        BY <4>1 DEF IInv, AccessesKept
    <3>2. CASE A # {}
      <4>1. Carried(pendingAcc') \subseteq A
        BY <2>1, <3>2 DEF Carried, NoAccess
      <4>2. Cardinality(Carried(pendingAcc')) <= Cardinality(A)
            /\ Cardinality(Carried(pendingAcc')) \in Nat /\ Cardinality(A) \in Nat
        BY <2>1, <3>2, <4>1, FS_Subset, FS_CardinalityType
      <4>3. AccessBudget(0) \in Nat
        BY Budgets
      <4>4. QED
        BY <2>1, <3>2, <4>2, <4>3
    <3>3. QED
      BY <3>1, <3>2
  <2>4. QED
    BY <2>2, <2>3 DEF AccessesKept, Drain
<1>16. QED
  BY <1>1, <1>2, <1>3, <1>4, <1>5, <1>6, <1>7, <1>8, <1>9, <1>10, <1>11, <1>12, <1>13, <1>14,
     <1>15 DEF IInv, TypeOK

LEMMA LoopStopsStep ==
  ASSUME IInv, LoopStops
  PROVE  IInv'
<1>1. MutationsOK'
  BY Concat DEF IInv, TypeOK, MutationsOK, LoopStops, ClearPending, Requeued
<1>2. CountsOK'
  BY NoneCarried DEF IInv, TypeOK, CountsOK, Counts, Higher, LoopStops, ClearPending, HigherAcc
<1>3. EpochsOK'
  BY DEF IInv, TypeOK, EpochsOK, LoopStops, ClearPending
<1>4. ControlOK'
  BY DEF IInv, TypeOK, ControlOK, LoopStops
<1>5. GatesOK'
  BY DEF IInv, TypeOK, GatesOK, LoopStops, ClearPending
<1>6. PlacesInv'
  BY Empty DEF IInv, PlacesInv, LoopStops, ClearPending, Requeued, HigherAcc
<1>7. AppliedInv'
  BY DEF IInv, AppliedInv, LoopStops, ClearPending, HigherAcc
<1>8. ShedInv'
  BY DEF IInv, ShedInv, LoopStops
<1>9. OrderInv'
  <2>1. /\ ToSet(log') = ToSet(pending) \cup ToSet(log) /\ ToSet(pending') = {}
        /\ Increasing(log') /\ Increasing(pending')
    BY Concat, Empty DEF IInv, TypeOK, MutationsOK, OrderInv, PlacesInv, LoopStops,
       ClearPending, Requeued
  <2>2. QED
    BY <2>1, Empty DEF IInv, PlacesInv, OrderInv, Appended, Dropped, LoopStops
<1>10. EpochInv'
  BY Empty DEF IInv, EpochInv, Epoch, LoopStops, ClearPending, Requeued
<1>11. MarksInv'
  BY DEF IInv, MarksInv, Appended, Latest, Dropped, LoopStops
<1>12. CountsInv'
  BY NoneCarried DEF IInv, CountsInv, NoAccess, Higher, TypeOK, CountsOK, Counts, LoopStops,
     ClearPending, HigherAcc
<1>13. LagInv'
  BY DEF IInv, LagInv, LoopStops
<1>14. StoredInOrder'
  BY DEF IInv, StoredInOrder, Dropped, LoopStops
<1>15. AccessesKept'
  BY NoneCarried DEF IInv, AccessesKept, CountsInv, Higher, PlacesInv, NoAccess, TypeOK,
     CountsOK, Counts, LoopStops, ClearPending, HigherAcc
<1>16. QED
  BY <1>1, <1>2, <1>3, <1>4, <1>5, <1>6, <1>7, <1>8, <1>9, <1>10, <1>11, <1>12, <1>13, <1>14,
     <1>15 DEF IInv, TypeOK

LEMMA CloseDegradedStep ==
  ASSUME IInv, CloseDegraded
  PROVE  IInv'
<1>1. MutationsOK'
  BY DEF IInv, TypeOK, MutationsOK, CloseDegraded
<1>2. CountsOK'
  BY DEF IInv, TypeOK, CountsOK, Counts, Higher, CloseDegraded, TailAcc, DirtyAcc, HigherAcc
<1>3. EpochsOK'
  BY DEF IInv, TypeOK, EpochsOK, CloseDegraded
<1>4. ControlOK'
  BY DEF IInv, TypeOK, ControlOK, CloseDegraded
<1>5. GatesOK'
  BY DEF IInv, TypeOK, GatesOK, CloseDegraded
<1>6. PlacesInv'
  BY DEF IInv, PlacesInv, CloseDegraded, TailAcc, DirtyAcc, HigherAcc
<1>7. AppliedInv'
  BY DEF IInv, AppliedInv, CloseDegraded, TailAcc, DirtyAcc, HigherAcc
<1>8. ShedInv'
  BY DEF IInv, ShedInv, CloseDegraded
<1>9. OrderInv'
  BY DEF IInv, OrderInv, Appended, Dropped, CloseDegraded
<1>10. EpochInv'
  BY DEF IInv, EpochInv, Epoch, CloseDegraded
<1>11. MarksInv'
  BY DEF IInv, MarksInv, Appended, Latest, Dropped, CloseDegraded
<1>12. CountsInv'
  BY DEF IInv, CountsInv, Higher, TypeOK, CountsOK, Counts, CloseDegraded, TailAcc, DirtyAcc,
     HigherAcc
<1>13. LagInv'
  BY DEF IInv, LagInv, CloseDegraded
<1>14. StoredInOrder'
  BY DEF IInv, StoredInOrder, Dropped, CloseDegraded
<1>15. AccessesKept'
  BY DEF IInv, AccessesKept, CountsInv, Higher, TypeOK, CountsOK, Counts, CloseDegraded,
     TailAcc, DirtyAcc, HigherAcc
<1>16. QED
  BY <1>1, <1>2, <1>3, <1>4, <1>5, <1>6, <1>7, <1>8, <1>9, <1>10, <1>11, <1>12, <1>13, <1>14,
     <1>15 DEF IInv, TypeOK

LEMMA CloseEmptyStep ==
  ASSUME IInv, CloseEmpty
  PROVE  IInv'
<1>1. MutationsOK'
  BY DEF IInv, TypeOK, MutationsOK, CloseEmpty
<1>2. CountsOK'
  BY DEF IInv, TypeOK, CountsOK, CloseEmpty
<1>3. EpochsOK'
  BY DEF IInv, TypeOK, EpochsOK, CloseEmpty
<1>4. ControlOK'
  BY DEF IInv, TypeOK, ControlOK, CloseEmpty
<1>5. GatesOK'
  BY DEF IInv, TypeOK, GatesOK, CloseEmpty
<1>6. PlacesInv'
  BY DEF IInv, PlacesInv, TailEmpty, CloseEmpty
<1>7. AppliedInv'
  BY DEF IInv, AppliedInv, CloseEmpty
<1>8. ShedInv'
  BY DEF IInv, ShedInv, CloseEmpty
<1>9. OrderInv'
  BY DEF IInv, OrderInv, Appended, Dropped, CloseEmpty
<1>10. EpochInv'
  BY DEF IInv, EpochInv, Epoch, CloseEmpty
<1>11. MarksInv'
  BY DEF IInv, MarksInv, Appended, Latest, Dropped, CloseEmpty
<1>12. CountsInv'
  BY DEF IInv, CountsInv, CloseEmpty
<1>13. LagInv'
  BY DEF IInv, LagInv, CloseEmpty
<1>14. StoredInOrder'
  BY DEF IInv, StoredInOrder, Dropped, CloseEmpty
<1>15. AccessesKept'
  BY NothingDirty DEF IInv, AccessesKept, CloseEmpty
<1>16. QED
  BY <1>1, <1>2, <1>3, <1>4, <1>5, <1>6, <1>7, <1>8, <1>9, <1>10, <1>11, <1>12, <1>13, <1>14,
     <1>15 DEF IInv, TypeOK

LEMMA CloseDrainsStep ==
  ASSUME IInv, CloseDrains
  PROVE  IInv'
<1>1. MutationsOK'
  BY Empty DEF IInv, TypeOK, MutationsOK, CloseDrains
<1>2. CountsOK'
  BY NoneCarried DEF IInv, TypeOK, CountsOK, Counts, Higher, CloseDrains, TailAcc, DirtyAcc,
     HigherAcc
<1>3. EpochsOK'
  BY LogEpochs DEF IInv, TypeOK, EpochsOK, CloseDrains
<1>4. ControlOK'
  BY DEF IInv, TypeOK, ControlOK, CloseDrains
<1>5. GatesOK'
  BY DEF IInv, TypeOK, GatesOK, CloseDrains
<1>6. PlacesInv'
  BY NoneCarried DEF IInv, PlacesInv, CloseDrains, TailAcc, DirtyAcc, HigherAcc
<1>7. AppliedInv'
  BY DEF IInv, AppliedInv, CloseDrains, TailAcc, DirtyAcc, HigherAcc
<1>8. ShedInv'
  BY DEF IInv, ShedInv, CloseDrains
<1>9. OrderInv'
  BY Empty DEF IInv, PlacesInv, OrderInv, Appended, Dropped, CloseDrains
<1>10. EpochInv'
  BY LogEpochs, Empty DEF IInv, EpochInv, Epoch, CloseDrains
<1>11. MarksInv'
  BY DEF IInv, MarksInv, Appended, Latest, Dropped, CloseDrains
<1>12. CountsInv'
  BY DEF IInv, CountsInv, Higher, NoAccess, TypeOK, CountsOK, Counts, CloseDrains, TailAcc,
     DirtyAcc, HigherAcc
<1>13. LagInv'
  BY DEF IInv, LagInv, CloseDrains
<1>14. StoredInOrder'
  BY DEF IInv, StoredInOrder, Dropped, CloseDrains
<1>15. AccessesKept'
  BY DEF IInv, AccessesKept, CountsInv, PlacesInv, Higher, NoAccess, TypeOK, CountsOK, Counts,
     CloseDrains, TailAcc, DirtyAcc, HigherAcc
<1>16. QED
  BY <1>1, <1>2, <1>3, <1>4, <1>5, <1>6, <1>7, <1>8, <1>9, <1>10, <1>11, <1>12, <1>13, <1>14,
     <1>15 DEF IInv, TypeOK

LEMMA CloseFlushedStep ==
  ASSUME IInv, CloseFlushed
  PROVE  IInv'
<1>1. MutationsOK'
  BY Empty DEF IInv, TypeOK, MutationsOK, CloseFlushed, EndCustody
<1>2. CountsOK'
  BY NoneCarried DEF IInv, TypeOK, CountsOK, CloseFlushed, EndCustody
<1>3. EpochsOK'
  BY Zero DEF IInv, TypeOK, EpochsOK, CloseFlushed, EndCustody
<1>4. ControlOK'
  BY DEF IInv, TypeOK, ControlOK, CloseFlushed, EndCustody
<1>5. GatesOK'
  BY DEF IInv, TypeOK, GatesOK, CloseFlushed
<1>6. PlacesInv'
  BY DEF IInv, PlacesInv, CloseFlushed, EndCustody
<1>7. AppliedInv'
  BY DEF IInv, AppliedInv, CloseFlushed, EndCustody
<1>8. ShedInv'
  BY DEF IInv, ShedInv, CloseFlushed
<1>9. OrderInv'
  BY DEF IInv, OrderInv, Appended, Dropped, AppliedInv, PlacesInv, CloseFlushed, EndCustody
<1>10. EpochInv'
  BY Empty DEF IInv, EpochInv, Epoch, CloseFlushed, EndCustody
<1>11. MarksInv'
  BY DEF IInv, MarksInv, Appended, Latest, Dropped, CloseFlushed
<1>12. CountsInv'
  BY NoneCarried DEF IInv, CountsInv, NoAccess, TypeOK, CountsOK, Counts, CloseFlushed,
     EndCustody
<1>13. LagInv'
  BY DEF IInv, LagInv, CloseFlushed
<1>14. StoredInOrder'
  BY DEF IInv, StoredInOrder, Dropped, CloseFlushed
<1>15. AccessesKept'
  BY NoneCarried DEF IInv, AccessesKept, AppliedInv, CountsInv, NoAccess, TypeOK, CountsOK,
     Counts, CloseFlushed, EndCustody
<1>16. QED
  BY <1>1, <1>2, <1>3, <1>4, <1>5, <1>6, <1>7, <1>8, <1>9, <1>10, <1>11, <1>12, <1>13, <1>14,
     <1>15 DEF IInv, TypeOK

LEMMA CloseNotFlushedStep ==
  ASSUME IInv, CloseNotFlushed
  PROVE  IInv'
<1>1. MutationsOK'
  BY Concat DEF IInv, TypeOK, MutationsOK, CloseNotFlushed, EndCustody, TailReturned, Requeued
<1>2. CountsOK'
  BY NoneCarried DEF IInv, TypeOK, CountsOK, Counts, Higher, CloseNotFlushed, EndCustody,
     TailReturned, HigherAcc
<1>3. EpochsOK'
  BY Zero DEF IInv, TypeOK, EpochsOK, CloseNotFlushed, EndCustody
<1>4. ControlOK'
  BY DEF IInv, TypeOK, ControlOK, CloseNotFlushed, EndCustody
<1>5. GatesOK'
  BY DEF IInv, TypeOK, GatesOK, CloseNotFlushed
<1>6. PlacesInv'
  BY DEF IInv, PlacesInv, CloseNotFlushed, EndCustody, TailReturned, Requeued, HigherAcc
<1>7. AppliedInv'
  BY DEF IInv, AppliedInv, CloseNotFlushed, EndCustody, HigherAcc
<1>8. ShedInv'
  BY DEF IInv, ShedInv, CloseNotFlushed
<1>9. OrderInv'
  <2>1. /\ ToSet(log') = ToSet(tail) \cup ToSet(log) /\ ToSet(tail') = {}
        /\ Increasing(log') /\ Increasing(tail')
    BY Concat, Empty DEF IInv, TypeOK, MutationsOK, OrderInv, PlacesInv, CloseNotFlushed,
       TailReturned, EndCustody, Requeued
  <2>2. QED
    BY <2>1, Empty DEF IInv, PlacesInv, OrderInv, Appended, Dropped, CloseNotFlushed
<1>10. EpochInv'
  BY Empty DEF IInv, EpochInv, Epoch, PlacesInv, CloseNotFlushed, EndCustody, TailReturned,
     Requeued
<1>11. MarksInv'
  BY DEF IInv, MarksInv, Appended, Latest, Dropped, CloseNotFlushed
<1>12. CountsInv'
  BY NoneCarried DEF IInv, CountsInv, NoAccess, Higher, TypeOK, CountsOK, Counts,
     CloseNotFlushed, EndCustody, TailReturned, HigherAcc
<1>13. LagInv'
  BY DEF IInv, LagInv, CloseNotFlushed
<1>14. StoredInOrder'
  BY DEF IInv, StoredInOrder, Dropped, CloseNotFlushed
<1>15. AccessesKept'
  BY NoneCarried DEF IInv, AccessesKept, CountsInv, PlacesInv, Higher, NoAccess, TypeOK,
     CountsOK, Counts, CloseNotFlushed, EndCustody, TailReturned, HigherAcc
<1>16. QED
  BY <1>1, <1>2, <1>3, <1>4, <1>5, <1>6, <1>7, <1>8, <1>9, <1>10, <1>11, <1>12, <1>13, <1>14,
     <1>15 DEF IInv, TypeOK

-----------------------------------------------------------------------------
LEMMA NextInv == IInv /\ [Next]_vars => IInv'
<1> SUFFICES ASSUME IInv, [Next]_vars PROVE IInv'
  OBVIOUS
<1>1. CASE UNCHANGED vars
  <2>1. EpochsOK' /\ ControlOK' /\ GatesOK'
    BY <1>1 DEF IInv, TypeOK, EpochsOK, ControlOK, GatesOK, vars
  <2>2. PlacesInv' /\ ShedInv'
    BY <1>1 DEF IInv, PlacesInv, ShedInv, vars
  <2>3. QED
    BY <1>1, <2>1, <2>2, QuietStep DEF vars
<1>2. CASE GraphNext
  BY <1>2, Append1Step, RecordAccessStep DEF GraphNext
<1>3. CASE Loop
  BY <1>3, QuietSteps, DrainStep, FoundNothingStep, DropsDegradedStep, StoreTakesBatchStep,
     FlushOkStep,
     FlushDeadLetteredStep, LoopFencedStep, LoopStopsStep, LoopAbortedStep DEF Loop, Cycle
<1>4. CASE Fence
  BY <1>4, QuietSteps DEF Fence
<1>5. CASE Close
  BY <1>5, QuietSteps, CloseDegradedStep, CloseEmptyStep, CloseDrainsStep, StoreTakesTailStep,
     CloseFlushedStep, CloseNotFlushedStep DEF Close
<1>6. QED
  BY <1>1, <1>2, <1>3, <1>4, <1>5 DEF Next

LEMMA Invariant == Spec => []IInv
BY InitInv, NextInv, PTL DEF Spec

-----------------------------------------------------------------------------
(* The variables of the flush keep their types, for any concepts, any       *)
(* number of mutations and any bounds.                                      *)
THEOREM TypeCorrect == Spec => []TypeOK
<1>1. IInv => TypeOK
  BY DEF IInv
<1>2. QED
  BY <1>1, Invariant, PTL

(* A failed, cancelled or retried close and a batch that is retained lose   *)
(* and reorder nothing: what is not stored or dropped is held once, in the  *)
(* order of its append (memory/shutdown.rs, TailCustody).                   *)
THEOREM CustodyHolds == Spec => []InCustodyInOrder
<1>1. ASSUME IInv PROVE InCustodyInOrder
  <2>1. /\ tail \in Seq(Writes) /\ pending \in Seq(Writes) /\ log \in Seq(Writes)
        /\ tail \o pending \in Seq(Writes)
    BY <1>1, Concat DEF IInv, TypeOK, MutationsOK
  <2>2. /\ closing = "final_flush" \/ ToSet(tail) = {}
        /\ closing = "final_flush" => ToSet(pending) = {} /\ ToSet(log) = {}
    BY <1>1, Empty DEF IInv, PlacesInv
  <2>3. ToSet(tail \o pending) = ToSet(tail) \cup ToSet(pending) /\ Increasing(tail \o pending)
    BY <1>1, <2>1, <2>2, Concat DEF IInv, OrderInv
  <2>4. ToSet(InFlight) = ToSet(tail) \cup ToSet(pending) \cup ToSet(log) /\ Increasing(InFlight)
    BY <1>1, <2>1, <2>2, <2>3, Concat DEF IInv, OrderInv, InFlight
  <2>5. QED
    BY <1>1, <2>4 DEF IInv, OrderInv, InCustodyInOrder, Increasing
<1>2. QED
  BY <1>1, Invariant, PTL

(* The store never holds a mutation without every earlier one that was not  *)
(* dropped, over retries, requeued batches and retried closes.              *)
THEOREM StoreIsOrdered == Spec => []StoredInOrder
<1>1. IInv => StoredInOrder
  BY DEF IInv
<1>2. QED
  BY <1>1, Invariant, PTL

(* A concept whose latest write may be missing from the store is in the     *)
(* unflushed set (graph/unflushed.rs).                                      *)
THEOREM MarksCover == Spec => []UnflushedCovers
<1>1. ASSUME IInv PROVE UnflushedCovers
  <2> SUFFICES ASSUME NEW w \in Appended, Target[w] # NoConcept,
                      \A v \in w + 1 .. nextWrite : Target[v] # Target[w]
               PROVE  w \in stored \/ unflushed[Target[w]] # 0
    BY DEF UnflushedCovers
  <2>1. Latest(w)
    BY DEF Latest
  <2>2. w \in Writes /\ w \in 0..MaxWrite /\ 0 \in 0..w /\ 0 \in 0..(w - 1) /\ 0 \in 0..MaxWrite
    BY <1>1, Zero DEF IInv, TypeOK, MutationsOK, Appended, Writes
  <2>3. EpochAt(0) \in 0..0 /\ EpochAt(0) < EpochAt(w) /\ EpochAt(w) \in 0..w
    BY <2>2, Epochs
  <2>4. PINNED # 0
    BY Zero DEF PINNED
  <2>5. QED
    BY <1>1, <2>1, <2>3, <2>4 DEF IInv, MarksInv
<1>2. QED
  BY <1>1, Invariant, PTL

(* The published lag and the store's watermark never claim what is not so.  *)
THEOREM StatsHold == Spec => []StatsAreHonest
<1>1. IInv => StatsAreHonest
  BY DEF IInv, LagInv, EpochInv, StatsAreHonest
<1>2. QED
  BY <1>1, Invariant, PTL

(* No access count is lost but with a batch that was dropped, and a drain   *)
(* of reads stays within its budget.                                        *)
THEOREM ReadsAreKept == Spec => []AccessesKept
<1>1. IInv => AccessesKept
  BY DEF IInv
<1>2. QED
  BY <1>1, Invariant, PTL

(* close() answering Ok on a handle that was never fenced has written all   *)
(* that was not dead-lettered, after any failed and cancelled closes.       *)
THEOREM OkIsWritten == Spec => []OkMeansWritten
<1>1. ASSUME IInv PROVE OkMeansWritten
  <2> SUFFICES ASSUME closing = "succeeded", ~fence
               PROVE  loop = "exited" /\ Appended \subseteq stored \cup deadLettered
    BY DEF OkMeansWritten
  <2>1. loop = "exited" /\ ToSet(log) = {} /\ ToSet(pending) = {} /\ ToSet(tail) = {} /\ ~degraded
    BY <1>1, Empty DEF IInv, PlacesInv
  <2>2. shed = {}
    BY <1>1, <2>1 DEF IInv, ShedInv
  <2>3. QED
    BY <1>1, <2>1, <2>2 DEF IInv, OrderInv, Dropped
<1>2. QED
  BY <1>1, Invariant, PTL

=============================================================================
