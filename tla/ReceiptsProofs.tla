---------------------------- MODULE ReceiptsProofs ----------------------------
(***************************************************************************)
(* Proofs about Receipts, for any agents, callers, clocks and bounds.      *)
(*                                                                         *)
(* IInv: a write that has not run keeps its receipt. BooksInv, on top of   *)
(* it: what enters the table leaves it within its bound, an answer is told *)
(* or waits to be, and an owner hears one story. What a close settles at once *)
(* is a fold over the receipts it set aside: what every step of the fold   *)
(* keeps, the fold keeps (DataInduction).                                  *)
(***************************************************************************)
EXTENDS Receipts, FiniteSetTheorems, DataInduction, TLAPS

IsTable(r) == {"entries", "order", "undelivered", "highestSeq"} \subseteq DOMAIN r

(* The receipt of a write that has not run.                                  *)
Live(r, id) == /\ id \in DOMAIN r.entries
               /\ r.entries[id].answer = "pending" /\ r.entries[id].at = None

(* s is a table with the issued numbers of r and its live receipts, but gone. *)
Keeps(r, s, gone) ==
  /\ IsTable(s) /\ s.highestSeq = r.highestSeq
  /\ \A id : id \notin gone /\ Live(r, id) => Live(s, id)

LEMMA KeepsTwice == ASSUME NEW r, NEW s, NEW t, NEW gone, Keeps(r, s, gone), Keeps(s, t, gone)
                    PROVE  Keeps(r, t, gone)
BY DEF Keeps

LEMMA ForgetKeeps == ASSUME NEW r, IsTable(r), NEW gone PROVE Keeps(r, Forget(r, gone), gone)
<1>1. /\ IsTable(Forget(r, gone)) /\ Forget(r, gone).highestSeq = r.highestSeq
      /\ Forget(r, gone).entries = [id \in DOMAIN r.entries \ gone |-> r.entries[id]]
  BY DEF IsTable, Forget
<1>2. QED
  BY <1>1 DEF Keeps, Live

LEMMA QueueKeeps == ASSUME NEW r, IsTable(r), NEW id, NEW a, NEW gone
                    PROVE  /\ Keeps(r, Queued(r, id, a), {}) /\ Keeps(r, Unqueued(r, a, gone), {})
BY DEF IsTable, Queued, Unqueued, Keeps, Live

LEMMA AnsweredKeeps == ASSUME NEW r, IsTable(r), NEW id, NEW ans
                       PROVE  Keeps(r, Answered(r, id, ans), {id})
BY DEF IsTable, Answered, Keeps, Live

LEMMA InsertKeeps == ASSUME NEW r, IsTable(r), NEW id, NEW e
                     PROVE  /\ Keeps(r, Insert(r, id, e), {id})
                            /\ e.answer = "pending" /\ e.at = None => Live(Insert(r, id, e), id)
<1> DEFINE entries == [x \in DOMAIN r.entries \cup {id} |-> IF x = id THEN e ELSE r.entries[x]]
<1>1. /\ IsTable(Insert(r, id, e)) /\ Insert(r, id, e).highestSeq = r.highestSeq
      /\ Insert(r, id, e).entries = entries
  BY DEF IsTable, Insert
<1>2. QED
  BY <1>1 DEF Keeps, Live

(* What a sweep or an eviction removes is settled.                           *)
LEMMA SweepsKeep == ASSUME NEW r, IsTable(r), NEW t
                    PROVE  Keeps(r, Expire(r, t), {}) /\ Keeps(r, Evict(r), {})
<1>1. \A id \in Expired(r, t) \cup Evicted(r) : Evictable(r, id)
  BY DEF Expired, Evicted
<1>2. \A id : Live(r, id) => ~Evictable(r, id)
  BY DEF Live, Evictable
<1>3. Keeps(r, Expire(r, t), Expired(r, t)) /\ Keeps(r, Evict(r), Evicted(r))
  BY ForgetKeeps DEF Expire, Evict
<1>4. QED
  BY <1>1, <1>2, <1>3 DEF Keeps

-----------------------------------------------------------------------------
(* The invariant.                                                            *)

Running == stage \in {"open", "sealed"}

(* The writes whose outcome is to come.                                      *)
Unsettling == jobs \cup settling

(* An admission that has not entered its receipt yet has a number of its own, *)
(* and one that the lanes refused has no job.                                 *)
ArrivingInv ==
  /\ \A x \in arriving : /\ x.id \in OwnIds /\ x.id <= receipts.highestSeq
                         /\ x.refused => x.id \notin Unsettling
  /\ \A x, y \in arriving : x.id = y.id => x = y

JobsInv ==
  /\ jobs \cap settling = {}
  /\ \A id \in Unsettling : /\ id \in OwnIds /\ id <= receipts.highestSeq
                            /\ Live(receipts, id) \/ \E x \in arriving : x.id = id

IInv ==
  /\ bound \in Bounds
  /\ Running => /\ IsTable(receipts) /\ receipts.highestSeq \in Nat
                /\ ArrivingInv /\ JobsInv
  /\ ~Running => Unsettling = {}

LEMMA InitInv == Init => IInv
BY DEF Init, IInv, Running, IsTable, ArrivingInv, JobsInv, Unsettling

(* A step of a pipeline that runs, but an admission or the entry of one.     *)
LEMMA QuietStep ==
  ASSUME IInv, Running, bound' = bound, arriving' = arriving, jobs' \cap settling' = {},
         Unsettling' \subseteq Unsettling,
         NEW gone, Keeps(receipts, receipts', gone), gone \cap Unsettling' = {},
         ~Running' => Unsettling' = {}
  PROVE  IInv'
<1> USE DEF IInv, Keeps
<1>1. ArrivingInv'
  BY DEF ArrivingInv
<1>2. JobsInv'
  BY DEF JobsInv
<1>3. QED
  BY <1>1, <1>2

LEMMA AdmitStep == ASSUME IInv, Running, Admit PROVE IInv'
<1> USE DEF IInv
<1> DEFINE id == receipts.highestSeq + 1
<1>1. PICK refused \in BOOLEAN :
        /\ stage # "open" \/ Cardinality(jobs) >= QueueMax => refused
        /\ arriving' = arriving \cup {[id |-> id, at |-> now, refused |-> refused]}
        /\ jobs' = IF refused THEN jobs ELSE jobs \cup {id}
  BY DEF Admit
<1>2. /\ id \in 1..bound.seq /\ receipts' = [receipts EXCEPT !.highestSeq = id]
      /\ UNCHANGED <<bound, settling, stage>>
  BY DEF Admit, closeVars
<1>3. id \in OwnIds /\ id \in Nat
  BY <1>2, ReceiptsAssumption DEF ReceiptsAssumption, OwnIds
<1>4. IsTable(receipts') /\ receipts'.highestSeq = id /\ receipts'.entries = receipts.entries
  BY <1>2 DEF IsTable
<1>5. \A x \in arriving : x.id \in Int /\ x.id < id
  BY DEF ArrivingInv, OwnIds
<1>6. \A j \in Unsettling : j \in Int /\ j < id
  BY DEF JobsInv, OwnIds
<1> HIDE DEF id
<1>7. ArrivingInv'
  BY <1>1, <1>2, <1>3, <1>4, <1>5, <1>6 DEF ArrivingInv, Unsettling
<1>8. JobsInv'
  <2>1. ASSUME NEW j \in Unsettling'
        PROVE  /\ j \in OwnIds /\ j <= id
               /\ Live(receipts, j) \/ \E x \in arriving' : x.id = j
    <3>1. CASE j \in Unsettling
      BY <1>1, <1>3, <1>6, <3>1 DEF JobsInv
    <3>2. CASE j = id
      <4>1. [id |-> id, at |-> now, refused |-> refused] \in arriving'
        BY <1>1
      <4>2. [id |-> id, at |-> now, refused |-> refused].id = id
        OBVIOUS
      <4>3. QED
        BY <1>3, <3>2, <4>1, <4>2
    <3>3. QED
      BY <1>1, <1>2, <2>1, <3>1, <3>2 DEF Unsettling
  <2>2. \A j : Live(receipts, j) => Live(receipts, j)'
    BY <1>4 DEF Live
  <2>3. jobs' \cap settling' = {}
    BY <1>1, <1>2, <1>6 DEF JobsInv, Unsettling
  <2>4. QED
    BY <1>4, <2>1, <2>2, <2>3 DEF JobsInv
<1>9. QED
  BY <1>2, <1>3, <1>4, <1>7, <1>8 DEF Running

LEMMA RecordStep == ASSUME IInv, Running, NEW x, Record(x) PROVE IInv'
<1> USE DEF IInv
<1> DEFINE swept == Expire(receipts, x.at)
           e     == Entry(AgentOf[x.id], DestOf[x.id], IF x.refused THEN x.at ELSE None,
                          IF x.refused THEN "dropped" ELSE "pending")
           held  == Insert(swept, x.id, e)
           last  == IF x.refused THEN Queued(held, x.id, AgentOf[x.id]) ELSE held
<1>1. /\ x \in arriving /\ arriving' = arriving \ {x} /\ receipts' = Evict(last)
      /\ UNCHANGED <<bound, jobs, settling, stage>>
  BY DEF Record, closeVars
<1>2. Keeps(receipts, swept, {})
  BY SweepsKeep
<1>3. /\ Keeps(swept, held, {x.id})
      /\ e.answer = "pending" /\ e.at = None => Live(held, x.id)
  BY <1>2, InsertKeeps DEF Keeps
<1>4. Keeps(held, last, {})
  BY <1>3, QueueKeeps DEF Keeps
<1>5. Keeps(last, receipts', {})
  BY <1>1, <1>4, SweepsKeep DEF Keeps
<1>6. ~x.refused => e.answer = "pending" /\ e.at = None
  BY DEF Entry
<1> HIDE DEF swept, e, held, last
<1>7. ~x.refused => Live(receipts', x.id)
  BY <1>3, <1>4, <1>5, <1>6 DEF Keeps
<1>8. Keeps(receipts, receipts', {x.id})
  BY <1>2, <1>3, <1>4, <1>5 DEF Keeps
<1>9. ArrivingInv'
  BY <1>1, <1>8 DEF ArrivingInv, Keeps, Unsettling
<1>10. JobsInv'
  BY <1>1, <1>7, <1>8 DEF ArrivingInv, JobsInv, Keeps, Unsettling
<1>11. QED
  BY <1>1, <1>8, <1>9, <1>10 DEF Keeps, Running

LEMMA RunStep == ASSUME IInv, Running, NEW id \in jobs, Run(id) PROVE IInv'
<1>1. UNCHANGED <<bound, receipts, arriving, stage>>
  BY DEF Run, closeVars
<1>2. jobs' \cap settling' = {} /\ Unsettling' = Unsettling /\ Running'
  BY <1>1 DEF Run, IInv, JobsInv, Unsettling, Running
<1>3. Keeps(receipts, receipts', {})
  BY <1>1 DEF IInv, Keeps
<1>4. QED
  BY <1>1, <1>2, <1>3, QuietStep

LEMMA SettleStep == ASSUME IInv, Running, NEW id \in settling, Settle(id) PROVE IInv'
<1> DEFINE one == IF Settles(receipts, id)
                    THEN Queued(Answered(receipts, id, "ran"), id, receipts.entries[id].agent)
                    ELSE receipts
<1>1. /\ receipts' = Expire(one, now) /\ settling' = settling \ {id}
      /\ UNCHANGED <<bound, arriving, jobs, stage>>
  BY DEF Settle, closeVars
<1>2. IsTable(receipts)
  BY DEF IInv
<1>3. Keeps(receipts, one, {id})
  <2>1. Keeps(receipts, Answered(receipts, id, "ran"), {id})
    BY <1>2, AnsweredKeeps
  <2>2. Keeps(Answered(receipts, id, "ran"),
              Queued(Answered(receipts, id, "ran"), id, receipts.entries[id].agent), {})
    BY <2>1, QueueKeeps DEF Keeps
  <2>3. QED
    BY <1>2, <2>1, <2>2 DEF Keeps
<1> HIDE DEF one
<1>4. Keeps(receipts, receipts', {id})
  BY <1>1, <1>3, SweepsKeep DEF Keeps
<1>5. jobs \cap settling = {}
  BY DEF IInv, JobsInv
<1>6. /\ jobs' \cap settling' = {} /\ Unsettling' \subseteq Unsettling /\ {id} \cap Unsettling' = {}
      /\ Running'
  BY <1>1, <1>5 DEF Unsettling, Running
<1>7. QED
  BY <1>1, <1>4, <1>6, QuietStep

LEMMA ReplayStep == ASSUME IInv, Running, NEW id \in Foreign, ReplaySettle(id) PROVE IInv'
<1>1. IsTable(receipts)
  BY DEF IInv
<1>2. UNCHANGED <<bound, arriving, jobs, settling, stage>>
  BY DEF ReplaySettle, closeVars
<1>3. Keeps(receipts, receipts', {id})
  <2>1. CASE receipts' = receipts
    BY <1>1, <2>1 DEF Keeps
  <2>2. ASSUME NEW e, NEW a, receipts' = Evict(Expire(Queued(Insert(receipts, id, e), id, a), now))
        PROVE  Keeps(receipts, receipts', {id})
    <3>1. Keeps(receipts, Insert(receipts, id, e), {id})
      BY <1>1, InsertKeeps
    <3>2. Keeps(receipts, Queued(Insert(receipts, id, e), id, a), {id})
      BY <3>1, QueueKeeps, ZenonT(40) DEF Keeps
    <3>3. Keeps(receipts, Expire(Queued(Insert(receipts, id, e), id, a), now), {id})
      BY <3>2, SweepsKeep DEF Keeps
    <3>4. QED
      BY <2>2, <3>3, SweepsKeep DEF Keeps
  <2>3. QED
    BY <2>1, <2>2 DEF ReplaySettle
<1>4. /\ {id} \cap Unsettling' = {} /\ jobs' \cap settling' = {} /\ Unsettling' = Unsettling
      /\ Running'
  BY <1>2, ReceiptsAssumption DEF ReceiptsAssumption, IInv, JobsInv, Unsettling, Running
<1>5. QED
  BY <1>2, <1>3, <1>4, QuietStep

(* What a caller does to the table is a sweep or a delivery mark.            *)
LEMMA CallerStep ==
  ASSUME IInv, Running,
         \/ \E a \in Agents, d \in Dests, most \in 1..2 : TakePiggyback(a, d, most)
         \/ \E c \in Callers : \/ \E id \in Ids : Ask(c, id)
                               \/ ClaimShare(c) \/ ClaimSlot(c) \/ LookLate(c)
                               \/ TimeOut(c) \/ Cancel(c) \/ Round(c)
  PROVE  IInv'
<1>1. IsTable(receipts) /\ Keeps(receipts, receipts, {})
  BY DEF IInv, Keeps
<1>2. Keeps(receipts, Expire(receipts, now), {})
  BY <1>1, SweepsKeep
<1>3. \A a, gone : /\ Keeps(receipts, Unqueued(receipts, a, gone), {})
                   /\ Keeps(receipts, Unqueued(Expire(receipts, now), a, gone), {})
  BY <1>1, <1>2, QueueKeeps DEF Keeps
<1>4. ASSUME NEW c, NEW id, NEW waits, Answer(c, id, waits)
      PROVE  Keeps(receipts, receipts', {}) /\ UNCHANGED <<bound, arriving, jobs, settling, stage>>
  BY <1>2, <1>4 DEF Answer, pipeVars, closeVars
<1>5. ASSUME NEW a, NEW d, NEW most, TakePiggyback(a, d, most)
      PROVE  Keeps(receipts, receipts', {}) /\ UNCHANGED <<bound, arriving, jobs, settling, stage>>
  BY <1>3, <1>5 DEF TakePiggyback, pipeVars, closeVars
<1>6. ASSUME NEW c, NEW id, Ask(c, id)
      PROVE  Keeps(receipts, receipts', {}) /\ UNCHANGED <<bound, arriving, jobs, settling, stage>>
  BY <1>1, <1>4, <1>6 DEF Ask, pipeVars, closeVars
<1>7. ASSUME NEW c, ClaimShare(c) \/ ClaimSlot(c) \/ LookLate(c) \/ TimeOut(c) \/ Cancel(c)
      PROVE  Keeps(receipts, receipts', {}) /\ UNCHANGED <<bound, arriving, jobs, settling, stage>>
  BY <1>1, <1>4, <1>7 DEF ClaimShare, ClaimSlot, LookLate, TimeOut, Cancel, pipeVars, closeVars
<1>8. ASSUME NEW c, Round(c)
      PROVE  Keeps(receipts, receipts', {}) /\ UNCHANGED <<bound, arriving, jobs, settling, stage>>
  <2>1. CASE Enable(c) \/ Check(c) \/ Wake(c)
    BY <1>1, <2>1 DEF Enable, Check, Wake, pipeVars, closeVars
  <2>2. CASE Look(c) \/ Final(c)
    BY <1>4, <2>2 DEF Look, Final
  <2>3. CASE MarkDelivered(c)
    BY <1>1, <1>3, <2>3 DEF MarkDelivered, pipeVars, closeVars
  <2>4. QED
    BY <1>8, <2>1, <2>2, <2>3 DEF Round
<1>9. Keeps(receipts, receipts', {}) /\ UNCHANGED <<bound, arriving, jobs, settling, stage>>
  BY <1>5, <1>6, <1>7, <1>8
<1>10. jobs' \cap settling' = {} /\ Unsettling' = Unsettling /\ Running'
  BY <1>9 DEF IInv, JobsInv, Unsettling, Running
<1>11. QED
  BY <1>9, <1>10, QuietStep

(* From the abort on there is no job, and none is admitted.                  *)
LEMMA LateStep == ASSUME IInv, ~Running, [Next]_vars PROVE IInv'
<1> USE DEF IInv, Running
<1>0. jobs = {} /\ settling = {}
  BY DEF Unsettling
<1> DEFINE Late == bound' = bound /\ jobs' = {} /\ settling' = {} /\ ~Running'
<1>1. ASSUME Admit PROVE Late
  BY <1>0, <1>1 DEF Admit, closeVars
<1>2. ASSUME NEW x, Record(x) PROVE Late
  BY <1>0, <1>2 DEF Record, closeVars
<1>3. ASSUME NEW id \in jobs \cup settling PROVE Late
  BY <1>0, <1>3
<1>4. ASSUME \/ ReplayPublish \/ Seal \/ AbortWorkers \/ ReleaseWaits \/ Tick \/ Notify
             \/ UNCHANGED vars
      PROVE  Late
  BY <1>0, <1>4 DEF ReplayPublish, Seal, AbortWorkers, ReleaseWaits, Tick, Notify, vars, pipeVars, closeVars
<1>5. ASSUME NEW id, ReplaySettle(id) PROVE Late
  BY <1>0, <1>5 DEF ReplaySettle
<1>6. ASSUME NEW flush, SettleDeferred(flush) PROVE Late
  BY <1>0, <1>6 DEF SettleDeferred
<1>7. ASSUME NEW c, NEW id, NEW waits, Answer(c, id, waits) PROVE Late
  BY <1>0, <1>7 DEF Answer, pipeVars, closeVars
<1>8. ASSUME NEW a, NEW d, NEW most, TakePiggyback(a, d, most) PROVE Late
  BY <1>0, <1>8 DEF TakePiggyback, pipeVars, closeVars
<1>9. ASSUME NEW c, NEW id, Ask(c, id) PROVE Late
  BY <1>0, <1>7, <1>9 DEF Ask, pipeVars, closeVars
<1>10. ASSUME NEW c, ClaimShare(c) \/ ClaimSlot(c) \/ LookLate(c) \/ TimeOut(c) \/ Cancel(c)
       PROVE  Late
  BY <1>0, <1>7, <1>10 DEF ClaimShare, ClaimSlot, LookLate, TimeOut, Cancel, pipeVars, closeVars
<1>11. ASSUME NEW c, Round(c) PROVE Late
  BY <1>0, <1>7, <1>11 DEF Round, Enable, Look, Check, Wake, Final, MarkDelivered, pipeVars, closeVars
<1> HIDE DEF Late
<1>12. Late
  BY <1>1, <1>2, <1>3, <1>4, <1>5, <1>6, <1>8, <1>9, <1>10, <1>11 DEF Next
<1>13. QED
  BY <1>12 DEF Late, Unsettling

LEMMA StepInv == IInv /\ [Next]_vars => IInv'
<1> SUFFICES ASSUME IInv, [Next]_vars, Running PROVE IInv'
  BY LateStep
<1>1. Keeps(receipts, receipts, {})
  BY DEF IInv, Keeps
<1>2. CASE \/ ReplayPublish \/ Seal \/ Tick \/ Notify \/ UNCHANGED vars
  <2>1. UNCHANGED <<bound, receipts, arriving, jobs, settling>> /\ Running'
    BY <1>2 DEF ReplayPublish, Seal, Tick, Notify, vars, pipeVars, closeVars, Running
  <2>2. jobs' \cap settling' = {} /\ Unsettling' = Unsettling
    BY <2>1 DEF IInv, JobsInv, Unsettling
  <2>3. QED
    BY <1>1, <2>1, <2>2, QuietStep
<1>3. CASE AbortWorkers
  BY <1>3 DEF AbortWorkers, IInv, Running, Unsettling
<1>4. CASE (\E flush \in {"durable", "incomplete"} : SettleDeferred(flush)) \/ ReleaseWaits
  BY <1>4 DEF SettleDeferred, ReleaseWaits, Running
<1>5. QED
  BY <1>2, <1>3, <1>4, AdmitStep, RecordStep, RunStep, SettleStep, ReplayStep, CallerStep DEF Next

LEMMA Invariance == Spec => []IInv
<1>1. QED
  BY InitInv, StepInv, PTL DEF Spec

(* A write that is queued, running or not settled yet is never swept or      *)
(* evicted: it has a pending receipt, or one about to be entered, until its  *)
(* outcome is settled or a close has taken it.                               *)
THEOREM LiveWritesAreHeld == Spec => []LiveWriteKeepsReceipt
<1>1. IInv => LiveWriteKeepsReceipt
  BY DEF IInv, JobsInv, Unsettling, Live, LiveWriteKeepsReceipt
<1>2. QED
  BY <1>1, Invariance, PTL

-----------------------------------------------------------------------------
(* The table.                                                                *)

Answers      == Outcomes \cup {"pending"}
EntryRecords == [agent : Agents, to : Dests, at : Int, answer : Answers]
Entries == UNION {[D -> EntryRecords] : D \in SUBSET Ids}
Orders  == Seq(Ids)
Queues  == [Agents -> Orders]
Tables  == [entries : Entries, order : Orders, undelivered : Queues, highestSeq : Nat]

Distinct(s) == \A i, j \in 1..Len(s) : s[i] = s[j] => i = j

(* An id is in order once, and in the queue of its agent at most once, and    *)
(* then it is settled.                                                        *)
Sound(r) ==
  /\ r \in Tables
  /\ Distinct(r.order) /\ \A id : Contains(r.order, id) <=> id \in DOMAIN r.entries
  /\ \A id \in DOMAIN r.entries : r.entries[id].at = None <=> r.entries[id].answer = "pending"
  /\ \A a \in Agents :
       /\ Distinct(r.undelivered[a])
       /\ \A id : Contains(r.undelivered[a], id) =>
            /\ id \in DOMAIN r.entries
            /\ r.entries[id].agent = a /\ r.entries[id].at # None

(* What the owner of entry e, queued or not, has been told of it, and how     *)
(* often it was handed: nothing before it settles; then it waits in the queue *)
(* or was told its answer, an upgraded one maybe the answer before that.      *)
Earlier(e) == IF e.answer = "intent_durable" THEN {"close_unflushed"} ELSE {}
Tale(e, queued, said, times, out) ==
  /\ e.at = None => said = {} /\ times = 0
  /\ e.at # None => e.answer \in said \/ queued \/ out
  /\ said \subseteq {e.answer} \cup Earlier(e)
  /\ queued /\ times # 0 => times = 1 /\ "close_unflushed" \in said /\ e.answer = "intent_durable"
  /\ times # 0 => /\ said # {}
                  /\ times = 1 \/ (times = 2 /\ {"close_unflushed", "intent_durable"} \subseteq said)

Waits(r, id) == Contains(r.undelivered[r.entries[id].agent], id)

Story(r, said, times, missing) ==
  \A id \in DOMAIN r.entries :
    Tale(r.entries[id], Waits(r, id), said[id], times[id], id \in missing)

(* What is not settled, and nothing evicts.                                   *)
Owes(r) == {id \in DOMAIN r.entries : r.entries[id].at = None}

LEMMA EntriesType ==
  ASSUME NEW D \in SUBSET Ids, NEW f \in [D -> EntryRecords]
  PROVE  f \in Entries
<1> HIDE DEF EntryRecords, Ids
<1>1. QED
  BY DEF Entries

LEMMA TableFields ==
  ASSUME NEW r \in Tables
  PROVE  /\ DOMAIN r.entries \subseteq Ids /\ r.entries \in [DOMAIN r.entries -> EntryRecords]
         /\ r.entries \in Entries /\ r.order \in Orders /\ r.undelivered \in Queues
         /\ r.highestSeq \in Nat /\ IsTable(r)
<1>1. /\ r.entries \in Entries /\ r.order \in Orders /\ r.undelivered \in Queues
      /\ r.highestSeq \in Nat /\ IsTable(r)
  BY DEF Tables, IsTable
<1> HIDE DEF EntryRecords, Ids
<1>2. PICK D \in SUBSET Ids : r.entries \in [D -> EntryRecords]
  BY <1>1 DEF Entries
<1>3. DOMAIN r.entries = D
  BY <1>2
<1>4. QED
  BY <1>1, <1>2, <1>3

(* Its fields written one by one.                                             *)
Rewritten(r, entries, order, undelivered) ==
  [r EXCEPT !.entries = entries, !.order = order, !.undelivered = undelivered]

LEMMA TableWritten ==
  ASSUME NEW r \in Tables, NEW entries \in Entries, NEW order \in Orders, NEW undelivered \in Queues
  PROVE  /\ Rewritten(r, entries, order, undelivered) \in Tables
         /\ Rewritten(r, entries, order, undelivered).entries = entries
         /\ Rewritten(r, entries, order, undelivered).order = order
         /\ Rewritten(r, entries, order, undelivered).undelivered = undelivered
         /\ Rewritten(r, entries, order, undelivered).highestSeq = r.highestSeq
BY DEF Tables, Rewritten

(* A filtered queue.                                                          *)
LEMMA WithoutIs ==
  ASSUME NEW ids \in Orders, NEW gone
  PROVE  /\ Without(ids, gone) \in Orders
         /\ \A id : Contains(Without(ids, gone), id) <=> Contains(ids, id) /\ id \notin gone
         /\ Distinct(ids) => Distinct(Without(ids, gone))
<1> DEFINE S == ToSet(ids) \ gone
           kept == Kept(ids, S)
<1>1. Without(ids, gone) = kept
  BY DEF Without
<1>2. kept \in Orders
  BY KeptType DEF Orders
<1>3. /\ \A v : (\E i \in 1..Len(kept) : kept[i] = v) <=> v \in S /\ \E i \in 1..Len(ids) : ids[i] = v
      /\ (\A i, j \in 1..Len(ids) : ids[i] = ids[j] => i = j) =>
           \A i, j \in 1..Len(kept) : kept[i] = kept[j] => i = j
  BY KeptElements DEF Orders
<1>4. \A v : v \in S <=> (\E i \in 1..Len(ids) : ids[i] = v) /\ v \notin gone
  BY DEF ToSet
<1> HIDE DEF S, kept
<1>5. \A v : Contains(kept, v) <=> Contains(ids, v) /\ v \notin gone
  BY <1>3, <1>4 DEF Contains
<1>6. Distinct(ids) => Distinct(kept)
  BY <1>3 DEF Distinct
<1>7. QED
  BY <1>1, <1>2, <1>5, <1>6

(* A longer queue.                                                            *)
LEMMA AppendIs ==
  ASSUME NEW ids \in Orders, NEW id \in Ids
  PROVE  /\ Append(ids, id) \in Orders
         /\ \A x : Contains(Append(ids, id), x) <=> Contains(ids, x) \/ x = id
         /\ Distinct(ids) /\ ~Contains(ids, id) => Distinct(Append(ids, id))
<1> DEFINE longer == Append(ids, id)
           n == Len(ids)
<1>1. /\ n \in Nat /\ longer \in Orders /\ Len(longer) = n + 1 /\ longer[n + 1] = id
      /\ \A i \in 1..n : longer[i] = ids[i]
  BY DEF Orders
<1> HIDE DEF longer, n
<1>2. 1..n + 1 = (1..n) \cup {n + 1}
  BY <1>1
<1>3. \A x : Contains(longer, x) <=> Contains(ids, x) \/ x = id
  BY <1>1, <1>2 DEF Contains, n
<1>4. Distinct(ids) /\ ~Contains(ids, id) => Distinct(longer)
  BY <1>1, <1>2 DEF Contains, Distinct, n
<1>5. QED
  BY <1>1, <1>3, <1>4 DEF longer

(* s is a table of which the entries but those of ids are entries of r.       *)
Alike(r, s, ids) ==
  /\ Sound(s) /\ s.highestSeq = r.highestSeq
  /\ \A id \in DOMAIN s.entries \ ids :
       /\ id \in DOMAIN r.entries /\ s.entries[id] = r.entries[id]
       /\ Waits(s, id) <=> Waits(r, id)

LEMMA AlikeTwice == ASSUME NEW r, NEW s, NEW t, NEW ids, Alike(r, s, ids), Alike(s, t, ids)
                    PROVE  Alike(r, t, ids)
BY DEF Alike

LEMMA ForgetIs ==
  ASSUME NEW r, Sound(r), NEW gone
  PROVE  /\ Alike(r, Forget(r, gone), {})
         /\ DOMAIN Forget(r, gone).entries = DOMAIN r.entries \ gone
<1> DEFINE s == Forget(r, gone)
           entries == [id \in DOMAIN r.entries \ gone |-> r.entries[id]]
           queues == [a \in Agents |-> Without(r.undelivered[a], gone)]
<1>1. r \in Tables
  BY DEF Sound
<1>3. /\ DOMAIN r.entries \subseteq Ids /\ r.entries \in [DOMAIN r.entries -> EntryRecords]
      /\ r.order \in Orders /\ r.undelivered \in Queues /\ r.highestSeq \in Nat
  BY <1>1, TableFields
<1>5. entries \in Entries
  BY <1>3, EntriesType
<1>6. /\ Without(r.order, gone) \in Orders /\ Distinct(Without(r.order, gone))
      /\ \A id : Contains(Without(r.order, gone), id) <=> Contains(r.order, id) /\ id \notin gone
  BY <1>3, WithoutIs DEF Sound
<1>7. \A a \in Agents :
        /\ queues[a] \in Orders /\ Distinct(queues[a])
        /\ \A id : Contains(queues[a], id) <=> Contains(r.undelivered[a], id) /\ id \notin gone
  <2>1. ASSUME NEW a \in Agents
        PROVE  r.undelivered[a] \in Orders /\ Distinct(r.undelivered[a])
    BY <1>3 DEF Sound, Queues
  <2>2. QED
    BY <2>1, WithoutIs
<1>8. queues \in Queues
  <2> DEFINE q(a) == Without(r.undelivered[a], gone)
  <2>1. \A a \in Agents : q(a) \in Orders
    BY <1>7
  <2> HIDE DEF q
  <2>2. [a \in Agents |-> q(a)] \in [Agents -> Orders]
    BY <2>1
  <2>3. QED
    BY <2>2 DEF q, Queues
<1>9. s = Rewritten(r, entries, Without(r.order, gone), queues)
  BY DEF Forget, Rewritten
<1> HIDE DEF s, queues
<1>4. /\ s \in Tables
      /\ s.entries = entries /\ s.order = Without(r.order, gone) /\ s.undelivered = queues
      /\ s.highestSeq = r.highestSeq
  <2> HIDE DEF entries
  <2>1. QED
    BY <1>1, <1>3, <1>5, <1>6, <1>8, <1>9, TableWritten
<1>10. /\ DOMAIN s.entries = DOMAIN r.entries \ gone
       /\ \A id \in DOMAIN s.entries : s.entries[id] = r.entries[id]
  BY <1>4
<1>12. Sound(s)
  <2>1. /\ Distinct(s.order) /\ \A id : Contains(s.order, id) <=> id \in DOMAIN s.entries
    BY <1>4, <1>6, <1>10 DEF Sound
  <2>2. \A id \in DOMAIN s.entries : s.entries[id].at = None <=> s.entries[id].answer = "pending"
    BY <1>10 DEF Sound
  <2>3. \A a \in Agents :
          /\ Distinct(s.undelivered[a])
          /\ \A id : Contains(s.undelivered[a], id) =>
               /\ id \in DOMAIN s.entries
               /\ s.entries[id].agent = a /\ s.entries[id].at # None
    BY <1>4, <1>7, <1>10 DEF Sound
  <2>4. QED
    BY ONLY <1>4, <2>1, <2>2, <2>3 DEF Sound
<1>13. ASSUME NEW id \in DOMAIN s.entries PROVE Waits(s, id) <=> Waits(r, id)
  <2>1. r.entries[id].agent \in Agents
    BY <1>3, <1>10 DEF EntryRecords
  <2>2. QED
    BY <1>4, <1>7, <1>10, <1>13, <2>1 DEF Waits
<1>14. QED
  BY <1>4, <1>10, <1>12, <1>13 DEF s, Alike

LEMMA InsertIs ==
  ASSUME NEW r, Sound(r), NEW id \in Ids \ DOMAIN r.entries, NEW e \in EntryRecords,
         e.at = None <=> e.answer = "pending"
  PROVE  /\ Alike(r, Insert(r, id, e), {id})
         /\ DOMAIN Insert(r, id, e).entries = DOMAIN r.entries \cup {id}
         /\ Insert(r, id, e).entries[id] = e /\ ~Waits(Insert(r, id, e), id)
<1> DEFINE s == Insert(r, id, e)
           entries == [x \in DOMAIN r.entries \cup {id} |-> IF x = id THEN e ELSE r.entries[x]]
<1>1. r \in Tables
  BY DEF Sound
<1>2. /\ DOMAIN r.entries \subseteq Ids /\ r.entries \in [DOMAIN r.entries -> EntryRecords]
      /\ r.order \in Orders /\ r.undelivered \in Queues /\ r.highestSeq \in Nat
  BY <1>1, TableFields
<1>3. entries \in [DOMAIN r.entries \cup {id} -> EntryRecords]
  <2> HIDE DEF EntryRecords
  <2>1. QED
    BY <1>2
<1>4. entries \in Entries
  BY <1>2, <1>3, EntriesType
<1>5. ~Contains(r.order, id) /\ Distinct(r.order)
  BY DEF Sound
<1>6. /\ Append(r.order, id) \in Orders /\ Distinct(Append(r.order, id))
      /\ \A x : Contains(Append(r.order, id), x) <=> Contains(r.order, x) \/ x = id
  BY <1>2, <1>5, AppendIs
<1>7. s = Rewritten(r, entries, Append(r.order, id), r.undelivered)
  <2>1. r \in [entries : Entries, order : Orders, undelivered : Queues, highestSeq : Nat]
    BY <1>1 DEF Tables
  <2>2. QED
    BY <2>1 DEF Insert, Rewritten
<1> HIDE DEF s
<1>8. /\ s \in Tables
      /\ s.entries = entries /\ s.order = Append(r.order, id) /\ s.undelivered = r.undelivered
      /\ s.highestSeq = r.highestSeq
  <2> DEFINE order == Append(r.order, id)
  <2>1. order \in Orders /\ s = Rewritten(r, entries, order, r.undelivered)
    BY <1>6, <1>7
  <2> HIDE DEF entries, order
  <2>2. /\ s \in Tables
        /\ s.entries = entries /\ s.order = order /\ s.undelivered = r.undelivered
        /\ s.highestSeq = r.highestSeq
    BY <1>1, <1>2, <1>4, <2>1, TableWritten
  <2>3. QED
    BY <2>2 DEF order
<1>9. /\ DOMAIN s.entries = DOMAIN r.entries \cup {id} /\ s.entries[id] = e
      /\ \A x \in DOMAIN r.entries : s.entries[x] = r.entries[x]
  BY <1>8
<1>10. Sound(s)
  <2>1. /\ Distinct(s.order) /\ \A x : Contains(s.order, x) <=> x \in DOMAIN s.entries
    BY <1>6, <1>8, <1>9 DEF Sound
  <2>2. \A x \in DOMAIN s.entries : s.entries[x].at = None <=> s.entries[x].answer = "pending"
    BY <1>9 DEF Sound
  <2>3. \A a \in Agents :
          /\ Distinct(s.undelivered[a])
          /\ \A x : Contains(s.undelivered[a], x) =>
               /\ x \in DOMAIN s.entries
               /\ s.entries[x].agent = a /\ s.entries[x].at # None
    BY <1>8, <1>9 DEF Sound
  <2>4. QED
    BY ONLY <1>8, <2>1, <2>2, <2>3 DEF Sound
<1>11. e.agent \in Agents
  BY DEF EntryRecords
<1>12. ~Waits(s, id)
  BY <1>8, <1>9, <1>11 DEF Waits, Sound
<1>13. \A x \in DOMAIN r.entries : Waits(s, x) <=> Waits(r, x)
  BY <1>8, <1>9 DEF Waits
<1>14. QED
  BY <1>8, <1>9, <1>10, <1>12, <1>13 DEF s, Alike

Requeued(r, a, queue) == [r EXCEPT !.undelivered[a] = queue]

LEMMA QueuesWritten ==
  ASSUME NEW r, Sound(r), NEW a \in Agents, NEW queue \in Orders, NEW s, s = Requeued(r, a, queue)
  PROVE  /\ s \in Tables /\ s.entries = r.entries /\ s.order = r.order /\ s.highestSeq = r.highestSeq
         /\ s.undelivered[a] = queue
         /\ \A b \in Agents \ {a} : s.undelivered[b] = r.undelivered[b]
<1>1. r \in Tables
  BY DEF Sound
<1>2. /\ r.entries \in Entries /\ r.order \in Orders /\ r.undelivered \in Queues
      /\ r.highestSeq \in Nat
  BY <1>1, TableFields
<1> DEFINE queues == [r.undelivered EXCEPT ![a] = queue]
<1>3. queues \in Queues
  BY <1>2 DEF Queues
<1>4. s = Rewritten(r, r.entries, r.order, queues)
  BY <1>1 DEF Tables, Rewritten, Requeued
<1>5. queues[a] = queue /\ \A b \in Agents \ {a} : queues[b] = r.undelivered[b]
  BY <1>2 DEF Queues
<1> HIDE DEF queues
<1>6. /\ s \in Tables /\ s.entries = r.entries /\ s.order = r.order /\ s.highestSeq = r.highestSeq
      /\ s.undelivered = queues
  BY ONLY <1>1, <1>2, <1>3, <1>4, TableWritten
<1>7. QED
  BY <1>5, <1>6

LEMMA QueuedIs ==
  ASSUME NEW r, Sound(r), NEW id \in DOMAIN r.entries, r.entries[id].at # None, ~Waits(r, id),
         NEW a, a = r.entries[id].agent
  PROVE  /\ Alike(r, Queued(r, id, a), {id})
         /\ Queued(r, id, a).entries = r.entries /\ Waits(Queued(r, id, a), id)
<1> DEFINE s == Queued(r, id, a)
           queue == Append(r.undelivered[a], id)
<1>1. r \in Tables
  BY DEF Sound
<1>2. /\ id \in Ids /\ a \in Agents /\ r.undelivered \in [Agents -> Orders]
  BY <1>1, TableFields DEF EntryRecords, Queues
<1>3. r.undelivered[a] \in Orders /\ Distinct(r.undelivered[a]) /\ ~Contains(r.undelivered[a], id)
  BY <1>2 DEF Sound, Waits
<1>4. /\ queue \in Orders /\ Distinct(queue)
      /\ \A x : Contains(queue, x) <=> Contains(r.undelivered[a], x) \/ x = id
  BY <1>2, <1>3, AppendIs
<1>5. s = Requeued(r, a, queue)
  BY DEF Queued, Requeued
<1> HIDE DEF s, queue
<1>6. /\ s \in Tables /\ s.entries = r.entries /\ s.order = r.order /\ s.highestSeq = r.highestSeq
      /\ s.undelivered[a] = queue
      /\ \A b \in Agents \ {a} : s.undelivered[b] = r.undelivered[b]
  BY <1>2, <1>4, <1>5, QueuesWritten
<1>7. Sound(s)
  <2>1. \A b \in Agents :
          /\ Distinct(s.undelivered[b])
          /\ \A x : Contains(s.undelivered[b], x) =>
               /\ x \in DOMAIN s.entries
               /\ s.entries[x].agent = b /\ s.entries[x].at # None
    BY <1>4, <1>6 DEF Sound
  <2>2. QED
    BY <1>6, <2>1 DEF Sound
<1>8. Waits(s, id)
  BY <1>4, <1>6 DEF Waits
<1>9. ASSUME NEW x \in DOMAIN r.entries \ {id} PROVE Waits(s, x) <=> Waits(r, x)
  <2>1. r.entries[x].agent \in Agents
    BY <1>1, TableFields DEF EntryRecords
  <2>2. QED
    BY <1>4, <1>6, <2>1 DEF Waits
<1>10. QED
  BY <1>6, <1>7, <1>8, <1>9 DEF s, Alike

LEMMA UnqueuedIs ==
  ASSUME NEW r, Sound(r), NEW a \in Agents, NEW gone
  PROVE  LET s == Unqueued(r, a, gone) IN
         /\ Sound(s) /\ s.entries = r.entries /\ s.highestSeq = r.highestSeq
         /\ \A id \in DOMAIN r.entries :
              Waits(s, id) <=> Waits(r, id) /\ (r.entries[id].agent = a => id \notin gone)
<1> DEFINE s == Unqueued(r, a, gone)
           queue == Without(r.undelivered[a], gone)
<1>1. r \in Tables
  BY DEF Sound
<1>2. r.undelivered \in [Agents -> Orders]
  BY <1>1, TableFields DEF Queues
<1>3. r.undelivered[a] \in Orders /\ Distinct(r.undelivered[a])
  BY <1>2 DEF Sound
<1>4. /\ queue \in Orders /\ Distinct(queue)
      /\ \A x : Contains(queue, x) <=> Contains(r.undelivered[a], x) /\ x \notin gone
  BY <1>3, WithoutIs
<1>5. s = Requeued(r, a, queue)
  BY DEF Unqueued, Requeued
<1> HIDE DEF s, queue
<1>6. /\ s \in Tables /\ s.entries = r.entries /\ s.order = r.order /\ s.highestSeq = r.highestSeq
      /\ s.undelivered[a] = queue
      /\ \A b \in Agents \ {a} : s.undelivered[b] = r.undelivered[b]
  BY <1>4, <1>5, QueuesWritten
<1>7. Sound(s)
  <2>1. \A b \in Agents :
          /\ Distinct(s.undelivered[b])
          /\ \A x : Contains(s.undelivered[b], x) =>
               /\ x \in DOMAIN s.entries
               /\ s.entries[x].agent = b /\ s.entries[x].at # None
    BY <1>4, <1>6 DEF Sound
  <2>2. QED
    BY <1>6, <2>1 DEF Sound
<1>8. ASSUME NEW x \in DOMAIN r.entries
      PROVE  Waits(s, x) <=> Waits(r, x) /\ (r.entries[x].agent = a => x \notin gone)
  <2>1. r.entries[x].agent \in Agents
    BY <1>1, TableFields DEF EntryRecords
  <2>2. QED
    BY <1>4, <1>6, <2>1 DEF Waits
<1>9. QED
  BY <1>6, <1>7, <1>8 DEF s

LEMMA AnsweredIs ==
  ASSUME NEW r, Sound(r), NEW id \in DOMAIN r.entries, NEW ans \in Outcomes, now \in Nat
  PROVE  /\ Alike(r, Answered(r, id, ans), {id})
         /\ DOMAIN Answered(r, id, ans).entries = DOMAIN r.entries
         /\ Answered(r, id, ans).entries[id] = Entry(r.entries[id].agent, r.entries[id].to, now, ans)
         /\ Waits(Answered(r, id, ans), id) <=> Waits(r, id)
<1> DEFINE s == Answered(r, id, ans)
           e == Entry(r.entries[id].agent, r.entries[id].to, now, ans)
           entries == [r.entries EXCEPT ![id] = e]
<1>1. r \in Tables
  BY DEF Sound
<1>2. /\ DOMAIN r.entries \subseteq Ids /\ r.entries \in [DOMAIN r.entries -> EntryRecords]
      /\ r.order \in Orders /\ r.undelivered \in Queues /\ r.highestSeq \in Nat
  BY <1>1, TableFields
<1>3. /\ e \in EntryRecords /\ e.at # None /\ e.answer # "pending" /\ e.agent = r.entries[id].agent
  BY <1>2 DEF EntryRecords, Entry, Answers, Outcomes, None
<1>4. s = Rewritten(r, entries, r.order, r.undelivered)
  BY <1>1 DEF Tables, Rewritten, Answered
<1> HIDE DEF e, s
<1>5. /\ entries \in Entries /\ DOMAIN entries = DOMAIN r.entries /\ entries[id] = e
      /\ \A x \in DOMAIN r.entries \ {id} : entries[x] = r.entries[x]
  <2> HIDE DEF EntryRecords
  <2>1. entries \in [DOMAIN r.entries -> EntryRecords]
    BY <1>2, <1>3
  <2>2. QED
    BY <1>2, <2>1, EntriesType
<1> HIDE DEF entries
<1>6. /\ s \in Tables
      /\ s.entries = entries /\ s.order = r.order /\ s.undelivered = r.undelivered
      /\ s.highestSeq = r.highestSeq
  BY <1>1, <1>2, <1>4, <1>5, TableWritten
<1>7. Sound(s)
  <2>1. \A b \in Agents :
          /\ Distinct(s.undelivered[b])
          /\ \A x : Contains(s.undelivered[b], x) =>
               /\ x \in DOMAIN s.entries
               /\ s.entries[x].agent = b /\ s.entries[x].at # None
    BY <1>3, <1>5, <1>6 DEF Sound
  <2>2. \A x \in DOMAIN s.entries : s.entries[x].at = None <=> s.entries[x].answer = "pending"
    BY <1>3, <1>5, <1>6 DEF Sound
  <2>3. QED
    BY <1>5, <1>6, <2>1, <2>2 DEF Sound
<1>8. \A x \in DOMAIN r.entries : Waits(s, x) <=> Waits(r, x)
  BY <1>3, <1>5, <1>6 DEF Waits
<1>9. QED
  BY <1>5, <1>6, <1>7, <1>8 DEF s, e, Alike

-----------------------------------------------------------------------------
(* What the owners have been told.                                           *)

LEMMA StoryKeeps ==
  ASSUME NEW r, NEW s, NEW ids, NEW said, NEW times, NEW missing, Story(r, said, times, missing), Alike(r, s, ids),
         \A id \in ids : id \in DOMAIN s.entries =>
           Tale(s.entries[id], Waits(s, id), said[id], times[id], id \in missing)
  PROVE  Story(s, said, times, missing)
<1>1. ASSUME NEW id \in DOMAIN s.entries, id \notin ids
      PROVE  Tale(s.entries[id], Waits(s, id), said[id], times[id], id \in missing)
  <2>1. id \in DOMAIN r.entries /\ s.entries[id] = r.entries[id] /\ (Waits(s, id) <=> Waits(r, id))
    BY <1>1 DEF Alike
  <2>2. Tale(r.entries[id], Waits(r, id), said[id], times[id], id \in missing)
    BY <2>1 DEF Story
  <2>3. QED
    BY <2>1, <2>2 DEF Tale
<1>2. QED
  BY <1>1 DEF Story

(* Its answer is entered and queued together.                                *)
LEMMA SettleTold ==
  ASSUME NEW r, Sound(r), NEW id \in DOMAIN r.entries, r.entries[id].at = None,
         NEW ans \in Outcomes, now \in Nat, NEW said, NEW times, NEW missing, Story(r, said, times, missing)
  PROVE  LET s == Queued(Answered(r, id, ans), id, r.entries[id].agent) IN
         /\ Alike(r, s, {id}) /\ Story(s, said, times, missing)
         /\ DOMAIN s.entries = DOMAIN r.entries
         /\ s.entries[id] = Entry(r.entries[id].agent, r.entries[id].to, now, ans)
<1> DEFINE one == Answered(r, id, ans)
           a == r.entries[id].agent
           e == Entry(a, r.entries[id].to, now, ans)
           s == Queued(one, id, a)
<1>1. /\ Alike(r, one, {id}) /\ DOMAIN one.entries = DOMAIN r.entries /\ one.entries[id] = e
      /\ Waits(one, id) <=> Waits(r, id)
  BY AnsweredIs
<1>2. ~Waits(r, id)
  <2>1. a \in Agents
    BY TableFields DEF Sound, EntryRecords
  <2>2. QED
    BY <2>1 DEF Sound, Waits
<1>3. /\ e.agent = a /\ e.at = now /\ e.answer = ans /\ now # None
  BY DEF Entry, None
<1> HIDE DEF one, e, s
<1>4. /\ Sound(one) /\ id \in DOMAIN one.entries /\ one.entries[id].at # None /\ ~Waits(one, id)
      /\ one.entries[id].agent = a
  BY <1>1, <1>2, <1>3 DEF Alike
<1>5. Alike(one, s, {id}) /\ s.entries = one.entries /\ Waits(s, id)
  BY <1>4, QueuedIs DEF s
<1>6. Alike(r, s, {id})
  BY <1>1, <1>5, AlikeTwice
<1>7. Tale(r.entries[id], Waits(r, id), said[id], times[id], id \in missing)
  BY DEF Story
<1>8. Tale(s.entries[id], Waits(s, id), said[id], times[id], id \in missing)
  BY <1>1, <1>3, <1>5, <1>7 DEF Tale
<1>9. Story(s, said, times, missing)
  BY <1>6, <1>8, StoryKeeps
<1>10. QED
  BY <1>1, <1>5, <1>6, <1>9 DEF s, e, one

LEMMA EnterPending ==
  ASSUME NEW r, Sound(r), NEW id \in Ids \ DOMAIN r.entries, NEW e \in EntryRecords,
         e.at = None, e.answer = "pending",
         NEW said, NEW times, NEW missing, Story(r, said, times, missing), said[id] = {}, times[id] = 0
  PROVE  LET s == Insert(r, id, e) IN
         /\ Alike(r, s, {id}) /\ Story(s, said, times, missing)
         /\ DOMAIN s.entries = DOMAIN r.entries \cup {id} /\ s.entries[id] = e
<1> DEFINE s == Insert(r, id, e)
<1>0. e.at = None <=> e.answer = "pending"
  OBVIOUS
<1>1. /\ Alike(r, s, {id}) /\ DOMAIN s.entries = DOMAIN r.entries \cup {id}
      /\ s.entries[id] = e /\ ~Waits(s, id)
  BY ONLY <1>0, Sound(r), id \in Ids \ DOMAIN r.entries, e \in EntryRecords, InsertIs
<1> HIDE DEF s
<1>2. Tale(s.entries[id], Waits(s, id), said[id], times[id], id \in missing)
  BY <1>1 DEF Tale
<1>3. QED
  BY <1>1, <1>2, StoryKeeps DEF s

LEMMA EnterSettled ==
  ASSUME NEW r, Sound(r), NEW id \in Ids \ DOMAIN r.entries, NEW e \in EntryRecords,
         e.at # None, e.answer # "pending",
         NEW said, NEW times, NEW missing, Story(r, said, times, missing), said[id] = {}, times[id] = 0
  PROVE  LET s == Queued(Insert(r, id, e), id, e.agent) IN
         /\ Alike(r, s, {id}) /\ Story(s, said, times, missing)
         /\ DOMAIN s.entries = DOMAIN r.entries \cup {id} /\ s.entries[id] = e
<1> DEFINE held == Insert(r, id, e)
           s == Queued(held, id, e.agent)
<1>1. /\ Alike(r, held, {id}) /\ DOMAIN held.entries = DOMAIN r.entries \cup {id}
      /\ held.entries[id] = e /\ ~Waits(held, id)
  BY InsertIs
<1> HIDE DEF held, s
<1>2. Sound(held) /\ id \in DOMAIN held.entries /\ held.entries[id].at # None
      /\ e.agent = held.entries[id].agent
  BY <1>1 DEF Alike
<1>3. Alike(held, s, {id}) /\ s.entries = held.entries /\ Waits(s, id)
  BY <1>1, <1>2, QueuedIs DEF s
<1>4. Alike(r, s, {id})
  BY <1>1, <1>3, AlikeTwice
<1>5. Tale(s.entries[id], Waits(s, id), said[id], times[id], id \in missing)
  BY <1>1, <1>3 DEF Tale
<1>6. Story(s, said, times, missing)
  <2>1. \A x \in {id} : x \in DOMAIN s.entries =>
          Tale(s.entries[x], Waits(s, x), said[x], times[x], x \in missing)
    BY <1>5
  <2>2. QED
    BY <1>4, <2>1, StoryKeeps
<1>7. QED
  BY <1>1, <1>3, <1>4, <1>6 DEF held, s

(* An answer that a completed flush upgrades is told again.                  *)
LEMMA UpgradeTold ==
  ASSUME NEW r, Sound(r), NEW id \in DOMAIN r.entries, r.entries[id].answer = "close_unflushed",
         now \in Nat, NEW said, NEW times, NEW missing, Story(r, said, times, missing), NEW a, a = r.entries[id].agent,
         NEW s, s = IF Contains(r.undelivered[a], id) THEN Answered(r, id, "intent_durable")
                    ELSE Queued(Answered(r, id, "intent_durable"), id, a)
  PROVE  /\ Alike(r, s, {id}) /\ Story(s, said, times, missing)
         /\ DOMAIN s.entries = DOMAIN r.entries
         /\ s.entries[id] = Entry(a, r.entries[id].to, now, "intent_durable")
<1> DEFINE one == Answered(r, id, "intent_durable")
           e == Entry(a, r.entries[id].to, now, "intent_durable")
<1>1. /\ Alike(r, one, {id}) /\ DOMAIN one.entries = DOMAIN r.entries /\ one.entries[id] = e
      /\ Waits(one, id) <=> Waits(r, id)
  <2>1. "intent_durable" \in Outcomes
    BY DEF Outcomes
  <2>2. QED
    BY ONLY <2>1, Sound(r), id \in DOMAIN r.entries, now \in Nat, a = r.entries[id].agent,
            AnsweredIs
<1>2. /\ e.agent = a /\ e.at = now /\ e.answer = "intent_durable" /\ now # None
  BY DEF Entry, None
<1>3. Waits(r, id) <=> Contains(r.undelivered[a], id)
  BY DEF Waits
<1>4. s = IF Contains(r.undelivered[a], id) THEN one ELSE Queued(one, id, a)
  OBVIOUS
<1> HIDE DEF one, e
<1>5. Alike(r, s, {id}) /\ s.entries = one.entries /\ Waits(s, id)
  <2>1. CASE Contains(r.undelivered[a], id)
    BY <1>1, <1>3, <1>4, <2>1
  <2>2. CASE ~Contains(r.undelivered[a], id)
    <3>1. /\ Sound(one) /\ id \in DOMAIN one.entries /\ one.entries[id].at # None
          /\ ~Waits(one, id) /\ a = one.entries[id].agent
      BY <1>1, <1>2, <1>3, <2>2 DEF Alike
    <3>2. Alike(one, s, {id}) /\ s.entries = one.entries /\ Waits(s, id)
      BY <1>4, <2>2, <3>1, QueuedIs
    <3>3. QED
      BY <1>1, <3>2, AlikeTwice
  <2>3. QED
    BY <2>1, <2>2
<1>6. Tale(r.entries[id], Waits(r, id), said[id], times[id], id \in missing)
  BY DEF Story
<1>7. r.entries[id].at # None
  BY DEF Sound
<1>8. Tale(s.entries[id], Waits(s, id), said[id], times[id], id \in missing)
  <2>1. /\ said[id] \subseteq {"close_unflushed"}
        /\ Waits(r, id) => times[id] = 0
        /\ times[id] # 0 => said[id] # {} /\ times[id] = 1
    BY <1>6 DEF Tale, Earlier
  <2>2. s.entries[id] = e
    BY <1>1, <1>5
  <2>3. Earlier(e) = {"close_unflushed"}
    BY <1>2 DEF Earlier
  <2>4. /\ e.at # None /\ Waits(s, id) /\ said[id] \subseteq {e.answer} \cup Earlier(e)
        /\ times[id] # 0 => times[id] = 1 /\ "close_unflushed" \in said[id] /\ e.answer = "intent_durable"
    BY <1>2, <1>5, <2>1, <2>3
  <2>5. Tale(e, Waits(s, id), said[id], times[id], id \in missing)
    <3>1. e.at = None => said[id] = {} /\ times[id] = 0
      BY <2>4
    <3>2. e.at # None => e.answer \in said[id] \/ Waits(s, id) \/ id \in missing
      BY <2>4
    <3>3. Waits(s, id) /\ times[id] # 0 =>
            times[id] = 1 /\ "close_unflushed" \in said[id] /\ e.answer = "intent_durable"
      BY <2>4
    <3>4. times[id] # 0 =>
            /\ said[id] # {}
            /\ times[id] = 1 \/ (times[id] = 2 /\ {"close_unflushed", "intent_durable"} \subseteq said[id])
      BY <2>4
    <3>5. QED
      BY ONLY <2>4, <3>1, <3>2, <3>3, <3>4 DEF Tale
  <2>6. QED
    BY <2>2, <2>5
<1>9. Story(s, said, times, missing)
  BY ONLY <1>5, <1>8, Story(r, said, times, missing), StoryKeeps
<1>10. QED
  BY <1>1, <1>5, <1>9 DEF e

-----------------------------------------------------------------------------
(* What a close settles, one receipt after the other.                        *)

SettleOne(acc, id, flush) ==
  IF ~(Settles(acc, id) \/ Upgrades(acc, id, flush)) THEN acc
  ELSE LET one == Answered(acc, id, SettledWith(flush))
           a   == acc.entries[id].agent
       IN  IF Contains(acc.undelivered[a], id) THEN one ELSE Queued(one, id, a)

(* s is the table r with some of what was not durably settled settled.       *)
Closes(r, s) ==
  /\ s.highestSeq = r.highestSeq /\ DOMAIN s.entries = DOMAIN r.entries
  /\ Owes(s) \subseteq Owes(r)
  /\ \A id \in DOMAIN r.entries :
       r.entries[id].answer \notin {"pending", "close_unflushed"} => s.entries[id] = r.entries[id]

Closing(r, said, times, missing) == {s \in Tables : Sound(s) /\ Closes(r, s) /\ Story(s, said, times, missing)}

LEMMA SettleOneCloses ==
  ASSUME NEW r, NEW said, NEW times, NEW missing, NEW s \in Closing(r, said, times, missing), NEW id,
         NEW flush \in {"durable", "incomplete"}, now \in Nat
  PROVE  SettleOne(s, id, flush) \in Closing(r, said, times, missing)
<1> DEFINE u == SettleOne(s, id, flush)
           ans == SettledWith(flush)
           a == s.entries[id].agent
<1>1. Sound(s) /\ Closes(r, s) /\ Story(s, said, times, missing)
  BY DEF Closing
<1>2. ans \in Outcomes /\ ans # "pending" /\ now # None
  BY DEF SettledWith, Outcomes, None
<1>3. CASE ~(Settles(s, id) \/ Upgrades(s, id, flush))
  BY <1>3 DEF SettleOne
<1>4. CASE Settles(s, id) \/ Upgrades(s, id, flush)
  <2>1. id \in DOMAIN s.entries
    BY <1>4 DEF Settles, Upgrades
  <2>2. u = IF Contains(s.undelivered[a], id) THEN Answered(s, id, ans)
            ELSE Queued(Answered(s, id, ans), id, a)
    BY <1>4 DEF SettleOne
  <2>3. s.entries[id].answer \in {"pending", "close_unflushed"}
    BY <1>1, <1>4, <2>1, TableFields
       DEF Settles, Upgrades, IsSettled, Unsettled, Sound, EntryRecords, Answers, Outcomes
  <2> HIDE DEF u
  <2>4. /\ Alike(s, u, {id}) /\ Story(u, said, times, missing) /\ DOMAIN u.entries = DOMAIN s.entries
        /\ u.entries[id] = Entry(a, s.entries[id].to, now, ans)
    <3>1. CASE s.entries[id].answer = "pending"
      <4>1. s.entries[id].at = None
        BY <1>1, <2>1, <3>1 DEF Sound
      <4>2. ~Contains(s.undelivered[a], id)
        <5>1. a \in Agents
          BY <1>1, <2>1, TableFields DEF Sound, EntryRecords
        <5>2. QED
          BY <1>1, <4>1, <5>1 DEF Sound
      <4>3. u = Queued(Answered(s, id, ans), id, a)
        BY <2>2, <4>2
      <4> HIDE DEF ans
      <4>4. QED
        BY <1>1, <1>2, <2>1, <4>1, <4>3, SettleTold
    <3>2. CASE s.entries[id].answer = "close_unflushed"
      <4>1. ans = "intent_durable"
        BY <1>4, <3>2 DEF Settles, IsSettled, Unsettled, Upgrades, SettledWith
      <4>2. u = IF Contains(s.undelivered[a], id) THEN Answered(s, id, "intent_durable")
                ELSE Queued(Answered(s, id, "intent_durable"), id, a)
        BY <2>2, <4>1
      <4> HIDE DEF ans
      <4> DEFINE b == a
      <4>3. b = s.entries[id].agent
        OBVIOUS
      <4> HIDE DEF b
      <4>4. u = IF Contains(s.undelivered[b], id) THEN Answered(s, id, "intent_durable")
                ELSE Queued(Answered(s, id, "intent_durable"), id, b)
        BY <4>2 DEF b
      <4>5. /\ Alike(s, u, {id}) /\ Story(u, said, times, missing) /\ DOMAIN u.entries = DOMAIN s.entries
            /\ u.entries[id] = Entry(b, s.entries[id].to, now, "intent_durable")
        BY <1>1, <2>1, <3>2, <4>3, <4>4, UpgradeTold
      <4>6. QED
        BY <4>1, <4>5 DEF b
    <3>3. QED
      BY <2>3, <3>1, <3>2
  <2>5. Sound(u) /\ u.highestSeq = s.highestSeq
        /\ \A x \in DOMAIN s.entries \ {id} : u.entries[x] = s.entries[x]
    BY <2>4 DEF Alike
  <2>6. u.entries[id].at # None
    BY <1>2, <2>4 DEF Entry
  <2>7. Owes(u) \subseteq Owes(s)
    BY <2>4, <2>5, <2>6 DEF Owes
  <2>8. ASSUME NEW x \in DOMAIN r.entries, r.entries[x].answer \notin {"pending", "close_unflushed"}
        PROVE  u.entries[x] = r.entries[x]
    <3>1. s.entries[x] = r.entries[x] /\ x \in DOMAIN s.entries
      BY <1>1, <2>8 DEF Closes
    <3>2. x # id
      BY <2>3, <2>8, <3>1
    <3>3. QED
      BY <2>5, <3>1, <3>2
  <2>9. Closes(r, u)
    BY <1>1, <2>4, <2>5, <2>7, <2>8 DEF Closes
  <2>10. u \in Closing(r, said, times, missing)
    BY <2>4, <2>5, <2>9 DEF Closing, Sound
  <2>11. QED
    BY <2>10 DEF u
<1>5. QED
  BY <1>3, <1>4

Newest == [s \in SUBSET Nat |-> Max(s)]

LEMMA NewestIsGreatest == ASSUME NEW n \in Nat PROVE PicksGreatest(Newest, n)
<1> SUFFICES ASSUME NEW s \in SUBSET (1..n), s # {}
             PROVE  Newest[s] \in s /\ \A k \in s : k <= Newest[s]
  BY DEF PicksGreatest
<1>1. s \in SUBSET (0..n) /\ s \in SUBSET Nat
  OBVIOUS
<1>2. \E m \in s : \A k \in s : k <= m
  BY <1>1, Greatest
<1>3. \E m \in s : \A k \in s : m >= k
  BY <1>1, <1>2
<1>4. Newest[s] = Max(s)
  BY <1>1 DEF Newest
<1>5. QED
  BY <1>1, <1>3, <1>4 DEF Max

LEMMA DeferredIsFold ==
  ASSUME NEW r, NEW ids, NEW n \in Nat, DOMAIN ids = 1..n, NEW flush, NEW V,
         r \in V, \A k \in 1..n, v \in V : SettleOne(v, ids[k], flush) \in V
  PROVE  Deferred(r, ids, flush) \in V
<1> DEFINE Given(h, s) == IF s = {} THEN r
                          ELSE SettleOne(h[s \ {Max(s)}], ids[Max(s)], flush)
           f == CHOOSE h : h = [s \in SUBSET (DOMAIN ids) |-> Given(h, s)]
           steps == [kv \in (1..n) \X V |-> SettleOne(kv[2], ids[kv[1]], flush)]
<1>1. \A k \in 1..n, v \in V : steps[<<k, v>>] = SettleOne(v, ids[k], flush)
  OBVIOUS
<1> HIDE DEF steps
<1>2. ChainSteps(n, V, r, steps)
  BY <1>1 DEF ChainSteps
<1>3. PICK g : IsFold(g, n, V, r, Newest, steps)
  BY <1>2, NewestIsGreatest, FoldChain
<1>4. /\ g \in [SUBSET (1..n) -> V]
      /\ \A s \in SUBSET (1..n) :
           g[s] = IF s = {} THEN r ELSE steps[<<Newest[s], g[s \ {Newest[s]}]>>]
  BY <1>3 DEF IsFold, IsSetRecursion
<1>p. \A s \in SUBSET (1..n) : s # {} => Newest[s] \in s
  BY NewestIsGreatest DEF PicksGreatest
<1>5. \A s \in SUBSET (1..n) : Newest[s] = Max(s)
  BY DEF Newest
<1>6. ASSUME NEW s \in SUBSET (1..n) PROVE g[s] = Given(g, s)
  <2>1. CASE s = {}
    BY <1>4, <2>1
  <2>2. CASE s # {}
    <3>1. Newest[s] \in 1..n /\ g[s \ {Newest[s]}] \in V
      BY <1>4, <1>p, <2>2
    <3>2. g[s] = SettleOne(g[s \ {Newest[s]}], ids[Newest[s]], flush)
      BY <1>1, <1>4, <2>2, <3>1
    <3>3. QED
      BY <1>5, <2>2, <3>2
  <2>3. QED
    BY <2>1, <2>2
<1>7. g = [s \in SUBSET (DOMAIN ids) |-> Given(g, s)]
  <2> HIDE DEF Given
  <2>1. QED
    BY <1>4, <1>6
<1>8. f = [s \in SUBSET (DOMAIN ids) |-> Given(f, s)]
  BY <1>7
<1>9. Deferred(r, ids, flush) = f[DOMAIN ids]
  BY DEF Deferred, FoldLeft, MapThenFoldSet, SettleOne
<1> HIDE DEF f
<1>10. \A s \in SUBSET (1..n) : f[s] = g[s]
  <2> DEFINE G == {s \in SUBSET (1..n) : f[s] = g[s]}
             S == 1..n
  <2>1. {} \in G
    BY <1>6, <1>8
  <2>2. ASSUME NEW s \in SUBSET (1..n), s # {} /\ s \ {Newest[s]} \in G PROVE s \in G
    <3>1. f[s] = Given(f, s) /\ g[s] = Given(g, s)
      BY <1>6, <1>8
    <3>2. f[s \ {Max(s)}] = g[s \ {Max(s)}]
      BY <1>5, <2>2
    <3>3. QED
      BY <2>2, <3>1, <3>2
  <2>3. IsFiniteSet(S)
    BY FS_Interval
  <2>4. \A s \in SUBSET S : s # {} /\ s \ {Newest[s]} \in G => s \in G
    BY <2>2
  <2>5. \A s \in SUBSET S : s # {} => Newest[s] \in s
    BY <1>p
  <2>6. \A s \in SUBSET S : s \in G
    <3> HIDE DEF G, S
    <3>1. QED
      BY ONLY <2>1, <2>3, <2>4, <2>5, Pickwise, SMTT(60)
  <2>7. QED
    BY <2>6
<1>11. f[DOMAIN ids] = g[1..n] /\ g[1..n] \in V
  BY <1>4, <1>10
<1>12. QED
  BY <1>9, <1>11

(* Everything a close settles at once.                                       *)
LEMMA DeferredCloses ==
  ASSUME NEW r, Sound(r), NEW ids, NEW n \in Nat, DOMAIN ids = 1..n,
         NEW flush \in {"durable", "incomplete"},
         now \in Nat, NEW said, NEW times, NEW missing, Story(r, said, times, missing)
  PROVE  /\ Sound(Deferred(r, ids, flush)) /\ Closes(r, Deferred(r, ids, flush))
         /\ Story(Deferred(r, ids, flush), said, times, missing)
<1> DEFINE V == Closing(r, said, times, missing)
<1>1. r \in V
  BY DEF Closing, Closes, Sound
<1>2. \A k \in 1..n, v \in V : SettleOne(v, ids[k], flush) \in V
  <2>1. \A v \in V : \A id : SettleOne(v, id, flush) \in V
    BY SettleOneCloses
  <2>2. QED
    BY <2>1
<1> HIDE DEF V
<1>4. Deferred(r, ids, flush) \in V
  BY <1>1, <1>2, DeferredIsFold
<1>5. QED
  BY <1>4 DEF V, Closing

-----------------------------------------------------------------------------
(* What an eviction leaves.                                                  *)

LEMMA IdsFinite == IsFiniteSet(Ids)
<1>1. IsFiniteSet(1..MaxSeq) /\ IsFiniteSet(Foreign)
  BY FS_Interval, ReceiptsAssumption DEF ReceiptsAssumption
<1>2. QED
  BY <1>1, FS_Union DEF Ids, OwnIds

Below(S, k)  == Cardinality({j \in S : j < k})
Lowest(S, m) == {k \in S : Below(S, k) < m}

LEMMA BelowBound ==
  ASSUME NEW S \in SUBSET Int, IsFiniteSet(S), NEW k \in S
  PROVE  Below(S, k) \in Nat /\ Below(S, k) < Cardinality(S)
<1> DEFINE B == {j \in S : j < k}
<1>1. B \in SUBSET (S \ {k})
  OBVIOUS
<1>2. IsFiniteSet(S \ {k}) /\ Cardinality(S \ {k}) = Cardinality(S) - 1 /\ Cardinality(S) \in Nat
  BY FS_RemoveElement, FS_CardinalityType
<1> HIDE DEF B
<1>3. IsFiniteSet(B) /\ Cardinality(B) <= Cardinality(S \ {k})
  BY <1>1, <1>2, FS_Subset
<1>4. Cardinality(B) \in Nat
  BY <1>3, FS_CardinalityType
<1>5. Below(S, k) = Cardinality(B)
  BY DEF Below, B
<1>6. QED
  BY <1>2, <1>3, <1>4, <1>5

LEMMA LowestTaken ==
  ASSUME NEW S, S \subseteq Int, IsFiniteSet(S), NEW m \in Nat, m <= Cardinality(S)
  PROVE  m <= Cardinality(Lowest(S, m))
<1> DEFINE R == {p \in S \X S : p[1] < p[2]}
           T == Lowest(S, m)
           rank == [k \in T |-> Below(S, k) + 1]
<1>1. \A x, y \in S : <<x, y>> \in R <=> x < y
  OBVIOUS
<1>2. StrictTotal(R, S)
  <2> SUFFICES ASSUME NEW x \in S, NEW y \in S
               PROVE  /\ x < y => ~(y < x)
                      /\ x # y => x < y \/ y < x
                      /\ \A z \in S : x < y /\ y < z => x < z
    <3> HIDE DEF R
    <3>1. QED
      BY <1>1 DEF StrictTotal
  <2>1. S \subseteq Int
    OBVIOUS
  <2>2. QED
    BY ONLY <2>1
<1>3. Cardinality(S) \in Nat
  BY FS_CardinalityType
<1>4. \A k \in 1..Cardinality(S) : \E x \in S : Cardinality({y \in S : <<y, x>> \in R}) = k - 1
  <2> HIDE DEF R
  <2>1. IsFiniteSet(S)
    OBVIOUS
  <2>2. QED
    BY ONLY <1>2, <2>1, Ranks
<1>5. \A x \in S : Cardinality({y \in S : <<y, x>> \in R}) = Below(S, x)
  <2>1. \A x \in S : {y \in S : <<y, x>> \in R} = {y \in S : y < x}
    BY <1>1
  <2>2. QED
    BY <2>1 DEF Below
<1> HIDE DEF R
<1>6. ASSUME NEW k \in 1..m PROVE \E x \in T : Below(S, x) = k - 1
  <2>1. k \in 1..Cardinality(S) /\ k - 1 < m
    BY <1>3
  <2>2. PICK x \in S : Below(S, x) = k - 1
    BY <1>4, <1>5, <2>1
  <2>3. x \in T
    BY <2>1, <2>2 DEF Lowest
  <2>4. QED
    BY <2>2, <2>3
<1>7. IsFiniteSet(T) /\ \A k \in T : Below(S, k) \in Nat /\ Below(S, k) < m
  <2>1. T \in SUBSET S
    BY DEF Lowest
  <2>2. \A k \in T : Below(S, k) < m
    BY DEF Lowest
  <2>3. QED
    BY <2>1, <2>2, BelowBound, FS_Subset
<1> HIDE DEF T
<1>8. rank \in Surjection(T, 1..m)
  <2>1. \A k \in T : rank[k] \in 1..m
    BY <1>7
  <2>2. rank \in [T -> 1..m]
    BY <2>1
  <2>3. ASSUME NEW k \in 1..m PROVE \E x \in T : rank[x] = k
    <3>1. PICK x \in T : Below(S, x) = k - 1
      BY <1>6
    <3>2. rank[x] = (k - 1) + 1 /\ (k - 1) + 1 = k
      BY <3>1
    <3>3. QED
      BY <3>2
  <2> HIDE DEF rank
  <2>4. QED
    BY <2>2, <2>3 DEF Surjection
<1> HIDE DEF rank
<1>9. Cardinality(1..m) = m
  BY FS_Interval
<1>10. Cardinality(1..m) <= Cardinality(T)
  BY ONLY <1>7, <1>8, FS_Surjection
<1>11. QED
  BY <1>9, <1>10 DEF T

LEMMA EvictBound ==
  ASSUME NEW r, Sound(r)
  PROVE  \/ Cardinality(DOMAIN Evict(r).entries) <= MaxRetained
         \/ DOMAIN Evict(r).entries \subseteq Owes(r)
<1> DEFINE order == r.order
           settled == {i \in DOMAIN order : Evictable(r, order[i])}
           held == DOMAIN r.entries
           over == Cardinality(held) - MaxRetained
           chosen == Lowest(settled, over)
           n == Len(order)
<1>1. order \in Seq(Ids) /\ held \subseteq Ids
  BY TableFields DEF Sound, Orders
<1>2. n \in Nat /\ DOMAIN order = 1..n
  BY <1>1
<1>3. \A i, j \in 1..n : order[i] = order[j] => i = j
  BY DEF Sound, Distinct
<1>4. \A id : id \in held <=> \E i \in 1..n : order[i] = id
  BY DEF Sound, Contains
<1>5. Evicted(r) = {order[i] : i \in chosen}
  BY DEF Evicted, Lowest, Below
<1>6. DOMAIN Evict(r).entries = held \ Evicted(r)
  BY ForgetIs DEF Evict
<1>7. settled \subseteq 1..n /\ settled \in SUBSET Int /\ chosen \subseteq settled
  BY <1>2 DEF Lowest
<1>8. \A i \in 1..n : i \in settled <=> order[i] \notin Owes(r)
  BY <1>2, <1>4 DEF Evictable, Owes
<1>9. IsFiniteSet(held) /\ IsFiniteSet(settled)
  <2>1. settled \in SUBSET (1..n) /\ IsFiniteSet(1..n)
    BY <1>2, <1>7, FS_Interval
  <2> HIDE DEF settled, held, n
  <2>2. QED
    BY <1>1, <2>1, IdsFinite, FS_Subset
<1>10. MaxRetained \in Nat /\ Cardinality(held) \in Nat /\ Cardinality(settled) \in Nat
  BY <1>9, FS_CardinalityType, ReceiptsAssumption DEF ReceiptsAssumption
<1>11. over \in Int /\ over = Cardinality(held) - MaxRetained
  BY <1>10
<1> HIDE DEF held, settled, order, n, over
<1>12. CASE over >= Cardinality(settled)
  <2>1. ASSUME NEW k \in settled PROVE k \in chosen
    <3>1. Below(settled, k) \in Nat /\ Below(settled, k) < Cardinality(settled)
      BY <1>7, <1>9, BelowBound
    <3>2. Below(settled, k) < over
      BY <1>10, <1>11, <1>12, <3>1
    <3>3. QED
      BY <3>2 DEF Lowest
  <2>2. \A id \in held \ Evicted(r) : id \in Owes(r)
    BY <1>4, <1>5, <1>8, <2>1
  <2>3. QED
    BY <1>6, <2>2
<1>13. CASE over <= 0
  <2>1. held \ Evicted(r) \in SUBSET held
    OBVIOUS
  <2>2. Cardinality(held \ Evicted(r)) <= Cardinality(held) /\ Cardinality(held \ Evicted(r)) \in Nat
    BY <1>9, <2>1, FS_Subset, FS_CardinalityType
  <2>3. QED
    BY <1>6, <1>10, <1>11, <1>13, <2>2
<1>14. CASE 0 < over /\ over < Cardinality(settled)
  <2>1. IsFiniteSet(chosen) /\ Cardinality(chosen) \in Nat
    <3> HIDE DEF chosen
    <3>1. QED
      BY <1>7, <1>9, FS_Subset, FS_CardinalityType
  <2>2. over <= Cardinality(chosen)
    <3>1. over \in Nat /\ over <= Cardinality(settled)
      BY <1>10, <1>11, <1>14
    <3>2. settled \subseteq Int /\ IsFiniteSet(settled)
      BY <1>7, <1>9
    <3>3. over <= Cardinality(Lowest(settled, over))
      BY ONLY <3>1, <3>2, LowestTaken
    <3>4. QED
      BY <3>3
  <2> HIDE DEF chosen
  <2>3. Evicted(r) \subseteq held
    BY <1>4, <1>5, <1>7
  <2>4. Cardinality(Evicted(r)) = Cardinality(chosen)
    <3> DEFINE at == [k \in chosen |-> order[k]]
    <3>1. at \in [chosen -> Evicted(r)] /\ \A e \in Evicted(r) : \E k \in chosen : at[k] = e
      BY <1>5
    <3>2. \A j, k \in chosen : at[j] = at[k] => j = k
      BY <1>3, <1>7
    <3>3. DOMAIN at = chosen
      OBVIOUS
    <3> HIDE DEF at
    <3>4. IsInjective(at)
      BY <3>2, <3>3 DEF IsInjective
    <3>5. at \in Bijection(chosen, Evicted(r))
      BY <3>1, <3>4 DEF Bijection, Injection, Surjection
    <3>6. ExistsBijection(chosen, Evicted(r))
      BY <3>5 DEF ExistsBijection
    <3>7. QED
      BY <2>1, <3>6, FS_Bijection
  <2>5. Cardinality(held \ Evicted(r)) = Cardinality(held) - Cardinality(Evicted(r))
    <3>1. held \cap Evicted(r) = Evicted(r)
      BY <2>3
    <3>2. Cardinality(held \ Evicted(r)) = Cardinality(held) - Cardinality(held \cap Evicted(r))
      BY <1>9, FS_Difference
    <3>3. QED
      BY <3>1, <3>2
  <2>6. Cardinality(held \ Evicted(r)) <= MaxRetained
    BY <1>10, <1>11, <2>1, <2>2, <2>4, <2>5
  <2>7. QED
    BY <1>6, <2>6
<1>15. QED
  BY <1>10, <1>11, <1>12, <1>13, <1>14

-----------------------------------------------------------------------------
(* The invariant.                                                            *)

RestartRecords == [agent : Agents, to : Dests \cup {Unknown}, answer : {"pending_replay", "replayed"}]
Places         == {"idle", "claim", "slot", "enable", "look", "check", "sleep", "final", "answered"}
LookupAnswers  == Answers \cup {"pending_replay", "forbidden", "never_issued", "expired"}
CallRecords    == [pc : Places, agent : Agents, to : Dests, id : Ids \cup {0}, woken : BOOLEAN,
                   answer : LookupAnswers]

Typed ==
  /\ Sound(receipts) /\ now \in Nat
  /\ restart \in [Foreign -> RestartRecords]
  /\ arriving \subseteq [id : OwnIds, at : Nat, refused : BOOLEAN]
  /\ replaying \subseteq Foreign /\ \A i, j \in replaying : i = j
  /\ deferred \subseteq Ids
  /\ told \in [Ids -> SUBSET Outcomes] /\ handed \in [Ids -> Nat]
  /\ call \in [Callers -> CallRecords]

(* A receipt that is not entered yet, and a debt that is not settled yet.    *)
Untold(id) ==
  \/ id \in OwnIds /\ ~Acked(id)
  \/ id \in Foreign /\ restart[id].answer = "pending_replay" /\ id \notin replaying

Fresh ==
  /\ \A x \in arriving : x.id <= receipts.highestSeq
  /\ \A x, y \in arriving : x.id = y.id => x = y
  /\ \A id \in Ids : Untold(id) =>
       told[id] = {} /\ handed[id] = 0 /\ id \notin DOMAIN receipts.entries

(* A debt of an earlier process has one outcome.                             *)
Debts ==
  \A id \in Foreign :
    /\ told[id] \subseteq {"replayed"}
    /\ id \in DOMAIN receipts.entries => receipts.entries[id].answer = "replayed"

(* A call is about a receipt its caller holds. The answer that takes it out   *)
(* of the queue was told, or the receipt is gone for good.                    *)
Calls ==
  \A c \in Callers :
    /\ call[c].pc # "idle" => call[c].id \in Ids /\ Acked(call[c].id)
    /\ call[c].pc = "answered" /\ Delivers(call[c].answer) =>
         call[c].answer \in told[call[c].id] \/ call[c].id \in OwnIds \ DOMAIN receipts.entries

(* Accepted receipts that have not settled, entered or not.                  *)
Owed == Owes(receipts) \cup {x.id : x \in {y \in arriving : ~y.refused}}

(* Those the queue has no place for any more.                                *)
Past == lost \cup settling

Space ==
  /\ jobs \subseteq OwnIds /\ lost \subseteq OwnIds /\ settling \subseteq OwnIds
  /\ Cardinality(Owed \ Past) <= QueueMax
  /\ Running => Owed \ Past \subseteq jobs /\ Cardinality(jobs) <= QueueMax

BooksInv == Typed /\ Fresh /\ Debts /\ Story(receipts, told, handed, missed) /\ OneStory /\ Calls
              /\ Space

(* A step that enters nothing, or that leaves the table within its bound.    *)
Retains ==
  \/ DOMAIN receipts'.entries \subseteq DOMAIN receipts.entries
  \/ Cardinality(DOMAIN receipts'.entries \ Past') <= MaxRetained

OneTale(said, times) ==
  /\ times <= IF {"close_unflushed", "intent_durable"} \subseteq said THEN 2 ELSE 1
  /\ Cardinality(said) <= 1 \/ said = {"close_unflushed", "intent_durable"}

LEMMA OneStoryIs == OneStory <=> \A id \in Ids : OneTale(told[id], handed[id])
BY DEF OneStory, OneTale

LEMMA AtMostOne == ASSUME NEW x, NEW S \in SUBSET {x} PROVE Cardinality(S) <= 1
<1>1. CASE S = {}
  BY <1>1, FS_EmptySet
<1>2. CASE S = {x}
  <2>1. Cardinality(S) = 1
    BY <1>2, FS_Singleton
  <2>2. QED
    BY ONLY <2>1
<1>3. QED
  BY <1>1, <1>2

LEMMA TaleIsOne ==
  ASSUME NEW e, NEW queued, NEW said, NEW times \in Nat, NEW out, Tale(e, queued, said, times, out)
  PROVE  OneTale(said, times)
<1>1. times <= IF {"close_unflushed", "intent_durable"} \subseteq said THEN 2 ELSE 1
  BY DEF Tale
<1>2. said \subseteq {e.answer} \cup Earlier(e)
  BY DEF Tale
<1>3. CASE e.answer = "intent_durable"
  <2>1. said \subseteq {"intent_durable", "close_unflushed"}
    BY <1>2, <1>3 DEF Earlier
  <2>2. \/ said \subseteq {"intent_durable"} \/ said \subseteq {"close_unflushed"}
        \/ said = {"close_unflushed", "intent_durable"}
    BY <2>1
  <2>3. QED
    BY <1>1, <2>2, AtMostOne DEF OneTale
<1>4. CASE e.answer # "intent_durable"
  <2>1. said \in SUBSET {e.answer}
    BY <1>2, <1>4 DEF Earlier
  <2>2. QED
    BY <1>1, <2>1, AtMostOne DEF OneTale
<1>5. QED
  BY <1>3, <1>4

-----------------------------------------------------------------------------
(* What the steps have in common.                                            *)

LEMMA AckedKeeps ==
  ASSUME NEW id, receipts'.highestSeq = receipts.highestSeq, arriving' = arriving
  PROVE  Acked(id)' <=> Acked(id)
BY DEF Acked

LEMMA FreshKeeps ==
  ASSUME Fresh, receipts'.highestSeq = receipts.highestSeq,
         DOMAIN receipts'.entries \subseteq DOMAIN receipts.entries,
         UNCHANGED <<arriving, restart, replaying>>,
         \A id \in Ids : Untold(id) => told'[id] = told[id] /\ handed'[id] = handed[id]
  PROVE  Fresh'
<1>1. \A id : Untold(id)' <=> Untold(id)
  BY AckedKeeps DEF Untold
<1>2. QED
  BY <1>1 DEF Fresh

LEMMA CallsKeep ==
  ASSUME Calls, call' = call,
         \A id \in Ids : Acked(id) =>
           /\ Acked(id)'
           /\ told[id] \subseteq told'[id]
           /\ id \in OwnIds \ DOMAIN receipts.entries => id \notin DOMAIN receipts'.entries
  PROVE  Calls'
BY DEF Calls

LEMMA DebtsKeep ==
  ASSUME Debts, NEW ids, ids \cap Foreign = {}, Alike(receipts, receipts', ids), told' = told
  PROVE  Debts'
BY DEF Debts, Alike

LEMMA OwedFinite == ASSUME Typed PROVE Owed \subseteq Ids /\ IsFiniteSet(Owed)
<1>1. DOMAIN receipts.entries \subseteq Ids
  BY TableFields DEF Typed, Sound
<1>2. Owed \in SUBSET Ids
  BY <1>1 DEF Typed, Owed, Owes, Ids
<1>3. QED
  BY <1>2, IdsFinite, FS_Subset

LEMMA OwnFinite == ASSUME NEW S \in SUBSET OwnIds PROVE IsFiniteSet(S) /\ Cardinality(S) \in Nat
<1>1. S \in SUBSET Ids
  BY DEF Ids
<1>2. QED
  BY <1>1, IdsFinite, FS_Subset, FS_CardinalityType

LEMMA SpaceKeeps ==
  ASSUME Typed, Space, jobs' \subseteq jobs, Past' \subseteq OwnIds,
         Owed' \ Past' \subseteq Owed \ Past,
         Running' => Running /\ Owed' \ Past' \subseteq jobs'
  PROVE  Space'
<1>1. IsFiniteSet(Owed \ Past) /\ IsFiniteSet(jobs)
  BY OwedFinite, OwnFinite, FS_Subset DEF Space
<1>2. Cardinality(Owed' \ Past') <= Cardinality(Owed \ Past) /\ Cardinality(jobs') <= Cardinality(jobs)
      /\ Cardinality(Owed' \ Past') \in Nat /\ Cardinality(Owed \ Past) \in Nat
      /\ Cardinality(jobs') \in Nat /\ Cardinality(jobs) \in Nat
  BY <1>1, FS_Subset, FS_CardinalityType
<1>3. QueueMax \in Nat
  BY ReceiptsAssumption DEF ReceiptsAssumption
<1>4. lost' \subseteq OwnIds /\ settling' \subseteq OwnIds
  BY DEF Past
<1>5. QED
  BY <1>2, <1>3, <1>4 DEF Space

LEMMA SpaceShrinks ==
  ASSUME Typed, Space, UNCHANGED <<jobs, lost, settling>>, Owed' \subseteq Owed, Running' => Running
  PROVE  Space'
<1>1. Past' = Past /\ Past \subseteq OwnIds
  BY DEF Past, Space
<1>2. Owed' \ Past' \subseteq Owed \ Past
  BY <1>1
<1>3. QED
  BY <1>1, <1>2, SpaceKeeps DEF Space

(* An eviction leaves room for what is owed.                                 *)
LEMMA EvictRetains ==
  ASSUME NEW r, Sound(r), receipts' = Evict(r), UNCHANGED <<lost, settling>>, Typed, Space,
         Owes(r) \subseteq Owed
  PROVE  Retains
<1> DEFINE held == DOMAIN Evict(r).entries
<1>1. /\ MaxRetained \in Nat /\ QueueMax \in Nat /\ QueueMax <= MaxRetained
  BY ReceiptsAssumption DEF ReceiptsAssumption
<1>2. Past' = Past /\ DOMAIN receipts'.entries = held
  BY DEF Past
<1>3. CASE Cardinality(held) <= MaxRetained
  <2>1. Sound(Evict(r))
    BY ForgetIs DEF Evict, Alike
  <2>2. held \in SUBSET Ids
    BY <2>1, TableFields DEF Sound
  <2> HIDE DEF held
  <2>3. IsFiniteSet(held) /\ Cardinality(held) \in Nat
    BY <2>2, IdsFinite, FS_Subset, FS_CardinalityType
  <2>4. Cardinality(held \ Past) \in Nat /\ Cardinality(held \ Past) <= Cardinality(held)
    BY <2>3, FS_Subset, FS_CardinalityType
  <2>5. QED
    BY <1>1, <1>2, <1>3, <2>3, <2>4 DEF Retains
<1>4. CASE held \subseteq Owes(r)
  <2> DEFINE rest == Owed \ Past
  <2> HIDE DEF held
  <2>1. held \ Past \subseteq rest
    BY <1>4
  <2>2. IsFiniteSet(rest) /\ Cardinality(rest) \in Nat /\ Cardinality(rest) <= QueueMax
    BY OwedFinite, FS_Subset, FS_CardinalityType DEF Space
  <2> HIDE DEF rest
  <2>3. Cardinality(held \ Past) \in Nat /\ Cardinality(held \ Past) <= Cardinality(rest)
    BY <2>1, <2>2, FS_Subset, FS_CardinalityType
  <2>4. QED
    BY <1>1, <1>2, <2>2, <2>3 DEF Retains
<1>5. QED
  BY <1>3, <1>4, EvictBound

-----------------------------------------------------------------------------
(* What a sweep or an eviction leaves, settled or not.                       *)
LEMMA SweepTold ==
  ASSUME NEW r, Sound(r), NEW said, NEW times, NEW missing, Story(r, said, times, missing), NEW t,
         NEW s, s = Expire(r, t) \/ s = Evict(r)
  PROVE  /\ Alike(r, s, {}) /\ Story(s, said, times, missing)
         /\ DOMAIN s.entries \subseteq DOMAIN r.entries /\ Owes(s) \subseteq Owes(r)
<1>1. PICK gone : s = Forget(r, gone)
  BY DEF Expire, Evict
<1>2. Alike(r, s, {}) /\ DOMAIN s.entries \subseteq DOMAIN r.entries
  BY <1>1, ForgetIs
<1>3. Story(s, said, times, missing)
  BY <1>2, StoryKeeps
<1>4. Owes(s) \subseteq Owes(r)
  BY <1>2 DEF Alike, Owes
<1>5. QED
  BY <1>2, <1>3, <1>4

LEMMA NoneIs == None \in Int /\ \A t \in Nat : t # None
BY DEF None

(* A step that leaves the table and the history as they are.                 *)
LEMMA QuietBooks ==
  ASSUME BooksInv, UNCHANGED <<receipts, arriving, told, handed, missed, restart, lost, settling>>,
         now' \in Nat, deferred' \subseteq Ids, replaying' = replaying, jobs' \subseteq jobs,
         Running' => Running /\ jobs' = jobs,
         call' \in [Callers -> CallRecords],
         \A c \in Callers :
           \/ call'[c].pc = "idle"
           \/ call'[c].pc # "answered" /\ call'[c].id \in Ids /\ Acked(call'[c].id)
           \/ call[c].pc = call'[c].pc /\ call[c].id = call'[c].id /\ call[c].answer = call'[c].answer
  PROVE  BooksInv' /\ Retains
<1> USE DEF BooksInv
<1>1. Typed'
  BY DEF Typed
<1>2. Fresh'
  BY FreshKeeps
<1>3. Debts' /\ Story(receipts, told, handed, missed)' /\ OneStory'
  BY DEF Debts, Story, OneStory
<1>4. Calls'
  <2>1. \A id : Acked(id)' <=> Acked(id)
    BY AckedKeeps
  <2>2. ASSUME NEW c \in Callers
        PROVE  /\ call'[c].pc # "idle" => call'[c].id \in Ids /\ Acked(call'[c].id)
               /\ call'[c].pc = "answered" /\ Delivers(call'[c].answer) =>
                    call'[c].answer \in told[call'[c].id] \/ call'[c].id \in OwnIds \ DOMAIN receipts.entries
    BY DEF Calls
  <2>3. QED
    BY <2>1, <2>2 DEF Calls
<1>5. Space'
  <2>1. Owed' = Owed /\ Past' = Past
    BY DEF Owed, Owes, Past
  <2>2. Past \subseteq OwnIds
    BY DEF Past, Space
  <2>3. QED
    BY <2>1, <2>2, SpaceKeeps DEF Space
<1>6. Retains
  BY DEF Retains
<1>7. QED
  BY <1>1, <1>2, <1>3, <1>4, <1>5, <1>6

LEMMA StoriesKeep == ASSUME OneStory, UNCHANGED <<told, handed>> PROVE OneStory'
BY DEF OneStory

-----------------------------------------------------------------------------
(* One step after the other.                                                 *)

LEMMA BooksAdmit == ASSUME IInv, BooksInv, Admit PROVE BooksInv' /\ Retains
<1> USE DEF BooksInv
<1> DEFINE id == receipts.highestSeq + 1
           new(refused) == [id |-> id, at |-> now, refused |-> refused]
<1>1. PICK refused \in BOOLEAN :
        /\ stage # "open" \/ Cardinality(jobs) >= QueueMax => refused
        /\ arriving' = arriving \cup {new(refused)}
        /\ jobs' = IF refused THEN jobs ELSE jobs \cup {id}
  BY DEF Admit
<1>2. /\ id \in 1..bound.seq /\ receipts' = [receipts EXCEPT !.highestSeq = id]
      /\ UNCHANGED <<restart, now, settling, stage, deferred, replaying, lost, call, missed, told, handed>>
  BY DEF Admit, closeVars, callVars
<1>3. id \in OwnIds /\ id \in Nat /\ receipts.highestSeq \in Nat
  <2>1. receipts.highestSeq \in Nat
    BY TableFields DEF Typed, Sound
  <2>2. QED
    BY <1>2, <2>1, ReceiptsAssumption DEF ReceiptsAssumption, OwnIds, IInv
<1>4. receipts \in Tables
  BY DEF Typed, Sound
<1>5. /\ receipts' \in Tables /\ receipts'.highestSeq = id /\ receipts'.entries = receipts.entries
      /\ receipts'.order = receipts.order /\ receipts'.undelivered = receipts.undelivered
  BY <1>2, <1>3, <1>4 DEF Tables
<1>6. /\ new(refused).id = id /\ new(refused).refused = refused
      /\ new(refused) \in [id : OwnIds, at : Nat, refused : BOOLEAN]
  BY <1>3 DEF Typed
<1>7. \A x \in arriving : x.id \in Int /\ x.id < id
  BY <1>3 DEF Fresh, Typed, OwnIds
<1>8. receipts.highestSeq < id
  BY <1>3
<1> HIDE DEF id, new
<1>9. Typed'
  <2>1. Sound(receipts')
    BY <1>5 DEF Typed, Sound
  <2>2. arriving' \subseteq [id : OwnIds, at : Nat, refused : BOOLEAN]
    BY <1>1, <1>6 DEF Typed
  <2>3. QED
    BY ONLY <1>2, <2>1, <2>2, Typed DEF Typed
<1>10. \A j \in Ids : Acked(j) => Acked(j)' /\ j # id
  <2>1. ASSUME NEW j \in Ids, Acked(j), j \notin Foreign PROVE Acked(j)' /\ j # id
    <3>1. j \in Int /\ j <= receipts.highestSeq /\ j # id /\ j <= id
      BY <1>3, <1>8, <2>1 DEF Acked, Ids, OwnIds
    <3>2. \A x \in arriving' : x.id # j
      BY <1>1, <1>6, <2>1, <3>1 DEF Acked
    <3>3. QED
      BY <1>5, <3>1, <3>2 DEF Acked
  <2>2. id \notin Foreign
    BY <1>3, ReceiptsAssumption DEF ReceiptsAssumption
  <2>3. QED
    BY <2>1, <2>2 DEF Acked
<1>11. Fresh'
  <2>1. \A x \in arriving' : x.id <= id
    BY <1>1, <1>3, <1>6, <1>7
  <2>2. \A x, y \in arriving' : x.id = y.id => x = y
    BY <1>1, <1>6, <1>7 DEF Fresh
  <2>3. \A j \in Ids : Untold(j)' => Untold(j)
    BY <1>2, <1>10 DEF Untold
  <2>4. QED
    BY <1>2, <1>5, <2>1, <2>2, <2>3 DEF Fresh
<1>12. Debts' /\ Story(receipts, told, handed, missed)' /\ OneStory'
  BY <1>2, <1>5 DEF Debts, Story, Waits, OneStory
<1>13. Calls'
  BY <1>2, <1>5, <1>10, CallsKeep
<1>14. Space'
  <2>0. Past' = Past
    BY <1>2 DEF Past
  <2>1. CASE refused
    <3>1. Owed' = Owed
      BY <1>1, <1>5, <1>6, <2>1 DEF Owed, Owes
    <3>2. QED
      BY <1>1, <1>2, <2>0, <2>1, <3>1 DEF Space, Running
  <2>2. CASE ~refused
    <3>1. stage = "open" /\ ~(Cardinality(jobs) >= QueueMax) /\ jobs' = jobs \cup {id}
      BY <1>1, <2>2
    <3>2. Owed' \subseteq Owed \cup {id}
      BY <1>1, <1>5, <1>6 DEF Owed, Owes
    <3>3. Owed' \ Past' \subseteq jobs'
      BY <1>2, <2>0, <3>1, <3>2 DEF Space, Running
    <3>4. jobs' \subseteq OwnIds /\ lost' \subseteq OwnIds /\ settling' \subseteq OwnIds
      BY <1>2, <1>3, <3>1 DEF Space
    <3>5. IsFiniteSet(jobs) /\ Cardinality(jobs) \in Nat /\ IsFiniteSet(jobs') /\ Cardinality(jobs') \in Nat
      BY <3>4, OwnFinite DEF Space
    <3>6. Cardinality(jobs') <= Cardinality(jobs) + 1
      BY <3>1, <3>5, FS_AddElement
    <3>7. QueueMax \in Nat
      BY ReceiptsAssumption DEF ReceiptsAssumption
    <3>8. Cardinality(jobs') <= QueueMax
      BY <3>1, <3>5, <3>6, <3>7
    <3>9. Cardinality(Owed' \ Past') <= Cardinality(jobs') /\ Cardinality(Owed' \ Past') \in Nat
      BY <3>3, <3>5, FS_Subset, FS_CardinalityType
    <3>10. QED
      BY <3>3, <3>4, <3>5, <3>7, <3>8, <3>9 DEF Space
  <2>3. QED
    BY <2>1, <2>2
<1>15. Retains
  BY <1>5 DEF Retains
<1>16. QED
  BY <1>9, <1>11, <1>12, <1>13, <1>14, <1>15

LEMMA BooksRecord == ASSUME IInv, BooksInv, NEW x, Record(x) PROVE BooksInv' /\ Retains
<1> USE DEF BooksInv
<1> DEFINE swept == Expire(receipts, x.at)
           e     == Entry(AgentOf[x.id], DestOf[x.id], IF x.refused THEN x.at ELSE None,
                          IF x.refused THEN "dropped" ELSE "pending")
           held  == Insert(swept, x.id, e)
           last  == IF x.refused THEN Queued(held, x.id, AgentOf[x.id]) ELSE held
<1>1. /\ x \in arriving /\ arriving' = arriving \ {x} /\ receipts' = Evict(last)
      /\ UNCHANGED <<restart, now, jobs, settling, stage, deferred, replaying, lost, call, missed, told, handed>>
  BY DEF Record, closeVars, callVars
<1>2. /\ x.id \in OwnIds /\ x.at \in Nat /\ x.refused \in BOOLEAN /\ x.id \in Ids
      /\ x.id \notin Foreign
  BY <1>1, ReceiptsAssumption DEF Typed, Ids, ReceiptsAssumption
<1>3. /\ told[x.id] = {} /\ handed[x.id] = 0 /\ x.id \notin DOMAIN receipts.entries
  <2>1. ~Acked(x.id)
    BY <1>1, <1>2 DEF Acked
  <2>2. QED
    BY <1>2, <2>1 DEF Fresh, Untold
<1>4. Sound(receipts)
  BY DEF Typed
<1>5. /\ Alike(receipts, swept, {}) /\ Story(swept, told, handed, missed)
      /\ DOMAIN swept.entries \subseteq DOMAIN receipts.entries /\ Owes(swept) \subseteq Owes(receipts)
  BY <1>4, SweepTold
<1>6. /\ e \in EntryRecords /\ e.agent = AgentOf[x.id]
      /\ x.refused => e.at # None /\ e.answer # "pending"
      /\ ~x.refused => e.at = None /\ e.answer = "pending"
  <2>1. AgentOf[x.id] \in Agents /\ DestOf[x.id] \in Dests
    BY <1>2, ReceiptsAssumption DEF ReceiptsAssumption
  <2>2. QED
    BY <1>2, <2>1, NoneIs DEF Entry, EntryRecords, Answers, Outcomes
<1> HIDE DEF swept, e
<1>7. Sound(swept) /\ x.id \in Ids \ DOMAIN swept.entries
  BY <1>2, <1>3, <1>5 DEF Alike
<1>8. /\ Alike(swept, last, {x.id}) /\ Story(last, told, handed, missed)
      /\ DOMAIN last.entries = DOMAIN swept.entries \cup {x.id} /\ last.entries[x.id] = e
  <2>1. CASE x.refused
    <3>1. ASSUME NEW i \in Ids \ DOMAIN swept.entries, told[i] = {}, handed[i] = 0
          PROVE  LET s == Queued(Insert(swept, i, e), i, e.agent) IN
                 /\ Alike(swept, s, {i}) /\ Story(s, told, handed, missed)
                 /\ DOMAIN s.entries = DOMAIN swept.entries \cup {i} /\ s.entries[i] = e
      BY <1>5, <1>6, <1>7, <2>1, <3>1, EnterSettled
    <3>2. last = Queued(Insert(swept, x.id, e), x.id, e.agent)
      BY <1>6, <2>1
    <3>3. QED
      BY <1>3, <1>7, <3>1, <3>2
  <2>2. CASE ~x.refused
    <3>1. ASSUME NEW i \in Ids \ DOMAIN swept.entries, told[i] = {}, handed[i] = 0
          PROVE  LET s == Insert(swept, i, e) IN
                 /\ Alike(swept, s, {i}) /\ Story(s, told, handed, missed)
                 /\ DOMAIN s.entries = DOMAIN swept.entries \cup {i} /\ s.entries[i] = e
      BY <1>5, <1>6, <1>7, <2>2, <3>1, EnterPending, SMTT(30)
    <3>2. last = Insert(swept, x.id, e)
      BY <2>2
    <3>3. QED
      BY <1>3, <1>7, <3>1, <3>2
  <2>3. QED
    BY <1>2, <2>1, <2>2
<1> HIDE DEF last, held
<1>9. Sound(last)
  BY <1>8 DEF Alike
<1>10. /\ Alike(last, receipts', {}) /\ Story(receipts', told, handed, missed)
       /\ DOMAIN receipts'.entries \subseteq DOMAIN last.entries /\ Owes(receipts') \subseteq Owes(last)
  BY <1>1, <1>8, <1>9, SweepTold
<1>11. Alike(receipts, receipts', {x.id})
  BY <1>5, <1>8, <1>10 DEF Alike
<1>12. DOMAIN receipts'.entries \subseteq DOMAIN receipts.entries \cup {x.id}
  BY <1>5, <1>8, <1>10
<1>13. Owes(last) \subseteq Owed
  <2>1. ASSUME NEW id \in Owes(last) PROVE id \in Owed
    <3>1. CASE id = x.id
      BY <1>1, <1>6, <1>8, <2>1, <3>1 DEF Owed, Owes
    <3>2. CASE id # x.id
      <4>1. id \in Owes(swept)
        BY <1>8, <2>1, <3>2 DEF Alike, Owes
      <4>2. QED
        BY <1>5, <4>1 DEF Owed
    <3>3. QED
      BY <3>1, <3>2
  <2>2. QED
    BY <2>1
<1>14. Typed'
  <2>1. Sound(receipts') /\ arriving' \subseteq arriving
    BY <1>1, <1>11 DEF Alike
  <2>2. QED
    BY ONLY <1>1, <2>1, Typed DEF Typed
<1>15. \A id \in Ids : Acked(id) => Acked(id)' /\ id # x.id
  BY <1>1, <1>2, <1>11 DEF Acked, Alike
<1>16. Acked(x.id)'
  BY <1>1, <1>11 DEF Acked, Alike, Fresh
<1>17. Fresh'
  <2>1. \A y \in arriving' : y.id <= receipts'.highestSeq
    BY <1>1, <1>11 DEF Alike, Fresh
  <2>2. \A id \in Ids : Untold(id)' => Untold(id) /\ id # x.id
    BY <1>1, <1>2, <1>15, <1>16 DEF Untold
  <2>3. QED
    BY <1>1, <1>12, <2>1, <2>2 DEF Fresh
<1>18. Debts'
  <2>1. {x.id} \cap Foreign = {}
    BY <1>2
  <2>2. QED
    BY <1>1, <1>11, <2>1, DebtsKeep
<1>19. Story(receipts, told, handed, missed)' /\ OneStory'
  BY <1>1, <1>10, StoriesKeep
<1>20. Calls'
  BY <1>1, <1>12, <1>15, CallsKeep
<1>21. Space'
  <2>1. Owed' \subseteq Owed
    BY <1>1, <1>10, <1>13 DEF Owed
  <2>2. QED
    BY <1>1, <2>1, SpaceShrinks DEF Running
<1>22. Retains
  BY <1>1, <1>9, <1>13, EvictRetains
<1>23. QED
  BY <1>14, <1>17, <1>18, <1>19, <1>20, <1>21, <1>22

LEMMA BooksRun == ASSUME IInv, BooksInv, NEW id \in jobs, Run(id) PROVE BooksInv' /\ Retains
<1> USE DEF BooksInv
<1>1. /\ jobs' = jobs \ {id} /\ settling' = settling \cup {id}
      /\ UNCHANGED <<receipts, restart, now, arriving, stage, deferred, replaying, lost, call, missed, told, handed>>
  BY DEF Run, closeVars, callVars
<1>2. Typed'
  BY ONLY <1>1, Typed DEF Typed
<1>3. Fresh'
  BY <1>1, FreshKeeps
<1>4. Debts' /\ Story(receipts, told, handed, missed)' /\ OneStory' /\ Retains
  BY <1>1, StoriesKeep DEF Debts, Story, Retains
<1>5. Calls'
  <2>1. \A j : Acked(j)' <=> Acked(j)
    BY <1>1, AckedKeeps
  <2>2. QED
    BY <1>1, <2>1, CallsKeep
<1>6. Space'
  <2>1. Owed' = Owed
    BY <1>1 DEF Owed, Owes
  <2>2. Past' = Past \cup {id} /\ Past' \subseteq OwnIds
    BY <1>1 DEF Past, Space
  <2>3. Owed' \ Past' \subseteq (Owed \ Past) \ {id}
    BY <2>1, <2>2
  <2>4. QED
    BY <1>1, <2>2, <2>3, SpaceKeeps DEF Space, Running
<1>7. QED
  BY <1>2, <1>3, <1>4, <1>5, <1>6

LEMMA BooksSettle == ASSUME IInv, BooksInv, NEW id \in settling, Settle(id) PROVE BooksInv' /\ Retains
<1> USE DEF BooksInv
<1> DEFINE one == IF Settles(receipts, id)
                    THEN Queued(Answered(receipts, id, "ran"), id, receipts.entries[id].agent)
                    ELSE receipts
<1>1. /\ receipts' = Expire(one, now) /\ settling' = settling \ {id}
      /\ lost' = IF id \in DOMAIN receipts.entries THEN lost ELSE lost \cup {id}
      /\ UNCHANGED <<restart, now, arriving, jobs, stage, deferred, replaying, call, missed, told, handed>>
  BY DEF Settle, closeVars, callVars
<1>2. id \in OwnIds /\ id \notin Foreign
  BY ReceiptsAssumption DEF Space, ReceiptsAssumption
<1>3. Sound(receipts) /\ now \in Nat
  BY DEF Typed
<1>4. /\ Alike(receipts, one, {id}) /\ Story(one, told, handed, missed)
      /\ DOMAIN one.entries = DOMAIN receipts.entries
      /\ id \in DOMAIN receipts.entries => one.entries[id].at # None
  <2>1. CASE Settles(receipts, id)
    <3>1. id \in DOMAIN receipts.entries /\ "ran" \in Outcomes
      BY <2>1 DEF Settles, Outcomes
    <3>2. receipts.entries[id].at = None
      <4>1. receipts.entries[id] \in EntryRecords
        BY <1>3, <3>1, TableFields DEF Sound
      <4>2. receipts.entries[id].answer = "pending"
        BY <2>1, <4>1 DEF Settles, IsSettled, Unsettled, EntryRecords, Answers, Outcomes
      <4>3. QED
        BY <1>3, <3>1, <4>2 DEF Sound
    <3>3. LET s == Queued(Answered(receipts, id, "ran"), id, receipts.entries[id].agent) IN
          /\ Alike(receipts, s, {id}) /\ Story(s, told, handed, missed)
          /\ DOMAIN s.entries = DOMAIN receipts.entries
          /\ s.entries[id] = Entry(receipts.entries[id].agent, receipts.entries[id].to, now, "ran")
      BY <1>3, <3>1, <3>2, SettleTold
    <3>4. one = Queued(Answered(receipts, id, "ran"), id, receipts.entries[id].agent)
      BY <2>1
    <3>5. \A a, d : Entry(a, d, now, "ran").at # None
      BY <1>3, NoneIs DEF Entry
    <3> HIDE DEF one
    <3>6. QED
      BY <3>3, <3>4, <3>5
  <2>2. CASE ~Settles(receipts, id)
    <3>1. one = receipts
      BY <2>2
    <3>2. id \in DOMAIN receipts.entries => receipts.entries[id].at # None
      BY <1>3, <2>2 DEF Settles, IsSettled, Unsettled, Sound
    <3>3. Alike(receipts, receipts, {id})
      BY <1>3 DEF Alike
    <3> HIDE DEF one
    <3>4. QED
      BY <3>1, <3>2, <3>3
  <2>3. QED
    BY <2>1, <2>2
<1> HIDE DEF one
<1>5. Sound(one)
  BY <1>4 DEF Alike
<1>6. /\ Alike(one, receipts', {}) /\ Story(receipts', told, handed, missed)
      /\ DOMAIN receipts'.entries \subseteq DOMAIN one.entries /\ Owes(receipts') \subseteq Owes(one)
  BY <1>1, <1>4, <1>5, SweepTold
<1>7. Alike(receipts, receipts', {id})
  BY <1>4, <1>6 DEF Alike
<1>8. DOMAIN receipts'.entries \subseteq DOMAIN receipts.entries
  BY <1>4, <1>6
<1>9. Typed'
  <2>1. Sound(receipts')
    BY <1>7 DEF Alike
  <2>2. QED
    BY ONLY <1>1, <2>1, Typed DEF Typed
<1>10. receipts'.highestSeq = receipts.highestSeq
  BY <1>7 DEF Alike
<1>11. Fresh'
  BY <1>1, <1>8, <1>10, FreshKeeps
<1>12. Debts'
  <2>1. {id} \cap Foreign = {}
    BY <1>2
  <2>2. QED
    BY <1>1, <1>7, <2>1, DebtsKeep
<1>13. Story(receipts, told, handed, missed)' /\ OneStory'
  BY <1>1, <1>6, StoriesKeep
<1>14. Calls'
  <2>1. \A j : Acked(j) => Acked(j)'
    BY <1>1, <1>10, AckedKeeps
  <2>2. QED
    BY <1>1, <1>8, <2>1, CallsKeep
<1>15. Space'
  <2>1. Owed' \subseteq Owed
    <3>1. Owes(one) \subseteq Owes(receipts)
      BY <1>4 DEF Owes, Alike
    <3>2. QED
      BY <1>1, <1>6, <3>1 DEF Owed
  <2>2. id \in Owed' => id \in lost'
    <3>1. id \notin Owes(one)
      BY <1>4 DEF Owes
    <3>2. id \in DOMAIN receipts.entries => \A y \in arriving : y.id # id
      BY <1>2 DEF Fresh, Untold, Acked, Ids
    <3>3. QED
      BY <1>1, <1>6, <3>1, <3>2 DEF Owed
  <2>3. Past \subseteq Past' \cup {id} /\ lost' \subseteq Past' /\ Past' \subseteq OwnIds
    BY <1>1, <1>2 DEF Space, Past
  <2>4. Owed' \ Past' \subseteq Owed \ Past
    BY <2>1, <2>2, <2>3
  <2>5. QED
    BY <1>1, <2>3, <2>4, SpaceKeeps DEF Space, Running
<1>16. Retains
  BY <1>8 DEF Retains
<1>17. QED
  BY <1>9, <1>11, <1>12, <1>13, <1>14, <1>15, <1>16

LEMMA BooksReplaySettle == ASSUME IInv, BooksInv, NEW id \in Foreign, ReplaySettle(id) PROVE BooksInv' /\ Retains
<1> USE DEF BooksInv
<1>1. /\ restart[id].answer = "pending_replay" /\ replaying = {} /\ replaying' = {id}
      /\ UNCHANGED <<restart, now, arriving, jobs, settling, stage, deferred, lost, call, missed, told, handed>>
  BY DEF ReplaySettle, closeVars, callVars
<1>2. /\ Sound(receipts) /\ now \in Nat /\ id \in Ids /\ id \notin OwnIds
      /\ restart[id] \in RestartRecords
  BY ReceiptsAssumption DEF Typed, Ids, ReceiptsAssumption
<1>3. /\ told[id] = {} /\ handed[id] = 0 /\ id \in Ids \ DOMAIN receipts.entries
  BY <1>1, <1>2 DEF Fresh, Untold
<1>4. /\ Alike(receipts, receipts', {id}) /\ Story(receipts', told, handed, missed)
      /\ DOMAIN receipts'.entries \subseteq DOMAIN receipts.entries \cup {id}
      /\ id \in DOMAIN receipts'.entries => receipts'.entries[id].answer = "replayed"
      /\ Owes(receipts') \subseteq Owed /\ Retains
  <2>1. CASE restart[id].to = Unknown
    <3>1. receipts' = receipts
      BY <2>1 DEF ReplaySettle
    <3>2. Owes(receipts) \subseteq Owed
      BY DEF Owed
    <3>3. QED
      BY <1>1, <1>2, <1>3, <3>1, <3>2 DEF Alike, Retains
  <2>2. CASE restart[id].to # Unknown
    <3> DEFINE a == restart[id].agent
               e == Entry(a, restart[id].to, now, "replayed")
               s == Queued(Insert(receipts, id, e), id, e.agent)
               last == Expire(s, now)
    <3>1. /\ e \in EntryRecords /\ e.at # None /\ e.answer = "replayed" /\ e.agent = a
      BY <1>2, <2>2, NoneIs DEF RestartRecords, Entry, EntryRecords, Answers, Outcomes
    <3>2. receipts' = Evict(last)
      BY <2>2, <3>1 DEF ReplaySettle
    <3> HIDE DEF e, s
    <3>3. /\ Alike(receipts, s, {id}) /\ Story(s, told, handed, missed)
          /\ DOMAIN s.entries = DOMAIN receipts.entries \cup {id} /\ s.entries[id] = e
      <4>1. e.answer # "pending"
        BY <3>1
      <4> HIDE DEF e
      <4>2. QED
        BY <1>2, <1>3, <3>1, <4>1, EnterSettled DEF s
    <3>4. Sound(s)
      BY <3>3 DEF Alike
    <3> HIDE DEF last
    <3>5. /\ Alike(s, last, {}) /\ Story(last, told, handed, missed)
          /\ DOMAIN last.entries \subseteq DOMAIN s.entries /\ Owes(last) \subseteq Owes(s)
      BY <3>3, <3>4, SweepTold DEF last
    <3>6. Sound(last)
      BY <3>5 DEF Alike
    <3>7. /\ Alike(last, receipts', {}) /\ Story(receipts', told, handed, missed)
          /\ DOMAIN receipts'.entries \subseteq DOMAIN last.entries /\ Owes(receipts') \subseteq Owes(last)
      BY <3>2, <3>5, <3>6, SweepTold
    <3>8. Alike(receipts, receipts', {id})
      BY <3>3, <3>5, <3>7 DEF Alike
    <3>9. id \in DOMAIN receipts'.entries => receipts'.entries[id] = e
      BY <3>3, <3>5, <3>7 DEF Alike
    <3>10. Owes(s) \subseteq Owed
      BY <3>1, <3>3 DEF Owes, Owed, Alike
    <3>11. Owes(last) \subseteq Owed
      BY <3>5, <3>10
    <3>12. Retains
      BY <1>1, <3>2, <3>6, <3>11, EvictRetains
    <3>13. QED
      BY <3>1, <3>3, <3>5, <3>7, <3>8, <3>9, <3>11, <3>12
  <2>3. QED
    BY <2>1, <2>2
<1>5. Typed'
  <2>1. Sound(receipts') /\ replaying' \subseteq Foreign /\ \A i, j \in replaying' : i = j
    BY <1>1, <1>4 DEF Alike
  <2>2. QED
    BY ONLY <1>1, <2>1, Typed DEF Typed
<1>6. receipts'.highestSeq = receipts.highestSeq
  BY <1>4 DEF Alike
<1>7. \A j : Acked(j)' <=> Acked(j)
  BY <1>1, <1>6, AckedKeeps
<1>8. Fresh'
  <2>1. \A j \in Ids : Untold(j)' => Untold(j) /\ j # id
    BY <1>1, <1>2, <1>7 DEF Untold
  <2>2. QED
    BY <1>1, <1>4, <1>6, <2>1 DEF Fresh
<1>9. Debts'
  BY <1>1, <1>4 DEF Debts, Alike
<1>10. Story(receipts, told, handed, missed)' /\ OneStory'
  BY <1>1, <1>4, StoriesKeep
<1>11. Calls'
  BY <1>1, <1>2, <1>4, <1>7, CallsKeep
<1>12. Space'
  <2>1. Owed' \subseteq Owed
    BY <1>1, <1>4 DEF Owed
  <2>2. QED
    BY <1>1, <2>1, SpaceShrinks DEF Running
<1>13. QED
  BY <1>4, <1>5, <1>8, <1>9, <1>10, <1>11, <1>12

LEMMA BooksReplayPublish == ASSUME IInv, BooksInv, ReplayPublish PROVE BooksInv' /\ Retains
<1> USE DEF BooksInv
<1>1. PICK id \in replaying : restart' = [restart EXCEPT ![id].answer = "replayed"]
  BY DEF ReplayPublish
<1>2. /\ replaying' = {}
      /\ UNCHANGED <<receipts, now, arriving, jobs, settling, stage, deferred, lost, call, missed, told, handed>>
  BY DEF ReplayPublish, closeVars, callVars
<1>3. id \in Foreign /\ replaying = {id} /\ restart \in [Foreign -> RestartRecords]
  BY DEF Typed
<1>4. /\ restart' \in [Foreign -> RestartRecords] /\ restart'[id].answer = "replayed"
      /\ \A j \in Foreign \ {id} : restart'[j] = restart[j]
  BY <1>1, <1>3 DEF RestartRecords
<1>5. Typed'
  BY ONLY <1>2, <1>4, Typed DEF Typed
<1>6. \A j : Acked(j)' <=> Acked(j)
  BY <1>2, AckedKeeps
<1>7. Fresh'
  <2>1. \A j \in Ids : Untold(j)' => Untold(j)
    BY <1>2, <1>3, <1>4, <1>6 DEF Untold
  <2>2. QED
    BY <1>2, <2>1 DEF Fresh
<1>8. Debts' /\ Story(receipts, told, handed, missed)' /\ OneStory' /\ Retains
  BY <1>2, StoriesKeep DEF Debts, Story, Retains
<1>9. Calls'
  BY <1>2, <1>6, CallsKeep
<1>10. Space'
  BY <1>2 DEF Space, Owed, Owes, Past, Running
<1>11. QED
  BY <1>5, <1>7, <1>8, <1>9, <1>10

LEMMA InOrderOf == ASSUME NEW S, IsFiniteSet(S) PROVE \E n \in Nat : DOMAIN SetToSeq(S) = 1..n
<1> DEFINE n == Cardinality(S)
<1>1. n \in Nat /\ ExistsBijection(1..n, S)
  BY FS_CardinalityType
<1>2. PICK f \in Bijection(1..n, S) : TRUE
  BY <1>1 DEF ExistsBijection
<1>3. f \in [1..n -> S] /\ IsInjective(f)
  BY <1>2 DEF Bijection, Injection, IsInjective
<1>4. SetToSeq(S) \in [1..n -> S]
  BY <1>3 DEF SetToSeq
<1> HIDE DEF n
<1>5. QED
  BY <1>1, <1>4

LEMMA BooksSettleDeferred ==
  ASSUME IInv, BooksInv, NEW flush \in {"durable", "incomplete"}, SettleDeferred(flush)
  PROVE  BooksInv' /\ Retains
<1> USE DEF BooksInv
<1>1. /\ receipts' = Deferred(receipts, SetToSeq(deferred), flush)
      /\ deferred' \subseteq deferred /\ ~Running /\ ~Running'
      /\ UNCHANGED <<restart, now, arriving, jobs, settling, replaying, lost, call, missed, told, handed>>
  BY DEF SettleDeferred, callVars, Running
<1>2. Sound(receipts) /\ now \in Nat /\ IsFiniteSet(deferred)
  BY IdsFinite, FS_Subset DEF Typed
<1>3. PICK n \in Nat : DOMAIN SetToSeq(deferred) = 1..n
  BY <1>2, InOrderOf
<1>4. /\ Sound(receipts') /\ Closes(receipts, receipts') /\ Story(receipts', told, handed, missed)
  <2> DEFINE ids == SetToSeq(deferred)
  <2>1. DOMAIN ids = 1..n /\ receipts' = Deferred(receipts, ids, flush)
    BY <1>1, <1>3
  <2> HIDE DEF ids
  <2>2. QED
    BY <1>2, <2>1, DeferredCloses
<1>5. /\ receipts'.highestSeq = receipts.highestSeq
      /\ DOMAIN receipts'.entries = DOMAIN receipts.entries
      /\ Owes(receipts') \subseteq Owes(receipts)
      /\ \A id \in DOMAIN receipts.entries :
           receipts.entries[id].answer = "replayed" => receipts'.entries[id] = receipts.entries[id]
  BY <1>4 DEF Closes
<1>6. Typed'
  <2>1. deferred' \subseteq Ids
    BY <1>1 DEF Typed
  <2>2. QED
    BY ONLY <1>1, <1>4, <2>1, Typed DEF Typed
<1>7. Fresh'
  BY <1>1, <1>5, FreshKeeps
<1>8. Debts'
  BY <1>1, <1>5 DEF Debts
<1>9. Story(receipts, told, handed, missed)' /\ OneStory'
  BY <1>1, <1>4, StoriesKeep
<1>10. Calls'
  <2>1. \A j : Acked(j) => Acked(j)'
    BY <1>1, <1>5, AckedKeeps
  <2>2. QED
    BY <1>1, <1>5, <2>1, CallsKeep
<1>11. Space'
  <2>1. Owed' \subseteq Owed
    BY <1>1, <1>5 DEF Owed
  <2>2. QED
    BY <1>1, <2>1, SpaceShrinks
<1>12. Retains
  BY <1>5 DEF Retains
<1>13. QED
  BY <1>6, <1>7, <1>8, <1>9, <1>10, <1>11, <1>12

(* The close's other steps, and the clock's.                                 *)
LEMMA BooksCloseStep ==
  ASSUME IInv, BooksInv, Seal \/ AbortWorkers \/ ReleaseWaits \/ Tick \/ UNCHANGED vars
  PROVE  BooksInv' /\ Retains
<1> USE DEF BooksInv
<1>1. UNCHANGED <<receipts, arriving, told, handed, missed, restart, lost, settling, replaying, call>>
  BY DEF Seal, AbortWorkers, ReleaseWaits, Tick, vars, pipeVars, closeVars, callVars
<1>2. now' \in Nat
  BY DEF Typed, Seal, AbortWorkers, ReleaseWaits, Tick, vars, pipeVars, closeVars, callVars
<1>3. deferred' \subseteq Ids
  <2>1. DOMAIN receipts.entries \subseteq Ids
    BY TableFields DEF Typed, Sound
  <2>2. QED
    BY <2>1 DEF Typed, Seal, AbortWorkers, ReleaseWaits, Tick, vars, pipeVars, closeVars, callVars
<1>4. jobs' \subseteq jobs /\ (Running' => Running /\ jobs' = jobs)
  BY DEF Running, Seal, AbortWorkers, ReleaseWaits, Tick, vars, pipeVars, closeVars, callVars
<1>5. call' \in [Callers -> CallRecords]
  BY <1>1 DEF Typed
<1>6. QED
  BY <1>1, <1>2, <1>3, <1>4, <1>5, QuietBooks

-----------------------------------------------------------------------------
(* The callers.                                                              *)

(* What a caller leaves alone but for its own progress.                      *)
Rest == <<receipts, restart, now, pipeVars, missed, told, handed>>

LEMMA BooksCallStep ==
  ASSUME IInv, BooksInv, UNCHANGED Rest, call' \in [Callers -> CallRecords],
         \A c \in Callers :
           \/ call'[c].pc = "idle"
           \/ call'[c].pc # "answered" /\ call'[c].id \in Ids /\ Acked(call'[c].id)
           \/ call[c].pc = call'[c].pc /\ call[c].id = call'[c].id /\ call[c].answer = call'[c].answer
  PROVE  BooksInv' /\ Retains
<1>1. /\ UNCHANGED <<receipts, arriving, told, handed, missed, restart, lost, settling, replaying, deferred, now, jobs>>
      /\ Running' = Running
  BY DEF Rest, pipeVars, closeVars, Running
<1>2. now' \in Nat /\ deferred' \subseteq Ids
  BY <1>1 DEF BooksInv, Typed
<1>3. QED
  BY <1>1, <1>2, QuietBooks

LEMMA BooksGoto ==
  ASSUME IInv, BooksInv, NEW c \in Callers, UNCHANGED Rest, NEW pc \in Places, NEW woken \in BOOLEAN,
         call' = [call EXCEPT ![c].pc = pc, ![c].woken = woken],
         call[c].pc # "idle", pc # "answered"
  PROVE  BooksInv' /\ Retains
<1>1. call \in [Callers -> CallRecords]
  BY DEF BooksInv, Typed
<1>2. call[c].id \in Ids /\ Acked(call[c].id)
  BY DEF BooksInv, Calls
<1>3. /\ call' \in [Callers -> CallRecords] /\ call'[c].pc = pc /\ call'[c].id = call[c].id
      /\ \A d \in Callers \ {c} : call'[d] = call[d]
  BY <1>1 DEF CallRecords
<1>4. QED
  BY <1>2, <1>3, BooksCallStep

LEMMA BooksMove ==
  ASSUME IInv, BooksInv, NEW c \in Callers, UNCHANGED Rest, NEW pc \in Places, Goto(c, pc),
         call[c].pc # "idle", pc # "answered"
  PROVE  BooksInv' /\ Retains
<1>1. call \in [Callers -> CallRecords]
  BY DEF BooksInv, Typed
<1>2. /\ call[c].woken \in BOOLEAN
      /\ call' = [call EXCEPT ![c].pc = pc, ![c].woken = call[c].woken]
  BY <1>1 DEF CallRecords, Goto
<1>3. QED
  BY <1>2, BooksGoto

LEMMA BooksStart ==
  ASSUME IInv, BooksInv, NEW c \in Callers, UNCHANGED Rest, NEW id \in Ids, Acked(id),
         call' = [call EXCEPT ![c].pc = "claim", ![c].id = id]
  PROVE  BooksInv' /\ Retains
<1>1. call \in [Callers -> CallRecords]
  BY DEF BooksInv, Typed
<1>2. /\ call' \in [Callers -> CallRecords] /\ call'[c].pc = "claim" /\ call'[c].id = id
      /\ \A d \in Callers \ {c} : call'[d] = call[d]
  BY <1>1 DEF CallRecords, Places
<1>3. QED
  BY <1>2, BooksCallStep

(* The call is over: its place is free for another.                          *)
Hangs(c) == call' = [call EXCEPT ![c].pc = "idle", ![c].id = 0, ![c].woken = FALSE,
                                 ![c].answer = "pending"]

LEMMA OverIs ==
  ASSUME Typed, NEW c \in Callers, Hangs(c)
  PROVE  /\ call' \in [Callers -> CallRecords] /\ call'[c].pc = "idle"
         /\ \A d \in Callers \ {c} : call'[d] = call[d]
<1> DEFINE e == [call[c] EXCEPT !.pc = "idle", !.id = 0, !.woken = FALSE, !.answer = "pending"]
<1>1. call \in [Callers -> CallRecords]
  BY DEF Typed
<1>2. call' = [call EXCEPT ![c] = e]
  BY <1>1 DEF Hangs
<1>3. e \in CallRecords /\ e.pc = "idle"
  BY <1>1 DEF CallRecords, Places, LookupAnswers, Answers
<1> HIDE DEF e
<1>4. QED
  <2> HIDE DEF CallRecords
  <2>1. QED
    BY <1>1, <1>2, <1>3

LEMMA BooksCancel == ASSUME IInv, BooksInv, NEW c \in Callers, Cancel(c) PROVE BooksInv' /\ Retains
<1>1. UNCHANGED Rest /\ Hangs(c)
  BY DEF Cancel, Rest, Hangs
<1>2. QED
  BY <1>1, OverIs, BooksCallStep DEF BooksInv

LEMMA BooksNotify == ASSUME IInv, BooksInv, Notify PROVE BooksInv' /\ Retains
<1>1. call \in [Callers -> CallRecords] /\ UNCHANGED Rest
  BY DEF BooksInv, Typed, Notify, Rest
<1>2. \A d \in Callers : /\ call'[d] \in CallRecords
                         /\ call'[d].pc = call[d].pc /\ call'[d].id = call[d].id
                         /\ call'[d].answer = call[d].answer
  BY <1>1 DEF Notify, CallRecords
<1>3. call' \in [Callers -> CallRecords]
  <2>1. DOMAIN call' = Callers /\ call' = [d \in Callers |-> call'[d]]
    BY DEF Notify
  <2>2. QED
    BY <1>2, <2>1
<1>4. QED
  BY <1>1, <1>2, <1>3, BooksCallStep

(* What a lookup may answer to a caller that holds the receipt.              *)
LEMMA LookupIs ==
  ASSUME BooksInv, NEW r, Alike(receipts, r, {}), NEW a, NEW d, NEW id \in Ids, Acked(id),
         NEW ans, ans = Lookup(r, a, d, id)
  PROVE  /\ ans \in LookupAnswers
         /\ ans \in Outcomes /\ id \in DOMAIN r.entries => r.entries[id].answer = ans
         /\ ans \in Outcomes /\ id \notin DOMAIN r.entries =>
              id \in Foreign /\ ans = "replayed" /\ restart[id].answer = "replayed"
         /\ Delivers(ans) /\ ans \notin Outcomes => id \in OwnIds \ DOMAIN r.entries
<1>1. /\ DOMAIN restart = Foreign /\ \A x \in Foreign : restart[x].answer \in {"pending_replay", "replayed"}
      /\ Foreign \cap OwnIds = {}
  BY ReceiptsAssumption DEF BooksInv, Typed, RestartRecords, ReceiptsAssumption
<1>2. Sound(r) /\ r.highestSeq = receipts.highestSeq
  BY DEF Alike
<1>3. CASE id \in DOMAIN r.entries
  <2>1. r.entries[id].answer \in Answers
    BY <1>2, <1>3, TableFields DEF Sound, EntryRecords
  <2>2. ans \in {r.entries[id].answer, "forbidden"}
    BY <1>3 DEF Lookup
  <2>3. QED
    BY <1>3, <2>1, <2>2 DEF LookupAnswers, Answers, Outcomes, Delivers, IsSettled, Unsettled
<1>4. CASE id \notin DOMAIN r.entries /\ id \in Foreign
  <2>1. ans \in {restart[id].answer, "forbidden"}
    BY <1>1, <1>4 DEF Lookup
  <2>2. QED
    BY <1>1, <1>4, <2>1 DEF LookupAnswers, Answers, Outcomes, Delivers, IsSettled, Unsettled
<1>5. CASE id \notin DOMAIN r.entries /\ id \notin Foreign
  <2>1. id \in OwnIds /\ id <= receipts.highestSeq
    BY <1>5 DEF Ids, Acked
  <2>2. ans \in {"never_issued", "expired"}
    BY <1>1, <1>5, <2>1 DEF Lookup
  <2>3. QED
    BY <1>5, <2>1, <2>2 DEF LookupAnswers, Answers, Outcomes
<1>6. QED
  BY <1>3, <1>4, <1>5

LEMMA TaleTold ==
  ASSUME NEW e, e.at # None, NEW queued, NEW said, NEW times, NEW out, Tale(e, queued, said, times, out)
  PROVE  Tale(e, queued, said \cup {e.answer}, times, out)
<1> DEFINE more == said \cup {e.answer}
<1>1. /\ more \subseteq {e.answer} \cup Earlier(e) /\ e.answer \in more /\ more # {} /\ said \subseteq more
  BY DEF Tale
<1> HIDE DEF more
<1>2. /\ queued /\ times # 0 => times = 1 /\ "close_unflushed" \in more /\ e.answer = "intent_durable"
      /\ times # 0 => times = 1 \/ (times = 2 /\ {"close_unflushed", "intent_durable"} \subseteq more)
  BY <1>1 DEF Tale
<1>3. QED
  BY <1>1, <1>2 DEF Tale, more

LEMMA DebtIsOne ==
  ASSUME NEW said, NEW more, NEW times, OneTale(said, times), said \subseteq {"replayed"},
         more \subseteq {"replayed"}
  PROVE  OneTale(more, times)
<1>1. Cardinality(more) <= 1
  BY AtMostOne
<1>2. QED
  BY <1>1 DEF OneTale

(* A lookup: what it tells its caller is what the owner may be told.         *)
LEMMA BooksAnswer ==
  ASSUME IInv, BooksInv, NEW c \in Callers, NEW id \in Ids, Acked(id), NEW waits, Answer(c, id, waits)
  PROVE  BooksInv' /\ Retains
<1> USE DEF BooksInv
<1> DEFINE swept == Expire(receipts, now)
           ans  == Lookup(swept, call[c].agent, call[c].to, id)
           ends == IsSettled(ans) \/ ~waits
           pc   == IF ends THEN "answered" ELSE "check"
<1>1. /\ receipts' = swept
      /\ call' = [call EXCEPT ![c].answer = ans, ![c].id = id, ![c].pc = pc]
      /\ told' = IF ends /\ ans \in Outcomes THEN [told EXCEPT ![id] = @ \cup {ans}] ELSE told
      /\ UNCHANGED <<restart, now, arriving, jobs, settling, stage, deferred, replaying, lost, missed, handed>>
  BY DEF Answer, pipeVars, closeVars
<1>2. Sound(receipts) /\ told \in [Ids -> SUBSET Outcomes] /\ handed \in [Ids -> Nat]
  BY DEF Typed
<1>3. /\ Alike(receipts, swept, {}) /\ Story(swept, told, handed, missed)
      /\ DOMAIN swept.entries \subseteq DOMAIN receipts.entries /\ Owes(swept) \subseteq Owes(receipts)
  BY <1>2, SweepTold
<1> HIDE DEF swept
<1>4. /\ ans \in LookupAnswers
      /\ ans \in Outcomes /\ id \in DOMAIN swept.entries => swept.entries[id].answer = ans
      /\ ans \in Outcomes /\ id \notin DOMAIN swept.entries =>
           id \in Foreign /\ ans = "replayed" /\ restart[id].answer = "replayed"
      /\ Delivers(ans) /\ ans \notin Outcomes => id \in OwnIds \ DOMAIN swept.entries
  BY <1>3, LookupIs
<1> HIDE DEF ans
<1>5. Delivers(ans) => ends
  BY DEF Delivers
<1>6. pc \in {"answered", "check"}
  OBVIOUS
<1> HIDE DEF ends, pc
<1>7. /\ told' \in [Ids -> SUBSET Outcomes] /\ \A j \in Ids : j # id => told'[j] = told[j]
      /\ told'[id] = told[id] \/ (told'[id] = told[id] \cup {ans} /\ ans \in Outcomes)
      /\ ends /\ ans \in Outcomes => ans \in told'[id]
      /\ told[id] \subseteq told'[id]
  BY <1>1, <1>2
<1>8. /\ call' \in [Callers -> CallRecords] /\ call'[c].pc = pc /\ call'[c].id = id
      /\ call'[c].answer = ans /\ \A d \in Callers \ {c} : call'[d] = call[d]
  <2> DEFINE e == [call[c] EXCEPT !.answer = ans, !.id = id, !.pc = pc]
  <2>1. call \in [Callers -> CallRecords]
    BY DEF Typed
  <2>2. call' = [call EXCEPT ![c] = e]
    BY <1>1, <2>1
  <2>3. e \in CallRecords /\ e.pc = pc /\ e.id = id /\ e.answer = ans
    BY <1>4, <1>6, <2>1 DEF CallRecords, Places
  <2> HIDE DEF e
  <2>4. QED
    <3> HIDE DEF CallRecords
    <3>1. QED
      BY <2>1, <2>2, <2>3
<1>9. Typed'
  <2>1. Sound(receipts')
    BY <1>1, <1>3 DEF Alike
  <2>2. QED
    BY ONLY <1>1, <1>7, <1>8, <2>1, Typed DEF Typed
<1>10. receipts'.highestSeq = receipts.highestSeq /\ \A j : Acked(j)' <=> Acked(j)
  <2>1. receipts'.highestSeq = receipts.highestSeq
    BY <1>1, <1>3 DEF Alike
  <2>2. QED
    BY <1>1, <2>1, AckedKeeps
<1>11. Fresh'
  <2>1. ASSUME NEW j \in Ids, Untold(j) PROVE told'[j] = told[j]
    <3>1. CASE j # id
      BY <1>7, <3>1
    <3>2. CASE j = id
      <4>1. id \in Foreign /\ restart[id].answer = "pending_replay" /\ id \notin DOMAIN swept.entries
        BY <1>3, <2>1, <3>2 DEF Untold, Fresh
      <4>2. ans \notin Outcomes
        BY <1>4, <4>1
      <4>3. QED
        BY <1>7, <3>2, <4>2
    <3>3. QED
      BY <3>1, <3>2
  <2>2. QED
    BY <1>1, <1>3, <1>10, <2>1, FreshKeeps
<1>12. Debts'
  <2>1. ASSUME NEW j \in Foreign
        PROVE  /\ told'[j] \subseteq {"replayed"}
               /\ j \in DOMAIN swept.entries => swept.entries[j].answer = "replayed"
    <3>1. /\ told[j] \subseteq {"replayed"} /\ j \in Ids
          /\ j \in DOMAIN swept.entries => swept.entries[j].answer = "replayed"
      BY <1>3 DEF Debts, Alike, Ids
    <3>2. j = id /\ ans \in Outcomes => ans = "replayed"
      BY <1>4, <3>1
    <3>3. QED
      BY <1>7, <3>1, <3>2
  <2>2. QED
    BY <1>1, <2>1 DEF Debts
<1>13. Story(receipts, told, handed, missed)'
  <2>1. ASSUME NEW j \in DOMAIN swept.entries
        PROVE  Tale(swept.entries[j], Waits(swept, j), told'[j], handed[j], j \in missed)
    <3>1. Tale(swept.entries[j], Waits(swept, j), told[j], handed[j], j \in missed)
      BY <1>3 DEF Story
    <3>2. j \in Ids /\ Sound(swept)
      BY <1>3, TableFields DEF Alike, Sound
    <3>3. CASE told'[j] = told[j]
      BY <3>1, <3>3
    <3>4. CASE told'[j] # told[j]
      <4>1. j = id /\ told'[j] = told[j] \cup {swept.entries[j].answer} /\ swept.entries[j].answer \in Outcomes
        BY <1>4, <1>7, <3>2, <3>4
      <4>2. swept.entries[j].at # None
        BY <3>2, <4>1 DEF Sound, Outcomes
      <4>3. Tale(swept.entries[j], Waits(swept, j), told[j] \cup {swept.entries[j].answer}, handed[j], j \in missed)
        BY <3>1, <4>2, TaleTold
      <4>4. QED
        BY <4>1, <4>3
    <3>5. QED
      BY <3>3, <3>4
  <2>2. QED
    BY <1>1, <2>1 DEF Story, Waits
<1>14. OneStory'
  <2>1. ASSUME NEW j \in Ids PROVE OneTale(told'[j], handed[j])
    <3>1. OneTale(told[j], handed[j]) /\ handed[j] \in Nat
      BY <1>2, OneStoryIs
    <3>2. CASE told'[j] = told[j]
      BY <3>1, <3>2
    <3>3. CASE j \in DOMAIN swept.entries
      <4>1. Tale(swept.entries[j], Waits(swept, j), told'[j], handed[j], j \in missed)
        BY <1>1, <1>13, <3>3 DEF Story, Waits
      <4>2. QED
        BY <3>1, <4>1, TaleIsOne
    <3>4. CASE told'[j] # told[j] /\ j \notin DOMAIN swept.entries
      <4>1. j \in Foreign
        BY <1>4, <1>7, <3>4
      <4>2. told[j] \subseteq {"replayed"} /\ told'[j] \subseteq {"replayed"}
        BY <1>12, <4>1 DEF Debts
      <4>3. QED
        BY <3>1, <4>2, DebtIsOne
    <3>5. QED
      BY <3>2, <3>3, <3>4
  <2>2. QED
    BY <1>1, <2>1 DEF OneStory, OneTale
<1>15. Calls'
  <2>1. ASSUME NEW d \in Callers
        PROVE  /\ call'[d].pc # "idle" => call'[d].id \in Ids /\ Acked(call'[d].id)
               /\ call'[d].pc = "answered" /\ Delivers(call'[d].answer) =>
                    \/ call'[d].answer \in told'[call'[d].id]
                    \/ call'[d].id \in OwnIds \ DOMAIN swept.entries
    <3>1. CASE d = c
      <4>1. Delivers(ans) => ans \in told'[id] \/ id \in OwnIds \ DOMAIN swept.entries
        BY <1>4, <1>5, <1>7
      <4>2. QED
        BY <1>8, <3>1, <4>1
    <3>2. CASE d # c
      <4>1. call'[d] = call[d]
        BY <1>8, <3>2
      <4>2. /\ call[d].pc # "idle" => call[d].id \in Ids /\ Acked(call[d].id)
            /\ call[d].pc = "answered" /\ Delivers(call[d].answer) =>
                 call[d].answer \in told[call[d].id] \/ call[d].id \in OwnIds \ DOMAIN receipts.entries
        BY DEF Calls
      <4>3. \A j \in Ids : told[j] \subseteq told'[j]
        BY <1>7
      <4>4. QED
        BY <1>3, <4>1, <4>2, <4>3
    <3>3. QED
      BY <3>1, <3>2
  <2>2. QED
    BY <1>1, <1>10, <2>1 DEF Calls
<1>16. Space'
  <2>1. Owed' \subseteq Owed
    BY <1>1, <1>3 DEF Owed
  <2>2. QED
    BY <1>1, <2>1, SpaceShrinks DEF Running
<1>17. Retains
  BY <1>1, <1>3 DEF Retains
<1>18. QED
  BY <1>9, <1>11, <1>12, <1>13, <1>14, <1>15, <1>16, <1>17

(* What a response carries waits in the agent's queue.                       *)
LEMMA TakenIs ==
  ASSUME NEW r, Sound(r), NEW a \in Agents, NEW d, NEW most \in 1..2, NEW id \in Taken(r, a, d, most)
  PROVE  id \in DOMAIN r.entries /\ r.entries[id].agent = a /\ r.entries[id].at # None /\ Waits(r, id)
<1> DEFINE S == {j \in DOMAIN r.entries : r.entries[j].to = d}
           queue == r.undelivered[a]
           mine == Kept(queue, S)
<1>1. queue \in Orders
  BY TableFields DEF Sound, Queues
<1>2. /\ mine \in Seq(Ids)
      /\ \A v : (\E i \in 1..Len(mine) : mine[i] = v) <=> v \in S /\ \E i \in 1..Len(queue) : queue[i] = v
  BY <1>1, KeptType, KeptElements DEF Orders
<1>3. mine = Deliverable(r, a, d)
  BY DEF Deliverable
<1> HIDE DEF mine
<1>4. \E i \in 1..Len(mine) : mine[i] = id
  BY <1>2, <1>3 DEF Taken
<1>5. Contains(queue, id)
  BY <1>2, <1>4 DEF Contains
<1>6. QED
  BY <1>5 DEF Sound, Waits

LEMMA TaleHanded ==
  ASSUME NEW e, e.at # None, NEW said, NEW times \in Nat, NEW out, Tale(e, TRUE, said, times, out),
         NEW more, more = said \cup {e.answer}, NEW again, again = times + 1
  PROVE  Tale(e, FALSE, more, again, out)
<1>1. /\ more \subseteq {e.answer} \cup Earlier(e) /\ more # {} /\ said \subseteq more /\ e.answer \in more
  BY DEF Tale
<1>2. times = 0 \/ (times = 1 /\ "close_unflushed" \in said /\ e.answer = "intent_durable")
  BY DEF Tale
<1>3. again = 1 \/ (again = 2 /\ {"close_unflushed", "intent_durable"} \subseteq more)
  BY <1>1, <1>2
<1>4. QED
  BY <1>1, <1>3 DEF Tale

LEMMA BooksTake ==
  ASSUME IInv, BooksInv, NEW a \in Agents, NEW d \in Dests, NEW most \in 1..2, TakePiggyback(a, d, most)
  PROVE  BooksInv' /\ Retains
<1> USE DEF BooksInv
<1> DEFINE swept == Expire(receipts, now)
           taken == Taken(swept, a, d, most)
<1>1. /\ receipts' = Unqueued(swept, a, taken)
      /\ told' = [id \in Ids |-> IF id \in taken THEN told[id] \cup {swept.entries[id].answer}
                                 ELSE told[id]]
      /\ handed' = [id \in Ids |-> IF id \in taken THEN handed[id] + 1 ELSE handed[id]]
      /\ UNCHANGED <<restart, now, arriving, jobs, settling, stage, deferred, replaying, lost, missed, call>>
  BY DEF TakePiggyback, pipeVars, closeVars
<1>2. Sound(receipts) /\ told \in [Ids -> SUBSET Outcomes] /\ handed \in [Ids -> Nat]
  BY DEF Typed
<1>3. /\ Alike(receipts, swept, {}) /\ Story(swept, told, handed, missed)
      /\ DOMAIN swept.entries \subseteq DOMAIN receipts.entries /\ Owes(swept) \subseteq Owes(receipts)
  BY <1>2, SweepTold
<1> HIDE DEF swept
<1>4. Sound(swept) /\ swept.highestSeq = receipts.highestSeq
  BY <1>3 DEF Alike
<1>5. \A id \in taken : /\ id \in DOMAIN swept.entries /\ swept.entries[id].agent = a
                        /\ swept.entries[id].at # None /\ Waits(swept, id)
                        /\ swept.entries[id].answer \in Outcomes /\ id \in Ids
  <2>1. ASSUME NEW id \in taken
        PROVE  /\ id \in DOMAIN swept.entries /\ swept.entries[id].agent = a
               /\ swept.entries[id].at # None /\ Waits(swept, id)
    BY <1>4, TakenIs
  <2>2. ASSUME NEW id \in DOMAIN swept.entries, swept.entries[id].at # None
        PROVE  swept.entries[id].answer \in Outcomes /\ id \in Ids
    BY <1>4, <2>2, TableFields DEF Sound, EntryRecords, Answers
  <2>3. QED
    BY <2>1, <2>2
<1> HIDE DEF taken
<1>6. /\ Sound(receipts') /\ receipts'.entries = swept.entries
      /\ receipts'.highestSeq = receipts.highestSeq
      /\ \A id \in DOMAIN swept.entries :
           Waits(receipts', id) <=> Waits(swept, id) /\ (swept.entries[id].agent = a => id \notin taken)
  BY <1>1, <1>4, UnqueuedIs
<1>7. /\ \A id \in Ids \ taken : told'[id] = told[id] /\ handed'[id] = handed[id]
      /\ \A id \in taken : /\ told'[id] = told[id] \cup {swept.entries[id].answer}
                           /\ handed'[id] = handed[id] + 1
      /\ told' \in [Ids -> SUBSET Outcomes] /\ handed' \in [Ids -> Nat]
  BY <1>1, <1>2, <1>5
<1>8. Typed'
  BY ONLY <1>1, <1>6, <1>7, Typed DEF Typed
<1>9. Fresh'
  <2>1. \A id \in Ids : Untold(id) => id \notin taken
    BY <1>3, <1>5 DEF Fresh
  <2>2. QED
    BY <1>1, <1>3, <1>6, <1>7, <2>1, FreshKeeps
<1>10. Debts'
  <2>1. ASSUME NEW j \in Foreign
        PROVE  /\ told'[j] \subseteq {"replayed"}
               /\ j \in DOMAIN swept.entries => swept.entries[j].answer = "replayed"
    <3>1. /\ told[j] \subseteq {"replayed"} /\ j \in Ids
          /\ j \in DOMAIN swept.entries => swept.entries[j].answer = "replayed"
      BY <1>3 DEF Debts, Alike, Ids
    <3>2. QED
      BY <1>5, <1>7, <3>1
  <2>2. QED
    BY <1>6, <2>1 DEF Debts
<1>11. Story(receipts, told, handed, missed)'
  <2>1. ASSUME NEW j \in DOMAIN swept.entries
        PROVE  Tale(swept.entries[j], Waits(receipts', j), told'[j], handed'[j], j \in missed)
    <3>1. Tale(swept.entries[j], Waits(swept, j), told[j], handed[j], j \in missed)
      BY <1>3 DEF Story
    <3>2. j \in Ids /\ handed[j] \in Nat
      BY <1>2, <1>4, TableFields DEF Sound
    <3>3. CASE j \notin taken
      BY <1>6, <1>7, <3>1, <3>2, <3>3 DEF Tale
    <3>4. CASE j \in taken
      <4>1. /\ swept.entries[j].at # None /\ Waits(swept, j) /\ ~Waits(receipts', j)
            /\ told'[j] = told[j] \cup {swept.entries[j].answer} /\ handed'[j] = handed[j] + 1
        BY <1>5, <1>6, <1>7, <3>4
      <4>2. Tale(swept.entries[j], TRUE, told[j], handed[j], j \in missed)
        BY ONLY <3>1, <4>1 DEF Tale
      <4>3. Tale(swept.entries[j], FALSE, told'[j], handed'[j], j \in missed)
        BY <3>2, <4>1, <4>2, TaleHanded
      <4>4. QED
        BY ONLY <4>1, <4>3 DEF Tale
    <3>5. QED
      BY <3>3, <3>4
  <2>2. missed' = missed /\ DOMAIN receipts'.entries = DOMAIN swept.entries
    BY <1>1, <1>6
  <2>3. QED
    BY <1>6, <2>1, <2>2 DEF Story, Waits
<1>12. OneStory'
  <2>1. ASSUME NEW j \in Ids PROVE OneTale(told'[j], handed'[j])
    <3>1. CASE j \notin taken
      BY <1>7, <3>1, OneStoryIs
    <3>2. CASE j \in taken
      <4>1. Tale(receipts'.entries[j], Waits(receipts', j), told'[j], handed'[j], j \in missed')
        BY <1>5, <1>6, <1>11, <3>2 DEF Story, Waits
      <4>2. handed'[j] \in Nat
        BY <1>7
      <4>3. QED
        BY <4>1, <4>2, TaleIsOne
    <3>3. QED
      BY <3>1, <3>2
  <2>2. QED
    BY <2>1 DEF OneStory, OneTale
<1>13. Calls'
  <2>1. \A j : Acked(j) => Acked(j)'
    BY <1>1, <1>6, AckedKeeps
  <2>2. \A j \in Ids : told[j] \subseteq told'[j]
    BY <1>7
  <2>3. QED
    BY <1>1, <1>3, <1>6, <2>1, <2>2, CallsKeep
<1>14. Space'
  <2>1. Owed' \subseteq Owed
    BY <1>1, <1>3, <1>6 DEF Owed, Owes
  <2>2. QED
    BY <1>1, <2>1, SpaceShrinks DEF Running
<1>15. Retains
  BY <1>1, <1>3, <1>6 DEF Retains
<1>16. QED
  BY <1>8, <1>9, <1>10, <1>11, <1>12, <1>13, <1>14, <1>15

(* A delivery mark takes out of the queue what the answer told, or the        *)
(* upgrade that came after it.                                                *)
LEMMA BooksMark == ASSUME IInv, BooksInv, NEW c \in Callers, MarkDelivered(c) PROVE BooksInv' /\ Retains
<1> USE DEF BooksInv
<1> DEFINE id == call[c].id
           a  == call[c].agent
<1>1. /\ call[c].pc = "answered" /\ Hangs(c)
      /\ UNCHANGED <<restart, now, arriving, jobs, settling, stage, deferred, replaying, lost, told, handed>>
      /\ missed \subseteq missed'
  BY DEF MarkDelivered, Hangs, pipeVars, closeVars
<1>2. /\ Sound(receipts) /\ call[c] \in CallRecords
  BY DEF Typed
<1>3. a \in Agents
  BY <1>2 DEF CallRecords
<1>4. /\ Sound(receipts') /\ receipts'.entries = receipts.entries
      /\ receipts'.highestSeq = receipts.highestSeq
      /\ \A j \in DOMAIN receipts.entries :
           \/ Waits(receipts', j) <=> Waits(receipts, j)
           \/ ~Waits(receipts', j) /\ receipts.entries[j].answer \in told[j]
           \/ ~Waits(receipts', j) /\ j \in missed' /\ told[j] # {}
  <2>1. CASE receipts' = receipts
    BY <1>2, <2>1
  <2>2. CASE /\ receipts' = Unqueued(receipts, a, {id})
             /\ Delivers(call[c].answer) /\ id \in DOMAIN receipts.entries
             /\ receipts.entries[id].agent = a
             /\ /\ Contains(receipts.undelivered[a], id)
                /\ call[c].answer = "close_unflushed"
                /\ receipts.entries[id].answer = "intent_durable"
                => id \in missed'
    <3>1. call[c].answer \in told[id]
      BY <1>1, <2>2 DEF Calls
    <3>2. Tale(receipts.entries[id], Waits(receipts, id), told[id], handed[id], id \in missed)
      BY <2>2 DEF Story
    <3>3. \/ receipts.entries[id].answer \in told[id]
          \/ ~Waits(receipts, id)
          \/ id \in missed' /\ told[id] # {}
      BY <2>2, <3>1, <3>2 DEF Tale, Earlier, Waits
    <3>4. /\ Sound(receipts') /\ receipts'.entries = receipts.entries
          /\ receipts'.highestSeq = receipts.highestSeq
          /\ \A j \in DOMAIN receipts.entries :
               Waits(receipts', j) <=> Waits(receipts, j) /\ (receipts.entries[j].agent = a => j \notin {id})
      BY <1>2, <1>3, <2>2, UnqueuedIs
    <3> HIDE DEF id, a
    <3>5. QED
      BY <2>2, <3>3, <3>4
  <2>3. QED
    BY <2>1, <2>2 DEF MarkDelivered
<1>5. /\ call' \in [Callers -> CallRecords] /\ call'[c].pc = "idle"
      /\ \A d \in Callers \ {c} : call'[d] = call[d]
  BY <1>1, OverIs
<1>6. Typed'
  BY ONLY <1>1, <1>4, <1>5, Typed DEF Typed
<1>7. Fresh'
  BY <1>1, <1>4, FreshKeeps
<1>8. Debts'
  BY <1>1, <1>4 DEF Debts
<1>9. Story(receipts, told, handed, missed)'
  <2>1. ASSUME NEW j \in DOMAIN receipts.entries
        PROVE  Tale(receipts.entries[j], Waits(receipts', j), told[j], handed[j], j \in missed')
    <3>1. Tale(receipts.entries[j], Waits(receipts, j), told[j], handed[j], j \in missed)
      BY DEF Story
    <3>2. QED
      BY <1>1, <1>4, <3>1 DEF Tale
  <2>2. QED
    BY <1>1, <1>4, <2>1 DEF Story, Waits
<1>10. OneStory'
  BY <1>1, StoriesKeep
<1>11. Calls'
  <2>1. \A j : Acked(j)' <=> Acked(j)
    BY <1>1, <1>4, AckedKeeps
  <2>2. QED
    BY <1>1, <1>4, <1>5, <2>1 DEF Calls
<1>12. Space' /\ Retains
  BY <1>1, <1>4 DEF Space, Owed, Owes, Past, Running, Retains
<1>13. QED
  BY <1>6, <1>7, <1>8, <1>9, <1>10, <1>11, <1>12

LEMMA BooksCaller ==
  ASSUME IInv, BooksInv, NEW c \in Callers,
         \/ \E id \in Ids : Ask(c, id)
         \/ ClaimShare(c) \/ ClaimSlot(c) \/ LookLate(c) \/ TimeOut(c) \/ Cancel(c)
         \/ Round(c)
  PROVE  BooksInv' /\ Retains
<1>1. call[c].pc # "idle" => call[c].id \in Ids /\ Acked(call[c].id)
  BY DEF BooksInv, Calls
<1>2. call[c].woken \in BOOLEAN
  BY DEF BooksInv, Typed, CallRecords
<1>3. ASSUME NEW waits, Answer(c, call[c].id, waits), call[c].pc # "idle" PROVE BooksInv' /\ Retains
  BY <1>1, <1>3, BooksAnswer
<1>4. ASSUME NEW pc \in Places, UNCHANGED Rest, Goto(c, pc), call[c].pc # "idle", pc # "answered"
      PROVE  BooksInv' /\ Retains
  BY <1>4, BooksMove
<1>5. {"claim", "slot", "enable", "look", "final", "sleep"} \subseteq Places \ {"answered"}
  BY DEF Places
<1>6. ASSUME NEW id \in Ids, Ask(c, id) PROVE BooksInv' /\ Retains
  <2>1. Acked(id)
    BY <1>6 DEF Ask
  <2>2. CASE Answer(c, id, FALSE)
    BY <2>1, <2>2, BooksAnswer
  <2>3. CASE UNCHANGED Rest /\ call' = [call EXCEPT ![c].pc = "claim", ![c].id = id]
    BY <2>1, <2>3, BooksStart
  <2>4. QED
    BY <1>6, <2>2, <2>3 DEF Ask, Rest
<1>7. CASE ClaimShare(c)
  BY <1>3, <1>4, <1>5, <1>7 DEF ClaimShare, Rest
<1>8. CASE ClaimSlot(c)
  BY <1>3, <1>4, <1>5, <1>8 DEF ClaimSlot, Rest
<1>9. CASE LookLate(c) \/ Look(c) \/ Final(c)
  BY <1>3, <1>9 DEF LookLate, Look, Final
<1>10. CASE TimeOut(c) \/ Wake(c)
  BY <1>4, <1>5, <1>10 DEF TimeOut, Wake, Rest
<1>11. CASE Check(c)
  BY <1>4, <1>5, <1>11 DEF Check, Rest
<1>12. CASE Enable(c)
  <2>1. /\ UNCHANGED Rest /\ call' = [call EXCEPT ![c].pc = "look", ![c].woken = FALSE]
        /\ call[c].pc # "idle"
    BY <1>12 DEF Enable, Rest
  <2>2. QED
    BY <1>5, <2>1, BooksGoto
<1>13. CASE Cancel(c) \/ MarkDelivered(c)
  BY <1>13, BooksCancel, BooksMark
<1>14. QED
  BY <1>6, <1>7, <1>8, <1>9, <1>10, <1>11, <1>12, <1>13 DEF Round

-----------------------------------------------------------------------------
LEMMA EmptyTable ==
  ASSUME NEW r, NEW e, r.entries = [id \in {} |-> e], r.order = <<>>,
         r.undelivered = [a \in Agents |-> <<>>], r.highestSeq = 0,
         r = [entries |-> r.entries, order |-> r.order, undelivered |-> r.undelivered,
              highestSeq |-> r.highestSeq]
  PROVE  Sound(r) /\ DOMAIN r.entries = {}
<1>1. DOMAIN r.entries = {} /\ r.entries \in Entries
  BY DEF Entries
<1>2. r.order \in Orders /\ r.undelivered \in Queues
  BY DEF Orders, Queues
<1>3. r \in Tables
  BY <1>1, <1>2 DEF Tables
<1>4. QED
  BY <1>1, <1>3 DEF Sound, Distinct, Contains

LEMMA BooksInit == Init => BooksInv
<1> SUFFICES ASSUME Init PROVE BooksInv
  OBVIOUS
<1>1. /\ Sound(receipts) /\ DOMAIN receipts.entries = {} /\ receipts.highestSeq = 0
  BY EmptyTable DEF Init
<1>2. call \in [Callers -> CallRecords] /\ \A c \in Callers : call[c].pc = "idle"
  <2> DEFINE First == [pc : {"idle"}, agent : Agents, to : {Own}, id : {0},
                       woken : {FALSE}, answer : {"pending"}]
  <2>1. Own \in Dests
    BY ReceiptsAssumption DEF ReceiptsAssumption
  <2>2. \A k \in First : k \in CallRecords /\ k.pc = "idle"
    BY <2>1 DEF CallRecords, Places, LookupAnswers, Answers
  <2>3. call \in [Callers -> First]
    BY DEF Init
  <2> HIDE DEF First, CallRecords
  <2>4. QED
    BY <2>2, <2>3
<1>3. /\ arriving = {} /\ jobs = {} /\ settling = {} /\ lost = {} /\ told = [id \in Ids |-> {}]
      /\ handed = [id \in Ids |-> 0] /\ replaying = {} /\ deferred = {} /\ now = 0
      /\ restart \in [Foreign -> RestartRecords]
  BY DEF Init, RestartRecords
<1>4. Cardinality({}) = 0 /\ QueueMax \in Nat /\ MaxRetained \in Nat
  BY FS_EmptySet, ReceiptsAssumption DEF ReceiptsAssumption
<1>5. Typed
  BY <1>1, <1>2, <1>3 DEF Typed
<1>6. Fresh /\ Debts /\ Story(receipts, told, handed, missed) /\ Calls
  BY <1>1, <1>2, <1>3 DEF Fresh, Debts, Story, Calls, Ids
<1>7. OneStory
  BY <1>3, <1>4 DEF OneStory
<1>8. Owed = {}
  BY <1>1, <1>3 DEF Owed, Owes
<1>9. Space
  BY <1>3, <1>4, <1>8 DEF Space
<1>10. QED
  BY <1>5, <1>6, <1>7, <1>9 DEF BooksInv

LEMMA BooksStep == IInv /\ BooksInv /\ [Next]_vars => BooksInv' /\ Retains
BY BooksAdmit, BooksRecord, BooksRun, BooksSettle, BooksReplaySettle, BooksReplayPublish, BooksCloseStep,
   BooksSettleDeferred, BooksTake, BooksCaller, BooksNotify DEF Next

LEMMA BooksInvariance == Spec => []BooksInv
<1>1. QED
  BY BooksInit, BooksStep, Invariance, PTL DEF Spec

(* What enters the table leaves it within MAX_RETAINED_RECEIPTS, whatever is  *)
(* admitted, refused, replayed, swept or settled: what an eviction must leave *)
(* standing is owed by the queue, and the queue is smaller than the table.    *)
(* Not counted are the receipts no place in the queue stands for: those whose *)
(* write ran before they were entered, and those whose write was counted off  *)
(* its lane and has not settled them yet.                                     *)
THEOREM TableIsBounded == Spec => Retained
<1>1. BooksInv /\ IInv /\ [Next]_vars =>
        [ \/ DOMAIN receipts'.entries \subseteq DOMAIN receipts.entries
          \/ Cardinality(DOMAIN receipts'.entries \ (lost \cup settling)') <= MaxRetained ]_vars
  BY BooksStep DEF Retains, Past
<1>2. QED
  BY <1>1, Invariance, BooksInvariance, PTL DEF Spec, Retained

(* The answer a held receipt has now was told to its owner or is in its       *)
(* owner's queue, whatever a fetch, a piggyback, a cancelled wait and a       *)
(* retried close do in between, with the one exception of an upgrade that a   *)
(* fetch of the answer before it marked delivered.                            *)
THEOREM OutcomesAreTold == Spec => []SettledIsTold
<1>1. BooksInv => SettledIsTold
  BY DEF BooksInv, Story, Tale, Waits, SettledIsTold
<1>2. QED
  BY <1>1, BooksInvariance, PTL

(* An owner hears one story of a receipt: it is handed once, or twice when a  *)
(* retried close upgraded it, and no two answers but those of that upgrade    *)
(* are ever told.                                                             *)
THEOREM OwnersHearOneStory == Spec => []OneStory
<1>1. BooksInv => OneStory
  BY DEF BooksInv
<1>2. QED
  BY <1>1, BooksInvariance, PTL

(* The table's three structures agree after any calls: order lists each entry *)
(* once, an owner's queue only entries that are there and settled, and a      *)
(* receipt is answered exactly when it has a time of settlement.              *)
THEOREM TableIsSound == Spec => []Sound(receipts)
<1>1. BooksInv => Sound(receipts)
  BY DEF BooksInv, Typed
<1>2. QED
  BY <1>1, BooksInvariance, PTL
=============================================================================
