---------------------------- MODULE WriteBehind ----------------------------
(***************************************************************************)
(* The write-behind flush of one session: the graph's mutation log, the    *)
(* FlushTask that drains it into the store (src/src/store/flush.rs), the   *)
(* fence that stops it, and the final drain and flush of Memory::close     *)
(* (src/src/memory/shutdown.rs).                                           *)
(*                                                                         *)
(* A mutation is its position in the order in which the graph appended it; *)
(* Target says which concept it writes. A mutation that is a write intent  *)
(* targets none, and does not advance the epoch. Read accesses are counts  *)
(* per concept that never enter the log by themselves; wherever a batch    *)
(* carries a RecordAccess, the model keeps the count it carries, 0 for     *)
(* none. Time is nondeterministic: a tick, a poll, the end of a back-off   *)
(* hold and a timed-out attempt may happen whenever they can.              *)
(*                                                                         *)
(* An operator named X_Y is a mutated form of X, used only to check that a *)
(* property depends on X.                                                  *)
(***************************************************************************)
EXTENDS Integers, FiniteSets, SequencesExt

CONSTANTS
  Concepts,     \* concepts of the graph
  MaxWrite,     \* bound: mutations appended in one behaviour
  MaxAccess,    \* bound: read accesses per concept
  Target,       \* the concept a mutation writes, or NoConcept for an intent
  NoConcept,
  LogMax,       \* backend_log_max
  MaxBatch      \* backend_flush_max_batch

Writes == 1..MaxWrite

ASSUME FlushAssumption ==
  /\ MaxWrite \in Nat /\ MaxAccess \in Nat
  /\ LogMax \in Nat /\ MaxBatch \in Nat
  /\ NoConcept \notin Concepts
  /\ Target \in [Writes -> Concepts \cup {NoConcept}]
  /\ IsFiniteSet(Concepts)

VARIABLES
  \* the graph, guarded by its lock
  nextWrite,       \* mutations appended so far
  log,             \* mutation_log
  count, dirty,    \* access counts, and the concepts in the access-dirty set
  logAcc,          \* accesses a requeued batch brought back to the log
  unflushed,       \* epoch of each concept's write that may not be durable, 0 for none
  \* FlushLoop and its Shared
  loop,            \* its program counter
  tick,            \* this cycle was triggered by the interval
  pending, pendingAcc, pendingEpoch, holdsAccesses,
  hold,            \* retry_after is set
  drainedAt,       \* mutations appended when this cycle drained
  stopPermit, degraded, caughtUp,
  \* the store
  stored, storedAcc, storeEpoch,
  applied,         \* this attempt has committed
  lease,           \* whose the session is
  \* the fence
  fence, heartbeat,
  \* Memory::close
  closing, producersJoined, tail, tailAcc, tailEpoch,
  \* history: what was dropped
  deadLettered,    \* mutations of dead-lettered batches
  shed,            \* mutations dropped by a degraded, fenced or aborted loop
  shedAcc          \* concepts with an access dropped in any of these ways

graphVars == <<nextWrite, log, count, dirty, logAcc, unflushed>>
batchVars == <<pending, pendingAcc, pendingEpoch, holdsAccesses>>
cycleVars == <<loop, tick, drainedAt, applied>>
statVars  == <<hold, degraded, caughtUp>>
storeVars == <<stored, storedAcc, storeEpoch>>
fenceVars == <<lease, fence, heartbeat>>
tailVars  == <<tail, tailAcc, tailEpoch>>
closeVars == <<closing, producersJoined, stopPermit, tailVars>>
pastVars  == <<deadLettered, shed, shedAcc>>
vars == <<graphVars, batchVars, cycleVars, statVars, storeVars, fenceVars, closeVars, pastVars>>

NoAccess == [c \in Concepts |-> 0]
Carried(acc) == {c \in Concepts : acc[c] # 0}
Higher(m, n) == IF m > n THEN m ELSE n
\* RecordAccess carries absolute values: applying one twice changes nothing.
HigherAcc(f, g) == [c \in Concepts |-> Higher(f[c], g[c])]

\* Graph::epoch when mutation w was appended: intents are not counted.
EpochAt(w) == Cardinality({v \in 1..w : Target[v] # NoConcept})
Epoch == EpochAt(nextWrite)

\* The epoch of a pinned entry (u64::MAX): above every stamp.
PINNED == MaxWrite + 1

PendingLen == Len(pending) + Cardinality(Carried(pendingAcc))
LogLen == Len(log) + Cardinality(Carried(logAcc))

\* access_budget: half the bound, at least 1, never more than the bound, less
\* what pending already holds.
AccessBudget(held) ==
  LET half  == Higher(LogMax \div 2, 1)
      limit == IF half < LogMax THEN half ELSE LogMax
  IN  IF held < limit THEN limit - held ELSE 0

-----------------------------------------------------------------------------
Init ==
  /\ nextWrite = 0 /\ log = <<>>
  /\ count = NoAccess /\ dirty = {} /\ logAcc = NoAccess
  /\ unflushed = [c \in Concepts |-> 0]
  /\ loop = "top" /\ tick = FALSE /\ drainedAt = 0 /\ applied = FALSE
  /\ pending = <<>> /\ pendingAcc = NoAccess /\ pendingEpoch = 0 /\ holdsAccesses = FALSE
  /\ hold = FALSE /\ degraded = FALSE /\ caughtUp = 0
  /\ stored = {} /\ storedAcc = NoAccess /\ storeEpoch = 0
  /\ lease = "ours" /\ fence = FALSE /\ heartbeat = "beating"
  /\ closing = "open" /\ producersJoined = FALSE /\ stopPermit = FALSE
  /\ tail = <<>> /\ tailAcc = NoAccess /\ tailEpoch = 0
  /\ deadLettered = {} /\ shed = {} /\ shedAcc = {}

-----------------------------------------------------------------------------
(* The graph. Until close has joined them, a write that was let in before  *)
(* the gate, a queue worker, the daemon and canonization may all append.   *)

\* append_mutation and note_unflushed; record_write_intent for an intent.
Append1 ==
  LET w == nextWrite + 1 IN
  /\ nextWrite < MaxWrite /\ ~producersJoined
  /\ nextWrite' = w
  /\ log' = Append(log, w)
  /\ unflushed' = IF Target[w] = NoConcept THEN unflushed
                  ELSE [unflushed EXCEPT ![Target[w]] = EpochAt(w)]
  /\ UNCHANGED <<count, dirty, logAcc, batchVars, cycleVars, statVars, storeVars, fenceVars,
                 closeVars, pastVars>>

\* record_accesses: the daemon applies the accesses recalls have noted. Those
\* the final drain applies itself are as if applied just before it stopped.
RecordAccess(c) ==
  /\ ~producersJoined /\ count[c] < MaxAccess
  /\ count' = [count EXCEPT ![c] = @ + 1]
  /\ dirty' = dirty \cup {c}
  /\ UNCHANGED <<nextWrite, log, logAcc, unflushed, batchVars, cycleVars, statVars, storeVars,
                 fenceVars, closeVars, pastVars>>

-----------------------------------------------------------------------------
(* One cycle of the loop: drain, decide, attempt                           *)

\* Drained mutations go behind what is already pending.
Drained(held, new) == held \o new

\* What drain_accesses hands over: nothing while pending holds undelivered
\* accesses or once degraded, and never more than the budget.
AccessesTaken_Always(held) == {dirty}
AccessesTaken(held) ==
  IF holdsAccesses \/ degraded THEN {{}}
  ELSE {A \in SUBSET dirty :
          Cardinality(A) = IF Cardinality(dirty) < AccessBudget(held)
                           THEN Cardinality(dirty) ELSE AccessBudget(held)}

\* The select is biased: a tick or a poll is taken only with no stop waiting.
\* (Unbiased, it may win and drop the stop's permit.)
TickTaken_Unbiased == stopPermit' = FALSE
TickTaken == ~stopPermit /\ UNCHANGED stopPermit

\* The drain, in one hold of the graph lock.
Drain(onTick) ==
  /\ loop = "select" /\ TickTaken
  /\ loop' = "drained" /\ tick' = onTick
  /\ drainedAt' = nextWrite
  /\ pending' = Drained(pending, log) /\ log' = <<>>
  /\ pendingEpoch' = Higher(pendingEpoch, Epoch)
  /\ logAcc' = NoAccess
  /\ \E A \in AccessesTaken(Len(pending) + Len(log) + Cardinality(Carried(pendingAcc))) :
       /\ dirty' = dirty \ A
       /\ pendingAcc' = [c \in Concepts |-> IF c \in A THEN count[c]
                                           ELSE Higher(pendingAcc[c], logAcc[c])]
       /\ holdsAccesses' = (holdsAccesses \/ A # {})
  /\ UNCHANGED <<nextWrite, count, unflushed, applied, statVars, storeVars, fenceVars, closing,
                 producersJoined, tailVars, pastVars>>

\* clear_pending keeps the epoch watermark.
ClearPending ==
  /\ pending' = <<>> /\ pendingAcc' = NoAccess /\ holdsAccesses' = FALSE
  /\ UNCHANGED pendingEpoch

\* pin_unflushed: a dropped batch's concepts stay marked for good.
Pinned_Cleared(batch) ==
  [c \in Concepts |-> IF \E w \in ToSet(batch) : Target[w] = c THEN 0 ELSE unflushed[c]]
Pinned(batch) ==
  [c \in Concepts |-> IF \E w \in ToSet(batch) : Target[w] = c THEN PINNED ELSE unflushed[c]]

\* drop_pending
DropPending ==
  /\ unflushed' = Pinned(pending)
  /\ ClearPending
  /\ shedAcc' = shedAcc \cup Carried(pendingAcc)

\* What a cycle kept for itself goes with it.
CycleEnds == loop' = "top" /\ tick' = FALSE /\ drainedAt' = 0 /\ applied' = FALSE

\* Nothing drained and nothing held: the store holds every mutation.
FoundNothing ==
  /\ loop = "drained" /\ PendingLen = 0
  /\ CycleEnds
  /\ caughtUp' = IF degraded THEN caughtUp ELSE drainedAt
  /\ UNCHANGED <<graphVars, batchVars, hold, degraded, storeVars, fenceVars, closeVars, pastVars>>

\* A degraded session drops what it drains.
DropsDegraded ==
  /\ loop = "drained" /\ PendingLen > 0 /\ degraded
  /\ CycleEnds
  /\ DropPending
  /\ shed' = shed \cup ToSet(pending)
  /\ UNCHANGED <<nextWrite, log, count, dirty, logAcc, hold, degraded, caughtUp, storeVars,
                 fenceVars, closeVars, deadLettered>>

OverLogMax == PendingLen + LogLen > LogMax

\* The backlog outgrew backend_log_max: durability "none" from here on.
Degrade ==
  /\ loop = "drained" /\ PendingLen > 0 /\ ~degraded /\ OverLogMax
  /\ CycleEnds
  /\ degraded' = TRUE
  /\ UNCHANGED <<graphVars, batchVars, hold, caughtUp, storeVars, fenceVars, closeVars, pastVars>>

MayFlush == loop = "drained" /\ PendingLen > 0 /\ ~degraded /\ ~OverLogMax

\* A retained batch still waits out RETAINED_BACKOFF, or the hold is over and
\* a poll finds the batch not yet full.
Waits ==
  /\ MayFlush
  /\ CycleEnds
  /\ \/ hold /\ UNCHANGED hold
     \/ ~tick /\ PendingLen < MaxBatch /\ hold' = FALSE
  /\ UNCHANGED <<graphVars, batchVars, degraded, caughtUp, storeVars, fenceVars, closeVars,
                 pastVars>>

Attempt ==
  /\ MayFlush /\ (tick \/ PendingLen >= MaxBatch)
  /\ loop' = "flushing" /\ applied' = FALSE
  /\ hold' = FALSE
  /\ UNCHANGED <<graphVars, batchVars, tick, drainedAt, degraded, caughtUp, storeVars, fenceVars,
                 closeVars, pastVars>>

\* The store commits a batch as one transaction, watermark included, for the
\* holder of the session only.
Commits(batch, acc, epoch) ==
  /\ lease = "ours"
  /\ stored' = stored \cup ToSet(batch)
  /\ storedAcc' = HigherAcc(storedAcc, acc)
  /\ storeEpoch' = Higher(storeEpoch, epoch)

StoreTakesBatch ==
  /\ loop = "flushing" /\ ~applied
  /\ Commits(pending, pendingAcc, pendingEpoch)
  /\ applied' = TRUE
  /\ UNCHANGED <<graphVars, batchVars, loop, tick, drainedAt, statVars, fenceVars, closeVars,
                 pastVars>>

\* mark_durable_through
DurableThrough(epoch) ==
  [c \in Concepts |-> IF unflushed[c] <= epoch THEN 0 ELSE unflushed[c]]

\* A success means the store held everything as of the drain, not as of now.
CaughtUpAt_Now == nextWrite
CaughtUpAt == drainedAt

\* Only the store's own Ok is a success, never the end of the wait for it.
Confirmed_OnTimeout == TRUE
Confirmed == applied

FlushOk ==
  /\ loop = "flushing" /\ Confirmed
  /\ CycleEnds
  /\ unflushed' = DurableThrough(pendingEpoch)
  /\ ClearPending
  /\ hold' = FALSE
  /\ caughtUp' = CaughtUpAt
  /\ UNCHANGED <<nextWrite, log, count, dirty, logAcc, degraded, storeVars, fenceVars, closeVars,
                 pastVars>>

\* An attempt failed, timed out or panicked (it may have committed all the
\* same): the next one of the ladder.
FlushRetried ==
  /\ loop = "flushing"
  /\ applied' = FALSE
  /\ UNCHANGED <<graphVars, batchVars, loop, tick, drainedAt, hold, degraded, caughtUp, storeVars,
                 fenceVars, closeVars, pastVars>>

\* Retries exhausted: the batch is retained and held back.
FlushRetained ==
  /\ loop = "flushing"
  /\ CycleEnds
  /\ hold' = TRUE
  /\ UNCHANGED <<graphVars, batchVars, degraded, caughtUp, storeVars, fenceVars, closeVars,
                 pastVars>>

\* A constraint violation: the whole batch is dropped, and the session goes on.
FlushDeadLettered ==
  /\ loop = "flushing" /\ ~applied /\ lease = "ours"
  /\ CycleEnds
  /\ DropPending
  /\ deadLettered' = deadLettered \cup ToSet(pending)
  /\ hold' = FALSE
  /\ UNCHANGED <<nextWrite, log, count, dirty, logAcc, degraded, caughtUp, storeVars, fenceVars,
                 closeVars, shed>>

\* The refusal was an erasure's: the latch fences this handle.
FlushRefusedErased ==
  /\ loop = "flushing" /\ lease = "erased"
  /\ CycleEnds
  /\ fence' = TRUE
  /\ UNCHANGED <<graphVars, batchVars, statVars, storeVars, lease, heartbeat, closeVars, pastVars>>

\* The fence is read at the top of the loop only: it may latch while the loop
\* waits in its select.
LoopWaits ==
  /\ loop = "top" /\ ~fence
  /\ loop' = "select"
  /\ UNCHANGED <<graphVars, batchVars, tick, drainedAt, applied, statVars, storeVars, fenceVars,
                 closeVars, pastVars>>

\* A fenced task drops what it holds and stops.
LoopFenced ==
  /\ loop = "top" /\ fence
  /\ loop' = "exited"
  /\ DropPending
  /\ shed' = shed \cup ToSet(pending)
  /\ UNCHANGED <<nextWrite, log, count, dirty, logAcc, tick, drainedAt, applied, hold, degraded,
                 caughtUp, storeVars, fenceVars, closeVars, deadLettered>>

\* requeue_pending: what is not durable goes back to the front of the log.
Requeued(batch) == batch \o log

LoopStops ==
  /\ loop = "select" /\ stopPermit
  /\ loop' = "exited" /\ stopPermit' = FALSE
  /\ log' = Requeued(pending)
  /\ logAcc' = HigherAcc(logAcc, pendingAcc)
  /\ ClearPending
  /\ UNCHANGED <<nextWrite, count, dirty, unflushed, tick, drainedAt, applied, hold, degraded,
                 caughtUp, storeVars, fenceVars, closing, producersJoined, tailVars, pastVars>>

\* abort takes effect where the loop awaits (its first tick, the select, an
\* attempt, the stats it publishes behind a cycle); its batch goes with it.
LoopAborted ==
  /\ loop \in {"top", "select", "flushing"} /\ closing = "fenced_join"
  /\ loop' = "exited" /\ tick' = FALSE /\ drainedAt' = 0 /\ applied' = FALSE
  /\ ClearPending
  /\ shed' = shed \cup ToSet(pending)
  /\ shedAcc' = shedAcc \cup Carried(pendingAcc)
  /\ UNCHANGED <<graphVars, statVars, storeVars, fenceVars, closeVars, deadLettered>>

-----------------------------------------------------------------------------
(* The lease and the fence                                                  *)

\* Another writer takes an expired lease, or an erase leaves its tombstone.
LoseSession ==
  /\ lease = "ours"
  /\ lease' \in {"taken", "erased"}
  /\ UNCHANGED <<graphVars, batchVars, cycleVars, statVars, storeVars, fence, heartbeat,
                 closeVars, pastVars>>

\* A refresh comes back Held; the task then latches the fence, whether or not
\* it has been aborted in between.
HeartbeatSees ==
  /\ heartbeat = "beating" /\ lease # "ours" /\ ~fence
  /\ heartbeat' = "saw_loss"
  /\ UNCHANGED <<graphVars, batchVars, cycleVars, statVars, storeVars, lease, fence, closeVars,
                 pastVars>>

HeartbeatLatches ==
  /\ heartbeat \in {"saw_loss", "dying"}
  /\ heartbeat' = IF heartbeat = "dying" THEN "stopped" ELSE "beating"
  /\ fence' = TRUE
  /\ UNCHANGED <<graphVars, batchVars, cycleVars, statVars, storeVars, lease, closeVars, pastVars>>

\* A canonization record refused as erased latches it too.
CanonRefusedErased ==
  /\ lease = "erased" /\ ~producersJoined /\ ~fence
  /\ fence' = TRUE
  /\ UNCHANGED <<graphVars, batchVars, cycleVars, statVars, storeVars, lease, heartbeat,
                 closeVars, pastVars>>

-----------------------------------------------------------------------------
(* Memory::close                                                            *)

\* Latch closed, stop the replay, quiesce the queue, take the writers gate.
CloseBegin ==
  /\ closing \in {"open", "failed"}
  /\ closing' = "shut"
  /\ UNCHANGED <<graphVars, batchVars, cycleVars, statVars, storeVars, fenceVars, producersJoined,
                 stopPermit, tailVars, pastVars>>

\* The heartbeat is aborted, not joined, and the fence is read once.
CloseReadsFence ==
  /\ closing = "shut"
  /\ heartbeat' = CASE heartbeat = "saw_loss" -> "dying"
                    [] heartbeat = "beating"  -> "stopped"
                    [] OTHER                  -> heartbeat
  /\ closing' = IF fence THEN "fenced_join" ELSE "producer_joins"
  /\ UNCHANGED <<graphVars, batchVars, cycleVars, statVars, storeVars, lease, fence,
                 producersJoined, stopPermit, tailVars, pastVars>>

\* A fenced close aborts and joins every task, and refuses to flush.
CloseFenced ==
  /\ closing = "fenced_join" /\ loop = "exited"
  /\ closing' = "failed"
  /\ producersJoined' = TRUE
  /\ UNCHANGED <<graphVars, batchVars, cycleVars, statVars, storeVars, fenceVars, stopPermit,
                 tailVars, pastVars>>

\* Canonization and the daemon are aborted and joined, and the loop is asked
\* to stop.
CloseProducersJoined ==
  /\ closing = "producer_joins"
  /\ closing' = "flush_join"
  /\ producersJoined' = TRUE
  /\ stopPermit' = TRUE
  /\ UNCHANGED <<graphVars, batchVars, cycleVars, statVars, storeVars, fenceVars, tailVars,
                 pastVars>>

\* The join returns when the loop has exited. Were the handle not handed back
\* by a cancelled join, the next close would find no loop to wait for.
FlushJoined_Detached == TRUE
FlushJoined == loop = "exited"

CloseFlushJoined ==
  /\ closing = "flush_join" /\ FlushJoined
  /\ closing' = "final_drain"
  /\ UNCHANGED <<graphVars, batchVars, cycleVars, statVars, storeVars, fenceVars, producersJoined,
                 stopPermit, tailVars, pastVars>>

DirtyAcc == [c \in Concepts |-> IF c \in dirty THEN count[c] ELSE 0]
TailAcc  == HigherAcc(logAcc, DirtyAcc)
TailEmpty == log = <<>> /\ Carried(TailAcc) = {}

\* The final drain of a degraded session: the tail goes back, and close errs.
CloseDegraded ==
  /\ closing = "final_drain" /\ degraded
  /\ closing' = "failed"
  /\ logAcc' = TailAcc /\ dirty' = {}
  /\ UNCHANGED <<nextWrite, log, count, unflushed, batchVars, cycleVars, statVars, storeVars,
                 fenceVars, producersJoined, stopPermit, tailVars, pastVars>>

\* An empty tail counts as written.
CloseEmpty ==
  /\ closing = "final_drain" /\ ~degraded /\ TailEmpty
  /\ closing' = "lease_release"
  /\ dirty' = {}
  /\ UNCHANGED <<nextWrite, log, count, logAcc, unflushed, batchVars, cycleVars, statVars,
                 storeVars, fenceVars, producersJoined, stopPermit, tailVars, pastVars>>

CloseDrains ==
  /\ closing = "final_drain" /\ ~degraded /\ ~TailEmpty
  /\ closing' = "final_flush"
  /\ tail' = log /\ log' = <<>>
  /\ tailAcc' = TailAcc /\ logAcc' = NoAccess /\ dirty' = {}
  /\ tailEpoch' = Epoch
  /\ applied' = FALSE
  /\ UNCHANGED <<nextWrite, count, unflushed, batchVars, loop, tick, drainedAt, statVars,
                 storeVars, fenceVars, producersJoined, stopPermit, pastVars>>

StoreTakesTail ==
  /\ closing = "final_flush" /\ ~applied
  /\ Commits(tail, tailAcc, tailEpoch)
  /\ applied' = TRUE
  /\ UNCHANGED <<graphVars, batchVars, loop, tick, drainedAt, statVars, fenceVars, closeVars,
                 pastVars>>

\* TailCustody: until durable, the batch goes back to the front of the log
\* when the close fails or is dropped.
TailReturned_Lost == UNCHANGED <<log, logAcc>>
TailReturned ==
  /\ log' = Requeued(tail)
  /\ logAcc' = HigherAcc(logAcc, tailAcc)

EndCustody == tail' = <<>> /\ tailAcc' = NoAccess /\ tailEpoch' = 0 /\ applied' = FALSE

CloseFlushed ==
  /\ closing = "final_flush" /\ applied
  /\ closing' = "lease_release"
  /\ EndCustody
  /\ UNCHANGED <<graphVars, batchVars, loop, tick, drainedAt, statVars, storeVars, fenceVars,
                 producersJoined, stopPermit, pastVars>>

\* The final flush errs, or the close is dropped inside it.
CloseNotFlushed ==
  /\ closing = "final_flush"
  /\ closing' = "failed"
  /\ TailReturned /\ EndCustody
  /\ UNCHANGED <<nextWrite, count, dirty, unflushed, batchVars, loop, tick, drainedAt, statVars,
                 storeVars, fenceVars, producersJoined, stopPermit, pastVars>>

\* The close is dropped at one of its other awaits; every handle it held is
\* back in its slot.
CloseDropped ==
  /\ closing \in {"shut", "fenced_join", "producer_joins", "flush_join", "lease_release"}
  /\ closing' = "failed"
  /\ UNCHANGED <<graphVars, batchVars, cycleVars, statVars, storeVars, fenceVars, producersJoined,
                 stopPermit, tailVars, pastVars>>

\* latch_success, after the release.
CloseSucceeds ==
  /\ closing = "lease_release"
  /\ closing' = "succeeded"
  /\ UNCHANGED <<graphVars, batchVars, cycleVars, statVars, storeVars, fenceVars, producersJoined,
                 stopPermit, tailVars, pastVars>>

-----------------------------------------------------------------------------
GraphNext == Append1 \/ \E c \in Concepts : RecordAccess(c)

Cycle ==
  \/ \E onTick \in BOOLEAN : Drain(onTick)
  \/ FoundNothing \/ DropsDegraded \/ Degrade \/ Waits \/ Attempt
  \/ StoreTakesBatch \/ FlushOk \/ FlushRetried \/ FlushRetained \/ FlushDeadLettered
  \/ FlushRefusedErased
Loop == LoopWaits \/ LoopFenced \/ LoopStops \/ LoopAborted \/ Cycle

Fence == LoseSession \/ HeartbeatSees \/ HeartbeatLatches \/ CanonRefusedErased

Close ==
  \/ CloseBegin \/ CloseReadsFence \/ CloseFenced \/ CloseProducersJoined \/ CloseFlushJoined
  \/ CloseDegraded \/ CloseEmpty \/ CloseDrains \/ StoreTakesTail \/ CloseFlushed
  \/ CloseNotFlushed \/ CloseDropped \/ CloseSucceeds

Next == GraphNext \/ Loop \/ Fence \/ Close

Spec == Init /\ [][Next]_vars

\* The loop task is polled and its attempts are bounded (FLUSH_ATTEMPT_TIMEOUT
\* and the retry ladder); close is awaited by its caller. Nothing is assumed of
\* the store.
Fairness ==
  /\ WF_vars(LoopWaits) /\ WF_vars(LoopFenced) /\ WF_vars(LoopStops) /\ WF_vars(LoopAborted)
  /\ WF_vars(FoundNothing \/ DropsDegraded \/ Degrade \/ Waits \/ Attempt)
  /\ WF_vars(FlushOk \/ FlushRetained \/ FlushDeadLettered \/ FlushRefusedErased)
  /\ WF_vars(CloseReadsFence) /\ WF_vars(CloseFenced) /\ WF_vars(CloseProducersJoined)
  /\ WF_vars(CloseFlushJoined) /\ WF_vars(CloseDegraded \/ CloseEmpty \/ CloseDrains)
  /\ WF_vars(CloseFlushed \/ CloseNotFlushed) /\ WF_vars(CloseSucceeds)

FairSpec == Spec /\ Fairness

-----------------------------------------------------------------------------
(* Correctness                                                              *)

Appended == 1..nextWrite
InFlight == tail \o pending \o log
Dropped  == deadLettered \cup shed

\* Every mutation is in the store, or was dropped in one of the ways that are
\* reported, or is still in custody exactly once and in the order of its
\* append: a failed, cancelled or retried close loses and reorders nothing.
InCustodyInOrder ==
  /\ Appended \subseteq stored \cup Dropped \cup ToSet(InFlight)
  /\ \A i, j \in 1..Len(InFlight) : i < j => InFlight[i] < InFlight[j]

\* No mutation is durable before an earlier one that was not dropped.
StoredInOrder ==
  \A v, w \in Writes : v < w /\ w \in stored => v \in stored \cup Dropped

\* At every instant a concept's latest write is in the store or the concept is
\* in the unflushed set, which a later stamp never clears for a dropped batch.
UnflushedCovers ==
  \A w \in Appended :
    LET c == Target[w] IN
    c # NoConcept /\ (\A v \in w + 1 .. nextWrite : Target[v] # c) =>
      w \in stored \/ unflushed[c] # 0

\* The lag only ever claims a moment at which the store held everything that
\* was not dead-lettered, and the store's watermark is never behind what is
\* durable in it.
StatsAreHonest ==
  /\ \A w \in 1..caughtUp : w \in stored \cup deadLettered
  /\ \A w \in stored : EpochAt(w) <= storeEpoch

\* The latest access count of a concept is stored, dirty or in a batch, unless
\* a batch carrying it was dropped; and a drain of reads never takes more of
\* the backlog than its budget.
AccessesKept ==
  /\ \A c \in Concepts :
       c \in dirty \cup shedAcc \/ count[c] \in {storedAcc[c], pendingAcc[c], logAcc[c], tailAcc[c]}
  /\ Cardinality(Carried(pendingAcc)) <= AccessBudget(0)

\* close() answering Ok on a handle that was never fenced: the loop is gone,
\* and every mutation is stored or was dead-lettered.
OkMeansWritten ==
  closing = "succeeded" /\ ~fence =>
    loop = "exited" /\ Appended \subseteq stored \cup deadLettered

\* "`Ok(())` from `close()` always means 'the tail is written'" (shutdown.rs,
\* Memory::close), dead letters aside.
OkAlwaysMeansWritten ==
  closing = "succeeded" => Appended \subseteq stored \cup deadLettered

\* A close that began ends: the stop it signals is never missed.
CloseEnds == (closing = "shut") ~> (closing \in {"succeeded", "failed"})

=============================================================================
