----------------------------- MODULE WriteQueue -----------------------------
(***************************************************************************)
(* The asynchronous write pipeline of one `lambo serve` process            *)
(* (src/src/writeq/): a caller is answered with a receipt at once, its     *)
(* write waits in a per-agent lane with a single background worker, and    *)
(* Memory::close drains the lanes for a bounded time, aborts and joins     *)
(* what is left, and settles the receipts it set aside once its final      *)
(* flush has reported.                                                     *)
(*                                                                         *)
(* One action is one critical section of the code: what happens between    *)
(* two lock acquisitions, or between two awaits, is atomic, and anything   *)
(* another thread can do in between is another action.                     *)
(*                                                                         *)
(* The mutation log is kept per receipt: whether the write's intent, and   *)
(* whether its effect together with the consumption of the intent, is      *)
(* absent, in the log, in the store, or in a batch the flush loop gave up. *)
(* The loop itself is WriteBehind's; here it is what it does to the log.   *)
(***************************************************************************)
EXTENDS Integers, FiniteSets, SequencesExt, SequenceFilter

CONSTANTS
  Agents,       \* the agents, one lane each
  MaxReceipt,   \* bound: receipts issued in one behaviour
  LaneMax,      \* WRITE_QUEUE_LANE_MAX
  QueueMax,     \* WRITE_QUEUE_MAX
  BytesMax,     \* WRITE_QUEUE_MAX_BYTES
  SizeOf        \* payload size of each receipt's job

Ids == 1..MaxReceipt

ASSUME QueueAssumption ==
  /\ MaxReceipt \in Nat
  /\ LaneMax \in Nat \ {0}
  /\ QueueMax \in Nat \ {0}
  /\ BytesMax \in Nat
  /\ SizeOf \in [Ids -> Nat]

VARIABLES
  \* callers
  nextSeq,         \* highest sequence number issued
  call,            \* how far each receipt's submission has got
  owner,           \* the agent that submits it, chosen in Init and fixed
  \* Lanes, guarded by the lanes lock
  queue,           \* jobs waiting, per lane
  handles,         \* lanes with an entry in `workers`
  queued, running, bytes, laneRunning,
  sealed, workersAborted, settledAtClose, closeDeferred,
  \* the worker tasks
  task,            \* program counter of each lane's worker
  current,         \* the job it took off its lane, 0 for none
  aborted,         \* workers whose handle was aborted
  outcome,         \* what became of each write
  \* Receipts, guarded by the receipts lock
  answer,
  \* the write-behind log and the store
  putLog,          \* the order in which intents entered the mutation log
  intent, effect,
  loop,            \* the flush loop: up, told to stop, or ended
  leaseLost,
  \* Memory::close
  closing,         \* its program counter
  joining          \* handles it holds in custody

callVars  == <<nextSeq, call, owner>>
laneVars  == <<queue, handles, queued, running, bytes, laneRunning>>
gateVars  == <<sealed, workersAborted, settledAtClose, closeDeferred>>
taskVars  == <<task, current, aborted, outcome>>
storeVars == <<putLog, intent, effect, loop>>
closeVars == <<closing, joining>>
vars == <<callVars, laneVars, gateVars, taskVars, answer, storeVars, leaseLost, closeVars>>

Durability == {"none", "logged", "durable", "dropped"}
Settled    == {"applied", "failed", "dropped", "intent_durable", "close_unflushed"}
CallPc     == {"none", "issued", "admitted", "answered"}
TaskPc     == {"none", "spawned", "top", "running", "retiring", "settling"}
Outcomes   == {"none", "applied", "failed"}
LoopPc     == {"up", "stopping", "down"}
ClosePc    == {"open", "draining", "joining", "gate", "flushing", "failed", "closed"}

(***************************************************************************)
(* Lane arithmetic and the small decisions of the code. An operator named  *)
(* X_Y is a mutated form of X, which the checks use to see that a property *)
(* depends on X; no specification uses it.                                 *)
(***************************************************************************)
Outstanding_WaitingOnly == queued
Outstanding == queued + running

LaneOutstanding(a) == Len(queue[a]) + laneRunning[a]

\* Every bound the admission checks, per-lane bound first.
Full(id) ==
  \/ sealed
  \/ LaneOutstanding(owner[id]) >= LaneMax
  \/ Outstanding >= QueueMax
  \/ bytes + SizeOf[id] > BytesMax

\* saturating_sub
Minus(m, n) == IF m - n \in 0..m THEN m - n ELSE 0

SizeOfAll(S) == MapThenSumSet(LAMBDA id : SizeOf[id], S)

\* A lane is a FIFO.
Enqueued_AtFront(q, id) == <<id>> \o q
Enqueued(q, id) == Append(q, id)

\* `workers` says which lanes have a consumer: an admission spawns one only
\* for a lane without, and a worker that found its lane empty leaves.
Spawns(a) == a \notin handles
HandlesAfterExit_Kept(a) == handles
HandlesAfterExit(a) == handles \ {a}

\* record_write_intent
RecordIntent_LogOnly(id) == putLog' = Append(putLog, id) /\ UNCHANGED intent
RecordIntent(id) ==
  /\ putLog' = Append(putLog, id)
  /\ intent' = [intent EXCEPT ![id] = "logged"]

-----------------------------------------------------------------------------
Init ==
  /\ nextSeq = 0
  /\ call = [id \in Ids |-> "none"]
  /\ owner \in [Ids -> Agents]
  /\ queue = [a \in Agents |-> <<>>]
  /\ handles = {}
  /\ queued = 0 /\ running = 0 /\ bytes = 0
  /\ laneRunning = [a \in Agents |-> 0]
  /\ sealed = FALSE /\ workersAborted = FALSE /\ settledAtClose = FALSE
  /\ closeDeferred = {}
  /\ task = [a \in Agents |-> "none"]
  /\ current = [a \in Agents |-> 0]
  /\ aborted = {}
  /\ outcome = [id \in Ids |-> "none"]
  /\ answer = [id \in Ids |-> "absent"]
  /\ putLog = <<>>
  /\ intent = [id \in Ids |-> "none"]
  /\ effect = [id \in Ids |-> "none"]
  /\ loop = "up"
  /\ leaseLost = FALSE
  /\ closing = "open"
  /\ joining = {}

-----------------------------------------------------------------------------
(* The submission: writers gate, receipt number, admission, acknowledgement *)

\* Memory::begin_write lets the call in, and next_receipt numbers it.
Issue ==
  /\ closing = "open" /\ ~sealed /\ ~leaseLost
  /\ nextSeq < MaxReceipt
  /\ nextSeq' = nextSeq + 1
  /\ call' = [call EXCEPT ![nextSeq + 1] = "issued"]
  /\ UNCHANGED <<owner, laneVars, gateVars, taskVars, answer, storeVars, leaseLost, closeVars>>

\* The accept branch, under the graph write lock and the lanes lock: the
\* intent enters the log, the job enters its lane, and a lane without a
\* worker gets one.
Admit(id) ==
  LET a == owner[id] IN
  /\ call[id] = "issued" /\ ~Full(id)
  /\ call' = [call EXCEPT ![id] = "admitted"]
  /\ RecordIntent(id)
  /\ queue' = [queue EXCEPT ![a] = Enqueued(@, id)]
  /\ queued' = queued + 1
  /\ bytes' = bytes + SizeOf[id]
  /\ handles' = handles \cup {a}
  /\ task' = [task EXCEPT ![a] = IF Spawns(a) THEN "spawned" ELSE @]
  /\ UNCHANGED <<nextSeq, owner, running, laneRunning, gateVars, current, aborted, outcome,
                 answer, effect, loop, leaseLost, closeVars>>

\* Only now, with both locks released, does an accepted receipt get its entry.
Acknowledge(id) ==
  /\ call[id] = "admitted"
  /\ call' = [call EXCEPT ![id] = "answered"]
  /\ answer' = [answer EXCEPT ![id] = "pending"]
  /\ UNCHANGED <<nextSeq, owner, laneVars, gateVars, taskVars, storeVars, leaseLost, closeVars>>

\* A refusal takes no custody: nothing is logged, nothing is queued, and the
\* receipt is born settled.
Refuse(id) ==
  /\ call[id] = "issued" /\ Full(id)
  /\ call' = [call EXCEPT ![id] = "answered"]
  /\ answer' = [answer EXCEPT ![id] = "dropped"]
  /\ UNCHANGED <<nextSeq, owner, laneVars, gateVars, taskVars, storeVars, leaseLost, closeVars>>

-----------------------------------------------------------------------------
(* The worker of a lane: pop, fence check, run, retire, settle              *)

\* Takes the front job off the lane, counts it as running, and checks the
\* fence: a lost lease fails the job without touching the graph, and its
\* intent is not this process's to consume any more.
WorkerPop(a) ==
  LET id == Head(queue[a]) IN
  /\ task[a] \in {"spawned", "top"} /\ queue[a] # <<>>
  /\ queue' = [queue EXCEPT ![a] = Tail(@)]
  /\ queued' = queued - 1
  /\ bytes' = Minus(bytes, SizeOf[id])
  /\ running' = running + 1
  /\ laneRunning' = [laneRunning EXCEPT ![a] = @ + 1]
  /\ current' = [current EXCEPT ![a] = id]
  /\ IF leaseLost
     THEN /\ task' = [task EXCEPT ![a] = "retiring"]
          /\ outcome' = [outcome EXCEPT ![id] = "failed"]
     ELSE /\ task' = [task EXCEPT ![a] = "running"]
          /\ UNCHANGED outcome
  /\ UNCHANGED <<callVars, handles, gateVars, aborted, answer, storeVars, leaseLost, closeVars>>

\* An empty lane ends its worker, and the entry in `workers` goes under the
\* same lock an admission takes.
WorkerExit(a) ==
  /\ task[a] \in {"spawned", "top"} /\ queue[a] = <<>>
  /\ task' = [task EXCEPT ![a] = "none"]
  /\ handles' = HandlesAfterExit(a)
  /\ laneRunning' = [laneRunning EXCEPT ![a] = 0]
  /\ aborted' = aborted \ {a}
  /\ UNCHANGED <<callVars, queue, queued, running, bytes, gateVars, current, outcome, answer,
                 storeVars, leaseLost, closeVars>>

\* The commit: the write and the consumption of its intent enter the log in
\* one hold of the graph lock.
WorkerCommit(a) ==
  /\ task[a] = "running"
  /\ task' = [task EXCEPT ![a] = "retiring"]
  /\ outcome' = [outcome EXCEPT ![current[a]] = "applied"]
  /\ effect' = [effect EXCEPT ![current[a]] = "logged"]
  /\ UNCHANGED <<callVars, laneVars, gateVars, current, aborted, answer, putLog, intent,
                 loop, leaseLost, closeVars>>

\* A refusal of the content consumes the intent as `failed`; an embedder
\* outage (EmbedUnavailable) leaves it for the next serve.
WorkerFail(a) ==
  /\ task[a] = "running"
  /\ task' = [task EXCEPT ![a] = "retiring"]
  /\ outcome' = [outcome EXCEPT ![current[a]] = "failed"]
  /\ \/ effect' = [effect EXCEPT ![current[a]] = "logged"]
     \/ UNCHANGED effect
  /\ UNCHANGED <<callVars, laneVars, gateVars, current, aborted, answer, putLog, intent,
                 loop, leaseLost, closeVars>>

\* The lanes lock again: the job is no longer running.
WorkerRetire(a) ==
  /\ task[a] = "retiring"
  /\ task' = [task EXCEPT ![a] = "settling"]
  /\ running' = running - 1
  /\ laneRunning' = [laneRunning EXCEPT ![a] = Minus(@, 1)]
  /\ UNCHANGED <<callVars, queue, handles, queued, bytes, gateVars, current, aborted, outcome,
                 answer, storeVars, leaseLost, closeVars>>

\* settle_one: the outcome reaches the receipt only if its entry exists and is
\* still unsettled; otherwise it is dropped.
WorkerSettle(a) ==
  LET id == current[a] IN
  /\ task[a] = "settling"
  /\ task' = [task EXCEPT ![a] = "top"]
  /\ current' = [current EXCEPT ![a] = 0]
  /\ answer' = [answer EXCEPT ![id] = IF @ = "pending" THEN outcome[id] ELSE @]
  /\ UNCHANGED <<callVars, laneVars, gateVars, aborted, outcome, storeVars, leaseLost, closeVars>>

\* abort() takes effect at an await: before the first poll, or inside run.
WorkerCancelled(a) ==
  /\ a \in aborted /\ task[a] \in {"spawned", "running"}
  /\ task' = [task EXCEPT ![a] = "none"]
  /\ current' = [current EXCEPT ![a] = 0]
  /\ aborted' = aborted \ {a}
  /\ UNCHANGED <<callVars, laneVars, gateVars, outcome, answer, storeVars, leaseLost, closeVars>>

-----------------------------------------------------------------------------
(* The lease, the flush loop and the store, as the queue meets them         *)

\* The heartbeat finds the lease held by another writer, or the session
\* erased, and latches the fence. A close aborts the heartbeat behind the
\* writers gate but does not join it, and an erase latches too, so the latch
\* can come at any time, after the close's one look at it as well.
LoseLease ==
  /\ ~leaseLost /\ closing # "closed"
  /\ leaseLost' = TRUE
  /\ UNCHANGED <<callVars, laneVars, gateVars, taskVars, answer, storeVars, closeVars>>

Ends(f, end) == [id \in Ids |-> IF f[id] = "logged" THEN end ELSE f[id]]

\* A batch is everything in the log when the loop last drained it, and it
\* ends whole: what happens to it afterwards is placed at that drain, which
\* nothing else here can tell.
BatchEnds(end) ==
  /\ intent' = Ends(intent, end)
  /\ effect' = Ends(effect, end)
  /\ UNCHANGED putLog

LoopFlushes ==
  /\ loop # "down"
  /\ BatchEnds("durable")
  /\ UNCHANGED <<loop, callVars, laneVars, gateVars, taskVars, answer, leaseLost, closeVars>>

\* A constraint dead-letters the batch, and a fenced, erased or degraded loop
\* drops what it drained: no caller is told.
LoopDrops ==
  /\ loop # "down"
  /\ BatchEnds("dropped")
  /\ UNCHANGED <<loop, callVars, laneVars, gateVars, taskVars, answer, leaseLost, closeVars>>

\* Told to stop, the loop puts what it still holds back into the log; fenced,
\* it ends by itself.
LoopExits ==
  /\ \/ loop = "stopping"
     \/ loop = "up" /\ leaseLost
  /\ loop' = "down"
  /\ UNCHANGED <<putLog, intent, effect, callVars, laneVars, gateVars, taskVars, answer,
                 leaseLost, closeVars>>

\* One batch is one store transaction: everything logged so far, or nothing.
StoreTakesLog == BatchEnds("durable") /\ UNCHANGED loop

-----------------------------------------------------------------------------
(* Memory::close around the queue                                           *)

\* quiesce seals the lanes; a failed or cancelled close starts here again.
CloseBegin ==
  /\ closing \in {"open", "failed"}
  /\ closing' = "draining"
  /\ sealed' = TRUE
  /\ UNCHANGED <<callVars, laneVars, workersAborted, settledAtClose, closeDeferred, taskVars,
                 answer, storeVars, leaseLost, joining>>

QueuedIds == UNION {ToSet(queue[a]) : a \in Agents}

\* The quiesce wait ended, drained or out of budget: the queues are emptied,
\* the handles taken, and every worker aborted before any is joined.
CloseAbort ==
  /\ closing = "draining"
  /\ closing' = "joining"
  /\ workersAborted' = TRUE
  /\ joining' = handles
  /\ aborted' = aborted \cup {a \in handles : task[a] # "none"}
  /\ handles' = {}
  /\ queue' = [a \in Agents |-> <<>>]
  /\ queued' = Minus(queued, Cardinality(QueuedIds))
  /\ bytes' = Minus(bytes, SizeOfAll(QueuedIds))
  /\ UNCHANGED <<callVars, running, laneRunning, sealed, settledAtClose, closeDeferred, task,
                 current, outcome, answer, storeVars, leaseLost>>

\* Only a task that has ended answers its join; an aborted one never runs its
\* `running -= 1`.
AllJoined_ByCount == running = 0
AllJoined == \A a \in joining : task[a] = "none"

\* Every handle joined: the receipts still unsettled are set aside.
CloseJoined ==
  /\ closing = "joining" /\ AllJoined
  /\ closing' = "gate"
  /\ joining' = {}
  /\ running' = 0 /\ queued' = 0 /\ bytes' = 0
  /\ laneRunning' = [a \in Agents |-> 0]
  /\ closeDeferred' = closeDeferred \cup {id \in Ids : answer[id] = "pending"}
  /\ UNCHANGED <<callVars, queue, handles, sealed, workersAborted, settledAtClose, taskVars,
                 answer, storeVars, leaseLost>>

\* A close dropped inside the join hands the unjoined handles back
\* (WorkerCustody); the next close joins them.
HandedBack_Detached(S) == handles
HandedBack(S) == handles \cup S

CloseCancelled ==
  /\ closing = "joining"
  /\ closing' = "failed"
  /\ \E S \in SUBSET joining :
       /\ \A a \in joining \ S : task[a] = "none"
       /\ handles' = HandedBack(S)
  /\ joining' = {}
  /\ UNCHANGED <<callVars, queue, queued, running, bytes, laneRunning, gateVars, taskVars,
                 answer, storeVars, leaseLost>>

NoCallInFlight == \A id \in Ids : call[id] \in {"none", "answered"}

\* The writers gate: its write side is granted once no call holds a permit.
\* Past its look at the fence, the close tells the flush loop to stop.
CloseGate ==
  /\ closing = "gate" /\ NoCallInFlight /\ ~leaseLost
  /\ closing' = "flushing"
  /\ loop' = IF loop = "up" THEN "stopping" ELSE loop
  /\ UNCHANGED <<callVars, laneVars, gateVars, taskVars, answer, putLog, intent, effect,
                 leaseLost, joining>>

\* settle_deferred: a receipt set aside and still unsettled takes the close's
\* answer, and a durable retry upgrades what a failed one answered. (The
\* mutated form sweeps without looking at what is already settled.)
SettleDeferred_Sweep(durable) ==
  /\ answer' = [id \in Ids |->
       IF answer[id] = "absent" THEN "absent"
       ELSE IF durable THEN "intent_durable" ELSE "close_unflushed"]
  /\ closeDeferred' = IF durable THEN {} ELSE closeDeferred
  /\ settledAtClose' = TRUE
SettleDeferred(durable) ==
  /\ answer' = [id \in Ids |->
       IF id \notin closeDeferred THEN answer[id]
       ELSE IF durable /\ answer[id] \in {"pending", "close_unflushed"} THEN "intent_durable"
       ELSE IF answer[id] = "pending" THEN "close_unflushed"
       ELSE answer[id]]
  /\ closeDeferred' = IF durable THEN {} ELSE closeDeferred
  /\ settledAtClose' = TRUE

\* A fenced handle aborts and joins the flush loop, refuses the final flush
\* and drops its tail.
CloseFenced ==
  /\ closing = "gate" /\ NoCallInFlight /\ leaseLost
  /\ closing' = "failed"
  /\ loop' = "down"
  /\ SettleDeferred(FALSE)
  /\ UNCHANGED <<callVars, laneVars, sealed, workersAborted, taskVars, putLog, intent, effect,
                 leaseLost, joining>>

\* The loop is joined and the final flush took the tail, in one store call; or
\* the tail was empty, and the close answers without a write whatever became
\* of the batches before it. Whether the store still takes a tail of a handle
\* that is fenced by now is the store's to say.
CloseDurable ==
  /\ closing = "flushing" /\ loop = "down"
  /\ closing' = "closed"
  /\ StoreTakesLog
  /\ SettleDeferred(TRUE)
  /\ UNCHANGED <<callVars, laneVars, sealed, workersAborted, taskVars, leaseLost, joining>>

\* It failed, or the session had degraded: the tail is back in the log. An
\* attempt that timed out may have reached the store all the same.
CloseIncomplete ==
  /\ closing = "flushing" /\ loop = "down"
  /\ closing' = "failed"
  /\ StoreTakesLog \/ UNCHANGED storeVars
  /\ SettleDeferred(FALSE)
  /\ UNCHANGED <<callVars, laneVars, sealed, workersAborted, taskVars, leaseLost, joining>>

\* The close's future is dropped behind the join, at the gate or inside the
\* final flush: nothing is settled, and the next close starts over.
CloseDropped ==
  /\ closing \in {"draining", "gate", "flushing"}
  /\ closing' = "failed"
  /\ (closing = "flushing" /\ loop = "down" /\ StoreTakesLog) \/ UNCHANGED storeVars
  /\ UNCHANGED <<callVars, laneVars, gateVars, taskVars, answer, leaseLost, joining>>

-----------------------------------------------------------------------------
Submission == Issue \/ \E id \in Ids : Admit(id) \/ Refuse(id) \/ Acknowledge(id)

WorkerStep(a) ==
  \/ WorkerPop(a) \/ WorkerExit(a) \/ WorkerCommit(a) \/ WorkerFail(a)
  \/ WorkerRetire(a) \/ WorkerSettle(a) \/ WorkerCancelled(a)

Closing ==
  \/ CloseBegin \/ CloseAbort \/ CloseJoined \/ CloseCancelled \/ CloseGate \/ CloseFenced
  \/ CloseDurable \/ CloseIncomplete \/ CloseDropped

Next ==
  \/ Submission
  \/ \E a \in Agents : WorkerStep(a)
  \/ LoseLease \/ LoopFlushes \/ LoopDrops \/ LoopExits
  \/ Closing

Spec == Init /\ [][Next]_vars

\* A spawned task is polled, a job's embeds and store calls are bounded by
\* HYBRID_IO_TIMEOUT, an admitted call runs to its acknowledgement without an
\* await, the flush loop takes its stop and its fence before any tick, and a
\* close that was started is awaited by its caller.
Fairness ==
  /\ \A a \in Agents :
       /\ WF_vars(WorkerPop(a)) /\ WF_vars(WorkerExit(a))
       /\ WF_vars(WorkerCommit(a) \/ WorkerFail(a) \/ WorkerCancelled(a))
       /\ WF_vars(WorkerRetire(a)) /\ WF_vars(WorkerSettle(a))
  /\ \A id \in Ids : WF_vars(Admit(id) \/ Refuse(id)) /\ WF_vars(Acknowledge(id))
  /\ WF_vars(CloseAbort) /\ WF_vars(CloseJoined) /\ WF_vars(CloseGate \/ CloseFenced)
  /\ WF_vars(LoopExits) /\ WF_vars(CloseDurable \/ CloseIncomplete)

FairSpec == Spec /\ Fairness

-----------------------------------------------------------------------------
(* Correctness                                                              *)

TypeOK ==
  /\ nextSeq \in 0..MaxReceipt
  /\ call \in [Ids -> CallPc]
  /\ owner \in [Ids -> Agents]
  /\ queue \in [Agents -> Seq(Ids)]
  /\ handles \subseteq Agents
  /\ queued \in Int /\ running \in Int /\ bytes \in Nat
  /\ laneRunning \in [Agents -> 0..1]
  /\ sealed \in BOOLEAN /\ workersAborted \in BOOLEAN /\ settledAtClose \in BOOLEAN
  /\ closeDeferred \subseteq Ids
  /\ task \in [Agents -> TaskPc]
  /\ current \in [Agents -> Ids \cup {0}]
  /\ aborted \subseteq Agents
  /\ outcome \in [Ids -> Outcomes]
  /\ answer \in [Ids -> Settled \cup {"absent", "pending"}]
  /\ putLog \in Seq(Ids)
  /\ intent \in [Ids -> Durability] /\ effect \in [Ids -> Durability]
  /\ loop \in LoopPc
  /\ leaseLost \in BOOLEAN
  /\ closing \in ClosePc
  /\ joining \subseteq Agents

Busy(a) == task[a] \in {"running", "retiring"}
Held(a) == IF Busy(a) THEN 1 ELSE 0

\* The bounds hold of the jobs that really are in custody, not only of the
\* counters the admission reads: a lane's waiting jobs and the one its worker
\* holds, all lanes together, and the bytes waiting.
WithinBounds ==
  /\ \A a \in Agents : Len(queue[a]) + Held(a) <= LaneMax
  /\ Cardinality(QueuedIds) + Cardinality({a \in Agents : Busy(a)}) <= QueueMax
  /\ SizeOfAll(QueuedIds) <= BytesMax

\* A lane with work has a live worker to do it until the close takes over: the
\* "lane emptied, worker exited, new job arrived" race cannot strand a job.
LaneHasWorker ==
  \A a \in Agents :
    queue[a] # <<>> /\ ~workersAborted => a \in handles /\ task[a] # "none"

\* A lane drains in the order its intents entered the log, one job at a time,
\* and never skips, loses or repeats a job.
LaneFifo ==
  ~workersAborted =>
    \A a \in Agents :
      LET lane == Kept(putLog, {id \in Ids : owner[id] = a})
      IN  \E k \in 0..Len(lane) :
            /\ queue[a] = SubSeq(lane, k + 1, Len(lane))
            /\ \A i \in 1..k : \/ outcome[lane[i]] # "none"
                               \/ i = k /\ current[a] = lane[k]

\* close() answering Ok leaves nothing behind: no worker and no flush loop is
\* left that could add to the log or hold a part of it, and every entry ever
\* logged has met its end, in the store or in a batch the loop gave up. (It
\* does not say that everything is stored: the close that finds its tail empty
\* answers Ok over dropped batches.)
ClosedLeavesNothing ==
  closing = "closed" =>
    /\ loop = "down" /\ \A a \in Agents : task[a] = "none"
    /\ \A id \in Ids : intent[id] # "logged" /\ effect[id] # "logged"

\* Acked => applied, or reported failed, or a durable intent the next serve
\* replays (its effect not in the store), whenever a close succeeded, or else
\* its intent was in a batch the flush loop gave up: the one way an
\* acknowledged write is lost to a close that answers Ok. The log never
\* carries an intent's consumption without the intent.
AckedIsKept ==
  /\ \A id \in Ids : effect[id] # "none" => intent[id] # "none"
  /\ closing = "closed" =>
       \A id \in Ids : call[id] = "answered" /\ answer[id] # "dropped" =>
         \/ outcome[id] = "applied" /\ effect[id] = "durable"
         \/ outcome[id] = "failed"
         \/ intent[id] = "durable" /\ effect[id] # "durable"
         \/ intent[id] = "dropped"

\* No settled answer is ever replaced, but for the one upgrade a retried close
\* makes: close_unflushed becomes intent_durable once its flush lands.
SettledAnswerIsFinal ==
  [][\A id \in Ids :
       answer[id] \in Settled /\ answer'[id] # answer[id] =>
         answer[id] = "close_unflushed" /\ answer'[id] = "intent_durable"]_vars

\* "a job that reached this line always settles" (writeq/execution.rs, run):
\* once its worker has moved on, an applied write's receipt says applied.
OutcomeReported ==
  \A id \in Ids :
    outcome[id] = "applied" /\ call[id] = "answered" /\ (\A a \in Agents : current[a] # id)
      => answer[id] = "applied"

\* Every accepted job is run to an outcome unless a close stops the workers.
JobRuns ==
  \A id \in Ids : (call[id] = "admitted") ~> (outcome[id] # "none" \/ workersAborted)

\* A close that began ends, well or badly: it waits for no worker that waits
\* for it.
CloseEnds == (closing = "draining") ~> (closing \in {"closed", "failed"})

=============================================================================
