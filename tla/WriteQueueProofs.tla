-------------------------- MODULE WriteQueueProofs --------------------------
(***************************************************************************)
(* Proofs about WriteQueue for every set of agents, every number of        *)
(* receipts and every bound.                                               *)
(***************************************************************************)
EXTENDS WriteQueue, DataInduction, TLAPS

(***************************************************************************)
(* The inductive invariant. Before the close aborts the workers, the lanes *)
(* with a handle are exactly the lanes with a live task, and laneRunning   *)
(* counts the job a worker holds. From then on the lanes are sealed and    *)
(* empty, and every task still alive is owed a join by the close that      *)
(* holds it or by the next one.                                            *)
(***************************************************************************)
LanesInv ==
  /\ workersAborted => sealed
  /\ aborted # {} => workersAborted
  /\ ~workersAborted =>
       \A a \in Agents : /\ a \in handles <=> task[a] # "none"
                         /\ queue[a] # <<>> => a \in handles
                         /\ laneRunning[a] = IF Busy(a) THEN 1 ELSE 0
  /\ workersAborted => \A a \in Agents : queue[a] = <<>>

CloseInv ==
  /\ closing # "open" => sealed
  /\ closing \in {"joining", "gate", "flushing", "closed"} => workersAborted /\ handles = {}
  /\ closing # "joining" => joining = {}
  /\ workersAborted => \A a \in Agents : task[a] # "none" => a \in handles \cup joining
  /\ closing \in {"flushing", "closed"} => \A id \in Ids : call[id] \in {"none", "answered"}
  /\ closing = "closed" =>
       /\ loop = "down"
       /\ \A id \in Ids : intent[id] # "logged" /\ effect[id] # "logged"

\* What each job's records say about one another.
JobInv ==
  /\ \A a \in Agents :
       /\ \A i \in 1..Len(queue[a]) : intent[queue[a][i]] # "none"
       /\ task[a] \in {"running", "retiring", "settling"} =>
            current[a] \in Ids /\ intent[current[a]] # "none"
       /\ task[a] \in {"retiring", "settling"} =>
            /\ outcome[current[a]] # "none"
            /\ outcome[current[a]] = "applied" => effect[current[a]] # "none"
  /\ \A id \in Ids :
       /\ id > nextSeq => call[id] = "none"
       /\ outcome[id] = "applied" => effect[id] # "none"
       /\ effect[id] # "none" => intent[id] # "none"
       /\ outcome[id] = "none" => effect[id] = "none"
       /\ call[id] \in {"none", "issued"} => answer[id] = "absent"
       /\ call[id] = "admitted" => answer[id] = "absent" /\ intent[id] # "none"
       /\ call[id] = "answered" /\ answer[id] # "dropped" => intent[id] # "none"

IInv == TypeOK /\ LanesInv /\ CloseInv /\ JobInv

(***************************************************************************)
(* What the bounds and the order of a lane rest on: the waiting jobs are   *)
(* distinct and in their owners' lanes, the counters the admission reads   *)
(* are the sizes of what is in custody, and a worker at the top of its     *)
(* loop holds no job.                                                      *)
(***************************************************************************)
BusyLanes == {a \in Agents : Busy(a)}

CustodyInv ==
  /\ \A a \in Agents :
       /\ \A i \in 1..Len(queue[a]) :
            /\ owner[queue[a][i]] = a /\ call[queue[a][i]] \in {"admitted", "answered"}
            /\ \A j \in 1..Len(queue[a]) : queue[a][i] = queue[a][j] => i = j
       /\ ~workersAborted /\ task[a] \in {"none", "spawned", "top"} => current[a] = 0
  /\ IsFiniteSet(BusyLanes)
  /\ ~workersAborted =>
       /\ queued = Cardinality(QueuedIds)
       /\ running = Cardinality(BusyLanes)
       /\ bytes = SizeOfAll(QueuedIds)

-----------------------------------------------------------------------------
LEMMA InitInv == Init => IInv
<1> SUFFICES ASSUME Init PROVE IInv
  OBVIOUS
<1>1. TypeOK
  <2>1. /\ nextSeq \in 0..MaxReceipt
        /\ call \in [Ids -> CallPc]
        /\ owner \in [Ids -> Agents]
        /\ queued \in Int /\ running \in Int /\ bytes \in Nat
    BY QueueAssumption DEF Init, CallPc
  <2>2. queue \in [Agents -> Seq(Ids)] /\ putLog \in Seq(Ids)
    BY DEF Init
  <2>3. handles \subseteq Agents /\ closeDeferred \subseteq Ids /\ aborted \subseteq Agents /\ joining \subseteq Agents
    BY DEF Init
  <2>4. laneRunning \in [Agents -> 0..1] /\ task \in [Agents -> TaskPc] /\ current \in [Agents -> Ids \cup {0}]
    BY DEF Init, TaskPc
  <2>5. outcome \in [Ids -> Outcomes] /\ answer \in [Ids -> Settled \cup {"absent", "pending"}]
        /\ intent \in [Ids -> Durability] /\ effect \in [Ids -> Durability]
    BY DEF Init, Outcomes, Durability
  <2>6. QED
    BY <2>1, <2>2, <2>3, <2>4, <2>5 DEF Init, TypeOK, ClosePc, LoopPc
<1>2. LanesInv
  BY DEF Init, LanesInv, Busy
<1>3. CloseInv
  BY DEF Init, CloseInv
<1>4. JobInv
  BY DEF Init, JobInv, Ids
<1>5. QED
  BY <1>1, <1>2, <1>3, <1>4 DEF IInv

-----------------------------------------------------------------------------
(***************************************************************************)
(* One lemma per action, one step per part of the invariant.               *)
(***************************************************************************)
USE DEF callVars, laneVars, gateVars, taskVars, storeVars, closeVars
USE DEF CallPc, TaskPc, Outcomes, Durability, Settled, ClosePc, LoopPc

LEMMA IssueInv == ASSUME IInv, Issue PROVE IInv'
<1>1. TypeOK'
  <2>1. nextSeq \in 0..MaxReceipt /\ MaxReceipt \in Nat /\ nextSeq < MaxReceipt
    BY QueueAssumption DEF IInv, TypeOK, Issue
  <2>2. nextSeq' \in 0..MaxReceipt
    BY <2>1 DEF Issue
  <2>3. call' \in [Ids -> CallPc]
    BY DEF IInv, TypeOK, Issue
  <2>4. QED
    BY <2>2, <2>3 DEF IInv, TypeOK, Issue
<1>2. LanesInv'
  BY DEF IInv, TypeOK, LanesInv, CloseInv, Busy, Issue
<1>3. CloseInv'
  BY DEF IInv, TypeOK, LanesInv, CloseInv, Issue
<1>4. JobInv'
  BY DEF IInv, TypeOK, JobInv, Issue, Ids
<1>5. QED
  BY <1>1, <1>2, <1>3, <1>4 DEF IInv

LEMMA AdmitInv == ASSUME IInv, NEW id \in Ids, Admit(id) PROVE IInv'
<1>1. TypeOK'
  <2>1. call' \in [Ids -> CallPc] /\ intent' \in [Ids -> Durability]
    BY DEF IInv, TypeOK, Admit, RecordIntent
  <2>2. queue' \in [Agents -> Seq(Ids)] /\ putLog' \in Seq(Ids)
    BY DEF IInv, TypeOK, Admit, RecordIntent, Enqueued
  <2>3. queued' \in Int /\ bytes' \in Nat
    <3>1. queued \in Int /\ bytes \in Nat /\ SizeOf[id] \in Nat
      BY QueueAssumption DEF IInv, TypeOK
    <3>2. QED
      BY <3>1 DEF Admit
  <2>4. handles' \subseteq Agents /\ task' \in [Agents -> TaskPc]
    BY DEF IInv, TypeOK, Admit
  <2>5. QED
    BY <2>1, <2>2, <2>3, <2>4 DEF IInv, TypeOK, Admit
<1>2. LanesInv'
  BY DEF IInv, TypeOK, LanesInv, CloseInv, Busy, Admit, RecordIntent, Enqueued, Spawns, Full
<1>3. CloseInv'
  BY DEF IInv, TypeOK, LanesInv, CloseInv, Admit, RecordIntent, Enqueued, Spawns, Full
<1>4. JobInv'
  BY DEF IInv, TypeOK, LanesInv, CloseInv, JobInv, Admit, RecordIntent, Enqueued, Spawns,
     Full
<1>5. QED
  BY <1>1, <1>2, <1>3, <1>4 DEF IInv

LEMMA RefuseInv == ASSUME IInv, NEW id \in Ids, Refuse(id) PROVE IInv'
<1>1. TypeOK'
  BY QueueAssumption DEF IInv, TypeOK, LanesInv, Busy, Refuse
<1>2. LanesInv'
  BY DEF IInv, TypeOK, LanesInv, CloseInv, Busy, Refuse
<1>3. CloseInv'
  BY DEF IInv, TypeOK, LanesInv, CloseInv, Refuse
<1>4. JobInv'
  BY DEF IInv, TypeOK, LanesInv, CloseInv, JobInv, Refuse
<1>5. QED
  BY <1>1, <1>2, <1>3, <1>4 DEF IInv

LEMMA AcknowledgeInv == ASSUME IInv, NEW id \in Ids, Acknowledge(id) PROVE IInv'
<1>1. TypeOK'
  BY QueueAssumption DEF IInv, TypeOK, LanesInv, Busy, Acknowledge
<1>2. LanesInv'
  BY DEF IInv, TypeOK, LanesInv, CloseInv, Busy, Acknowledge
<1>3. CloseInv'
  BY DEF IInv, TypeOK, LanesInv, CloseInv, Acknowledge
<1>4. JobInv'
  BY DEF IInv, TypeOK, LanesInv, CloseInv, JobInv, Acknowledge
<1>5. QED
  BY <1>1, <1>2, <1>3, <1>4 DEF IInv

LEMMA WorkerPopInv == ASSUME IInv, NEW a \in Agents, WorkerPop(a) PROVE IInv'
<1>1. TypeOK'
  <2>1. Head(queue[a]) \in Ids /\ queue' \in [Agents -> Seq(Ids)]
    BY DEF IInv, TypeOK, WorkerPop
  <2>2. laneRunning[a] = 0
    BY DEF IInv, TypeOK, LanesInv, Busy, WorkerPop
  <2>3. laneRunning' \in [Agents -> 0..1]
    BY <2>2 DEF IInv, TypeOK, WorkerPop
  <2>4. queued' \in Int /\ running' \in Int /\ bytes' \in Nat
    BY DEF IInv, TypeOK, WorkerPop, Minus
  <2>5. current' \in [Agents -> Ids \cup {0}] /\ task' \in [Agents -> TaskPc]
    BY <2>1 DEF IInv, TypeOK, WorkerPop
  <2>6. outcome' \in [Ids -> Outcomes]
    BY <2>1 DEF IInv, TypeOK, WorkerPop
  <2>7. QED
    BY <2>1, <2>3, <2>4, <2>5, <2>6 DEF IInv, TypeOK, WorkerPop
<1>2. LanesInv'
  <2>1. ~workersAborted /\ laneRunning[a] = 0
    BY DEF IInv, LanesInv, Busy, WorkerPop
  <2>2. \A b \in Agents : /\ b \in handles' <=> task'[b] # "none"
                          /\ queue'[b] # <<>> => b \in handles'
                          /\ laneRunning'[b] = IF Busy(b)' THEN 1 ELSE 0
    BY <2>1 DEF IInv, TypeOK, LanesInv, Busy, WorkerPop
  <2>3. QED
    BY <2>1, <2>2 DEF IInv, LanesInv, WorkerPop
<1>3. CloseInv'
  BY DEF IInv, TypeOK, LanesInv, CloseInv, WorkerPop, Minus
<1>4. JobInv'
  BY SMTT(30) DEF IInv, TypeOK, LanesInv, CloseInv, JobInv, WorkerPop, Minus
<1>5. QED
  BY <1>1, <1>2, <1>3, <1>4 DEF IInv

LEMMA WorkerExitInv == ASSUME IInv, NEW a \in Agents, WorkerExit(a) PROVE IInv'
<1>1. TypeOK'
  BY QueueAssumption DEF IInv, TypeOK, LanesInv, Busy, WorkerExit, HandlesAfterExit
<1>2. LanesInv'
  BY DEF IInv, TypeOK, LanesInv, CloseInv, Busy, WorkerExit, HandlesAfterExit
<1>3. CloseInv'
  BY DEF IInv, TypeOK, LanesInv, CloseInv, WorkerExit, HandlesAfterExit
<1>4. JobInv'
  BY DEF IInv, TypeOK, LanesInv, CloseInv, JobInv, WorkerExit, HandlesAfterExit
<1>5. QED
  BY <1>1, <1>2, <1>3, <1>4 DEF IInv

LEMMA WorkerCommitInv == ASSUME IInv, NEW a \in Agents, WorkerCommit(a) PROVE IInv'
<1>1. TypeOK'
  BY QueueAssumption DEF IInv, TypeOK, LanesInv, Busy, WorkerCommit
<1>2. LanesInv'
  BY DEF IInv, TypeOK, LanesInv, CloseInv, Busy, WorkerCommit
<1>3. CloseInv'
  BY DEF IInv, TypeOK, LanesInv, CloseInv, WorkerCommit
<1>4. JobInv'
  BY DEF IInv, TypeOK, LanesInv, CloseInv, JobInv, WorkerCommit
<1>5. QED
  BY <1>1, <1>2, <1>3, <1>4 DEF IInv

LEMMA WorkerFailInv == ASSUME IInv, NEW a \in Agents, WorkerFail(a) PROVE IInv'
<1>1. TypeOK'
  BY QueueAssumption DEF IInv, TypeOK, LanesInv, Busy, WorkerFail
<1>2. LanesInv'
  BY DEF IInv, TypeOK, LanesInv, CloseInv, Busy, WorkerFail
<1>3. CloseInv'
  BY DEF IInv, TypeOK, LanesInv, CloseInv, WorkerFail
<1>4. JobInv'
  BY DEF IInv, TypeOK, LanesInv, CloseInv, JobInv, WorkerFail
<1>5. QED
  BY <1>1, <1>2, <1>3, <1>4 DEF IInv

LEMMA WorkerRetireInv == ASSUME IInv, NEW a \in Agents, WorkerRetire(a) PROVE IInv'
<1>1. TypeOK'
  BY QueueAssumption DEF IInv, TypeOK, LanesInv, Busy, WorkerRetire, Minus
<1>2. LanesInv'
  BY DEF IInv, TypeOK, LanesInv, CloseInv, Busy, WorkerRetire, Minus
<1>3. CloseInv'
  BY DEF IInv, TypeOK, LanesInv, CloseInv, WorkerRetire, Minus
<1>4. JobInv'
  BY DEF IInv, TypeOK, LanesInv, CloseInv, JobInv, WorkerRetire, Minus
<1>5. QED
  BY <1>1, <1>2, <1>3, <1>4 DEF IInv

LEMMA WorkerSettleInv == ASSUME IInv, NEW a \in Agents, WorkerSettle(a) PROVE IInv'
<1>1. TypeOK'
  <2>1. answer' \in [Ids -> Settled \cup {"absent", "pending"}]
    <3>1. current[a] \in Ids /\ outcome[current[a]] \in {"applied", "failed"}
      BY DEF IInv, TypeOK, JobInv, WorkerSettle
    <3>2. QED
      BY <3>1 DEF IInv, TypeOK, WorkerSettle
  <2>2. task' \in [Agents -> TaskPc] /\ current' \in [Agents -> Ids \cup {0}]
    BY DEF IInv, TypeOK, WorkerSettle
  <2>3. QED
    BY <2>1, <2>2 DEF IInv, TypeOK, WorkerSettle
<1>2. LanesInv'
  BY DEF IInv, TypeOK, LanesInv, CloseInv, Busy, WorkerSettle
<1>3. CloseInv'
  BY DEF IInv, TypeOK, LanesInv, CloseInv, WorkerSettle
<1>4. JobInv'
  BY DEF IInv, TypeOK, LanesInv, CloseInv, JobInv, WorkerSettle
<1>5. QED
  BY <1>1, <1>2, <1>3, <1>4 DEF IInv

LEMMA WorkerCancelledInv == ASSUME IInv, NEW a \in Agents, WorkerCancelled(a) PROVE IInv'
<1>1. TypeOK'
  BY QueueAssumption DEF IInv, TypeOK, LanesInv, Busy, WorkerCancelled
<1>2. LanesInv'
  BY DEF IInv, TypeOK, LanesInv, CloseInv, Busy, WorkerCancelled
<1>3. CloseInv'
  BY DEF IInv, TypeOK, LanesInv, CloseInv, WorkerCancelled
<1>4. JobInv'
  BY DEF IInv, TypeOK, LanesInv, CloseInv, JobInv, WorkerCancelled
<1>5. QED
  BY <1>1, <1>2, <1>3, <1>4 DEF IInv

LEMMA CloseBeginInv == ASSUME IInv, CloseBegin PROVE IInv'
<1>1. TypeOK'
  BY QueueAssumption DEF IInv, TypeOK, LanesInv, Busy, CloseBegin
<1>2. LanesInv'
  BY DEF IInv, TypeOK, LanesInv, CloseInv, Busy, CloseBegin
<1>3. CloseInv'
  BY DEF IInv, TypeOK, LanesInv, CloseInv, CloseBegin
<1>4. JobInv'
  BY DEF IInv, TypeOK, LanesInv, CloseInv, JobInv, CloseBegin
<1>5. QED
  BY <1>1, <1>2, <1>3, <1>4 DEF IInv

LEMMA CloseAbortInv == ASSUME IInv, CloseAbort PROVE IInv'
<1>1. TypeOK'
  BY QueueAssumption DEF IInv, TypeOK, LanesInv, Busy, CloseAbort, Minus
<1>2. LanesInv'
  BY DEF IInv, TypeOK, LanesInv, CloseInv, Busy, CloseAbort, Minus
<1>3. CloseInv'
  BY DEF IInv, TypeOK, LanesInv, CloseInv, CloseAbort, Minus
<1>4. JobInv'
  BY DEF IInv, TypeOK, LanesInv, CloseInv, JobInv, CloseAbort, Minus
<1>5. QED
  BY <1>1, <1>2, <1>3, <1>4 DEF IInv

LEMMA CloseJoinedInv == ASSUME IInv, CloseJoined PROVE IInv'
<1>1. TypeOK'
  BY QueueAssumption DEF IInv, TypeOK, LanesInv, Busy, CloseJoined, AllJoined
<1>2. LanesInv'
  BY DEF IInv, TypeOK, LanesInv, CloseInv, Busy, CloseJoined, AllJoined
<1>3. CloseInv'
  BY DEF IInv, TypeOK, LanesInv, CloseInv, CloseJoined, AllJoined
<1>4. JobInv'
  BY DEF IInv, TypeOK, LanesInv, CloseInv, JobInv, CloseJoined, AllJoined
<1>5. QED
  BY <1>1, <1>2, <1>3, <1>4 DEF IInv

LEMMA CloseCancelledInv == ASSUME IInv, CloseCancelled PROVE IInv'
<1>1. TypeOK'
  BY QueueAssumption DEF IInv, TypeOK, LanesInv, Busy, CloseCancelled, HandedBack
<1>2. LanesInv'
  BY DEF IInv, TypeOK, LanesInv, CloseInv, Busy, CloseCancelled, HandedBack
<1>3. CloseInv'
  BY DEF IInv, TypeOK, LanesInv, CloseInv, CloseCancelled, HandedBack
<1>4. JobInv'
  BY DEF IInv, TypeOK, LanesInv, CloseInv, JobInv, CloseCancelled, HandedBack
<1>5. QED
  BY <1>1, <1>2, <1>3, <1>4 DEF IInv

LEMMA CloseGateInv == ASSUME IInv, CloseGate PROVE IInv'
<1>1. TypeOK'
  BY QueueAssumption DEF IInv, TypeOK, LanesInv, Busy, CloseGate, NoCallInFlight
<1>2. LanesInv'
  BY DEF IInv, TypeOK, LanesInv, CloseInv, Busy, CloseGate, NoCallInFlight
<1>3. CloseInv'
  BY DEF IInv, TypeOK, LanesInv, CloseInv, CloseGate, NoCallInFlight
<1>4. JobInv'
  BY DEF IInv, TypeOK, LanesInv, CloseInv, JobInv, CloseGate, NoCallInFlight
<1>5. QED
  BY <1>1, <1>2, <1>3, <1>4 DEF IInv

LEMMA CloseFencedInv == ASSUME IInv, CloseFenced PROVE IInv'
<1>1. TypeOK'
  BY QueueAssumption DEF IInv, TypeOK, LanesInv, Busy, CloseFenced, NoCallInFlight,
     SettleDeferred
<1>2. LanesInv'
  BY DEF IInv, TypeOK, LanesInv, CloseInv, Busy, CloseFenced, NoCallInFlight, SettleDeferred
<1>3. CloseInv'
  BY DEF IInv, TypeOK, LanesInv, CloseInv, CloseFenced, NoCallInFlight, SettleDeferred
<1>4. JobInv'
  BY DEF IInv, TypeOK, LanesInv, CloseInv, JobInv, CloseFenced, NoCallInFlight,
     SettleDeferred
<1>5. QED
  BY <1>1, <1>2, <1>3, <1>4 DEF IInv

LEMMA CloseDurableInv == ASSUME IInv, CloseDurable PROVE IInv'
<1>1. TypeOK'
  BY QueueAssumption DEF IInv, TypeOK, LanesInv, Busy, CloseDurable, SettleDeferred,
     StoreTakesLog, BatchEnds, Ends
<1>2. LanesInv'
  BY DEF IInv, TypeOK, LanesInv, CloseInv, Busy, CloseDurable, SettleDeferred,
     StoreTakesLog, BatchEnds, Ends
<1>3. CloseInv'
  BY DEF IInv, TypeOK, LanesInv, CloseInv, CloseDurable, SettleDeferred, StoreTakesLog,
     BatchEnds, Ends
<1>4. JobInv'
  BY DEF IInv, TypeOK, LanesInv, CloseInv, JobInv, CloseDurable, SettleDeferred,
     StoreTakesLog, BatchEnds, Ends
<1>5. QED
  BY <1>1, <1>2, <1>3, <1>4 DEF IInv

LEMMA CloseIncompleteInv == ASSUME IInv, CloseIncomplete PROVE IInv'
<1>1. TypeOK'
  BY QueueAssumption DEF IInv, TypeOK, LanesInv, Busy, CloseIncomplete, SettleDeferred,
     StoreTakesLog, BatchEnds, Ends
<1>2. LanesInv'
  BY DEF IInv, TypeOK, LanesInv, CloseInv, Busy, CloseIncomplete, SettleDeferred,
     StoreTakesLog, BatchEnds, Ends
<1>3. CloseInv'
  BY DEF IInv, TypeOK, LanesInv, CloseInv, CloseIncomplete, SettleDeferred,
     StoreTakesLog, BatchEnds, Ends
<1>4. JobInv'
  BY DEF IInv, TypeOK, LanesInv, CloseInv, JobInv, CloseIncomplete, SettleDeferred,
     StoreTakesLog, BatchEnds, Ends
<1>5. QED
  BY <1>1, <1>2, <1>3, <1>4 DEF IInv

LEMMA CloseDroppedInv == ASSUME IInv, CloseDropped PROVE IInv'
<1>1. TypeOK'
  BY QueueAssumption DEF IInv, TypeOK, LanesInv, Busy, CloseDropped, StoreTakesLog, BatchEnds, Ends
<1>2. LanesInv'
  BY DEF IInv, TypeOK, LanesInv, CloseInv, Busy, CloseDropped, StoreTakesLog, BatchEnds, Ends
<1>3. CloseInv'
  BY DEF IInv, TypeOK, LanesInv, CloseInv, CloseDropped, StoreTakesLog, BatchEnds, Ends
<1>4. JobInv'
  BY DEF IInv, TypeOK, LanesInv, CloseInv, JobInv, CloseDropped, StoreTakesLog, BatchEnds, Ends
<1>5. QED
  BY <1>1, <1>2, <1>3, <1>4 DEF IInv

LEMMA LoseLeaseInv == ASSUME IInv, LoseLease PROVE IInv'
<1>1. TypeOK'
  BY QueueAssumption DEF IInv, TypeOK, LanesInv, Busy, LoseLease
<1>2. LanesInv'
  BY DEF IInv, TypeOK, LanesInv, CloseInv, Busy, LoseLease
<1>3. CloseInv'
  BY DEF IInv, TypeOK, LanesInv, CloseInv, LoseLease
<1>4. JobInv'
  BY DEF IInv, TypeOK, LanesInv, CloseInv, JobInv, LoseLease
<1>5. QED
  BY <1>1, <1>2, <1>3, <1>4 DEF IInv

LEMMA LoopFlushesInv == ASSUME IInv, LoopFlushes PROVE IInv'
<1>1. TypeOK'
  BY QueueAssumption DEF IInv, TypeOK, LanesInv, Busy, LoopFlushes, BatchEnds, Ends
<1>2. LanesInv'
  BY DEF IInv, TypeOK, LanesInv, CloseInv, Busy, LoopFlushes, BatchEnds, Ends
<1>3. CloseInv'
  BY DEF IInv, TypeOK, LanesInv, CloseInv, LoopFlushes, BatchEnds, Ends
<1>4. JobInv'
  BY DEF IInv, TypeOK, LanesInv, CloseInv, JobInv, LoopFlushes, BatchEnds, Ends
<1>5. QED
  BY <1>1, <1>2, <1>3, <1>4 DEF IInv

LEMMA LoopDropsInv == ASSUME IInv, LoopDrops PROVE IInv'
<1>1. TypeOK'
  BY QueueAssumption DEF IInv, TypeOK, LanesInv, Busy, LoopDrops, BatchEnds, Ends
<1>2. LanesInv'
  BY DEF IInv, TypeOK, LanesInv, CloseInv, Busy, LoopDrops, BatchEnds, Ends
<1>3. CloseInv'
  BY DEF IInv, TypeOK, LanesInv, CloseInv, LoopDrops, BatchEnds, Ends
<1>4. JobInv'
  BY DEF IInv, TypeOK, LanesInv, CloseInv, JobInv, LoopDrops, BatchEnds, Ends
<1>5. QED
  BY <1>1, <1>2, <1>3, <1>4 DEF IInv

LEMMA LoopExitsInv == ASSUME IInv, LoopExits PROVE IInv'
<1>1. TypeOK'
  BY QueueAssumption DEF IInv, TypeOK, LanesInv, Busy, LoopExits
<1>2. LanesInv'
  BY DEF IInv, TypeOK, LanesInv, CloseInv, Busy, LoopExits
<1>3. CloseInv'
  BY DEF IInv, TypeOK, LanesInv, CloseInv, LoopExits
<1>4. JobInv'
  BY DEF IInv, TypeOK, LanesInv, CloseInv, JobInv, LoopExits
<1>5. QED
  BY <1>1, <1>2, <1>3, <1>4 DEF IInv

-----------------------------------------------------------------------------
(* SizeOfAll is a sum, whatever the order in which its terms are taken.    *)

AnElement == [s \in SUBSET Ids |-> CHOOSE x \in s : TRUE]

SumUpTo(sum, S) ==
  /\ sum[{}] = 0
  /\ \A s \in SUBSET S : s # {} => sum[s] = SizeOf[AnElement[s]] + sum[s \ {AnElement[s]}]

LEMMA AnElementIn == \A s \in SUBSET Ids : s # {} => AnElement[s] \in s
  BY DEF AnElement

LEMMA IdsFinite == ASSUME NEW S \in SUBSET Ids PROVE IsFiniteSet(S)
<1>1. IsFiniteSet(Ids)
  BY QueueAssumption, FS_Interval DEF Ids
<1>2. QED
  BY <1>1, FS_Subset

LEMMA SizeOfAllDef ==
  ASSUME NEW S \in SUBSET Ids
  PROVE  \E sum : SumUpTo(sum, S) /\ SizeOfAll(S) = sum[S]
<1> DEFINE Value(h, s) == IF s = {} THEN 0
                          ELSE SizeOf[AnElement[s]] + h[s \ {AnElement[s]}]
           Given(h, s) == IF s = {} THEN 0
                          ELSE SizeOf[CHOOSE x \in s : TRUE] + h[s \ {CHOOSE x \in s : TRUE}]
           sum == CHOOSE h : h = [s \in SUBSET S |-> Given(h, s)]
           step == [xv \in S \X Nat |-> SizeOf[xv[1]] + xv[2]]
<1>1. \A x \in S, v \in Nat : step[<<x, v>>] = SizeOf[x] + v /\ step[<<x, v>>] \in Nat
  BY QueueAssumption
<1>2. \A s \in SUBSET S : s # {} => AnElement[s] \in s
  BY AnElementIn
<1>3. PICK h : IsSetRecursion(h, S, Nat, 0, AnElement, step)
  <2>1. SetSteps(S, Nat, 0, AnElement, step)
    <3> HIDE DEF step
    <3>1. QED
      BY <1>1, <1>2, IdsFinite DEF SetSteps
  <2> HIDE DEF step
  <2>2. QED
    BY <2>1, SetRecursion
<1>4. h \in [SUBSET S -> Nat] /\ \A s \in SUBSET S : h[s] = Value(h, s)
  <2>1. h \in [SUBSET S -> Nat]
    BY <1>3 DEF IsSetRecursion
  <2>2. ASSUME NEW s \in SUBSET S PROVE h[s] = Value(h, s)
    <3>1. h[s] = IF s = {} THEN 0 ELSE step[<<AnElement[s], h[s \ {AnElement[s]}]>>]
      <4> HIDE DEF step
      <4>1. QED
        BY <1>3 DEF IsSetRecursion
    <3>2. s # {} => AnElement[s] \in S /\ h[s \ {AnElement[s]}] \in Nat
      BY <1>2, <2>1
    <3> HIDE DEF step
    <3>3. QED
      BY <1>1, <3>1, <3>2
  <2>3. QED
    BY <2>1, <2>2
<1>5. \A f, s : s \in SUBSET S => Value(f, s) = Given(f, s)
  <2>1. \A s \in SUBSET S : AnElement[s] = CHOOSE x \in s : TRUE
    BY DEF AnElement
  <2>2. QED
    BY <2>1
<1>6. h = [s \in SUBSET S |-> Given(h, s)]
  <2> HIDE DEF Value, Given
  <2>1. QED
    BY <1>4, <1>5
<1>7. sum = [s \in SUBSET S |-> Given(sum, s)]
  <2> HIDE DEF Given
  <2>1. QED
    BY <1>6
<1>8. SizeOfAll(S) = sum[S]
  BY DEF SizeOfAll, MapThenSumSet, MapThenFoldSet
<1>9. \A s \in SUBSET S : sum[s] = Value(sum, s)
  <2> HIDE DEF Given, Value, sum
  <2>1. QED
    BY <1>5, <1>7
<1>10. SumUpTo(sum, S)
  <2> HIDE DEF sum
  <2>1. QED
    BY <1>9 DEF SumUpTo
<1>11. QED
  BY <1>8, <1>10

LEMMA SizeOfAllEmpty == SizeOfAll({}) = 0
<1>1. \E sum : SumUpTo(sum, {}) /\ SizeOfAll({}) = sum[{}]
  BY SizeOfAllDef
<1>2. QED
  BY <1>1 DEF SumUpTo

LEMMA SizeOfAllRemove ==
  ASSUME NEW S \in SUBSET Ids, NEW x \in S
  PROVE  /\ SizeOfAll(S) \in Nat /\ SizeOfAll(S \ {x}) \in Nat
         /\ SizeOfAll(S) = SizeOf[x] + SizeOfAll(S \ {x})
<1> DEFINE T == S \ {x}
           sizes == [y \in S |-> SizeOf[y]]
<1>1. PICK sum : SumUpTo(sum, S) /\ SizeOfAll(S) = sum[S]
  BY SizeOfAllDef
<1>2. PICK rest : SumUpTo(rest, T) /\ SizeOfAll(T) = rest[T]
  BY SizeOfAllDef
<1>3. T \in SUBSET S /\ T \in SUBSET Ids /\ IsFiniteSet(S) /\ IsFiniteSet(T)
  BY IdsFinite
<1>4. /\ \A s \in SUBSET S : s # {} => AnElement[s] \in s
      /\ \A s \in SUBSET T : s # {} => AnElement[s] \in s
  BY <1>3, AnElementIn
<1>5. /\ sum[S] \in Nat /\ sum[T] \in Nat
      /\ sum[S] = SizeOf[x] + sum[T]
  <2>1. sizes \in [S -> Nat] /\ sizes[x] = SizeOf[x]
    BY QueueAssumption
  <2>2. sum[{}] = 0 /\ \A s \in SUBSET S : s # {} => sum[s] = sizes[AnElement[s]] + sum[s \ {AnElement[s]}]
    BY <1>1, <1>4 DEF SumUpTo
  <2>3. \A s \in SUBSET S : sum[s] \in Nat /\ \A y \in s : sum[s] = sizes[y] + sum[s \ {y}]
    <3> HIDE DEF sizes
    <3>1. IsSum(sum, S, sizes, AnElement)
      BY <1>3, <1>4, <2>1, <2>2 DEF IsSum
    <3>2. QED
      BY <3>1, AnyOrder
  <2>4. QED
    BY <1>3, <2>1, <2>3
<1>6. sum[T] = rest[T]
  <2> DEFINE G == {s \in SUBSET T : sum[s] = rest[s]}
  <2> HIDE DEF T
  <2>1. {} \in G
    BY <1>1, <1>2 DEF SumUpTo
  <2>2. \A s \in SUBSET T : s # {} /\ s \ {AnElement[s]} \in G => s \in G
    BY <1>1, <1>2, <1>3 DEF SumUpTo
  <2>3. \A s \in SUBSET T : s \in G
    <3> HIDE DEF G
    <3>1. QED
      BY <1>3, <1>4, <2>1, <2>2, Pickwise
  <2>4. QED
    BY <2>3
<1>7. QED
  BY <1>1, <1>2, <1>5, <1>6

-----------------------------------------------------------------------------
LEMMA StepInv == IInv /\ [Next]_vars => IInv'
<1> SUFFICES ASSUME IInv, [Next]_vars PROVE IInv'
  OBVIOUS
<1>1. CASE Submission
  BY <1>1, IssueInv, AdmitInv, RefuseInv, AcknowledgeInv DEF Submission
<1>2. CASE \E a \in Agents : WorkerStep(a)
  BY <1>2, WorkerPopInv, WorkerExitInv, WorkerCommitInv, WorkerFailInv, WorkerRetireInv,
     WorkerSettleInv, WorkerCancelledInv DEF WorkerStep
<1>3. CASE LoseLease \/ LoopFlushes \/ LoopDrops \/ LoopExits
  BY <1>3, LoseLeaseInv, LoopFlushesInv, LoopDropsInv, LoopExitsInv
<1>4. CASE Closing
  BY <1>4, CloseBeginInv, CloseAbortInv, CloseJoinedInv, CloseCancelledInv, CloseGateInv,
     CloseFencedInv, CloseDurableInv, CloseIncompleteInv, CloseDroppedInv DEF Closing
<1>5. CASE UNCHANGED vars
  BY <1>5 DEF IInv, TypeOK, LanesInv, CloseInv, JobInv, Busy, vars
<1>6. QED
  BY <1>1, <1>2, <1>3, <1>4, <1>5 DEF Next

(* The inductive invariant holds in every behaviour of the pipeline.       *)
THEOREM Invariance == Spec => []IInv
  BY InitInv, StepInv, PTL DEF Spec

(* Every variable of the write queue keeps its type, whatever the callers, *)
(* the workers and the close do.                                           *)
THEOREM TypeCorrect == Spec => []TypeOK
<1>1. IInv => TypeOK
  BY DEF IInv
<1>2. QED
  BY <1>1, Invariance, PTL

(* A lane that holds a job has a live worker until the close aborts the    *)
(* workers: an admission and a worker leaving its empty lane cannot miss   *)
(* each other.                                                             *)
THEOREM JobsHaveWorkers == Spec => []LaneHasWorker
<1>1. IInv => LaneHasWorker
  BY DEF IInv, LanesInv, LaneHasWorker
<1>2. QED
  BY <1>1, Invariance, PTL

(* When close has answered Ok no worker and no flush loop is left, and     *)
(* everything ever logged is in the store or in a batch the loop gave up,  *)
(* through any number of failed and cancelled closes before it, and        *)
(* wherever the fence is latched.                                          *)
THEOREM CloseIsComplete == Spec => []ClosedLeavesNothing
<1>1. IInv => ClosedLeavesNothing
  BY DEF IInv, CloseInv, ClosedLeavesNothing
<1>2. QED
  BY <1>1, Invariance, PTL

(* A write whose caller was told anything but `dropped` is, once close has *)
(* answered Ok, applied in the store, reported failed, a durable intent    *)
(* whose consumption never reached the store, or one whose intent the      *)
(* flush loop gave up with its batch.                                      *)
THEOREM AckedWritesAreKept == Spec => []AckedIsKept
<1>1. IInv => AckedIsKept
  <2> SUFFICES ASSUME IInv PROVE AckedIsKept
    OBVIOUS
  <2>1. \A id \in Ids : effect[id] # "none" => intent[id] # "none"
    BY DEF IInv, JobInv
  <2>2. ASSUME closing = "closed", NEW id \in Ids, call[id] = "answered", answer[id] # "dropped"
        PROVE  \/ outcome[id] = "applied" /\ effect[id] = "durable"
               \/ outcome[id] = "failed"
               \/ intent[id] = "durable" /\ effect[id] # "durable"
               \/ intent[id] = "dropped"
    <3>1. intent[id] \in {"durable", "dropped"} /\ (effect[id] = "durable" => outcome[id] # "none")
      BY <2>2 DEF IInv, TypeOK, CloseInv, JobInv
    <3>2. QED
      BY <2>2, <3>1 DEF IInv, TypeOK, JobInv
  <2>3. QED
    BY <2>1, <2>2 DEF AckedIsKept
<1>2. QED
  BY <1>1, Invariance, PTL

(* No step replaces a settled answer, except that a retried close raises   *)
(* close_unflushed to intent_durable.                                      *)
THEOREM AnswersAreFinal == Spec => SettledAnswerIsFinal
<1> DEFINE Final == \A id \in Ids :
             answer[id] \in Settled /\ answer'[id] # answer[id] =>
               answer[id] = "close_unflushed" /\ answer'[id] = "intent_durable"
<1>1. IInv /\ [Next]_vars => [Final]_vars
  <2> SUFFICES ASSUME IInv, Next PROVE Final
    BY DEF vars
  <2>1. CASE UNCHANGED answer
    BY <2>1
  <2>2. ASSUME NEW id \in Ids, Acknowledge(id) \/ Refuse(id) PROVE Final
    BY <2>2 DEF IInv, TypeOK, JobInv, Acknowledge, Refuse
  <2>3. ASSUME NEW a \in Agents, WorkerSettle(a) PROVE Final
    BY <2>3 DEF IInv, TypeOK, JobInv, WorkerSettle
  <2>4. CASE CloseFenced \/ CloseDurable \/ CloseIncomplete
    BY <2>4 DEF IInv, TypeOK, CloseFenced, CloseDurable, CloseIncomplete, SettleDeferred
  <2>5. QED
    <3>1. Submission => UNCHANGED answer \/ \E id \in Ids : Acknowledge(id) \/ Refuse(id)
      BY DEF Submission, Issue, Admit
    <3>2. ASSUME NEW a \in Agents, WorkerStep(a) PROVE UNCHANGED answer \/ WorkerSettle(a)
      BY <3>2 DEF WorkerStep, WorkerPop, WorkerExit, WorkerCommit, WorkerFail, WorkerRetire,
                  WorkerCancelled
    <3>3. LoseLease \/ LoopFlushes \/ LoopDrops \/ LoopExits => UNCHANGED answer
      BY DEF LoseLease, LoopFlushes, LoopDrops, LoopExits
    <3>4. Closing => UNCHANGED answer \/ CloseFenced \/ CloseDurable \/ CloseIncomplete
      BY DEF Closing, CloseBegin, CloseAbort, CloseJoined, CloseCancelled, CloseGate,
         CloseDropped
    <3>5. QED
      BY <2>1, <2>2, <2>3, <2>4, <3>1, <3>2, <3>3, <3>4 DEF Next
<1>2. QED
  BY <1>1, Invariance, PTL DEF Spec, SettledAnswerIsFinal

-----------------------------------------------------------------------------
(* The bounds: CustodyInv is inductive together with WithinBounds.         *)

InQueueFact ==
  /\ \A x : x \in QueuedIds <=> \E a \in Agents : \E i \in 1..Len(queue[a]) : queue[a][i] = x
  /\ QueuedIds \in SUBSET Ids

LEMMA InQueue == TypeOK => InQueueFact
<1> SUFFICES ASSUME TypeOK PROVE InQueueFact
  OBVIOUS
<1>1. \A a \in Agents : queue[a] \in Seq(Ids) /\ DOMAIN queue[a] = 1..Len(queue[a])
  BY DEF TypeOK
<1>2. \A x : x \in QueuedIds <=> \E a \in Agents : \E i \in 1..Len(queue[a]) : queue[a][i] = x
  BY <1>1 DEF QueuedIds, ToSet
<1>3. QED
  BY <1>1, <1>2 DEF InQueueFact

LEMMA InQueueNext == TypeOK' => InQueueFact'
  BY InQueue, PTL

\* Once the workers are aborted, custody only shrinks.
LEMMA AbortedBounds ==
  ASSUME IInv, CustodyInv, WithinBounds, IInv', workersAborted', BusyLanes' \subseteq BusyLanes
  PROVE  CustodyInv' /\ WithinBounds'
<1>1. \A a \in Agents : queue'[a] = <<>>
  BY DEF IInv, LanesInv
<1>2. QueuedIds' = {}
  <2>1. TypeOK'
    BY DEF IInv
  <2>2. QED
    BY <1>1, <2>1, InQueueNext DEF InQueueFact
<1>3. /\ IsFiniteSet(BusyLanes) /\ IsFiniteSet(BusyLanes')
      /\ Cardinality(BusyLanes) \in Nat /\ Cardinality(BusyLanes') \in Nat
      /\ Cardinality(BusyLanes') <= Cardinality(BusyLanes)
  BY FS_Subset, FS_CardinalityType DEF CustodyInv
<1>4. Cardinality(BusyLanes) <= QueueMax
  <2>1. Cardinality(QueuedIds) \in Nat
    BY InQueue, IdsFinite, FS_CardinalityType DEF IInv, InQueueFact
  <2>2. QED
    BY <1>3, <2>1, QueueAssumption DEF WithinBounds, BusyLanes
<1>5. CustodyInv'
  BY <1>1, <1>3 DEF CustodyInv
<1>6. WithinBounds'
  <2>1. Cardinality(QueuedIds') = 0 /\ SizeOfAll(QueuedIds') = 0
    BY <1>2, FS_EmptySet, SizeOfAllEmpty
  <2>2. Cardinality(QueuedIds') + Cardinality(BusyLanes') <= QueueMax /\ SizeOfAll(QueuedIds') <= BytesMax
    BY <1>3, <1>4, <2>1, QueueAssumption
  <2>3. \A a \in Agents : Len(queue'[a]) + Held(a)' <= LaneMax
    <3> SUFFICES ASSUME NEW a \in Agents
                 PROVE  Len(queue'[a]) + Held(a)' <= LaneMax
      OBVIOUS
    <3>1. Len(queue'[a]) = 0 /\ LaneMax \in Nat /\ LaneMax # 0
      BY <1>1, QueueAssumption
    <3>2. Held(a)' \in 0..1
      BY DEF Held
    <3>3. QED
      BY <3>1, <3>2
  <2>4. (Cardinality(QueuedIds) + Cardinality({a \in Agents : Busy(a)}) <= QueueMax)'
    BY <2>2 DEF BusyLanes
  <2> HIDE DEF SizeOfAll, QueuedIds
  <2>5. QED
    BY <2>2, <2>3, <2>4 DEF WithinBounds
<1>7. QED
  BY <1>5, <1>6

\* A step that moves no job and no worker.
LEMMA QuietBounds ==
  ASSUME IInv, CustodyInv, WithinBounds,
         UNCHANGED <<owner, queue, queued, running, bytes, workersAborted, task, current>>,
         \A id \in Ids : call[id] \in {"admitted", "answered"} => call'[id] \in {"admitted", "answered"}
  PROVE  CustodyInv' /\ WithinBounds'
<1>1. QueuedIds' = QueuedIds /\ BusyLanes' = BusyLanes /\ \A a \in Agents : Busy(a)' = Busy(a)
  BY DEF QueuedIds, BusyLanes, Busy
<1>2. \A a \in Agents : \A i \in 1..Len(queue[a]) : queue[a][i] \in Ids
  BY DEF IInv, TypeOK
<1> HIDE DEF QueuedIds, BusyLanes
<1>3. CustodyInv'
  BY <1>1, <1>2 DEF CustodyInv
<1>4. WithinBounds'
  BY <1>1 DEF WithinBounds, BusyLanes, Held, Busy
<1>5. QED
  BY <1>3, <1>4

LEMMA AdmitBounds ==
  ASSUME IInv, CustodyInv, WithinBounds, NEW id \in Ids, Admit(id), IInv'
  PROVE  CustodyInv' /\ WithinBounds'
<1>0. PICK a \in Agents : a = owner[id]
  BY DEF IInv, TypeOK
<1>1. /\ TypeOK /\ TypeOK' /\ a \in Agents /\ queue[a] \in Seq(Ids) /\ Len(queue[a]) \in Nat
      /\ call[id] = "issued" /\ ~workersAborted /\ ~workersAborted'
      /\ queue' = [queue EXCEPT ![a] = Append(queue[a], id)]
      /\ owner' = owner /\ current' = current
  BY <1>0 DEF IInv, TypeOK, LanesInv, Admit, Enqueued, Full
<1>2. /\ Len(queue'[a]) = Len(queue[a]) + 1 /\ queue'[a][Len(queue[a]) + 1] = id
      /\ \A i \in 1..Len(queue[a]) : queue'[a][i] = queue[a][i]
      /\ \A b \in Agents : b # a => queue'[b] = queue[b]
  BY <1>1 DEF IInv, TypeOK
<1>3. id \notin QueuedIds
  BY <1>1, InQueue DEF CustodyInv, InQueueFact
<1>4. QueuedIds' = QueuedIds \cup {id}
  <2>1. \A x : x \in QueuedIds' <=> \E b \in Agents : \E i \in 1..Len(queue'[b]) : queue'[b][i] = x
    BY <1>1, InQueueNext DEF InQueueFact
  <2>2. ASSUME NEW x PROVE x \in QueuedIds' <=> x \in QueuedIds \/ x = id
    <3>1. (\E i \in 1..Len(queue'[a]) : queue'[a][i] = x) <=> x = id \/ \E i \in 1..Len(queue[a]) : queue[a][i] = x
      <4>1. /\ Len(queue[a]) + 1 \in 1..Len(queue'[a])
            /\ \A i \in 1..Len(queue'[a]) : i \in 1..Len(queue[a]) \/ i = Len(queue[a]) + 1
            /\ \A i \in 1..Len(queue[a]) : i \in 1..Len(queue'[a])
        BY <1>1, <1>2
      <4>2. QED
        BY <1>2, <4>1
    <3>2. QED
      BY <1>1, <1>2, <2>1, <3>1, InQueue DEF InQueueFact
  <2>3. QED
    BY <2>2
<1>5. BusyLanes' = BusyLanes /\ \A b \in Agents : Busy(b)' <=> Busy(b)
  <2>1. \A b \in Agents : task'[b] \in {"running", "retiring"} <=> task[b] \in {"running", "retiring"}
    BY <1>0, <1>1 DEF IInv, TypeOK, LanesInv, Admit, Spawns
  <2>2. QED
    BY <2>1 DEF BusyLanes, Busy
<1>6. /\ QueuedIds \in SUBSET Ids /\ QueuedIds' \in SUBSET Ids
      /\ IsFiniteSet(QueuedIds) /\ Cardinality(QueuedIds) \in Nat
      /\ Cardinality(QueuedIds') = Cardinality(QueuedIds) + 1
  BY <1>1, <1>3, <1>4, InQueue, InQueueNext, IdsFinite, FS_CardinalityType, FS_AddElement DEF InQueueFact
<1>7. /\ SizeOfAll(QueuedIds) \in Nat
      /\ SizeOfAll(QueuedIds') = SizeOfAll(QueuedIds) + SizeOf[id]
  <2>1. id \in QueuedIds' /\ QueuedIds' \ {id} = QueuedIds
    BY <1>3, <1>4
  <2>2. /\ SizeOfAll(QueuedIds' \ {id}) \in Nat
        /\ SizeOfAll(QueuedIds') = SizeOf[id] + SizeOfAll(QueuedIds' \ {id})
    BY <1>6, <2>1, SizeOfAllRemove
  <2>3. SizeOf[id] \in Nat
    BY QueueAssumption
  <2> HIDE DEF SizeOfAll
  <2>4. SizeOfAll(QueuedIds) \in Nat /\ SizeOfAll(QueuedIds') = SizeOf[id] + SizeOfAll(QueuedIds)
    BY <2>1, <2>2
  <2> HIDE DEF QueuedIds
  <2>5. QED
    BY <2>3, <2>4
<1>8. /\ queued = Cardinality(QueuedIds) /\ bytes = SizeOfAll(QueuedIds)
      /\ running = Cardinality(BusyLanes) /\ Cardinality(BusyLanes) \in Nat
      /\ queued' = queued + 1 /\ bytes' = bytes + SizeOf[id] /\ running' = running
      /\ laneRunning[a] = IF Busy(a) THEN 1 ELSE 0
      /\ Len(queue[a]) + laneRunning[a] < LaneMax
      /\ queued + running < QueueMax
      /\ bytes + SizeOf[id] <= BytesMax
  <2>1. Len(queue[a]) + laneRunning[a] < LaneMax /\ queued + running < QueueMax
        /\ bytes + SizeOf[id] <= BytesMax
    <3>1. laneRunning[a] \in 0..1 /\ queued \in Int /\ running \in Int /\ bytes \in Nat /\ SizeOf[id] \in Nat
      BY <1>1, QueueAssumption DEF TypeOK
    <3>2. QED
      BY <1>0, <1>1, <3>1, QueueAssumption DEF Admit, Full, LaneOutstanding, Outstanding
  <2>2. laneRunning[a] = IF Busy(a) THEN 1 ELSE 0
    BY <1>1 DEF IInv, LanesInv
  <2> HIDE DEF SizeOfAll
  <2>3. QED
    BY <1>1, <2>1, <2>2, FS_CardinalityType DEF CustodyInv, Admit
<1> HIDE DEF SizeOfAll
<1>9. WithinBounds'
  <2>1. Cardinality(QueuedIds') + Cardinality(BusyLanes') <= QueueMax
    BY <1>5, <1>6, <1>8, QueueAssumption
  <2>2. SizeOfAll(QueuedIds') <= BytesMax
    BY <1>7, <1>8
  <2>3. \A b \in Agents : Len(queue'[b]) + Held(b)' <= LaneMax
    <3>1. \A b \in Agents : Len(queue[b]) + Held(b) <= LaneMax
      BY DEF WithinBounds
    <3>2. \A b \in Agents : b # a => Len(queue'[b]) + Held(b)' <= LaneMax
      BY <1>2, <1>5, <3>1 DEF Held
    <3>3. Len(queue'[a]) + Held(a)' <= LaneMax
      <4>1. Held(a)' = laneRunning[a] /\ laneRunning[a] \in 0..1 /\ LaneMax \in Nat
        BY <1>1, <1>5, <1>8, QueueAssumption DEF TypeOK, Held
      <4>2. Len(queue'[a]) = Len(queue[a]) + 1 /\ Len(queue[a]) + laneRunning[a] < LaneMax
        BY <1>2, <1>8
      <4>3. \A l, r, x \in Int : x = l + 1 /\ l + r < LaneMax => x + r <= LaneMax
        BY <4>1
      <4>4. Len(queue[a]) \in Int /\ laneRunning[a] \in Int /\ Len(queue'[a]) \in Int
        BY <1>1, <4>1, <4>2
      <4>5. Len(queue'[a]) + laneRunning[a] <= LaneMax
        BY <4>2, <4>3, <4>4
      <4>6. QED
        BY <4>1, <4>5
    <3>4. ASSUME NEW b \in Agents
          PROVE  Len(queue'[b]) + Held(b)' <= LaneMax
      <4>1. CASE b = a
        BY <3>3, <4>1
      <4>2. CASE b # a
        BY <3>2, <4>2
      <4>3. QED
        BY <4>1, <4>2
    <3>5. QED
      BY <3>4
  <2>4. (Cardinality(QueuedIds) + Cardinality({b \in Agents : Busy(b)}) <= QueueMax)'
    BY <2>1 DEF BusyLanes
  <2> HIDE DEF QueuedIds
  <2>5. QED
    BY <2>2, <2>3, <2>4 DEF WithinBounds
<1>10. CustodyInv'
  <2>1. ASSUME NEW b \in Agents, NEW i \in 1..Len(queue'[b])
        PROVE  /\ owner'[queue'[b][i]] = b /\ call'[queue'[b][i]] \in {"admitted", "answered"}
               /\ \A j \in 1..Len(queue'[b]) : queue'[b][i] = queue'[b][j] => i = j
    <3>1. call'[id] = "admitted" /\ \A x \in Ids : x # id => call'[x] = call[x]
      BY <1>1 DEF Admit, TypeOK
    <3>2. \A j \in 1..Len(queue[b]) :
            queue[b][j] \in Ids /\ queue[b][j] # id /\ owner[queue[b][j]] = b
            /\ call[queue[b][j]] \in {"admitted", "answered"}
      BY <1>1, <1>3, InQueue DEF CustodyInv, TypeOK, InQueueFact
    <3>3. CASE b # a
      BY <1>1, <1>2, <3>1, <3>2, <3>3 DEF CustodyInv
    <3>4. CASE b = a
      <4>1. \A j \in 1..Len(queue'[a]) : j \in 1..Len(queue[a]) \/ j = Len(queue[a]) + 1
        BY <1>1, <1>2
      <4>2. \A j, k \in 1..Len(queue[a]) : queue[a][j] = queue[a][k] => j = k
        BY <1>1 DEF CustodyInv
      <4>3. QED
        BY <1>0, <1>1, <1>2, <2>1, <3>1, <3>2, <3>4, <4>1, <4>2
    <3>5. QED
      BY <3>3, <3>4
  <2>2. \A b \in Agents : task'[b] \in {"none", "spawned", "top"} => current'[b] = 0
    BY <1>0, <1>1 DEF CustodyInv, IInv, LanesInv, TypeOK, Admit, Spawns
  <2>3. IsFiniteSet(BusyLanes')
    BY <1>5 DEF CustodyInv
  <2>4. QED
    BY <1>5, <1>6, <1>7, <1>8, <2>1, <2>2, <2>3 DEF CustodyInv
<1>11. QED
  BY <1>9, <1>10

LEMMA WorkerPopBounds ==
  ASSUME IInv, CustodyInv, WithinBounds, NEW a \in Agents, WorkerPop(a), IInv'
  PROVE  CustodyInv' /\ WithinBounds'
<1>0. PICK id \in Ids : id = Head(queue[a])
  BY DEF IInv, TypeOK, WorkerPop
<1>1. /\ TypeOK /\ TypeOK' /\ queue[a] \in Seq(Ids) /\ Len(queue[a]) \in Nat \ {0}
      /\ ~workersAborted /\ ~workersAborted'
      /\ queue' = [queue EXCEPT ![a] = Tail(queue[a])]
      /\ owner' = owner /\ call' = call
      /\ current' = [current EXCEPT ![a] = id]
      /\ queue[a][1] = id
  BY <1>0 DEF IInv, TypeOK, LanesInv, WorkerPop
<1>2. /\ Len(queue'[a]) = Len(queue[a]) - 1
      /\ \A i \in 1..Len(queue'[a]) : i + 1 \in 1..Len(queue[a]) /\ queue'[a][i] = queue[a][i + 1]
      /\ \A b \in Agents : b # a => queue'[b] = queue[b]
  BY <1>1 DEF IInv, TypeOK
<1>3. id \in QueuedIds
  BY <1>1, InQueue DEF InQueueFact
<1>4. QueuedIds' = QueuedIds \ {id}
  <2>1. \A x : x \in QueuedIds' <=> \E b \in Agents : \E i \in 1..Len(queue'[b]) : queue'[b][i] = x
    BY <1>1, InQueueNext DEF InQueueFact
  <2>2. ASSUME NEW x PROVE x \in QueuedIds' <=> x \in QueuedIds /\ x # id
    <3>1. \A b \in Agents : \A i \in 1..Len(queue[b]) : queue[b][i] = id => b = a /\ i = 1
      <4>1. \A b \in Agents : \A i \in 1..Len(queue[b]) : owner[queue[b][i]] = b
        BY DEF CustodyInv
      <4>2. \A i, j \in 1..Len(queue[a]) : queue[a][i] = queue[a][j] => i = j
        BY DEF CustodyInv
      <4>3. 1 \in 1..Len(queue[a])
        BY <1>1
      <4>4. owner[id] = a
        BY <1>1, <4>1, <4>3
      <4>5. QED
        BY <1>1, <4>1, <4>2, <4>3, <4>4
    <3>2. (\E i \in 1..Len(queue'[a]) : queue'[a][i] = x)
          <=> x # id /\ \E i \in 1..Len(queue[a]) : queue[a][i] = x
      <4>1. ASSUME NEW i \in 1..Len(queue'[a]), queue'[a][i] = x PROVE x # id
        BY <1>2, <3>1, <4>1
      <4>2. ASSUME NEW i \in 1..Len(queue[a]), queue[a][i] = x, x # id
            PROVE  \E j \in 1..Len(queue'[a]) : queue'[a][j] = x
        <5>1. i - 1 \in 1..Len(queue'[a]) /\ i - 1 + 1 = i
          BY <1>1, <1>2, <4>2
        <5>2. queue'[a][i - 1] = queue[a][i]
          BY <1>2, <5>1
        <5>3. QED
          BY <4>2, <5>1, <5>2
      <4>3. QED
        BY <1>2, <4>1, <4>2
    <3>3. \A b \in Agents : b # a => \A i \in 1..Len(queue[b]) : queue[b][i] # id
      BY <3>1
    <3>4. x \in QueuedIds <=> \E b \in Agents : \E i \in 1..Len(queue[b]) : queue[b][i] = x
      BY <1>1, InQueue DEF InQueueFact
    <3>5. ASSUME NEW b \in Agents
          PROVE  (\E i \in 1..Len(queue'[b]) : queue'[b][i] = x)
                 <=> x # id /\ \E i \in 1..Len(queue[b]) : queue[b][i] = x
      <4>1. CASE b = a
        BY <3>2, <4>1
      <4>2. CASE b # a
        BY <1>2, <3>3, <4>2
      <4>3. QED
        BY <4>1, <4>2
    <3>6. QED
      BY <2>1, <3>4, <3>5, Zenon
  <2>3. QED
    BY <2>2
<1>5. a \notin BusyLanes /\ BusyLanes' = BusyLanes \cup {a}
      /\ \A b \in Agents : b # a => (Busy(b)' <=> Busy(b))
  <2>1. /\ task[a] \notin {"running", "retiring"} /\ task'[a] \in {"running", "retiring"}
        /\ \A b \in Agents : b # a => task'[b] = task[b]
    BY <1>1 DEF TypeOK, WorkerPop
  <2>2. QED
    BY <2>1 DEF BusyLanes, Busy
<1>6. /\ QueuedIds \in SUBSET Ids /\ QueuedIds' \in SUBSET Ids
      /\ IsFiniteSet(QueuedIds) /\ Cardinality(QueuedIds) \in Nat
      /\ Cardinality(QueuedIds') = Cardinality(QueuedIds) - 1
      /\ IsFiniteSet(BusyLanes) /\ IsFiniteSet(BusyLanes') /\ Cardinality(BusyLanes) \in Nat
      /\ Cardinality(BusyLanes') = Cardinality(BusyLanes) + 1
  <2>1. QueuedIds \in SUBSET Ids /\ QueuedIds' \in SUBSET Ids
    BY <1>1, InQueue, InQueueNext DEF InQueueFact
  <2>2. IsFiniteSet(BusyLanes)
    BY DEF CustodyInv
  <2>3. QED
    BY <1>3, <1>4, <1>5, <2>1, <2>2, IdsFinite, FS_CardinalityType, FS_AddElement, FS_RemoveElement
<1>7. /\ SizeOfAll(QueuedIds) \in Nat /\ SizeOfAll(QueuedIds') \in Nat /\ SizeOf[id] \in Nat
      /\ SizeOfAll(QueuedIds) = SizeOf[id] + SizeOfAll(QueuedIds')
  BY <1>3, <1>4, <1>6, SizeOfAllRemove, QueueAssumption
<1> HIDE DEF SizeOfAll, QueuedIds
<1>8. /\ queued = Cardinality(QueuedIds) /\ bytes = SizeOfAll(QueuedIds)
      /\ running = Cardinality(BusyLanes)
      /\ queued' = queued - 1 /\ running' = running + 1
      /\ bytes' = SizeOfAll(QueuedIds')
  <2>1. queued = Cardinality(QueuedIds) /\ bytes = SizeOfAll(QueuedIds) /\ running = Cardinality(BusyLanes)
    BY <1>1 DEF CustodyInv
  <2>2. bytes' = Minus(bytes, SizeOf[id])
    BY <1>0 DEF WorkerPop
  <2>3. bytes - SizeOf[id] = SizeOfAll(QueuedIds') /\ bytes - SizeOf[id] \in 0..bytes
    BY <1>7, <2>1
  <2>4. QED
    BY <2>1, <2>2, <2>3 DEF WorkerPop, Minus
<1>9. WithinBounds'
  <2>1. Cardinality(QueuedIds') + Cardinality(BusyLanes') <= QueueMax
    <3>1. Cardinality(QueuedIds) + Cardinality(BusyLanes) <= QueueMax
      BY DEF WithinBounds, BusyLanes
    <3>2. QED
      BY <1>6, <3>1, QueueAssumption
  <2>2. SizeOfAll(QueuedIds') <= BytesMax
    <3>1. SizeOfAll(QueuedIds) <= BytesMax
      BY DEF WithinBounds
    <3>2. QED
      BY <1>7, <3>1, QueueAssumption
  <2>3. ASSUME NEW b \in Agents
        PROVE  Len(queue'[b]) + Held(b)' <= LaneMax
    <3>1. Len(queue[b]) + Held(b) <= LaneMax
      BY DEF WithinBounds
    <3>2. CASE b = a
      <4>1. Held(b) = 0
        BY <1>5, <3>2 DEF BusyLanes, Held
      <4>2. Len(queue[b]) <= LaneMax /\ Len(queue[b]) \in Nat
        BY <1>1, <3>1, <3>2, <4>1
      <4>3. Len(queue'[b]) + 1 <= LaneMax /\ Len(queue'[b]) \in Nat /\ LaneMax \in Nat
        BY <1>1, <1>2, <3>2, <4>2, QueueAssumption
      <4>4. Held(b)' \in 0..1
        BY DEF Held
      <4>5. QED
        BY <4>3, <4>4
    <3>3. CASE b # a
      BY <1>2, <1>5, <3>1, <3>3 DEF Held
    <3>4. QED
      BY <3>2, <3>3
  <2>4. (Cardinality(QueuedIds) + Cardinality({b \in Agents : Busy(b)}) <= QueueMax)'
    BY <2>1 DEF BusyLanes
  <2>5. QED
    BY <2>2, <2>3, <2>4 DEF WithinBounds
<1>10. CustodyInv'
  <2>1. ASSUME NEW b \in Agents, NEW i \in 1..Len(queue'[b])
        PROVE  /\ owner'[queue'[b][i]] = b /\ call'[queue'[b][i]] \in {"admitted", "answered"}
               /\ \A j \in 1..Len(queue'[b]) : queue'[b][i] = queue'[b][j] => i = j
    <3>1. CASE b = a
      <4>1. i + 1 \in 1..Len(queue[a]) /\ queue'[a][i] = queue[a][i + 1]
        BY <1>2, <2>1, <3>1
      <4>2. ASSUME NEW j \in 1..Len(queue'[a]), queue'[a][i] = queue'[a][j] PROVE i = j
        <5>1. j + 1 \in 1..Len(queue[a]) /\ queue[a][i + 1] = queue[a][j + 1]
          BY <1>2, <4>1, <4>2
        <5>2. i + 1 = j + 1
          BY <4>1, <5>1 DEF CustodyInv
        <5>3. QED
          BY <3>1, <5>2
      <4>3. QED
        BY <1>1, <3>1, <4>1, <4>2 DEF CustodyInv
    <3>2. CASE b # a
      BY <1>1, <1>2, <2>1, <3>2 DEF CustodyInv
    <3>3. QED
      BY <3>1, <3>2
  <2>2. \A b \in Agents : task'[b] \in {"none", "spawned", "top"} => current'[b] = 0
    <3>1. ASSUME NEW b \in Agents, task'[b] \in {"none", "spawned", "top"}
          PROVE  current'[b] = 0
      <4>1. b # a /\ task'[b] = task[b] /\ current'[b] = current[b]
        BY <1>1, <3>1 DEF TypeOK, WorkerPop
      <4>2. ~workersAborted => current[b] = 0
        BY ONLY CustodyInv, <3>1, <4>1 DEF CustodyInv
      <4>3. QED
        BY <1>1, <4>1, <4>2
    <3>2. QED
      BY <3>1
  <2>3. QED
    BY <1>6, <1>8, <2>1, <2>2 DEF CustodyInv
<1>11. QED
  BY <1>9, <1>10

\* A step of a worker that leaves the lanes as they are.
WorkerMoves(a) ==
  /\ ~workersAborted' /\ ~workersAborted
  /\ UNCHANGED <<owner, call, queue, queued, bytes>>
  /\ \A b \in Agents : b # a => task'[b] = task[b] /\ current'[b] = current[b]
  /\ Busy(a)' => Busy(a)
  /\ running' = IF Busy(a) /\ ~Busy(a)' THEN running - 1 ELSE running
  /\ task'[a] \in {"none", "spawned", "top"} => current'[a] = 0

LEMMA WorkerBounds ==
  ASSUME IInv, CustodyInv, WithinBounds, IInv', NEW a \in Agents, WorkerMoves(a)
  PROVE  CustodyInv' /\ WithinBounds'
<1> USE DEF WorkerMoves
<1>1. QueuedIds' = QueuedIds
  BY DEF QueuedIds
<1>2. \A b \in Agents : b # a => (Busy(b)' <=> Busy(b))
  BY DEF Busy
<1>3. IsFiniteSet(BusyLanes) /\ Cardinality(BusyLanes) \in Nat
  BY FS_CardinalityType DEF CustodyInv
<1>4. /\ IsFiniteSet(BusyLanes') /\ Cardinality(BusyLanes') <= Cardinality(BusyLanes)
      /\ Cardinality(BusyLanes') \in Nat
      /\ running = Cardinality(BusyLanes) => running' = Cardinality(BusyLanes')
  <2>1. CASE Busy(a)' <=> Busy(a)
    <3>1. BusyLanes' = BusyLanes
      BY <1>2, <2>1 DEF BusyLanes
    <3>2. QED
      BY <1>3, <2>1, <3>1
  <2>2. CASE ~Busy(a)' /\ Busy(a)
    <3>1. BusyLanes' = BusyLanes \ {a} /\ a \in BusyLanes
      BY <1>2, <2>2 DEF BusyLanes
    <3>2. /\ IsFiniteSet(BusyLanes') /\ Cardinality(BusyLanes') = Cardinality(BusyLanes) - 1
          /\ Cardinality(BusyLanes') \in Nat
      BY <1>3, <3>1, FS_RemoveElement, FS_CardinalityType
    <3>3. QED
      BY <1>3, <2>2, <3>2
  <2>3. Busy(a)' => Busy(a)
    OBVIOUS
  <2>4. QED
    BY ONLY <2>1, <2>2, <2>3
<1> HIDE DEF SizeOfAll, QueuedIds
<1>5. CustodyInv'
  <2>1. ASSUME NEW b \in Agents PROVE task'[b] \in {"none", "spawned", "top"} => current'[b] = 0
    BY DEF CustodyInv
  <2>2. QED
    BY <1>1, <1>4, <2>1 DEF CustodyInv
<1>6. WithinBounds'
  <2>1. (Cardinality(QueuedIds) + Cardinality({b \in Agents : Busy(b)}) <= QueueMax)'
    <3>1. Cardinality(QueuedIds) + Cardinality(BusyLanes) <= QueueMax
      BY DEF WithinBounds, BusyLanes
    <3>2. Cardinality(QueuedIds) \in Nat
      BY InQueue, IdsFinite, FS_CardinalityType DEF IInv, InQueueFact
    <3>3. Cardinality(QueuedIds') + Cardinality(BusyLanes') <= QueueMax
      BY <1>1, <1>3, <1>4, <3>1, <3>2, QueueAssumption
    <3>4. QED
      BY <3>3 DEF BusyLanes
  <2>2. ASSUME NEW b \in Agents
        PROVE  Len(queue'[b]) + Held(b)' <= LaneMax
    <3>1. /\ Len(queue[b]) + Held(b) <= LaneMax
          /\ Len(queue'[b]) = Len(queue[b]) /\ Len(queue[b]) \in Nat /\ LaneMax \in Nat
      BY QueueAssumption DEF WithinBounds, IInv, TypeOK
    <3>2. Held(b)' <= Held(b)
          /\ Held(b)' \in 0..1 /\ Held(b) \in 0..1
      <4>1. Busy(b)' => Busy(b)
        BY <1>2
      <4>2. QED
        BY <4>1 DEF Held
    <3>3. \A l, m, n \in Int : l + m <= LaneMax /\ n <= m => l + n <= LaneMax
      BY <3>1
    <3>4. QED
      BY <3>1, <3>2, <3>3
  <2>3. QED
    BY <1>1, <2>1, <2>2 DEF WithinBounds
<1>7. QED
  BY <1>5, <1>6

LEMMA WorkerKeepsBounds ==
  ASSUME IInv, CustodyInv, WithinBounds, IInv', NEW a \in Agents, WorkerStep(a)
  PROVE  CustodyInv' /\ WithinBounds'
<1>1. CASE WorkerPop(a)
  BY <1>1, WorkerPopBounds
<1>2. /\ task \in [Agents -> TaskPc] /\ current \in [Agents -> Ids \cup {0}] /\ running \in Int
  BY DEF IInv, TypeOK
<1>3. CASE ~WorkerPop(a) /\ workersAborted
  <2>1. workersAborted' /\ \A b \in Agents : b # a => task'[b] = task[b]
    BY <1>2, <1>3 DEF WorkerStep, WorkerExit, WorkerCommit, WorkerFail, WorkerRetire,
       WorkerSettle, WorkerCancelled
  <2>2. Busy(a)' => Busy(a)
    BY <1>2, <1>3 DEF WorkerStep, WorkerExit, WorkerCommit, WorkerFail, WorkerRetire,
       WorkerSettle, WorkerCancelled, Busy
  <2>3. BusyLanes' \subseteq BusyLanes
    BY <2>1, <2>2 DEF BusyLanes, Busy
  <2>4. QED
    BY <2>1, <2>3, AbortedBounds
<1>4. CASE ~WorkerPop(a) /\ ~workersAborted
  <2>1. ~WorkerCancelled(a)
    BY <1>4 DEF IInv, LanesInv, WorkerCancelled
  <2>2. CASE WorkerExit(a)
    <3>1. current[a] = 0
      BY <1>4, <2>2 DEF CustodyInv, WorkerExit
    <3>2. WorkerMoves(a)
      BY <1>2, <1>4, <2>2, <3>1 DEF WorkerExit, WorkerMoves, Busy
    <3>3. QED
      BY <3>2, WorkerBounds
  <2>3. CASE WorkerCommit(a) \/ WorkerFail(a)
    <3>1. WorkerMoves(a)
      BY <1>2, <1>4, <2>3 DEF WorkerCommit, WorkerFail, WorkerMoves, Busy
    <3>2. QED
      BY <3>1, WorkerBounds
  <2>4. CASE WorkerRetire(a)
    <3>1. WorkerMoves(a)
      BY <1>2, <1>4, <2>4 DEF WorkerRetire, WorkerMoves, Busy
    <3>2. QED
      BY <3>1, WorkerBounds
  <2>5. CASE WorkerSettle(a)
    <3>1. WorkerMoves(a)
      BY <1>2, <1>4, <2>5 DEF WorkerSettle, WorkerMoves, Busy
    <3>2. QED
      BY <3>1, WorkerBounds
  <2>6. QED
    BY <1>4, <2>1, <2>2, <2>3, <2>4, <2>5 DEF WorkerStep
<1>5. QED
  BY <1>1, <1>3, <1>4

LEMMA StepBounds ==
  ASSUME IInv, IInv', CustodyInv, WithinBounds, [Next]_vars
  PROVE  CustodyInv' /\ WithinBounds'
<1>1. CASE Issue
  <2>1. call[nextSeq + 1] = "none" /\ nextSeq + 1 \in Ids
    BY <1>1, QueueAssumption DEF IInv, TypeOK, JobInv, Issue, Ids
  <2>2. \A id \in Ids : call[id] \in {"admitted", "answered"} => call'[id] = call[id]
    BY <1>1, <2>1 DEF IInv, TypeOK, Issue
  <2>3. QED
    BY <1>1, <2>2, QuietBounds DEF Issue
<1>2. ASSUME NEW id \in Ids, Admit(id) PROVE CustodyInv' /\ WithinBounds'
  BY <1>2, AdmitBounds
<1>3. ASSUME NEW id \in Ids, Refuse(id) \/ Acknowledge(id) PROVE CustodyInv' /\ WithinBounds'
  <2>1. \A x \in Ids : call[x] \in {"admitted", "answered"} => call'[x] \in {"admitted", "answered"}
    BY <1>3 DEF IInv, TypeOK, Refuse, Acknowledge
  <2>2. QED
    BY <1>3, <2>1, QuietBounds DEF Refuse, Acknowledge
<1>4. ASSUME NEW a \in Agents, WorkerStep(a) PROVE CustodyInv' /\ WithinBounds'
  BY <1>4, WorkerKeepsBounds
<1>5. CASE \/ LoseLease \/ LoopFlushes \/ LoopDrops \/ LoopExits \/ CloseBegin \/ CloseCancelled \/ CloseGate \/ CloseFenced
           \/ CloseDurable \/ CloseIncomplete \/ CloseDropped \/ UNCHANGED vars
  <2>1. /\ UNCHANGED <<owner, queue, queued, running, bytes, workersAborted, task, current>>
        /\ call' = call
    BY <1>5 DEF LoseLease, LoopFlushes, LoopDrops, LoopExits, CloseBegin, CloseCancelled, CloseGate, CloseFenced, CloseDurable,
       CloseIncomplete, CloseDropped, SettleDeferred, vars
  <2>2. QED
    BY <2>1, QuietBounds
<1>6. CASE CloseAbort \/ CloseJoined
  <2>1. workersAborted' /\ task' = task
    BY <1>6 DEF IInv, CloseInv, CloseAbort, CloseJoined
  <2>2. BusyLanes' \subseteq BusyLanes
    BY <2>1 DEF BusyLanes, Busy
  <2>3. QED
    BY <2>1, <2>2, AbortedBounds
<1>7. QED
  BY <1>1, <1>2, <1>3, <1>4, <1>5, <1>6 DEF Next, Submission, Closing

-----------------------------------------------------------------------------
(* The order of a lane.                                                    *)

Lane(a) == Kept(putLog, {id \in Ids : owner[id] = a})

\* LaneFifo of one lane, with k jobs of it behind the worker.
FifoAt(a, k) ==
  /\ k \in 0..Len(Lane(a))
  /\ queue[a] = SubSeq(Lane(a), k + 1, Len(Lane(a)))
  /\ \A i \in 1..k : \/ outcome[Lane(a)[i]] # "none"
                     \/ i = k /\ current[a] = Lane(a)[k]

LEMMA FifoForm == LaneFifo <=> (~workersAborted => \A a \in Agents : \E k : FifoAt(a, k))
  BY DEF LaneFifo, FifoAt, Lane

LEMMA FifoFormNext == LaneFifo' <=> (~workersAborted => \A a \in Agents : \E k : FifoAt(a, k))'
  BY FifoForm, PTL

LEMMA LaneType == ASSUME TypeOK, NEW a \in Agents PROVE Lane(a) \in Seq(Ids)
  BY KeptType DEF TypeOK, Lane

\* A step that takes no job off its lane and puts none there.
LEMMA FifoStays ==
  ASSUME TypeOK, LaneFifo, workersAborted' = workersAborted, UNCHANGED <<owner, queue, putLog>>,
         \A id \in Ids : outcome[id] # "none" => outcome'[id] # "none",
         \A a \in Agents : current'[a] = current[a] \/ current[a] = 0 \/ outcome'[current[a]] # "none"
  PROVE  LaneFifo'
<1> SUFFICES ASSUME ~workersAborted, NEW a \in Agents PROVE \E k : FifoAt(a, k)'
  BY FifoFormNext
<1>1. PICK k : FifoAt(a, k)
  BY FifoForm
<1>2. Lane(a)' = Lane(a) /\ Lane(a) \in Seq(Ids)
  BY LaneType DEF Lane
<1>3. ASSUME NEW i \in 1..k
      PROVE  outcome'[Lane(a)[i]] # "none" \/ (i = k /\ current'[a] = Lane(a)[k])
  <2>1. Lane(a)[i] \in Ids
    BY <1>1, <1>2 DEF FifoAt
  <2>2. CASE outcome[Lane(a)[i]] # "none"
    BY <2>1, <2>2
  <2>3. CASE i = k /\ current[a] = Lane(a)[k]
    <3>1. current[a] # 0
      BY <2>1, <2>3 DEF Ids
    <3>2. QED
      BY <2>3, <3>1
  <2>4. QED
    BY <1>1, <2>2, <2>3 DEF FifoAt
<1>4. FifoAt(a, k)'
  BY <1>1, <1>2, <1>3 DEF FifoAt
<1>5. QED
  BY <1>4

LEMMA AdmitFifo ==
  ASSUME TypeOK, LaneFifo, NEW id \in Ids, Admit(id), ~workersAborted
  PROVE  LaneFifo'
<1> SUFFICES ASSUME NEW a \in Agents PROVE \E k : FifoAt(a, k)'
  BY FifoFormNext
<1>1. PICK k : FifoAt(a, k)
  BY FifoForm
<1> DEFINE lane == Lane(a)
<1>2. /\ lane \in Seq(Ids) /\ Len(lane) \in Nat /\ putLog \in Seq(Ids)
      /\ putLog' = Append(putLog, id) /\ owner' = owner /\ outcome' = outcome /\ current' = current
      /\ k \in 0..Len(lane) /\ queue[a] = SubSeq(lane, k + 1, Len(lane))
  BY <1>1, LaneType DEF TypeOK, Admit, RecordIntent, FifoAt
<1>3. Lane(a)' = IF owner[id] = a THEN Append(lane, id) ELSE lane
  BY <1>2, KeptAppend DEF Lane
<1>4. queue'[a] = IF owner[id] = a THEN Append(queue[a], id) ELSE queue[a]
  BY DEF TypeOK, Admit, Enqueued
<1>5. CASE owner[id] # a
  <2>1. FifoAt(a, k)'
    BY <1>1, <1>2, <1>3, <1>4, <1>5 DEF FifoAt
  <2>2. QED
    BY <2>1
<1>6. CASE owner[id] = a
  <2> HIDE DEF lane
  <2>1. /\ Append(lane, id) \in Seq(Ids) /\ Len(Append(lane, id)) = Len(lane) + 1
        /\ \A i \in 1..Len(lane) : Append(lane, id)[i] = lane[i]
        /\ Append(lane, id)[Len(lane) + 1] = id
    BY <1>2
  <2>2. SubSeq(Append(lane, id), k + 1, Len(lane) + 1) = Append(SubSeq(lane, k + 1, Len(lane)), id)
    BY <1>2, SubSeqOfAppend
  <2>3. \A i \in 1..k : i \in 1..Len(lane) /\ k \in 1..Len(lane)
    BY <1>2
  <2>4. FifoAt(a, k)'
    <3>1. Lane(a)' = Append(lane, id) /\ queue'[a] = Append(queue[a], id)
      BY <1>3, <1>4, <1>6
    <3>2. \A i \in 1..k : outcome[lane[i]] # "none" \/ (i = k /\ current[a] = lane[k])
      BY <1>1 DEF FifoAt, lane
    <3>3. \A i \in 1..k : outcome'[Lane(a)'[i]] # "none" \/ (i = k /\ current'[a] = Lane(a)'[k])
      BY <1>2, <2>1, <2>3, <3>1, <3>2
    <3>4. k \in 0..Len(Lane(a)') /\ queue'[a] = SubSeq(Lane(a)', k + 1, Len(Lane(a)'))
      <4>1. Len(Lane(a)') = Len(lane) + 1
        BY ONLY <2>1, <3>1
      <4>2. k \in 0..(Len(lane) + 1)
        BY ONLY <1>2
      <4>3. queue'[a] = SubSeq(Append(lane, id), k + 1, Len(lane) + 1)
        BY ONLY <1>2, <2>2, <3>1
      <4>4. QED
        BY ONLY <3>1, <4>1, <4>2, <4>3
    <3>5. QED
      BY <3>3, <3>4 DEF FifoAt
  <2>5. QED
    BY <2>4
<1>7. QED
  BY <1>5, <1>6

LEMMA WorkerPopFifo ==
  ASSUME TypeOK, CustodyInv, LaneFifo, NEW b \in Agents, WorkerPop(b), ~workersAborted
  PROVE  LaneFifo'
<1> SUFFICES ASSUME NEW a \in Agents PROVE \E k : FifoAt(a, k)'
  BY FifoFormNext
<1>1. PICK k : FifoAt(a, k)
  BY FifoForm
<1> DEFINE lane == Lane(a)
<1>2. /\ lane \in Seq(Ids) /\ Len(lane) \in Nat /\ Lane(a)' = lane
      /\ k \in 0..Len(lane) /\ queue[a] = SubSeq(lane, k + 1, Len(lane))
      /\ \A i \in 1..k : outcome[lane[i]] # "none" \/ (i = k /\ current[a] = lane[k])
  <2>1. Lane(a)' = lane
    BY DEF WorkerPop, Lane
  <2>2. lane \in Seq(Ids)
    BY LaneType
  <2> HIDE DEF lane
  <2>3. Len(lane) \in Nat
    BY <2>2
  <2>4. FifoAt(a, k) <=>
          /\ k \in 0..Len(lane) /\ queue[a] = SubSeq(lane, k + 1, Len(lane))
          /\ \A i \in 1..k : outcome[lane[i]] # "none" \/ (i = k /\ current[a] = lane[k])
    BY DEF FifoAt, lane
  <2>5. QED
    BY ONLY <1>1, <2>1, <2>2, <2>3, <2>4
<1>3. \A id \in Ids : outcome[id] # "none" => outcome'[id] # "none"
  BY DEF WorkerPop, TypeOK
<1>4. \A i \in 1..k : lane[i] \in Ids
  BY <1>2
<1>5. CASE a # b
  <2>1. queue'[a] = queue[a] /\ current'[a] = current[a]
    BY <1>5 DEF WorkerPop, TypeOK
  <2>2. FifoAt(a, k)'
    BY <1>2, <1>3, <1>4, <2>1 DEF FifoAt
  <2>3. QED
    BY <2>2
<1>6. CASE a = b
  <2> HIDE DEF lane
  <2>1. current[a] = 0 /\ queue[a] # <<>> /\ queue'[a] = Tail(queue[a]) /\ current'[a] = Head(queue[a])
    BY <1>6 DEF WorkerPop, CustodyInv, TypeOK
  <2>2. \A i \in 1..k : outcome[lane[i]] # "none"
    <3>1. \A i \in 1..k : lane[i] # 0
      BY ONLY <1>4 DEF Ids
    <3>2. QED
      BY ONLY <1>2, <2>1, <3>1
  <2>3. k < Len(lane)
    <3>1. k = Len(lane) => SubSeq(lane, k + 1, Len(lane)) = <<>>
      BY <1>2, SubSeqEmpty
    <3>2. QED
      BY <1>2, <2>1, <3>1
  <2>4. Head(queue[a]) = lane[k + 1] /\ Tail(queue[a]) = SubSeq(lane, k + 2, Len(lane))
    <3>1. k + 1 \in 1..Len(lane) /\ Len(lane) \in (k + 1)..Len(lane) /\ k + 1 + 1 = k + 2
      BY <1>2, <2>3
    <3>2. QED
      BY <1>2, <3>1, HeadTailOfSubSeq
  <2>5. \A i \in 1..(k + 1) : outcome'[lane[i]] # "none" \/ (i = k + 1 /\ current'[a] = lane[k + 1])
    BY <1>2, <1>3, <1>4, <2>1, <2>2, <2>4
  <2>6. FifoAt(a, k + 1)'
    BY <1>2, <2>1, <2>3, <2>4, <2>5 DEF FifoAt, lane
  <2>7. QED
    BY <2>6
<1>7. QED
  BY <1>5, <1>6

LEMMA StepFifo ==
  ASSUME IInv, CustodyInv, LaneFifo, [Next]_vars
  PROVE  LaneFifo'
<1> SUFFICES ASSUME ~workersAborted' PROVE LaneFifo'
  BY DEF LaneFifo
<1>1. TypeOK /\ ~workersAborted
  BY DEF IInv, TypeOK, Next, Submission, WorkerStep, Closing, vars, Issue, Admit, Refuse, Acknowledge,
     WorkerPop, WorkerExit, WorkerCommit, WorkerFail, WorkerRetire, WorkerSettle, WorkerCancelled,
     LoseLease, LoopFlushes, LoopDrops, LoopExits, CloseBegin, CloseAbort, CloseJoined, CloseCancelled, CloseGate, CloseFenced,
     CloseDurable, CloseIncomplete, CloseDropped
<1>2. ASSUME NEW id \in Ids, Admit(id) PROVE LaneFifo'
  BY <1>1, <1>2, AdmitFifo
<1>3. ASSUME NEW a \in Agents, WorkerPop(a) PROVE LaneFifo'
  BY <1>1, <1>3, WorkerPopFifo
<1>4. ASSUME NEW a \in Agents, WorkerStep(a), ~WorkerPop(a) PROVE LaneFifo'
  <2>1. ~WorkerCancelled(a)
    BY <1>1 DEF IInv, LanesInv, WorkerCancelled
  <2>2. UNCHANGED <<owner, queue, putLog>> /\ workersAborted' = workersAborted
    BY <1>1, <1>4, <2>1 DEF WorkerStep, WorkerExit, WorkerCommit, WorkerFail, WorkerRetire, WorkerSettle
  <2>3. \A id \in Ids : outcome[id] # "none" => outcome'[id] # "none"
    BY <1>1, <1>4, <2>1 DEF TypeOK, WorkerStep, WorkerExit, WorkerCommit, WorkerFail, WorkerRetire, WorkerSettle
  <2>4. \A b \in Agents : current'[b] = current[b] \/ outcome'[current[b]] # "none"
    BY <1>1, <1>4, <2>1 DEF TypeOK, IInv, JobInv, WorkerStep, WorkerExit, WorkerCommit, WorkerFail,
       WorkerRetire, WorkerSettle
  <2>5. QED
    BY <1>1, <2>2, <2>3, <2>4, FifoStays
<1>5. CASE \/ LoseLease \/ LoopFlushes \/ LoopDrops \/ LoopExits \/ Closing \/ Issue \/ UNCHANGED vars
           \/ \E id \in Ids : Refuse(id) \/ Acknowledge(id)
  <2>1. UNCHANGED <<owner, queue, putLog, workersAborted, outcome, current>>
    BY <1>5 DEF LoseLease, LoopFlushes, LoopDrops, LoopExits, BatchEnds, Closing, CloseBegin, CloseAbort, CloseJoined, CloseCancelled, CloseGate, CloseFenced,
       CloseDurable, CloseIncomplete, CloseDropped, SettleDeferred, StoreTakesLog, vars, Issue, Refuse, Acknowledge
  <2>2. QED
    BY <1>1, <2>1, FifoStays
<1>6. QED
  BY <1>2, <1>3, <1>4, <1>5 DEF Next, Submission

(***************************************************************************)
(* The stronger invariant, and what follows from it.                       *)
(***************************************************************************)
FullInv == IInv /\ CustodyInv /\ WithinBounds /\ LaneFifo

LEMMA InitFull == Init => FullInv
<1> SUFFICES ASSUME Init PROVE FullInv
  OBVIOUS
<1>1. IInv /\ TypeOK
  BY InitInv DEF IInv
<1>2. QueuedIds = {} /\ BusyLanes = {}
  BY <1>1, InQueue DEF InQueueFact, BusyLanes, Busy, Init
<1>3. Cardinality({}) = 0 /\ IsFiniteSet({}) /\ SizeOfAll({}) = 0
  BY FS_EmptySet, SizeOfAllEmpty
<1>4. CustodyInv
  <2> HIDE DEF SizeOfAll, QueuedIds, BusyLanes
  <2>1. QED
    BY <1>2, <1>3 DEF CustodyInv, Init
<1>5. WithinBounds
  <2>1. Cardinality(QueuedIds) + Cardinality({a \in Agents : Busy(a)}) <= QueueMax
    BY <1>2, <1>3, QueueAssumption DEF BusyLanes
  <2>2. SizeOfAll(QueuedIds) <= BytesMax
    BY <1>2, <1>3, QueueAssumption
  <2>3. \A a \in Agents : Len(queue[a]) + Held(a) <= LaneMax
    BY QueueAssumption DEF Init, Held, Busy
  <2> HIDE DEF SizeOfAll, QueuedIds
  <2>4. QED
    BY <2>1, <2>2, <2>3 DEF WithinBounds
<1>6. LaneFifo
  <2>1. ASSUME NEW a \in Agents PROVE FifoAt(a, 0)
    <3>1. Lane(a) = <<>>
      BY KeptEmpty DEF Lane, Init
    <3>2. SubSeq(<<>>, 1, 0) = <<>>
      OBVIOUS
    <3>3. QED
      BY <3>1, <3>2 DEF FifoAt, Init
  <2>2. QED
    BY <2>1, FifoForm
<1>7. QED
  BY <1>1, <1>4, <1>5, <1>6 DEF FullInv

LEMMA StepFull == FullInv /\ [Next]_vars => FullInv'
  BY StepInv, StepBounds, StepFifo DEF FullInv

(* The bounds hold of the jobs in custody: per lane, over all lanes, and   *)
(* in bytes.                                                               *)
THEOREM BoundsHold == Spec => []WithinBounds
<1>1. FullInv => WithinBounds
  BY DEF FullInv
<1>2. QED
  BY <1>1, InitFull, StepFull, PTL DEF Spec

(* A lane drains in the order in which its intents entered the log.        *)
THEOREM LanesAreFifo == Spec => []LaneFifo
<1>1. FullInv => LaneFifo
  BY DEF FullInv
<1>2. QED
  BY <1>1, InitFull, StepFull, PTL DEF Spec

=============================================================================
