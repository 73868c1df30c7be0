# TLA+ models of lambo

lambo is a memory for agents: a typed graph per session, kept in memory by one
`lambo serve` process, written behind to a SQL store, and read by ranked recall.
This directory holds TLA+ models of its concurrent core, the TLC runs that check
them on small instances, and TLAPS proofs of the results that hold for every
instance. Paths below are relative to `src/src/`.

## 1. The system

| Component | State it keeps | Operations | Modelled in |
|---|---|---|---|
| Write pipeline (`writeq/admission.rs`, `execution.rs`, `drain.rs`) | lanes: a FIFO and at most one worker per agent, counters, seal and abort flags | admit, run, fail, retire, quiesce, abort, settle | `WriteQueue` |
| Receipts (`writeq/receipts.rs`) | one entry per receipt, delivery marks, wait slots | insert, settle, look up, wait, piggyback, expire, evict | `Receipts`; settlement also in `WriteQueue` |
| Durable intents and replay (`writeq/replay.rs`, `graph/graph/mutation_log.rs`) | `write_intents` rows, the replay task, restart answers | record, consume, load, seed, replay, purge | `IntentReplay` |
| Flush loop (`store/flush.rs`, `graph/graph/*.rs`) | mutation log, access counts, unflushed set, pending batch, lag, degradation | tick, poll, drain, attempt, confirm, dead-letter, degrade, stop | `WriteBehind` |
| Close (`memory/shutdown.rs`) | custody of handles and of the tail | gate, stop tasks, drain, final flush, release | all four, each for the state it has |
| Lease and fence (`store/lease.rs`, `memory/leases.rs`, `memory/builder.rs`, `store/pg/*.rs`) | the lease row and its token, a heartbeat per handle, `lease_lost` | acquire, refresh, release, expire, fence a write | `SessionLease`, abstractly `SessionCustody` |
| Erasure (`store/erase.rs`, `mcp/serve/registry/erase.rs`) | the tombstone | erase held, erase free | `SessionLease`, and from the serve's side `ServeRegistry` |
| Store adapters (`store/sqlite`, `store/memory.rs`, `store/pg`) | rows | batches, loads | as a contract |
| Tiered index (`store/tiered`) | a projection of the vectors | project, search, repair | no |
| Graph operations (`graph/*.rs`) | nodes, edges, citations, reservations | derive, cite, demote, reserve | no (the log they append is) |
| Canonization (`canon`) | concepts' status, rings' cursors, a plan, records | gather, ask, apply, record; root goal, restart | `Canonization` |
| Daemon (`daemon`) | scores, hot list | GC, conflict, drift | its GC sweep in `Canonization` |
| Recall (`recall`) | caches | rank, assemble | no (its access counts are) |
| Serve registry (`mcp/serve/registry.rs`, `registry/*.rs`) | a slot per session, permits, places, negative answers, tasks in flight | route, attach, evict, retry, detach, erase, shut down | `ServeRegistry` |
| Serve roles, hub, proxy, server (`mcp`) | endpoint, frames, HTTP sessions | elect, forward, fail over | no (the shutdown is in `ServeRegistry`) |
| Session split, CLI, web, embedders, config, ledger | — | — | no |

How they meet. A tool call enters through the submission gate (`memory/gate.rs`)
and is answered with a receipt as soon as its job is queued and its intent is in
the mutation log. A lane's worker applies the job under the graph lock and, in
the same hold, appends the effect and the intent's consumption to the log. The
flush loop drains the log into batches; one batch is one store transaction,
fenced by the lease token the handle got when it attached. The heartbeat keeps
the lease and latches `lease_lost` when it learns that somebody else has it;
every writer looks at that latch. A close seals the pipeline, stops the tasks,
drains what is left and gives the lease back. After a crash the next serve loads
the session and replays the intents that nothing consumed. A serve keeps many
sessions, attaches them for the requests that ask for them and takes them down
again. Beside all this a canonization task moves concepts up and down a ladder of
trust, and records each hop directly in the store, in addition to the log.

What makes it hard: a job, a worker that is about to leave and an admission race
for a lane; a close may be cancelled at any await and called again; an attempt
that timed out may have committed; the fence can fall between any two steps; a
second process can take the session while the first is in the middle of a write;
a crash can come between a write and the record that it was made. `hazards` in
`PROJECT.json` lists these at the lines where they bite.

What would make each part correct:

* pipeline: the bounds hold of real jobs and not only of counters; no job is
  stranded, lost, repeated or run out of order; a close ends, and when it says Ok
  nothing that was logged is on its way any more; a settled receipt is final;
* flush: nothing leaves custody without being stored or counted as dropped;
  order is kept; the unflushed set and the lag never claim too much;
* lease: no write lands from a graph that has missed one; nobody else ends a
  lease; an erased session stays empty;
* replay: a write takes effect at most once; a debt is never lost; what a receipt
  of an earlier process answers is true;
* receipts: the table is bounded but never forgets a live write; an outcome is told
  to its owner, once, and without contradiction; a wait ends when it can;
* registry: no more handles than places; a session's new handle waits for the old
  one; a release never hits a handle that is in use; an erase is alone with its
  session; every attach ends, and so does the shutdown;
* canonization: no hop is lost; the durable status follows the hops; the budget and
  the pair rule hold whatever changed between question and answer; the ring is fair.

## 2. Modules

`WriteQueue`, `WriteBehind`, `SessionLease`, `IntentReplay`, `Receipts`, `ServeRegistry` and
`Canonization` are specifications of components, each with an `...MC` module that gives
the constants their values for TLC. `SessionCustody` is the abstract specification that
`SessionLease` implements. `SequenceFilter` is the filter of a sequence that `WriteQueue`
and `Receipts` use (`retain` of a queue), as a function of the prefix, so that it can be
reasoned about. The `...Proofs` modules hold the proofs, and `DataInduction` the facts
about finite sets, sequences, sums and folds they share.

In all of them an action is one critical section of the code or one stretch
between two awaits. Operators named `X_Y` are mutated forms of `X` that no
specification uses; they exist to show that a property depends on `X`.

### WriteQueue: lanes, workers, close

State: the lanes as in `Lanes` (`queue`, `handles`, the four counters, `sealed`,
`workersAborted`, `settledAtClose`, `closeDeferred`), a program counter per worker
(`task`), the receipts' answers, and per receipt how far its intent and its effect
have come (`none`, `logged`, `durable`, or `dropped` with a batch that the flush loop
gave up), which is all of the log that this module needs. Of the flush loop it has
what it does to the log: a batch, all that is logged when the loop drains, ends in the
store (`LoopFlushes`) or is given up (`LoopDrops`: a constraint, a degraded session, the
fence, an erasure), and the loop ends when it is fenced or told to stop (`LoopExits`).
`Admit` is the code under the graph and lanes locks; `Acknowledge` the
receipt's entry made afterwards; `WorkerPop`, `WorkerCommit` or `WorkerFail`,
`WorkerRetire`, `WorkerSettle` and `WorkerExit` are the worker's loop. A close is
`CloseBegin`, `CloseAbort` (the timeout of the quiesce, which also takes the case
of an idle pipeline), `CloseJoined`, then `CloseFenced` or `CloseGate`, which is past the
close's one look at the fence and stops the flush loop; the lease can be lost
afterwards too. With the loop down `CloseDurable` takes what is left of the log, which
may be nothing, or `CloseIncomplete` fails to; `CloseCancelled` and `CloseDropped` are the
drops of its future. A job that was aborted may still finish its synchronous
stretch, so the worker's actions stay enabled after the abort and
`WorkerCancelled` is an alternative to them.

### WriteBehind: flush loop, unflushed set, stats, final flush

State: the log as a sequence of mutations named by their place, the epoch that
stamps them, access counts, `unflushed` as epochs, the loop's program counter and
its pending batch, the store's content and watermark, the fence and heartbeat,
the steps of the close and its tail. `Attempt` commits or not, and `FlushOk`,
`FlushRetained` and `FlushDeadLettered` are what the loop hears, independent of
each other where the code allows it (a timeout after a commit). History variables
`deadLettered`, `shed` and `shedAcc` record what was dropped, so that the
properties can say "nothing else is missing". Time is left out: a tick, a poll or
the end of a back-off may come whenever the code would take it.

### SessionLease and SessionCustody

State: the lease row `[holder, token, live]`, the durable content as the sequence
of its authors, and per process its phase, token, fence latch, heartbeat, and the
content its graph holds. `WriteBegins` is the fence check, which takes the row lock of
`FOR SHARE`; `WriteCommits` the commit; nothing that changes the row runs between
the two. A lease lapses (`Lapse`) whenever it likes, which stands for every stall
and clock. `StrayRefresh` is a refresh already sent when its task was aborted.
The module models the Postgres adapter at READ COMMITTED, the weakest of the
three; SQLite and the in-memory store serialise more.

`SessionCustody` says what all this is for: durable writes are made in epochs, by
the one writer of the epoch, and an erased session is empty for ever.
`ImplementsCustody` is the refinement: the epoch is the row's token, the writer
the handle that is attached with that token, and a squatting handle (section 5)
is no writer.

### IntentReplay: intents across serves

State: receipts and lanes (a FIFO with one consumer), the graph and the log of the
present serve, the store's rows, and the replay task. Serves follow one another;
that a predecessor can write nothing more is what `SessionLease` shows, and is
taken as given here. The effect of a write is named by the serve that applied it,
so that a double application has two names and a batch sent twice does not. A log
entry is what one hold of the graph lock appended. `Batches` is what an attempt
may hold: all that an unconfirmed attempt before it held, and more. Consumed rows
may be purged at any consumption, age being left out. What the replay does with one
intent is three steps, as other tasks can see them: a commit and then its counting off
(`ReplayApplies`, `ReplayCounts`), or a failure counted off and then consumed
(`ReplayRefused` or `ReplayLookupTimesOut`, `ReplayConsumes`), and last the answer of its
receipt (`ReplayReports`). A crash, the fence and the flush may come between any two of
them; a close may not, since it aborts the replay, which has no await there.

### Receipts: the table, its readers and its waits

State: `receipts` is `struct Receipts` with its lock, `restart` the answers for ids of
earlier processes, `jobs` the accepted writes that have not run (the pipeline is
abstract here), `stage` the steps of a close that receipts notice, `call` the callers
of `lambo_stats(receipt, wait_ms)`. `Record` is the tail of an admission; a worker that has
run a job first gives its place in the queue back (`Run`) and then settles its receipt
(`Settle`, which is `settle_one`), and between the two an admission may take the place;
`ReplaySettle` and `ReplayPublish` the two halves of a replayed settlement,
`SettleDeferred` and `ReleaseWaits` those of a close. A wait claims its share and its
slot, registers (`Enable`), looks, checks the close and sleeps; `Notify` wakes the calls
that are registered. `lost`, `missed`, `told` and `handed` are history.

Four things the model shows that no property forbids: a fetch that reads
`close_unflushed` and marks its receipt delivered after a retried close upgraded it
takes the upgrade's notice out of the queue (`missed`, the one exception of
`SettledIsTold`); receipts enter `order` in the order of
their lock, not of their ids, so eviction is oldest first only up to a race of two
admissions; an entry whose outcome was lost (section 5) stays until a close; and the
table may pass its bound by one entry per lane, while a receipt whose job is counted off
is not settled yet. The constants of the code leave four times the queue's bound for
the table, so there this last one costs nothing; the run sets both to one, and
`Retained` names the exception.

### ServeRegistry: the sessions of one serve

State: `slot` is the registry's map, `flight`, `retry`, `detach` and `erase` the tasks that
take a session up or down, each with how far it is, `permits` the attach semaphore,
`previous` the old handles the registry waits for, `mem` the session's handle that is not
closed, `row` its lease row seen from this process, `request` the requests in flight,
`closeSet` what the shutdown took. One action is what one task does between two
awaits. `AttachStep`, `RetryStep`, `DetachStep`, `EraseStep` and `ShutdownStep` are the code
in their order; `OtherTakes`, `OtherLeaves` and `Refresh` are the rest of the world.

Abstracted: a request that waits for an attach comes back through the router, so
it has no state of its own; deadlines may pass at any moment, except that a
negative answer outlives the background release it covers (30 s against 2 s);
`choose_victim` takes any evictable session, which stands for every order of last
use; permits are not FIFO; the policy on a lost lease is the detach.

### Canonization: evaluator, hops, two ways to the store

State: the graph's side (`status`, `contra`, `goal`, `hops`, `trail`, `log`), the flush's
`batch`, the store's (`row`, `audit`) and the evaluator's (`pc`, `plan`, `cursor`, `streak`,
`toRecord`). `Gather` is phase 1 under the read guard, `Apply` phases 2 and 3: the
store's answers are a free choice among the probes of the plan, and what still holds
is applied to the graph of now; `StoreFails` is the path on which only Stage 1 lands.
`RecordNext` and `RecordStops` are phase 4. `Create`, `Bump`, `Sweep`, `SetRootGoal` and
`Contradict` change the graph between the phases. `Drain` puts the log behind what an
earlier cycle retained; `Flush` writes the whole batch or, when a hop finds no row of its
concept (`Refused`), nothing; it may commit and lose its answer. `DropBatch` is the loop
giving up its batch: a dead letter, a degraded session, the fence or an erasure, after
each of which the graph and the evaluator go on; `dropped` remembers the hops that were in
it. `Restart` is a crash and a load.

Abstracted: the policy is Swarm's; evidence counts are a free choice of verdicts;
hops of one stage take ids in node order; the GC's protections by score, live
correction and cap are a free choice of what a sweep spares; the contradictions'
own durability, and a batch that outlives its process (`SessionLease` fences it). `Create`
and `Contradict` are, of a derive and of a citation, the one step that the evaluator can
see.

## 3. Runs

| Run | Checks | Bounds | States |
|---|---|---|---|
| `writequeue` | `WithinBounds LaneHasWorker LaneFifo ClosedLeavesNothing AckedIsKept SettledAnswerIsFinal JobRuns CloseEnds` | 3 receipts, 2 lanes, every bound 2 | 356 k |
| `writequeue_lost_outcome` | `OutcomeReported` (violated) | 1 receipt | — |
| `writebehind` | `InCustodyInOrder StoredInOrder UnflushedCovers StatsAreHonest OkMeansWritten AccessesKept CloseEnds` | 3 mutations, log and batch bound 2, 1 access per concept | 507 k |
| `writebehind_fenced_ok` | `OkAlwaysMeansWritten` (violated) | 1 mutation | — |
| `session_lease` | `WriterSeesAll LeaseKept ImplementsCustody` | 2 processes, 4 tokens, 2 writes | 1.2 M |
| `session_lease_squat` | `NeverSquats` (violated) | 3 tokens, 1 write | — |
| `intent_replay` | `AppliedOnce DurableAgrees AnswersAreTrue DebtsAreAnswered DebtKept` | 3 receipts, 2 lanes, 3 serves, limits 2 | 1.4 M |
| `intent_replay_order` | `LaneOrder` (violated) | 2 receipts, 2 serves | — |
| `receipts` | `LiveWriteKeepsReceipt Retained SettledIsTold OneStory WaitEnds` | 2 receipts and a debt, table and queue bound 1, 2 callers | 444 k |
| `serve_registry` | `PlacesBound ErasesAlone ExitIsClean OldHandleFirst LeaseOutlivesHandle AttachEnds ExitComes` | 1 pinned and 3 on-demand sessions, 2 places, 2 permits | 111 k |
| `canonization` | `NoHopLost RowIsNewest FairRing BudgetKept OneOfAPair` | 4 concepts, 2 to 4 hops | 655 k |
| `canonization_regress` | `ReplayNeverRegresses` (violated) | the same | — |

Why these bounds. Lanes meet only in the shared bounds and in the close, so two
lanes and three receipts give a full lane, a full queue behind another lane, a
bytes refusal, and a lane that empties and fills again; one lane of three shows
order. One receipt meets all that a close, the fence and the flush loop can do. With two,
the loop's batches end while the close waits for it, and on two lanes nothing fails; the
third, which is there to fill the bounds, is issued only where the lease is kept, no close
fails and the loop drains nothing, and on two lanes where no close begins (`Calm`). In `WriteBehind` three mutations
overrun a log bound and a batch bound of two, and an intent between two writes of
one concept tells positions and epochs apart; reads are explored beside one
mutation (`ReadsOrWrites`), with more dirty than the access budget admits. Two
processes and four tokens let a session change hands twice and then be erased.
Three serves let a debt survive one restart, be replayed in the next and be
answered in the third; limits of two let a streak be broken once before it ends the
loop.

The last three components have parts that meet little, and their configurations
are a union of slices, one element of `Bounds` or `Setups` each, fixed in `Init`.
`Receipts`: a clock, a fetch and piggybacks over two receipts and a debt; one waiting
call; two waiting calls of one or of two agents at a limit of one. `ServeRegistry`:
three attaches over two places with a shutdown; the retry, an attach and an erase
over two permits; one on-demand and one pinned session with erases, another process
and, for the first, attaches that die; two sessions and an erase. `Canonization`: one
concept lifted by a root goal, or created, with bumps, a collection, deaths and
restarts; two Canonicals over a budget of one, through demotion, cooldown and
return; a ring of Venerables with inflow and outflow; rivals that contradict each
other under a full budget; windows held in place by the probe cap. In slices
without a flush the direct records all succeed, and hops are given up with one
batch at most (`Focus` of `CanonizationMC`).

The bounds on receipts, mutations, tokens, writes, serves, hops and edits are guards of
the actions that count them; the systems may therefore stop, and a closed system has
nothing left to do, so the configurations turn the deadlock check off. `JobRuns`,
`CloseEnds`, `WaitEnds`, `AttachEnds` and `ExitComes` look for a stuck system.

Fairness. `WriteQueue` assumes weak fairness of each worker's steps (a spawned
task is polled, and `HYBRID_IO_TIMEOUT` bounds a job's embeds and store calls),
of a call between its admission and its answer (there is no await between them),
of a flush loop that was stopped or fenced (its `select!` takes those before any tick)
and of a close that somebody awaits. It assumes none of cancellations, losses of
the lease or new calls. `WriteBehind` assumes weak fairness of the loop's own
steps, of an attempt's end (`with_op_timeout`) and of the close; ticks, fences,
failures and writes are never assumed. `Receipts` assumes that a runnable call is polled
and that the code behind a settlement runs on to its `notify_waiters`; not that a
deadline passes, so `WaitEnds` is about notifications. `ServeRegistry` assumes that a
running task goes on and that its deadline passes when nothing else happens
(`ATTACH_TIMEOUT`, `LEASE_RELEASE_GRACE`, the shutdown's bounds); not that a permit is
granted, a lease obtained or a request answered. `Canonization` has no liveness
property: its fairness is `FairRing`, a bound on overtaking. No property assumes that
the store ever answers.

## 4. Proofs

`tlapm` checks `DataInduction` and the seven `...Proofs` modules; the results hold for
all constants that satisfy the modules' assumptions, hence for any number of agents,
receipts, processes, tokens and bounds. Every safety invariant and every action property of
the runs that pass is a theorem.

**DataInduction.** The library states induction with an operator as a parameter, which
the provers cannot instantiate. Its theorem that strict inclusion of the subsets of a
finite set is well-founded has none: a non-empty set of such subsets has a minimal
member (`MinimalSubset`). From that follow the least number of a set, induction along an
interval, and what recursive definitions over finite sets and sequences compute: a fold
takes its elements one by one (`FoldChain`), the members of a finite order have ranks
without gaps (`Ranks`), a sum does not depend on the order in which it is taken
(`AnyOrder`), and a filter keeps what it should, in order (`KeptElements`, `KeptAppend`).

**WriteQueueProofs.** `IInv` is `TypeOK` with three parts. `LanesInv`: before a
close aborts the workers, the lanes with a handle are exactly those with a live
task, and a non-empty lane has one; afterwards the lanes are sealed and empty.
This is what makes `LaneHasWorker` inductive: without it a worker could leave
between the handle's removal and its own exit. `CloseInv` says that every task that
outlived the abort is owed a join by the close that holds it or by the next, so
that `flushing` and `closed` imply that no task is left, and that after an Ok the flush
loop is down as well and nothing is left in the log: nobody who could add to it or hold a
part of it outlives the flush. `JobInv` relates each job's
intent, effect, outcome and answer. From it follow `TypeCorrect`,
`JobsHaveWorkers`, `CloseIsComplete`, `AckedWritesAreKept` and `AnswersAreFinal`.
`FullInv` adds `CustodyInv`: until a close aborts the workers, `queued`, `running` and
`bytes` are the number of jobs that wait, of workers that hold one and the sum of the
sizes of the jobs that wait, and each lane holds each of its receipts once. So what the
counters admit is what is really there (`BoundsHold`); counters alone could be within
bounds and wrong. `LanesAreFifo` compares a lane with its owner's part of the order in
which the intents entered the log: an admission appends to both, a worker takes the
first of what is left.

**SessionLeaseProofs.** `IInv` is `TypeOK` with `TokensInv` (no two handles that ever
attached have the same token, and none has a token above the row's), `TxsInv` (an
open transaction is the current writer's), `ViewInv` (the current writer, once
loaded, has seen all of the content) and `TombstoneInv`. `ViewInv` needs `TxsInv`, because
a commit moves the content under everybody else's feet, and `TxsInv` needs
`TokensInv`, because the fence compares tokens only. `WritersSeeAll`, `LeasesAreKept` and
`Refinement` (every step of the lease is a step of custody or a stutter) follow, and
with them what the refinement is for: `AtMostOneWriter`, and `ErasedStaysEmpty`, which
takes the step of the refinement to show that nothing undoes an erasure.

**IntentReplayProofs.** `IInv` is `TypeOK` and the three invariants to be proved
(`DurableAgrees`, `AnswersAreTrue`, `DebtsAreAnswered`) with seven parts. `LogInv`: what a log
entry says of a write agrees with the graph, and a consumption is the last word on
its intent, no job and no replay of it is left. `PutInv`: an intent's entry comes before
its consumption, and while it is in the log its write is in the store only through an
attempt that was not confirmed; this is what makes a batch that is sent again and
re-opens a consumed row harmless, since the consumption follows in the same batch.
`GraphInv`: the store's rows are in the graph, and each write is there once. `JobsInv`
and `IssueInv`: a waiting job is of the present serve and without effect, a debt that
is replayed of an earlier one, so that a worker and the replay never have the same
intent. `ReplayInv` ties what the replay has decided and not answered yet to the graph,
which the count of debts needs too (`DebtsAreAnswered`: of the pending answers one may be
counted off already); and `DownInv`
says that a serve that is down keeps nothing but the store. `StoreStep`, about one
batch, is the lemma the flush and the close share. From `IInv` follow `TypeCorrect`,
`WritesApplyOnce`, `RecordsAgree`, `AnswersHold`, `DebtsAreKnown` and `DebtsAreKept`, for any
number of serves, crashes, lost or repeated batches and any thresholds. That no two
serves overlap is the module's premise (section 2), not a conclusion.

**WriteBehindProofs.** A mutation that is appended is in the log, the loop's batch, a
close's tail, the store, or was dropped. `PlacesInv`: the tail and the batch are never
both in use, since the final steps of a close run without the loop; `OrderInv`: the
three places are in order of append, batch before log, and with the store and what was
dropped make up all that was appended. `InCustodyInOrder` is these two. `EpochInv`: what
the loop has not drained came after its drain and after its batch's epoch, so that a
commit marks no more durable than it wrote. `MarksInv`, which implies
`UnflushedCovers`: the mark of a concept whose latest write is missing is pinned or that
write's epoch; a weaker "there is a mark" would not survive the retirement of the marks
up to an epoch. `ShedInv`: a loop that lives sheds only when degraded; with it a close
that answers Ok has written everything (`OkMeansWritten`). `AppliedInv` (an attempt the
store committed without telling), `CountsInv` and `LagInv` complete it. The theorems are
about `Spec`: the restriction of the run's instance to reads or writes plays no part.

**ServeRegistryProofs.** `IInv` is `TypeOK` and, for each session, `Sound`: the slot names
the one task that may be at work (`SlotInv`), which permit is held and by whom
(`PermitInv`), who will close an open handle (`MemInv`), what an erase past its claim
relies on (`EraseInv`), that nothing attaches while a dead attach's lease is released
(`ReleaseInv`), why a request with an old handle keeps the session shut (`StaleInv`) and
what a shutdown with every permit has left (`ClosedInv`). Every action works on one
session and leaves the others `Untouched`, so the proof is one lemma per action about
that session and one about the rest. `PlacesInv` counts the places: an attach that waits
for its victim has the place that the victim still counts for, and no two wait for the
same; the argument is about the cardinality of the set of sessions that count.
`ErasesAlone`, `ExitIsClean`, `LeaseOutlivesHandle`, `OldHandleFirst` and `PlacesBound` follow.

**CanonizationProofs.** What one application of verdicts may choose decides two results,
with next to no invariant: `BudgetKept` is arithmetic over the sets of promotions and
demotions, whatever the graph became since the plan was made; `OneOfAPair` follows from
the order in which two Canonicals that contradict only each other outrank one another.

`RingInv` is about distances round the ring, from the concept that is watched. While it
waits, a window that moves on goes towards it and not past it, so that whom such windows
have evaluated lies behind the cursor and is not met again: `RingIsFair`. The waiting
counts from the concept's own evaluation, through windows that a deferral, a skipped
speculation or a failure of the store puts back. It begins anew when the concept was
deferred by the hold's cap and its window is forced on past it after
`MAX_HOLD_DEFERRALS`: the code then gives up the concept's turn, and the claim without that
exception is false, since a failing store can use up the probes' rotation meanwhile. So a
concept that is deferred and passed again and again is not excluded, nor is a window that
stays for as long as the store fails (`eval.rs:449`, which does not count).

`StoreInv` follows the hops on their two ways to the store. `Carried`: a hop of the trail
is audited, pending or was in a batch the loop gave up, and nothing else is pending as
one. `Ordered`: hops are pending in the order of their ids, and nothing of a concept after
its deletion. `Graves`: a deleted
row belongs to a collected concept, and a batch that is sent again, with older writes of
it, ends in the deletion again (`DeadStayBuried`). `InSequence` and `Current`: of a concept
whose direct records came in the order of its hops, every hop still to come is newer than
those the audit holds, and the row shows the newest of these. (With a hop that was dropped
the audit has a gap, and its direct record may come when the next hop is audited already:
that too makes the concept `overtaken`.) A flush is a fold of one mutation at a time over the store, so
its lemma has an invariant of its own, `Midway`, of the store after the first `k` mutations
of the batch: what of `StoreInv` is about the store, except that a row which a batch sent
again has brought back may be stale until that batch deletes it. `HopsReachTheStore` and
`RowsStayNewest` follow. The module assumes of its constants that the concepts are
numbered, that `MAX_HOLD_DEFERRALS` is at least 1 and that the setups are well-formed.

**ReceiptsProofs.** A write that has not run has a pending entry or an arrival that will
make one, until a close aborts the queue; from then on no write is left. A sweep and an
eviction remove settled receipts only. `LiveWritesAreHeld` follows.

`BooksInv` is the rest. `Sound`: the order, the entries and the owners' queues agree
(`TableIsSound`). `Story`: each entry's tale, that is what its owner was told of it and how
often it was handed, given its answer and whether it waits in its owner's queue; nothing
is told before it settles, and only an upgrade by a retried close tells twice. From it
follows `OutcomesAreTold`, and with what is kept of entries that are gone
`OwnersHearOneStory`. `Fresh` (a receipt that is not entered has no tale, nor a debt that is
not settled) and `Debts` (a debt has one outcome) keep entries from arriving with a past;
`Calls`: what a call in flight takes out of a queue was told, or is gone for good.
`Space`: until a close aborts the queue, the accepted receipts that have not settled are
jobs of the queue, but for those whose outcome was lost and those counted off and about to
be settled, and the queue is no larger than the table; so a table over its bound has a
settled receipt to give up (`TableIsBounded`). That an upgrade is told needs to know of the
fetches that read the answer before it: `Story` gives them the exception that
`SettledIsTold` names.
`settle_deferred` is a fold over the receipts set aside, and `DeferredCloses` says what it
makes of the table and the tales, by the claim that every step of it preserves.

Only model-checked are the liveness properties (`JobRuns`, `CloseEnds` of `WriteQueue` and of
`WriteBehind`, `WaitEnds`, `AttachEnds`, `ExitComes`): they need ENABLED and fairness, which
these provers do not do. No proof takes anything beyond the modules' named assumptions.

## 5. Where code and documentation disagree

* `writequeue_lost_outcome`: `admit` makes the receipt's entry after it released the
  locks under which the job became visible. A fast worker can finish the job
  first; its outcome is dropped (`settle_one` finds no entry), and the receipt stays
  pending although `execution.rs:450` says that such a job always settles.
* `writebehind_fenced_ok`: `close()` looks at the fence once. A loop fenced after
  that drops its batch, and `close()` finds an empty tail and says Ok, where its doc
  says Ok always means that the tail is written.
* `session_lease_squat`: a refresh is an acquire. On a row that expired or was
  released it mints a new token, the heartbeat takes the answer for its own lease,
  and the handle goes on, unfenced, with a token that every write is refused for.
* `intent_replay_order`: a replay that meets a transient outage leaves that intent
  and goes on with the next of the same lane.
* `canonization_regress`: a hop that reaches only the log (a root goal, a cycle whose
  store query failed, a record phase cut short) can be flushed after the direct
  record of the next hop of the same concept. Its id is new to the audit, so its
  UPDATE runs over the newer status, and the newer hop's own replay is then skipped
  as known. `RowIsNewest` is what does hold: of every concept no hop of which was
  overtaken that way.

Smaller ones that no run states: the comment at `memory/shutdown.rs:855`, "every set-aside
intent was taken by an earlier flush, so it is durable", is false when the batch it was in
was dead-lettered or dropped, and its caller is told `intent_durable` of a write that is
gone (`WriteQueue` reaches this; `AckedIsKept` and `ClosedLeavesNothing` say that nothing
else is lost under an Ok); a batch with a canonization hop whose concept has no row is
refused whole (`store/pg/write_rows.rs:499`) and retained, so that it goes on failing until
the session degrades, although no retry can mend it; the insert of flush stats checks for the tombstone
without a lock on the lease row (`store/pg/persistence.rs:243`), so an erase can leave a
stats row behind (`ErasedLeavesNothing` of `SessionLease` states it);
`ReplayBlockReason::None` is documented as "drained, never owed, or not attempted"
(`counters.rs:88`), but a replay that ended on the fence, or on fewer outages than the
threshold at the end of the backlog, leaves it with debts owed;
`EMBEDDER_SICK_THRESHOLD` counts outages "with nothing answered in between"
(`replay.rs:48`), but a lookup timeout, which an answering embedder precedes, does not
reset the count; an in-session worker consumes an intent as failed on a store error that
the replay would leave durable.

## 6. Not modelled

* Real time: TTLs, intervals, budgets and back-offs are nondeterministic.
* In the registry: requests that enter an endpoint without the slots' lock, the gap
  between the spawn of a detach and its entry in the task set, a close that outlives
  its grace, a panic between admission and the end of the flight, an abandoned
  acquire that lands after its release, the death of the whole process.
* In canonization: a store without the capability a query needs, the solo policy's
  bands, attribution of evidence, the reports (`explain`, `dry_run`, `similar`); and an
  application that fails half way (`canon/eval.rs:953`, `1050`, `1082`): its causes are a
  blast radius beyond `i32::MAX` and a transition from a status that the same hold of the
  guard has just looked at.
* What becomes of a receipt whose intent was in a batch that the loop gave up: nobody is
  told, in the code or in the models (`WriteQueue` counts it out by name).
* Two handles of one agent in one process, which share a holder name; the
  off-lease `seed`; the endpoint that a lease row advertises.
* What a batch contains beyond the order and identity of its mutations; SQL
  dialects and serialization retries.
* The components marked "no" in section 1. Recall, embedders, rendering and the
  CLI are pure or I/O and have little for a model checker; the others are planned.

## 7. Plan

Built, in this order: `WriteQueue`, `WriteBehind`, `SessionLease` over `SessionCustody`,
`IntentReplay` (the path of a write from its caller to the store and over a crash), then
`Receipts`, `ServeRegistry` and `Canonization`.

Left, most important first:

1. `Proxy`: a client's requests over a holder's death and a takeover.
2. `Graph`: acyclicity, citation and reservation operators as pure functions
   against reference definitions.
3. `Tiered`: divergence and repair of the recall index. `SessionSplit`: a restart
   after a partial run.
