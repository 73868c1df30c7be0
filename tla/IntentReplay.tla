---------------------------- MODULE IntentReplay ----------------------------
(***************************************************************************)
(* The life of a durable write intent across restarts (src/src/writeq/):   *)
(* an acknowledged write enters the mutation log as an intent before it is *)
(* applied; its commit carries the intent's consumption; what a serve      *)
(* crashed on, ran out of time for, or had no embedder for, the next serve *)
(* of the session loads and replays, one intent at a time.                 *)
(*                                                                         *)
(* One serve runs at a time and SessionLease says why its predecessor can  *)
(* write no more.  WriteQueue has the lanes in detail and WriteBehind the  *)
(* flush; here a lane is a FIFO with one consumer, and a batch is a prefix *)
(* of the log, sent again until its success is heard or it is dropped.  A  *)
(* log entry is what one hold of the graph lock appended.  The effect of a *)
(* write is named by the serve that applied it, so that applying it twice  *)
(* shows, and sending the same batch twice does not.                       *)
(*                                                                         *)
(* An operator named X_Y is a mutated form of X, used only to check that a *)
(* property depends on X.                                                  *)
(***************************************************************************)
EXTENDS Integers, FiniteSets, SequencesExt

CONSTANTS
  Agents,
  MaxReceipt,      \* bound: receipts issued in one behaviour
  MaxServe,        \* bound: serves of the session, one after the other
  Owner,           \* the agent of each receipt
  SickThreshold,   \* EMBEDDER_SICK_THRESHOLD
  LookupLimit      \* REPLAY_LOOKUP_TIMEOUT_LIMIT

Ids == 1..MaxReceipt
Serves == 1..MaxServe

ASSUME ReplayAssumption ==
  /\ MaxReceipt \in Nat /\ MaxServe \in Nat
  /\ Owner \in [Ids -> Agents]
  /\ SickThreshold \in Nat \ {0} /\ LookupLimit \in Nat \ {0}

VARIABLES
  \* the serve of the session
  up,              \* down, up, or closing
  serve,           \* how many serves there have been
  fenced,          \* lease_lost
  \* submission and lanes
  nextSeq,         \* receipts issued; (issued_ms, lane_seq) orders them so
  issuer,          \* the serve that issued each, 0 for none yet
  jobs,            \* jobs waiting, per lane
  \* the graph and its log
  graph,           \* the serves whose application of each write it holds
  log,
  sent,            \* how much of the log a batch not yet confirmed has stored
  \* the store
  intent,          \* the write_intents row of each receipt
  rows,            \* the serves whose application of each write is durable
  \* the replay task
  replay,          \* its program counter
  todo,            \* the intents it was spawned with and has not passed yet
  streak, lookups, \* transient_streak, lookup_streak
  verdict,         \* what became of the intent it has tried
  blocked,         \* replay_blocked
  owed,            \* replay_owed
  restart          \* the answers for receipts of earlier serves

serveVars  == <<up, serve, fenced>>
laneVars   == <<nextSeq, issuer, jobs>>
graphVars  == <<graph, log, sent>>
storeVars  == <<intent, rows>>
streakVars == <<streak, lookups>>
replayVars == <<replay, todo, streakVars, verdict, blocked, owed, restart>>
vars == <<serveVars, laneVars, graphVars, storeVars, replayVars>>

Consumed == {"applied", "applied_after_restart", "failed"}
Reasons  == {"none", "embedder", "other"}

-----------------------------------------------------------------------------
(* Log entries and what the store makes of them.                           *)

Entry == [id : Ids, put : BOOLEAN, write : BOOLEAN, tag : Consumed \cup {"none"}]

Put(id) == <<[id |-> id, put |-> TRUE, write |-> FALSE, tag |-> "none"]>>

\* consume_write_intent on its own, for a refusal.
Refused(id) == <<[id |-> id, put |-> FALSE, write |-> FALSE, tag |-> "failed"]>>

\* WriteCtx::run: the write and the consumption under one hold.
Applied_TwoHolds(id, tag) ==
  <<[id |-> id, put |-> FALSE, write |-> TRUE, tag |-> "none"],
    [id |-> id, put |-> FALSE, write |-> FALSE, tag |-> tag]>>
Applied(id, tag) == <<[id |-> id, put |-> FALSE, write |-> TRUE, tag |-> tag]>>

\* Consumed rows older than the retention go with the next consumption, and
\* age is not modelled: any of them may.
Purgeable_Any == {id \in Ids : intent[id] # "none"}
Purgeable == {id \in Ids : intent[id] \in Consumed}

\* One batch, one transaction: intents are upserted, consumptions update the
\* row there is, writes are upserts of what this serve's graph holds.
StoreTakes(batch) ==
  LET of(id) == {e \in ToSet(batch) : e.id = id}
      tags(id) == {e.tag : e \in of(id)} \ {"none"}
      put(id) == \E e \in of(id) : e.put
      row(id) == IF put(id) THEN "owed" ELSE intent[id]
      some == \E e \in ToSet(batch) : e.tag # "none"
  IN  /\ \E old \in SUBSET (IF some THEN Purgeable ELSE {}) :
           intent' = [id \in Ids |->
             IF row(id) # "none" /\ tags(id) # {} THEN CHOOSE t \in tags(id) : TRUE
             ELSE IF id \in old /\ ~put(id) THEN "none"
             ELSE row(id)]
      /\ rows' = [id \in Ids |->
           IF \E e \in of(id) : e.write THEN rows[id] \cup {serve} ELSE rows[id]]

-----------------------------------------------------------------------------
Init ==
  /\ up = "down" /\ serve = 0 /\ fenced = FALSE
  /\ nextSeq = 0 /\ issuer = [id \in Ids |-> 0] /\ jobs = [a \in Agents |-> <<>>]
  /\ graph = [id \in Ids |-> {}] /\ log = <<>> /\ sent = 0
  /\ intent = [id \in Ids |-> "none"] /\ rows = [id \in Ids |-> {}]
  /\ replay = "none" /\ todo = {}
  /\ streak = 0 /\ lookups = 0 /\ verdict = "none" /\ blocked = "none" /\ owed = 0
  /\ restart = [id \in Ids |-> "absent"]

-----------------------------------------------------------------------------
(* A serve attaches: load_session and spawn_replay.                        *)

Owed == {id \in Ids : intent[id] = "owed"}

\* A consumed row older than the retention is not seeded; a debt of any age is.
Forgettable_Any == {id \in Ids : intent[id] # "none"}
Forgettable == {id \in Ids : intent[id] \in Consumed}

\* The answer a loaded row is seeded with.
Seeded_AllApplied(row) ==
  CASE row = "none" -> "absent"
    [] row = "owed" -> "pending_replay"
    [] OTHER        -> "applied_after_restart"
Seeded(row) ==
  CASE row = "none"   -> "absent"
    [] row = "owed"   -> "pending_replay"
    [] row = "failed" -> "failed"
    [] OTHER          -> "applied_after_restart"

Attach ==
  /\ up = "down" /\ serve < MaxServe
  /\ up' = "up" /\ serve' = serve + 1
  /\ graph' = rows
  /\ todo' = Owed
  /\ replay' = IF Owed = {} THEN "none" ELSE "probing"
  /\ owed' = Cardinality(Owed)
  /\ \E old \in SUBSET Forgettable :
       restart' = [id \in Ids |-> IF id \in old THEN "absent" ELSE Seeded(intent[id])]
  /\ UNCHANGED <<fenced, laneVars, log, sent, storeVars, streakVars, verdict, blocked>>

-----------------------------------------------------------------------------
(* This serve's own writes.                                                *)

\* An accepted call: the intent enters the log, the job its lane.
Admit ==
  LET id == nextSeq + 1 IN
  /\ up = "up" /\ ~fenced /\ nextSeq < MaxReceipt
  /\ nextSeq' = id
  /\ issuer' = [issuer EXCEPT ![id] = serve]
  /\ jobs' = [jobs EXCEPT ![Owner[id]] = Append(@, id)]
  /\ log' = log \o Put(id)
  /\ UNCHANGED <<serveVars, graph, sent, storeVars, replayVars>>

\* The lane's worker commits its front job (after the fence too, if it had
\* looked before it; none of that is flushed).
WorkerApplies(a) ==
  /\ up # "down" /\ jobs[a] # <<>>
  /\ LET id == Head(jobs[a]) IN
       /\ graph' = [graph EXCEPT ![id] = @ \cup {serve}]
       /\ log' = log \o Applied(id, "applied")
  /\ jobs' = [jobs EXCEPT ![a] = Tail(@)]
  /\ UNCHANGED <<serveVars, nextSeq, issuer, sent, storeVars, replayVars>>

\* Any refusal but an embedder outage consumes the intent.
WorkerRefused(a) ==
  /\ up # "down" /\ jobs[a] # <<>>
  /\ log' = log \o Refused(Head(jobs[a]))
  /\ jobs' = [jobs EXCEPT ![a] = Tail(@)]
  /\ UNCHANGED <<serveVars, nextSeq, issuer, graph, sent, storeVars, replayVars>>

\* An outage, or the fence: the intent is left to the next serve.
WorkerLeaves(a) ==
  /\ up # "down" /\ jobs[a] # <<>>
  /\ jobs' = [jobs EXCEPT ![a] = Tail(@)]
  /\ UNCHANGED <<serveVars, nextSeq, issuer, graphVars, storeVars, replayVars>>

-----------------------------------------------------------------------------
(* The flush.                                                              *)

\* A batch holds all that an attempt before it held, and what was drained
\* since.
Batches_Part == 1..Len(log)
Batches == (IF sent = 0 THEN 1 ELSE sent)..Len(log)

\* The attempt commits; whether the loop hears of it is another step.
FlushCommits ==
  /\ up # "down" /\ ~fenced
  /\ \E k \in Batches :
       /\ StoreTakes(SubSeq(log, 1, k))
       /\ sent' = k
  /\ UNCHANGED <<serveVars, laneVars, graph, log, replayVars>>

FlushConfirmed ==
  /\ up # "down" /\ sent > 0
  /\ log' = SubSeq(log, sent + 1, Len(log))
  /\ sent' = 0
  /\ UNCHANGED <<serveVars, laneVars, graph, storeVars, replayVars>>

\* A dead letter, or the drops of a degraded session.
BatchDropped ==
  /\ up # "down"
  /\ \E k \in Batches : log' = SubSeq(log, k + 1, Len(log))
  /\ sent' = 0
  /\ UNCHANGED <<serveVars, laneVars, graph, storeVars, replayVars>>

-----------------------------------------------------------------------------
(* The replay.                                                             *)

Ended(reason) == replay' = "ended" /\ blocked' = reason

IsNext(id) == id \in todo /\ \A other \in todo : id <= other

\* One embed gates the loop.
ProbeAnswers ==
  /\ replay = "probing"
  /\ replay' = "top"
  /\ UNCHANGED <<serveVars, laneVars, graphVars, storeVars, todo, streakVars, verdict,
                 blocked, owed, restart>>

ProbeFails ==
  /\ replay = "probing"
  /\ Ended("embedder")
  /\ UNCHANGED <<serveVars, laneVars, graphVars, storeVars, todo, streakVars, verdict, owed,
                 restart>>

\* The top of the loop: the fence is looked at before an intent is taken, and
\* not again while it runs.
ReplayTakes ==
  /\ replay = "top" /\ todo # {} /\ ~fenced
  /\ replay' = "running"
  /\ UNCHANGED <<serveVars, laneVars, graphVars, storeVars, todo, streakVars, verdict, blocked,
                 owed, restart>>

\* The backlog is through, or the lease was lost.
ReplayDone ==
  /\ replay = "top" /\ (todo = {} \/ fenced)
  /\ Ended(blocked)
  /\ UNCHANGED <<serveVars, laneVars, graphVars, storeVars, todo, streakVars, verdict, owed,
                 restart>>

\* Strictly one at a time, in the order of issue.
Trying(id) == replay = "running" /\ IsNext(id)

\* The commit. Its debt is counted off, and its answer given, later.
ReplayApplies(id) ==
  /\ Trying(id)
  /\ graph' = [graph EXCEPT ![id] = @ \cup {serve}]
  /\ log' = log \o Applied(id, "applied_after_restart")
  /\ replay' = "committed" /\ verdict' = "applied_after_restart"
  /\ streak' = 0 /\ lookups' = 0
  /\ UNCHANGED <<serveVars, laneVars, sent, storeVars, todo, blocked, owed, restart>>

ReplayCounts ==
  /\ replay = "committed"
  /\ owed' = owed - 1
  /\ replay' = "reporting"
  /\ UNCHANGED <<serveVars, laneVars, graphVars, storeVars, todo, streakVars, verdict,
                 blocked, restart>>

\* A failure is counted off at once, and consumes its intent in a hold of the
\* graph lock of its own.
CountedFailed == owed' = owed - 1 /\ replay' = "refusing" /\ verdict' = "failed"

\* A refusal. One that came from the embedder (embedded) shows that it
\* answers; a refused row, reference or cycle does not.
ReplayRefused(id) ==
  /\ Trying(id)
  /\ CountedFailed
  /\ \E embedded \in BOOLEAN : streak' = IF embedded THEN 0 ELSE streak
  /\ UNCHANGED <<serveVars, laneVars, graphVars, storeVars, todo, lookups, blocked, restart>>

\* Too many in a row end the loop.
TooMany(n, limit) == n >= limit

\* A lookup timeout is the intent's last attempt.
ReplayLookupTimesOut(id) ==
  /\ Trying(id)
  /\ lookups' = lookups + 1
  /\ IF TooMany(lookups', LookupLimit)
     THEN Ended("other") /\ UNCHANGED <<owed, verdict>>
     ELSE CountedFailed /\ UNCHANGED blocked
  /\ UNCHANGED <<serveVars, laneVars, graphVars, storeVars, todo, streak, restart>>

ReplayConsumes(id) ==
  /\ replay = "refusing" /\ IsNext(id)
  /\ log' = log \o Refused(id)
  /\ replay' = "reporting"
  /\ UNCHANGED <<serveVars, laneVars, graph, sent, storeVars, todo, streakVars, verdict,
                 blocked, owed, restart>>

\* The embedder is out: the intent is left durable, and the loop goes on with
\* the next one.
ReplayOutage(id) ==
  /\ Trying(id)
  /\ streak' = streak + 1
  /\ IF TooMany(streak', SickThreshold)
     THEN Ended("embedder") /\ UNCHANGED todo
     ELSE todo' = todo \ {id} /\ replay' = "top" /\ UNCHANGED blocked
  /\ UNCHANGED <<serveVars, laneVars, graphVars, storeVars, lookups, verdict, owed, restart>>

\* A store error, or a configuration that cannot apply the intent.
ReplayBlocked(id) ==
  /\ Trying(id)
  /\ Ended("other")
  /\ UNCHANGED <<serveVars, laneVars, graphVars, storeVars, todo, streakVars, verdict, owed,
                 restart>>

\* The receipt's answer, last of all.
ReplayReports(id) ==
  /\ replay = "reporting" /\ IsNext(id)
  /\ restart' = [restart EXCEPT ![id] = verdict]
  /\ todo' = todo \ {id}
  /\ replay' = "top" /\ verdict' = "none"
  /\ UNCHANGED <<serveVars, laneVars, graphVars, storeVars, streakVars, blocked, owed>>

-----------------------------------------------------------------------------
(* The ends of a serve.                                                    *)

LoseLease ==
  /\ up # "down" /\ ~fenced
  /\ fenced' = TRUE
  /\ UNCHANGED <<up, serve, laneVars, graphVars, storeVars, replayVars>>

\* close stops the replay first, at one of its awaits (there is none between
\* an intent's outcome and its answer), and seals the lanes.
CloseStopsReplay ==
  /\ up = "up" /\ replay \notin {"committed", "refusing", "reporting"}
  /\ up' = "closing"
  /\ replay' = IF replay \in {"probing", "top", "running"} THEN "ended" ELSE replay
  /\ UNCHANGED <<serve, fenced, laneVars, graphVars, storeVars, todo, streakVars, verdict,
                 blocked, owed, restart>>

\* What a serve kept in memory goes with it.
Forgotten ==
  /\ up' = "down" /\ fenced' = FALSE
  /\ jobs' = [a \in Agents |-> <<>>]
  /\ graph' = [id \in Ids |-> {}] /\ log' = <<>> /\ sent' = 0
  /\ replay' = "none" /\ todo' = {}
  /\ streak' = 0 /\ lookups' = 0 /\ verdict' = "none" /\ blocked' = "none" /\ owed' = 0
  /\ restart' = [id \in Ids |-> "absent"]
  /\ UNCHANGED <<serve, nextSeq, issuer>>

\* The workers are joined, their jobs left to the next serve, and the final
\* flush takes the whole log. A close that fails may be called again.
CloseFlushes ==
  /\ up = "closing" /\ ~fenced
  /\ StoreTakes(log)
  /\ Forgotten

\* A crash, a dropped handle, or a fenced close.
Crash ==
  /\ up # "down"
  /\ Forgotten
  /\ UNCHANGED storeVars

-----------------------------------------------------------------------------
ReplayStep ==
  \/ ProbeAnswers \/ ProbeFails \/ ReplayTakes \/ ReplayDone \/ ReplayCounts
  \/ \E id \in todo :
       \/ ReplayApplies(id) \/ ReplayRefused(id) \/ ReplayLookupTimesOut(id)
       \/ ReplayOutage(id) \/ ReplayBlocked(id) \/ ReplayConsumes(id) \/ ReplayReports(id)

Next ==
  \/ Attach \/ Admit
  \/ \E a \in Agents : WorkerApplies(a) \/ WorkerRefused(a) \/ WorkerLeaves(a)
  \/ FlushCommits \/ FlushConfirmed \/ BatchDropped
  \/ ReplayStep
  \/ LoseLease \/ CloseStopsReplay \/ CloseFlushes \/ Crash

Spec == Init /\ [][Next]_vars

-----------------------------------------------------------------------------
(* Correctness                                                             *)

TypeOK ==
  /\ up \in {"down", "up", "closing"} /\ serve \in 0..MaxServe /\ fenced \in BOOLEAN
  /\ nextSeq \in 0..MaxReceipt
  /\ issuer \in [Ids -> 0..MaxServe]
  /\ jobs \in [Agents -> Seq(Ids)]
  /\ graph \in [Ids -> SUBSET Serves] /\ rows \in [Ids -> SUBSET Serves]
  /\ log \in Seq(Entry) /\ sent \in 0..Len(log)
  /\ intent \in [Ids -> Consumed \cup {"none", "owed"}]
  /\ replay \in {"none", "probing", "top", "running", "committed", "refusing", "reporting",
                 "ended"}
  /\ todo \subseteq Ids
  /\ streak \in 0..SickThreshold /\ lookups \in 0..LookupLimit
  /\ verdict \in Consumed \cup {"none"}
  /\ blocked \in Reasons
  /\ owed \in 0..MaxReceipt
  /\ restart \in [Ids -> {"absent", "pending_replay", "applied_after_restart", "failed"}]

\* The double-apply consume_write_intent excludes: however serves crash,
\* retry, drop batches and replay, the effect of an acknowledged write is
\* applied at most once, in the graph and in the store.
AppliedOnce == \A id \in Ids : Cardinality(graph[id]) <= 1 /\ Cardinality(rows[id]) <= 1

\* What the store says of an intent agrees with what it holds of its write: a
\* debt has no effect yet, a consumed one has exactly the one its tag says.
DurableAgrees ==
  \A id \in Ids :
    /\ intent[id] \in {"owed", "failed"} => rows[id] = {}
    /\ intent[id] \in {"applied", "applied_after_restart"} => rows[id] # {}

\* A debt in the store is only ever settled there: by its effect, or by a
\* refusal on record. No purge, drop, crash or restart takes it away.
DebtKept ==
  [][\A id \in Ids :
       intent[id] = "owed" =>
         intent'[id] \in {"owed", "failed"} \/ rows'[id] # {}]_vars

\* What a serve answers for a receipt of its predecessors: applied only if its
\* graph holds the write, failed and still owed only if it does not (but for
\* the stretch between the replay's commit and its answer).
AnswersAreTrue ==
  up # "down" =>
    \A id \in Ids :
      /\ restart[id] = "applied_after_restart" => graph[id] # {}
      /\ restart[id] = "failed" => graph[id] = {}
      /\ restart[id] = "pending_replay" =>
           graph[id] = {} \/ (replay \in {"committed", "reporting"} /\ IsNext(id))

\* Its outcome is settled and counted off, its answer is not given yet.
Decided(id) == replay \in {"refusing", "reporting"} /\ IsNext(id)

\* A debt that a serve loaded is never answered as lost, and the depth it
\* reports is the number of those still answered as pending but for the one
\* decided and not yet answered, never more than one out: no crash, fence,
\* outage or stop of the replay makes the two drift apart.
DebtsAreAnswered ==
  /\ up # "down" =>
       \A id \in Owed : issuer[id] < serve => restart[id] # "absent"
  /\ up # "down" =>
       owed = Cardinality({id \in Ids : restart[id] = "pending_replay" /\ ~Decided(id)})

-----------------------------------------------------------------------------
(* types/mod.rs, WriteIntent: "Replay preserves order within an agent's      *)
(* intents (the lane promise)". Then a replay that has passed an intent and  *)
(* left it owed would have applied no later one of the same lane.            *)
LaneOrder ==
  \A i, j \in Ids :
    /\ i < j /\ Owner[i] = Owner[j] /\ issuer[i] = issuer[j] /\ issuer[j] < serve
    /\ serve \in graph[j]
    => ~(restart[i] = "pending_replay" /\ i \notin todo)

=============================================================================
