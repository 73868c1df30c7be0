------------------------------ MODULE Receipts ------------------------------
(***************************************************************************)
(* The receipts of one write pipeline (src/src/writeq/receipts.rs): the    *)
(* table of outcomes with its retention window and its bound, the queue of *)
(* settled receipts not yet mentioned in a tool response, the answers of a *)
(* lookup, and the bounded waits of callers.                               *)
(*                                                                         *)
(* The pipeline around it is abstract: `jobs` are the accepted writes not  *)
(* yet run (WriteQueue has their lanes, IntentReplay the debts), a close   *)
(* reports a final flush that completed or did not. One action is one      *)
(* section under the receipts lock, or one step between two awaits.        *)
(***************************************************************************)
EXTENDS Integers, FiniteSets, SequencesExt, SequenceFilter

CONSTANTS
  Agents,        \* caller-asserted agent ids
  Dests,         \* sessions a receipt is delivered through
  Own,           \* this pipeline's own session
  Unknown,       \* the destination of a durable intent that names none
  Callers,       \* concurrent `lambo_stats(receipt, wait_ms)` calls
  AgentOf, DestOf, \* the agent and destination of each submission
  MaxSeq,        \* bound: receipts issued in one behaviour
  Foreign,       \* ids an earlier process issued, known from durable intents
  MaxRetained,   \* MAX_RETAINED_RECEIPTS
  QueueMax,      \* WRITE_QUEUE_MAX
  Retention,     \* RECEIPT_RETENTION, in ticks
  MaxClock,      \* bound: ticks of the clock
  Bounds,        \* what one behaviour explores: receipts, ticks, who asks and who waits
  WaitSlots,     \* MAX_CONCURRENT_RECEIPT_WAITS
  WaitShare      \* MAX_RECEIPT_WAITS_PER_AGENT

OwnIds == 1..MaxSeq
Ids    == OwnIds \cup Foreign

ASSUME ReceiptsAssumption ==
  /\ Own \in Dests /\ Unknown \notin Dests
  /\ AgentOf \in [OwnIds -> Agents] /\ DestOf \in [OwnIds -> Dests]
  /\ MaxSeq \in Nat /\ MaxClock \in Nat /\ Retention \in Nat
  /\ Foreign \subseteq Int /\ Foreign \cap OwnIds = {}
  /\ IsFiniteSet(Foreign)
  /\ QueueMax \in Nat /\ MaxRetained \in Nat /\ QueueMax <= MaxRetained
  /\ WaitSlots \in Nat /\ WaitShare \in Nat
  /\ Bounds \subseteq [seq : 0..MaxSeq, clock : 0..MaxClock,
                       ask : SUBSET Callers, wait : SUBSET Callers, piggyback : BOOLEAN]

VARIABLES
  bound,         \* the element of Bounds, fixed in Init
  receipts,      \* the struct Receipts, guarded by its lock
  restart,       \* answers for ids of earlier processes
  now,           \* the clock
  arriving,      \* admissions past the lanes lock, their receipt not yet entered
  jobs,          \* accepted writes the lanes still count, queued or running
  settling,      \* writes that ran and are counted off, their receipt not settled yet
  stage,         \* how far Memory::close has got
  deferred,      \* receipts abort_workers set aside
  settledAtClose,
  replaying,     \* a replayed id whose restart answer is not published yet
  notifying,     \* a notify_waiters call is still to be made
  call,          \* the callers
  lost,          \* history: writes that ran before their receipt was entered
  missed,        \* history: receipts whose upgrade a fetch of the answer before took out
  told,          \* history: settled answers told to the receipt's owner
  handed         \* history: how often a receipt was piggybacked

closeVars == <<stage, deferred, settledAtClose>>
pipeVars  == <<arriving, jobs, settling, closeVars, replaying, lost>>
callVars  == <<call, missed, told, handed>>
vars == <<bound, receipts, restart, now, pipeVars, notifying, callVars>>

None == 0 - 1    \* an unsettled entry's settled_at

Unsettled == {"pending", "pending_replay"}
\* "ran" stands for Applied and Failed, "replayed" for AppliedAfterRestart and
\* the Failed of a replay.
Outcomes  == {"ran", "replayed", "intent_durable", "close_unflushed", "dropped"}
IsSettled(ans) == ans \notin Unsettled

\* A receipt is bookkept for one agent and delivered through one session.
Entry(a, d, at, ans) == [agent |-> a, to |-> d, at |-> at, answer |-> ans]

-----------------------------------------------------------------------------
(***************************************************************************)
(* The operations of the struct. An operator named X_Y is a mutated form   *)
(* of X that no specification uses.                                        *)
(***************************************************************************)
Without(ids, gone) == Kept(ids, ToSet(ids) \ gone)

Forget(r, gone) ==
  [r EXCEPT !.entries = [id \in DOMAIN r.entries \ gone |-> r.entries[id]],
            !.order = Without(@, gone),
            !.undelivered = [a \in Agents |-> Without(r.undelivered[a], gone)]]

Evictable_Any(r, id) == TRUE
Evictable(r, id) == r.entries[id].at # None

InWindow(r, id, t) == r.entries[id].at # None /\ t - r.entries[id].at <= Retention

\* expire: from the oldest id up to the first that is settled and inside its
\* window; unsettled ids on the way are put back.
Expired(r, t) ==
  LET ids  == r.order
      stop == CHOOSE i \in 1..(Len(ids) + 1) :
                /\ \A j \in 1..(i - 1) : ~InWindow(r, ids[j], t)
                /\ i <= Len(ids) => InWindow(r, ids[i], t)
  IN {ids[j] : j \in {k \in 1..(stop - 1) : Evictable(r, ids[k])}}
Expire(r, t) == Forget(r, Expired(r, t))

\* evict: settled ids oldest first until the bound holds.
Evicted(r) ==
  LET settled == {i \in DOMAIN r.order : Evictable(r, r.order[i])}
      over    == Cardinality(DOMAIN r.entries) - MaxRetained
  IN {r.order[i] : i \in {k \in settled : Cardinality({j \in settled : j < k}) < over}}
Evict_Off(r) == r
Evict(r) == Forget(r, Evicted(r))

Queued(r, id, a) == [r EXCEPT !.undelivered[a] = Append(@, id)]

Insert(r, id, e) ==
  [r EXCEPT !.entries = [x \in DOMAIN r.entries \cup {id} |-> IF x = id THEN e ELSE r.entries[x]],
            !.order = Append(@, id)]

\* Entry::settle refuses a second answer.
Settles_Always(r, id) == id \in DOMAIN r.entries
Settles(r, id) == id \in DOMAIN r.entries /\ ~IsSettled(r.entries[id].answer)

Answered(r, id, ans) == [r EXCEPT !.entries[id] = Entry(@.agent, @.to, now, ans)]

\* Which receipts a close's settlement changes: an answer of an earlier,
\* failed attempt is upgraded by a completed flush.
Upgrades(r, id, flush) ==
  flush = "durable" /\ id \in DOMAIN r.entries /\ r.entries[id].answer = "close_unflushed"

SettledWith(flush) == IF flush = "durable" THEN "intent_durable" ELSE "close_unflushed"

\* settle_deferred, over the ids set aside in the order `ids`.
Deferred(r, ids, flush) ==
  FoldLeft(LAMBDA acc, id :
             IF ~(Settles(acc, id) \/ Upgrades(acc, id, flush)) THEN acc
             ELSE LET one == Answered(acc, id, SettledWith(flush))
                      a   == acc.entries[id].agent
                  IN IF Contains(acc.undelivered[a], id) THEN one ELSE Queued(one, id, a),
           r, ids)

\* lookup_for, after its sweep.
Lookup(r, a, d, id) ==
  IF id \in DOMAIN r.entries THEN
    IF r.entries[id].agent = a /\ r.entries[id].to = d
      THEN r.entries[id].answer ELSE "forbidden"
  ELSE IF id \in DOMAIN restart THEN
    IF restart[id].agent = a /\ restart[id].to = d
      THEN restart[id].answer ELSE "forbidden"
  ELSE IF id \notin OwnIds THEN "restart_lost"
  ELSE IF id > r.highestSeq THEN "never_issued"
  ELSE "expired"

\* take_piggyback_at_most: the first `most` of the agent's queue that are
\* delivered through d; the rest stays, in order.
Deliverable(r, a, d) == Kept(r.undelivered[a], {id \in DOMAIN r.entries : r.entries[id].to = d})
Taken(r, a, d, most) ==
  LET mine == Deliverable(r, a, d)
  IN {mine[i] : i \in 1..(IF Len(mine) > most THEN most ELSE Len(mine))}
Unqueued(r, a, gone) ==
  [r EXCEPT !.undelivered[a] = Without(@, gone)]

\* closed_to_settles
ClosedToSettles == stage # "open" /\ settledAtClose

\* A settled answer the caller was authorised to see takes the receipt out of
\* the piggyback queue.
Delivers_Any(ans) == ans # "forbidden"
Delivers(ans) == IsSettled(ans) /\ ans # "forbidden"

-----------------------------------------------------------------------------
Init ==
  /\ bound \in Bounds
  /\ receipts = [entries |-> [id \in {} |-> Entry(CHOOSE a \in Agents : TRUE, Own, None, "pending")],
                 order |-> <<>>, undelivered |-> [a \in Agents |-> <<>>], highestSeq |-> 0]
  /\ restart \in [Foreign -> [agent : Agents, to : Dests \cup {Unknown}, answer : {"pending_replay"}]]
  /\ now = 0
  /\ arriving = {} /\ jobs = {} /\ settling = {}
  /\ stage = "open" /\ deferred = {} /\ settledAtClose = FALSE
  /\ replaying = {} /\ notifying = FALSE
  /\ call \in [Callers -> [pc : {"idle"}, agent : Agents, to : {Own}, id : {0},
                           woken : {FALSE}, answer : {"pending"}]]
  /\ lost = {} /\ missed = {}
  /\ told = [id \in Ids |-> {}]
  /\ handed = [id \in Ids |-> 0]

\* admit: a receipt number, and the lanes' decision.
Admit ==
  LET id == receipts.highestSeq + 1 IN
  /\ id \in 1..bound.seq
  /\ receipts' = [receipts EXCEPT !.highestSeq = id]
  /\ \E refused \in BOOLEAN :
       /\ stage # "open" \/ Cardinality(jobs) >= QueueMax => refused
       /\ arriving' = arriving \cup {[id |-> id, at |-> now, refused |-> refused]}
       /\ jobs' = IF refused THEN jobs ELSE jobs \cup {id}
  /\ UNCHANGED <<bound, restart, now, settling, closeVars, replaying, lost, notifying, callVars>>

\* The tail of admit, under the receipts lock: a refusal is born settled.
Record(x) ==
  LET swept == Expire(receipts, x.at)
      held  == Insert(swept, x.id, Entry(AgentOf[x.id], DestOf[x.id], IF x.refused THEN x.at ELSE None,
                                         IF x.refused THEN "dropped" ELSE "pending"))
  IN
  /\ x \in arriving
  /\ arriving' = arriving \ {x}
  /\ receipts' = Evict(IF x.refused THEN Queued(held, x.id, AgentOf[x.id]) ELSE held)
  /\ UNCHANGED <<bound, restart, now, jobs, settling, closeVars, replaying, lost, notifying, callVars>>

\* A lane's worker has run a job: under the lanes lock the job's place is given
\* back, before the receipt knows.
Run(id) ==
  /\ id \in jobs /\ \A other \in settling : AgentOf[other] # AgentOf[id]
  /\ jobs' = jobs \ {id}
  /\ settling' = settling \cup {id}
  /\ UNCHANGED <<bound, receipts, restart, now, arriving, closeVars, replaying, lost, notifying, callVars>>

\* settle_one, by that worker: settle first, sweep second.
Settle(id) ==
  /\ id \in settling
  /\ settling' = settling \ {id}
  /\ receipts' = Expire(IF Settles(receipts, id)
                          THEN Queued(Answered(receipts, id, "ran"), id, receipts.entries[id].agent)
                          ELSE receipts, now)
  /\ lost' = IF id \in DOMAIN receipts.entries THEN lost ELSE lost \cup {id}
  /\ notifying' = TRUE
  /\ UNCHANGED <<bound, restart, now, arriving, jobs, closeVars, replaying, callVars>>

\* The replay settled a debt: a receipt whose destination is known gets an
\* entry, then the restart answer is published.
ReplaySettle(id) ==
  /\ stage = "open"
  /\ restart[id].answer = "pending_replay"
  /\ replaying = {}
  /\ replaying' = {id}
  /\ IF restart[id].to = Unknown THEN UNCHANGED receipts
     ELSE LET a    == restart[id].agent
              held == Queued(Insert(receipts, id, Entry(a, restart[id].to, now, "replayed")), id, a)
          IN receipts' = Evict(Expire(held, now))
  /\ UNCHANGED <<bound, restart, now, arriving, jobs, settling, closeVars, lost, notifying, callVars>>

ReplayPublish ==
  /\ \E id \in replaying : restart' = [restart EXCEPT ![id].answer = "replayed"]
  /\ replaying' = {}
  /\ notifying' = TRUE
  /\ UNCHANGED <<bound, receipts, now, arriving, jobs, settling, closeVars, lost, callVars>>

\* Memory::close, as far as receipts see it: it joins the replay, seals, aborts
\* the workers (none is stopped between a job's end and its settlement, which has
\* no await), waits out the writers' gate, and settles what it set aside once its
\* flush has reported. A failed close may be retried.
Seal ==
  /\ stage = "open" /\ replaying = {}
  /\ stage' = "sealed"
  /\ UNCHANGED <<bound, receipts, restart, now, arriving, jobs, settling, deferred, settledAtClose, replaying, lost, notifying, callVars>>

AbortWorkers ==
  /\ stage \in {"sealed", "failed"} /\ settling = {}
  /\ stage' = "aborted"
  /\ jobs' = {}
  /\ deferred' = deferred \cup
       {id \in DOMAIN receipts.entries : ~IsSettled(receipts.entries[id].answer)}
  /\ UNCHANGED <<bound, receipts, restart, now, arriving, settling, settledAtClose, replaying, lost, notifying, callVars>>

SettleDeferred(flush) ==
  /\ stage = "aborted" /\ arriving = {}
  /\ receipts' = Deferred(receipts, SetToSeq(deferred), flush)
  /\ deferred' = IF flush = "durable" THEN {} ELSE deferred
  /\ stage' = IF flush = "durable" THEN "settled" ELSE "unflushed"
  /\ UNCHANGED <<bound, restart, now, arriving, jobs, settling, settledAtClose, replaying, lost, notifying, callVars>>

\* The last lines of settle_deferred, after its settle block.
ReleaseWaits ==
  /\ stage \in {"settled", "unflushed"}
  /\ stage' = IF stage = "settled" THEN "closed" ELSE "failed"
  /\ settledAtClose' = TRUE
  /\ notifying' = TRUE
  /\ UNCHANGED <<bound, receipts, restart, now, arriving, jobs, settling, deferred, replaying, lost, callVars>>

Tick ==
  /\ now < bound.clock
  /\ now' = now + 1
  /\ UNCHANGED <<bound, receipts, restart, pipeVars, notifying, callVars>>

\* One response's piggyback.
TakePiggyback(a, d, most) ==
  LET swept == Expire(receipts, now)
      taken == Taken(swept, a, d, most)
  IN
  /\ bound.piggyback /\ taken # {}
  /\ receipts' = Unqueued(swept, a, taken)
  /\ told' = [id \in Ids |-> IF id \in taken THEN told[id] \cup {swept.entries[id].answer}
                             ELSE told[id]]
  /\ handed' = [id \in Ids |-> IF id \in taken THEN handed[id] + 1 ELSE handed[id]]
  /\ UNCHANGED <<bound, restart, now, pipeVars, notifying, missed, call>>

-----------------------------------------------------------------------------
(***************************************************************************)
(* A call of lambo_stats for one receipt. `pc` says what it does next:     *)
(* claim the agent's share, claim a slot, enable its Notified, look up,    *)
(* look at the close, sleep, look up a last time, mark delivered.          *)
(***************************************************************************)
Holding == {"slot", "enable", "look", "check", "sleep", "final"}
Slotted == Holding \ {"slot"}
ShareHeld(a) == Cardinality({c \in Callers : call[c].agent = a /\ call[c].pc \in Holding})
SlotsHeld    == Cardinality({c \in Callers : call[c].pc \in Slotted})

Goto(c, pc) == call' = [call EXCEPT ![c].pc = pc]

\* Every lookup sweeps first. Its answer ends the call when it is settled, and
\* unconditionally when the call does not wait (any longer).
Answer(c, id, waits) ==
  LET swept == Expire(receipts, now)
      ans   == Lookup(swept, call[c].agent, call[c].to, id)
      ends  == IsSettled(ans) \/ ~waits
  IN
  /\ receipts' = swept
  /\ call' = [call EXCEPT ![c].answer = ans, ![c].id = id,
                          ![c].pc = IF ends THEN "answered" ELSE "check"]
  /\ told' = IF ends /\ ans \in Outcomes
               THEN [told EXCEPT ![id] = @ \cup {ans}] ELSE told
  /\ UNCHANGED <<bound, restart, now, pipeVars, notifying, missed, handed>>

\* notify_waiters wakes the calls whose Notified is registered: enable() does
\* that before the lookup, awaiting the future alone would do it after.
Registered_WhenAwaited == {"sleep"}
Registered == {"look", "check", "sleep"}

\* A caller asks about a receipt it was handed: its submission has answered.
Acked(id) == id \in Foreign \/ (id <= receipts.highestSeq /\ \A x \in arriving : x.id # id)

Ask(c, id) ==
  /\ call[c].pc = "idle" /\ Acked(id)
  /\ \/ c \in bound.wait
        /\ call' = [call EXCEPT ![c].pc = "claim", ![c].id = id]
        /\ UNCHANGED <<bound, receipts, restart, now, pipeVars, notifying, missed, told, handed>>
     \/ c \in bound.ask /\ Answer(c, id, FALSE)

ClaimShare(c) ==
  /\ call[c].pc = "claim"
  /\ IF ShareHeld(call[c].agent) < WaitShare
       THEN Goto(c, "slot")
            /\ UNCHANGED <<bound, receipts, restart, now, pipeVars, notifying, missed, told, handed>>
       ELSE Answer(c, call[c].id, FALSE)

ClaimSlot(c) ==
  /\ call[c].pc = "slot"
  /\ IF SlotsHeld < WaitSlots
       THEN Goto(c, "enable")
            /\ UNCHANGED <<bound, receipts, restart, now, pipeVars, notifying, missed, told, handed>>
       ELSE Answer(c, call[c].id, FALSE)

Enable(c) ==
  /\ call[c].pc = "enable"
  /\ call' = [call EXCEPT ![c].pc = "look", ![c].woken = FALSE]
  /\ UNCHANGED <<bound, receipts, restart, now, pipeVars, notifying, missed, told, handed>>

Look(c) ==
  /\ call[c].pc = "look"
  /\ Answer(c, call[c].id, TRUE)

\* The deadline passed while the call was looking.
LookLate(c) ==
  /\ call[c].pc = "look"
  /\ Answer(c, call[c].id, FALSE)

Check(c) ==
  /\ call[c].pc = "check"
  /\ Goto(c, IF ClosedToSettles THEN "final" ELSE "sleep")
  /\ UNCHANGED <<bound, receipts, restart, now, pipeVars, notifying, missed, told, handed>>

Wake(c) ==
  /\ call[c].pc = "sleep" /\ call[c].woken
  /\ Goto(c, "enable")
  /\ UNCHANGED <<bound, receipts, restart, now, pipeVars, notifying, missed, told, handed>>

TimeOut(c) ==
  /\ call[c].pc = "sleep"
  /\ Goto(c, "final")
  /\ UNCHANGED <<bound, receipts, restart, now, pipeVars, notifying, missed, told, handed>>

Final(c) ==
  /\ call[c].pc = "final"
  /\ Answer(c, call[c].id, FALSE)

\* The response is assembled: mark_delivered_for, in a lock of its own.
MarkDelivered(c) ==
  LET id == call[c].id
      mine == /\ id \in DOMAIN receipts.entries
              /\ receipts.entries[id].agent = call[c].agent
              /\ receipts.entries[id].to = call[c].to
  IN
  /\ call[c].pc = "answered"
  /\ receipts' = IF Delivers(call[c].answer) /\ mine
                   THEN Unqueued(receipts, call[c].agent, {id}) ELSE receipts
  /\ missed' = IF /\ Delivers(call[c].answer) /\ mine
                   /\ Contains(receipts.undelivered[call[c].agent], id)
                   /\ call[c].answer = "close_unflushed"
                   /\ receipts.entries[id].answer = "intent_durable"
                 THEN missed \cup {id} ELSE missed
  /\ call' = [call EXCEPT ![c].pc = "idle", ![c].id = 0, ![c].woken = FALSE, ![c].answer = "pending"]
  /\ UNCHANGED <<bound, restart, now, pipeVars, notifying, told, handed>>

\* A call may be cancelled at any await; the share and the slot go with it.
Cancel(c) ==
  /\ call[c].pc = "sleep"
  /\ call' = [call EXCEPT ![c].pc = "idle", ![c].id = 0, ![c].woken = FALSE, ![c].answer = "pending"]
  /\ UNCHANGED <<bound, receipts, restart, now, pipeVars, notifying, missed, told, handed>>

Notify ==
  /\ notifying
  /\ notifying' = FALSE
  /\ call' = [c \in Callers |-> IF call[c].pc \in Registered
                                  THEN [call[c] EXCEPT !.woken = TRUE] ELSE call[c]]
  /\ UNCHANGED <<bound, receipts, restart, now, pipeVars, missed, told, handed>>

Round(c) == Enable(c) \/ Look(c) \/ Check(c) \/ Wake(c) \/ Final(c) \/ MarkDelivered(c)

Next ==
  \/ Admit
  \/ \E x \in arriving : Record(x)
  \/ \E id \in jobs : Run(id)
  \/ \E id \in settling : Settle(id)
  \/ \E id \in Foreign : ReplaySettle(id)
  \/ ReplayPublish
  \/ Seal \/ AbortWorkers
  \/ \E flush \in {"durable", "incomplete"} : SettleDeferred(flush)
  \/ ReleaseWaits
  \/ Tick
  \/ \E a \in Agents, d \in Dests, most \in 1..2 : TakePiggyback(a, d, most)
  \/ \E c \in Callers :
       \/ \E id \in Ids : Ask(c, id)
       \/ ClaimShare(c) \/ ClaimSlot(c) \/ LookLate(c) \/ TimeOut(c) \/ Cancel(c)
       \/ Round(c)
  \/ Notify

Spec == Init /\ [][Next]_vars

\* A runnable task of the runtime is polled, and the code after a settle runs on
\* to its notify_waiters. No deadline is assumed to pass.
Fairness ==
  /\ \A c \in Callers : WF_vars(Round(c))
  /\ WF_vars(Notify) /\ WF_vars(ReplayPublish) /\ WF_vars(ReleaseWaits)
  /\ WF_vars(SettleDeferred("incomplete") \/ SettleDeferred("durable"))

FairSpec == Spec /\ Fairness
-----------------------------------------------------------------------------
(***************************************************************************)
(* Properties.                                                             *)
(***************************************************************************)
\* J3-R1-3 (receipts.rs:869): a write that is queued or running is never swept,
\* however old it is and however many refusals push it out, so its outcome has a
\* receipt to land on and nobody is told `expired` about a live write.
LiveWriteKeepsReceipt ==
  \A id \in jobs \cup settling :
    \/ id \in DOMAIN receipts.entries /\ receipts.entries[id].answer = "pending"
    \/ \E x \in arriving : x.id = id

\* What enters the table leaves it within MAX_RETAINED_RECEIPTS, because what
\* cannot be evicted is bounded by the queue (receipts.rs:925). Two kinds of entry
\* are not: one whose write ran before it was inserted, which nothing settles
\* before a close does, and one whose place in the queue is free before its receipt
\* is settled (execution.rs:731), at most one per lane.
Retained ==
  [][ \/ DOMAIN receipts'.entries \subseteq DOMAIN receipts.entries
      \/ Cardinality(DOMAIN receipts'.entries \ (lost \cup settling)') <= MaxRetained ]_vars

\* The answer a held receipt has now was told to its owner or waits to be
\* (receipts.rs:1125): no interleaving of a fetch, a piggyback, a settlement and a
\* retried close takes it out of the queue unsaid, but one: a fetch that read
\* close_unflushed before the retried close upgraded the receipt marks the upgrade
\* delivered (receipts.rs:1234).
SettledIsTold ==
  \A id \in DOMAIN receipts.entries :
    LET e == receipts.entries[id] IN
    e.at # None => \/ e.answer \in told[id]
                   \/ Contains(receipts.undelivered[e.agent], id)
                   \/ id \in missed

\* Take-once (receipts.rs:1138), and one story per receipt: a receipt is
\* piggybacked once, or twice when a retried close upgraded it, and the only two
\* answers an owner may be told one after the other are those of that upgrade.
OneStory ==
  \A id \in Ids :
    /\ handed[id] <= IF {"close_unflushed", "intent_durable"} \subseteq told[id] THEN 2 ELSE 1
    /\ Cardinality(told[id]) <= 1 \/ told[id] = {"close_unflushed", "intent_durable"}

\* A wait on a receipt that has settled, or that a close leaves unsettled, ends
\* without its deadline (receipts.rs:1077): a debt the close stopped used to hold
\* its caller for the whole RECEIPT_WAIT_MAX, and a notification between the look
\* and the registration (receipts.rs:1063) would do the same.
Over(c) ==
  \/ settledAtClose
  \/ call[c].id # 0 /\ IsSettled(Lookup(receipts, call[c].agent, call[c].to, call[c].id))
WaitEnds ==
  \A c \in Callers : (call[c].pc = "sleep" /\ Over(c)) ~> (call[c].pc \in {"idle", "answered"})
=============================================================================
