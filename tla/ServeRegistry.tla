---------------------------- MODULE ServeRegistry ----------------------------
(***************************************************************************)
(* The sessions of one serve process: mcp/serve/registry.rs with           *)
(* registry/on_demand.rs and registry/erase.rs. Pinned sessions are        *)
(* attached from the start and retried in the background; the others are   *)
(* attached by the first request for them, within max_attached, and        *)
(* detached when idle, evicted or out of their lease. An admin may erase   *)
(* a session, and a shutdown takes them all.                               *)
(*                                                                         *)
(* A session has one slot, and everything that takes it up or down runs on *)
(* a task of its own over several awaits: an attach (flight, or retry for  *)
(* a pinned one), a detach, an erase. An action here is what one of them   *)
(* does between two awaits. Time is left out: every deadline may pass at   *)
(* any moment, except that a negative answer outlives the release that an  *)
(* attach which died left behind (30 s against 2 s).                       *)
(*                                                                         *)
(* A request that waits for an attach comes back through the router when   *)
(* the attach has ended, so only the requests in flight have a state.      *)
(***************************************************************************)
EXTENDS Integers, FiniteSets

CONSTANTS
  Pinned,        \* sessions the configuration pins
  OnDemand,      \* sessions that attach on demand
  Creds,         \* credentials that reach past the pinned sessions
  NoCred,        \* the owner of a session no credential attached
  NoVictim,      \* an attach that evicts nobody
  Requests,      \* requests that may be in flight at once
  MaxAttached,   \* max_attached
  PermitCount,   \* attach_concurrency
  Bounds         \* what each instance explores

Ids == Pinned \cup OnDemand

ASSUME RegistryAssumption ==
  /\ Pinned \cap OnDemand = {}
  /\ IsFiniteSet(Ids)
  /\ NoCred \notin Creds
  /\ NoVictim \notin Ids
  /\ MaxAttached \in Nat /\ PermitCount \in Nat \ {0}
  /\ Bounds \subseteq [used : SUBSET Ids, erased : SUBSET Ids, contended : SUBSET Ids,
                       requests : SUBSET Requests, askers : SUBSET (Ids \X Creds \X BOOLEAN),
                       dies : BOOLEAN, shutdown : BOOLEAN]

VARIABLES
  slot,       \* the registry's slot of each session
  flight,     \* the attach in flight of an on-demand session
  retry,      \* the pinned retry loop: the session it is at, and how far
  detach,     \* the detach in flight of each session, and why
  erase,      \* the erase in flight of each session, and the slot it replaced
  permits,    \* the sessions whose attach holds a permit
  owner,      \* the credential whose request attached an on-demand session
  negative,   \* remembered negative outcomes
  previous,   \* sessions whose last handle the registry waits for
  releasing,  \* sessions with a background release of an attach that died
  lost,       \* sessions with a lease-loss detach on its way
  mem,        \* the session's handle that is not closed yet
  row,        \* its lease row, as seen from this process
  request,    \* what each request in flight holds
  shutdown,   \* how far the process shutdown is
  closeSet,   \* sessions the shutdown took and has not closed
  bound       \* the instance explored: never changes

vars == <<slot, flight, retry, detach, erase, permits, owner, negative, previous,
          releasing, lost, mem, row, request, shutdown, closeSet, bound>>

Slots     == {"none", "attaching", "live", "detaching", "held", "failed", "erasing", "erased"}
FlightPcs == {"none", "permit", "probe", "reserve", "gone", "acquire", "loading", "release"}
Negatives == {"none", "absent", "erased", "failed"}
NoFlight  == [pc |-> "none", create |-> FALSE, cred |-> NoCred, victim |-> NoVictim]
NoDetach  == [pc |-> "none", why |-> "none"]
NoErase   == [pc |-> "none", attached |-> FALSE, prior |-> "none"]
NoRetry   == [pc |-> "none", at |-> NoVictim]
Idle      == [pc |-> "idle", at |-> NoVictim]

Flights  == [pc : FlightPcs, create : BOOLEAN, cred : Creds \cup {NoCred}, victim : Ids \cup {NoVictim}]
Retries  == [pc : {"none", "acquire", "loading", "release"}, at : Ids \cup {NoVictim}]
Detaches == [pc : {"none", "close", "finish"}, why : {"none", "lost", "idle", "evicted"}]
Erases   == [pc : {"none", "close", "store", "committed", "held", "error", "previous"},
             attached : BOOLEAN, prior : Slots]
Holds    == [pc : {"idle", "serving", "stale", "missed", "leaked"}, at : Ids \cup {NoVictim}]
Mems     == {"none", "loading", "open", "fenced"}
Rows     == {"absent", "free", "mine", "other", "tombstone"}

TypeOK ==
  /\ slot \in [Ids -> Slots]
  /\ flight \in [Ids -> Flights]
  /\ retry \in Retries
  /\ detach \in [Ids -> Detaches]
  /\ erase \in [Ids -> Erases]
  /\ permits \subseteq Ids
  /\ owner \in [Ids -> Creds \cup {NoCred}]
  /\ negative \in [Ids -> Negatives]
  /\ previous \subseteq Ids
  /\ releasing \subseteq Ids
  /\ lost \subseteq Ids
  /\ mem \in [Ids -> Mems]
  /\ row \in [Ids -> Rows]
  /\ request \in [Requests -> Holds]
  /\ shutdown \in {"no", "closing", "closed", "gone"}
  /\ closeSet \subseteq Ids
  /\ bound \in Bounds

-----------------------------------------------------------------------------
(* What the registry reads under its locks.                                *)

Closing == shutdown # "no"

InFlight(id)  == \E r \in Requests : request[r] = [pc |-> "serving", at |-> id]

\* A handle that was closed and that a request still holds. One whose slot
\* went before the handle was remembered is told apart, for OldHandleFirst.
Lingering(id) == \E r \in Requests : request[r].pc \in {"stale", "missed"} /\ request[r].at = id

Placed(id)   == flight[id].pc \in {"gone", "acquire", "loading", "release"}
Unplaced(id) == flight[id].pc \in {"permit", "probe", "reserve"}

\* unplaced_cap: the attaches that may wait for their probe.
UnplacedCap == 2 * MaxAttached

TakesPlace(id) ==
  \/ slot[id] \in {"live", "detaching", "erasing"}
  \/ slot[id] = "attaching" /\ Placed(id)

Places == IF MaxAttached > Cardinality(Pinned) THEN MaxAttached - Cardinality(Pinned) ELSE 0
Taken  == {id \in OnDemand : TakesPlace(id)}
Held(c) == Cardinality({id \in Taken : owner[id] = c})
Share  == IF Cardinality(Creds) = 0 \/ Places \div Cardinality(Creds) = 0
            THEN 1 ELSE Places \div Cardinality(Creds)

\* choose_victim, for any order of last use: a session with no call in
\* flight, the requester's own or one above its owner's share.
Evictable(v, cred) ==
  /\ slot[v] = "live"
  /\ ~InFlight(v)
  /\ \/ owner[v] = cred
     \/ Held(cred) < Share /\ Held(owner[v]) > Share

\* What NegativeCache::get answers a requester.
Refused(id, create) ==
  negative[id] # "none" /\ (negative[id] = "absent" => ~create)

MayAcquire(id) == row[id] \in {"absent", "free", "mine"}

-----------------------------------------------------------------------------
(* Steps that several tasks share.                                         *)

\* release_lease is scoped to the holder, and the holder is this process.
ReleaseRow(id) == row' = [row EXCEPT ![id] = IF @ = "mine" THEN "free" ELSE @]

\* A release that may fail or come too late; the row then lapses.
TryRelease(id) == ReleaseRow(id) \/ UNCHANGED row

Become(id, old, new) ==
  request' = [r \in Requests |-> IF request[r].at = id /\ request[r].pc \in old
                                   THEN [pc |-> new, at |-> id] ELSE request[r]]

\* Whoever still holds a handle that is closed holds an old one.
Outlive(id) == Become(id, {"serving"}, "stale")

\* close_sessions for one handle: a fenced one neither flushes nor releases.
CloseHandle(id) ==
  /\ mem' = [mem EXCEPT ![id] = "none"]
  /\ IF mem[id] = "fenced" THEN UNCHANGED row ELSE TryRelease(id)
  /\ Outlive(id)

\* The wait for an old handle is over: attach anyway.
GiveUpWaiting(id) == Become(id, {"stale", "missed"}, "leaked")

\* Mutated: an attach that failed is not remembered, or keeps its slot.
EndFlight_Forgets(id, outcome) ==
  /\ slot' = [slot EXCEPT ![id] = "none"]
  /\ owner' = [owner EXCEPT ![id] = NoCred]
  /\ UNCHANGED negative
  /\ flight' = [flight EXCEPT ![id] = NoFlight]
  /\ permits' = permits \ {id}

EndFlight_KeepsSlot(id, outcome) ==
  /\ UNCHANGED slot
  /\ owner' = [owner EXCEPT ![id] = NoCred]
  /\ UNCHANGED negative
  /\ flight' = [flight EXCEPT ![id] = NoFlight]
  /\ permits' = permits \ {id}

\* Flight::end with an outcome other than Attached.
EndFlight(id, outcome) ==
  /\ slot' = [slot EXCEPT ![id] = "none"]
  /\ owner' = [owner EXCEPT ![id] = NoCred]
  /\ negative' = [negative EXCEPT ![id] =
       IF outcome = "busy" \/ (outcome = "absent" /\ flight[id].create) THEN @ ELSE outcome]
  /\ flight' = [flight EXCEPT ![id] = NoFlight]
  /\ permits' = permits \ {id}

-----------------------------------------------------------------------------
(* A session is live and unfenced with its lease, or held elsewhere, when  *)
(* the serve starts; no on-demand session is attached.                     *)

Init ==
  /\ row \in [Ids -> {"absent", "free", "other", "mine"}]
  /\ \A id \in Ids : row[id] = "mine" <=> id \in Pinned /\ row[id] # "other"
  /\ slot = [id \in Ids |-> IF id \in OnDemand THEN "none"
                            ELSE IF row[id] = "mine" THEN "live" ELSE "held"]
  /\ mem = [id \in Ids |-> IF slot[id] = "live" THEN "open" ELSE "none"]
  /\ flight = [id \in Ids |-> NoFlight]
  /\ retry = NoRetry
  /\ detach = [id \in Ids |-> NoDetach]
  /\ erase = [id \in Ids |-> NoErase]
  /\ permits = {} /\ previous = {} /\ releasing = {} /\ lost = {} /\ closeSet = {}
  /\ owner = [id \in Ids |-> NoCred]
  /\ negative = [id \in Ids |-> "none"]
  /\ request = [r \in Requests |-> Idle]
  /\ shutdown = "no"
  /\ bound \in Bounds

-----------------------------------------------------------------------------
(* Requests.                                                               *)

\* route_or_start on a live session: in flight from here, under the lock.
Serve(r, id) ==
  /\ r \in bound.requests /\ id \in bound.used
  /\ request[r].pc = "idle"
  /\ slot[id] = "live"
  /\ request' = [request EXCEPT ![r] = [pc |-> "serving", at |-> id]]
  /\ UNCHANGED <<slot, flight, retry, detach, erase, permits, owner, negative, previous,
                 releasing, lost, mem, row, shutdown, closeSet, bound>>

\* The handler has answered; its hold on the session goes.
Answer(r) ==
  /\ request[r].pc # "idle"
  /\ request' = [request EXCEPT ![r] = Idle]
  /\ UNCHANGED <<slot, flight, retry, detach, erase, permits, owner, negative, previous,
                 releasing, lost, mem, row, shutdown, closeSet, bound>>

\* route_or_start on an absent session: an attach starts.
StartAttach(id, cred, create) ==
  /\ id \in OnDemand /\ slot[id] = "none"
  /\ <<id, cred, create>> \in bound.askers
  /\ ~Closing
  /\ ~Refused(id, create)
  /\ Cardinality({i \in OnDemand : Unplaced(i)}) < UnplacedCap
  /\ slot' = [slot EXCEPT ![id] = "attaching"]
  /\ flight' = [flight EXCEPT ![id] =
       [pc |-> "permit", create |-> create, cred |-> cred, victim |-> NoVictim]]
  /\ UNCHANGED <<retry, detach, erase, permits, owner, negative, previous,
                 releasing, lost, mem, row, request, shutdown, closeSet, bound>>

\* A negative answer expires, but not before the release it covers.
Forget(id) ==
  /\ negative[id] # "none" /\ id \notin releasing
  /\ negative' = [negative EXCEPT ![id] = "none"]
  /\ UNCHANGED <<slot, flight, retry, detach, erase, permits, owner, previous,
                 releasing, lost, mem, row, request, shutdown, closeSet, bound>>

-----------------------------------------------------------------------------
(* An on-demand attach.                                                    *)

\* awaiting_previous_on_demand: wait, or attach after all when the wait is over.
WaitsForPrevious(id) ==
  /\ id \in previous /\ Lingering(id)
  /\ previous' = {i \in previous : Lingering(i)}
  /\ EndFlight(id, "busy")
  /\ UNCHANGED request

GoesOn(id) ==
  /\ previous' = {i \in previous : Lingering(i)} \ {id}
  /\ IF id \in previous THEN GiveUpWaiting(id) ELSE UNCHANGED request
  /\ permits' = permits \cup {id}
  /\ flight' = [flight EXCEPT ![id].pc = "probe"]
  /\ UNCHANGED <<slot, owner, negative>>

AttachGetsPermit(id) ==
  /\ flight[id].pc = "permit"
  /\ Cardinality(permits) < PermitCount
  /\ ~Closing
  /\ WaitsForPrevious(id) \/ GoesOn(id)
  /\ UNCHANGED <<retry, detach, erase, releasing, lost, mem, row, shutdown, closeSet, bound>>

\* The existence probe, and the outcomes it ends the attach with.
Probe(id) ==
  /\ flight[id].pc = "probe"
  /\ CASE row[id] = "tombstone" -> EndFlight(id, "erased")
       [] row[id] = "other"     -> EndFlight(id, "busy")
       [] row[id] = "absent" /\ ~flight[id].create -> EndFlight(id, "absent")
       [] OTHER -> /\ flight' = [flight EXCEPT ![id].pc = "reserve"]
                   /\ UNCHANGED <<slot, owner, negative, permits>>
  /\ UNCHANGED <<retry, detach, erase, previous, releasing, lost, mem, row, request,
                 shutdown, closeSet, bound>>

TakeFreePlace(id) ==
  /\ Cardinality(Taken) < Places
  /\ flight' = [flight EXCEPT ![id].pc = "acquire"]
  /\ owner' = [owner EXCEPT ![id] = flight[id].cred]
  /\ UNCHANGED <<slot, detach, negative, permits>>

Evict(id, v) ==
  /\ Cardinality(Taken) >= Places
  /\ Evictable(v, flight[id].cred)
  /\ slot' = [slot EXCEPT ![v] = "detaching"]
  /\ detach' = [detach EXCEPT ![v] = [pc |-> "close", why |-> "evicted"]]
  /\ flight' = [flight EXCEPT ![id].pc = "gone", ![id].victim = v]
  /\ owner' = [owner EXCEPT ![id] = flight[id].cred]
  /\ UNCHANGED <<negative, permits>>

\* None is evictable, or none has been idle for long enough.
NoVictimYet(id) ==
  /\ Cardinality(Taken) >= Places
  /\ EndFlight(id, "busy")
  /\ UNCHANGED detach

\* reserve_place, and the start of the eviction.
Reserve(id) ==
  /\ flight[id].pc = "reserve"
  /\ ~Closing
  /\ TakeFreePlace(id) \/ NoVictimYet(id) \/ \E v \in OnDemand : Evict(id, v)
  /\ UNCHANGED <<retry, erase, previous, releasing, lost, mem, row, request, shutdown, closeSet, bound>>

\* Mutated: the eviction is not waited for.
VictimGone_Unawaited(id) ==
  /\ flight[id].pc = "gone"
  /\ flight' = [flight EXCEPT ![id].pc = "acquire", ![id].victim = NoVictim]
  /\ UNCHANGED <<slot, retry, detach, erase, permits, owner, negative, previous,
                 releasing, lost, mem, row, request, shutdown, closeSet, bound>>

VictimGone(id) ==
  /\ flight[id].pc = "gone" /\ flight[id].victim = NoVictim
  /\ flight' = [flight EXCEPT ![id].pc = "acquire"]
  /\ UNCHANGED <<slot, retry, detach, erase, permits, owner, negative, previous,
                 releasing, lost, mem, row, request, shutdown, closeSet, bound>>

\* build_attach takes the lease, or is refused by a holder or a tombstone.
Acquire(id) ==
  /\ flight[id].pc = "acquire"
  /\ IF MayAcquire(id)
       THEN /\ row' = [row EXCEPT ![id] = "mine"]
            /\ mem' = [mem EXCEPT ![id] = "loading"]
            /\ flight' = [flight EXCEPT ![id].pc = "loading"]
            /\ UNCHANGED <<slot, owner, negative, permits>>
       ELSE /\ EndFlight(id, IF row[id] = "tombstone" /\ ~Closing THEN "failed" ELSE "busy")
            /\ UNCHANGED <<row, mem>>
  /\ UNCHANGED <<retry, detach, erase, previous, releasing, lost, request, shutdown, closeSet, bound>>

\* Flight::owns: the slot is still this attach's own.
Owns(id) == slot[id] = "attaching"

\* admit_if and Flight::end: live, or taken down again when the slot is
\* no longer this attach's.
Admit(id) ==
  /\ flight[id].pc = "loading"
  /\ IF Owns(id)
       THEN /\ mem' = [mem EXCEPT ![id] = "open"]
            /\ slot' = [slot EXCEPT ![id] = "live"]
            /\ negative' = [negative EXCEPT ![id] = "none"]
            /\ UNCHANGED <<row, request>>
       ELSE CloseHandle(id) /\ UNCHANGED <<slot, negative>>
  /\ flight' = [flight EXCEPT ![id] = NoFlight]
  /\ permits' = permits \ {id}
  /\ UNCHANGED <<retry, detach, erase, owner, previous, releasing, lost, shutdown, closeSet, bound>>

\* An error on the way: before the lease was asked for, or in build_attach,
\* which gives a lease it took back.
AttachFails(id, outcome) ==
  /\ flight[id].pc \in {"probe", "acquire", "loading"}
  /\ outcome = "failed" => flight[id].pc # "probe" /\ ~Closing
  /\ mem' = [mem EXCEPT ![id] = "none"]
  /\ IF flight[id].pc = "loading" THEN TryRelease(id) ELSE UNCHANGED row
  /\ EndFlight(id, outcome)
  /\ UNCHANGED <<retry, detach, erase, previous, releasing, lost, request, shutdown, closeSet, bound>>

\* The future is dropped: with what it held, but not with the lease.
Abandon(id) ==
  /\ mem' = [mem EXCEPT ![id] = IF @ = "loading" THEN "none" ELSE @]
  /\ UNCHANGED <<retry, detach, erase, previous, lost, row, request, shutdown, closeSet, bound>>

\* Whether the acquire had begun when the attach was abandoned.
Acquiring(id) == flight[id].pc \in {"acquire", "loading"}

\* ATTACH_TIMEOUT: the permit goes with the future, a lease it may have
\* taken is released first, and then the attach ends.
AttachTimesOut(id) ==
  /\ flight[id].pc \notin {"none", "release"}
  /\ Abandon(id)
  /\ UNCHANGED releasing
  /\ IF Acquiring(id)
       THEN /\ flight' = [flight EXCEPT ![id].pc = "release"]
            /\ permits' = permits \ {id}
            /\ UNCHANGED <<slot, owner, negative>>
       ELSE EndFlight(id, "busy")

\* The shutdown wins the race at any await; the permit is kept while the
\* lease is released.
AttachSeesClosing(id) ==
  /\ Closing
  /\ flight[id].pc \notin {"none", "release"}
  /\ Abandon(id)
  /\ UNCHANGED releasing
  /\ IF Acquiring(id)
       THEN /\ flight' = [flight EXCEPT ![id].pc = "release"]
            /\ UNCHANGED <<slot, owner, negative, permits>>
       ELSE EndFlight(id, "busy")

AttachReleases(id) ==
  /\ flight[id].pc = "release"
  /\ TryRelease(id)
  /\ EndFlight(id, "busy")
  /\ UNCHANGED <<retry, detach, erase, previous, releasing, lost, mem, request, shutdown, closeSet, bound>>

\* Flight::drop: the task panicked or was aborted. Its slot is cleared, its
\* lease released in the background, and a new attach refused meanwhile.
AttachDies(id) ==
  /\ bound.dies
  /\ flight[id].pc # "none"
  /\ Abandon(id)
  /\ EndFlight(id, "failed")
  /\ releasing' = releasing \cup {id}

BackgroundRelease(id) ==
  /\ id \in releasing
  /\ TryRelease(id)
  /\ releasing' = releasing \ {id}
  /\ UNCHANGED <<slot, flight, retry, detach, erase, permits, owner, negative, previous,
                 lost, mem, request, shutdown, closeSet, bound>>

-----------------------------------------------------------------------------
(* The pinned retry loop: one session at a time.                           *)

\* Mutated: the permit is kept when the loop goes on.
RetryDone_KeepsPermit(id, next) ==
  /\ slot' = [slot EXCEPT ![id] = IF @ = "held" THEN next ELSE @]
  /\ retry' = NoRetry
  /\ UNCHANGED permits

\* replace_held, and the permit dropped behind it.
RetryDone(id, next) ==
  /\ slot' = [slot EXCEPT ![id] = IF @ = "held" THEN next ELSE @]
  /\ retry' = NoRetry
  /\ permits' = permits \ {id}

\* Due, with a permit, still held elsewhere, and the old handle gone or
\* waited for long enough.
RetryStarts(id) ==
  /\ retry = NoRetry
  /\ id \in Pinned \cap bound.used /\ slot[id] = "held"
  /\ Cardinality(permits) < PermitCount
  /\ ~Closing
  /\ retry' = [pc |-> "acquire", at |-> id]
  /\ permits' = permits \cup {id}
  /\ previous' = previous \ {id}
  /\ IF id \in previous THEN GiveUpWaiting(id) ELSE UNCHANGED request
  /\ UNCHANGED <<slot, flight, detach, erase, owner, negative, releasing, lost, mem, row,
                 shutdown, closeSet, bound>>

RetryAcquires(id) ==
  /\ retry = [pc |-> "acquire", at |-> id]
  /\ IF MayAcquire(id)
       THEN /\ row' = [row EXCEPT ![id] = "mine"]
            /\ mem' = [mem EXCEPT ![id] = "loading"]
            /\ retry' = [retry EXCEPT !.pc = "loading"]
            /\ UNCHANGED <<slot, permits>>
       ELSE /\ RetryDone(id, IF row[id] = "tombstone" /\ ~Closing THEN "erased" ELSE "held")
            /\ UNCHANGED <<row, mem>>
  /\ UNCHANGED <<flight, detach, erase, owner, negative, previous, releasing, lost, request,
                 shutdown, closeSet, bound>>

RetryAdmits(id) ==
  /\ retry = [pc |-> "loading", at |-> id]
  /\ IF slot[id] = "held"
       THEN /\ mem' = [mem EXCEPT ![id] = "open"]
            /\ UNCHANGED <<row, request>>
       ELSE CloseHandle(id)
  /\ RetryDone(id, "live")
  /\ UNCHANGED <<flight, detach, erase, owner, negative, previous, releasing, lost,
                 shutdown, closeSet, bound>>

\* A transient error leaves the session held; any other one is final.
RetryFails(id, next) ==
  /\ retry.pc \in {"acquire", "loading"} /\ retry.at = id
  /\ next = "failed" => ~Closing
  /\ mem' = [mem EXCEPT ![id] = "none"]
  /\ IF retry.pc = "loading" THEN TryRelease(id) ELSE UNCHANGED row
  /\ RetryDone(id, next)
  /\ UNCHANGED <<flight, detach, erase, owner, negative, previous, releasing, lost, request,
                 shutdown, closeSet, bound>>

\* The shutdown, or the deadline: what the acquire took is released, and
\* the permit kept until it is.
RetryAbandons(id) ==
  /\ retry.pc \in {"acquire", "loading"} /\ retry.at = id
  /\ retry' = [retry EXCEPT !.pc = "release"]
  /\ mem' = [mem EXCEPT ![id] = "none"]
  /\ UNCHANGED <<slot, flight, detach, erase, permits, owner, negative, previous, releasing,
                 lost, row, request, shutdown, closeSet, bound>>

RetryReleases(id) ==
  /\ retry = [pc |-> "release", at |-> id]
  /\ TryRelease(id)
  /\ RetryDone(id, "held")
  /\ UNCHANGED <<flight, detach, erase, owner, negative, previous, releasing, lost, mem, request,
                 shutdown, closeSet, bound>>

-----------------------------------------------------------------------------
(* Detaches.                                                               *)

TakeDown(id, why) ==
  /\ slot' = [slot EXCEPT ![id] = "detaching"]
  /\ detach' = [detach EXCEPT ![id] = [pc |-> "close", why |-> why]]

\* sweep_idle, for one of the sessions it takes.
SweepIdle(id) ==
  /\ id \in OnDemand /\ slot[id] = "live"
  /\ ~InFlight(id)
  /\ ~Closing
  /\ TakeDown(id, "idle")
  /\ UNCHANGED <<flight, retry, erase, permits, owner, negative, previous, releasing, lost, mem,
                 row, request, shutdown, closeSet, bound>>

\* The heartbeat learns that the lease is another's, and watch_lease asks
\* for a detach of the session.
LeaseLost(id) ==
  /\ mem[id] = "open" /\ row[id] \in {"other", "tombstone"}
  /\ mem' = [mem EXCEPT ![id] = "fenced"]
  /\ lost' = IF slot[id] = "live" THEN lost \cup {id} ELSE lost
  /\ UNCHANGED <<slot, flight, retry, detach, erase, permits, owner, negative, previous,
                 releasing, row, request, shutdown, closeSet, bound>>

\* detach takes whatever is live under that name by now.
DetachLost(id) ==
  /\ id \in lost
  /\ lost' = lost \ {id}
  /\ IF slot[id] = "live" THEN TakeDown(id, "lost") ELSE UNCHANGED <<slot, detach>>
  /\ UNCHANGED <<flight, retry, erase, permits, owner, negative, previous, releasing, mem, row,
                 request, shutdown, closeSet, bound>>

\* run_detach up to its last write: the MCP sessions end or are cut off,
\* the handle is closed, the endpoint released.
DetachCloses(id) ==
  /\ detach[id].pc = "close"
  /\ CloseHandle(id)
  /\ detach' = [detach EXCEPT ![id].pc = "finish"]
  /\ UNCHANGED <<slot, flight, retry, erase, permits, owner, negative, previous, releasing, lost,
                 shutdown, closeSet, bound>>

\* Mutated: the old handle is not remembered.
DetachFinishes_Forgets(id) ==
  /\ detach[id].pc = "finish"
  /\ UNCHANGED previous
  /\ slot' = [slot EXCEPT ![id] = IF id \in Pinned THEN "held" ELSE "none"]
  /\ owner' = [owner EXCEPT ![id] = NoCred]
  /\ detach' = [detach EXCEPT ![id] = NoDetach]
  /\ flight' = [i \in Ids |-> IF flight[i].victim = id THEN [flight[i] EXCEPT !.victim = NoVictim]
                                                       ELSE flight[i]]
  /\ UNCHANGED <<retry, erase, permits, negative, releasing, lost, mem, row, request,
                 shutdown, closeSet, bound>>

\* The last write: the old handle is remembered before the slot goes. An
\* attach that waits for the place is woken.
DetachFinishes(id) ==
  /\ detach[id].pc = "finish"
  /\ previous' = IF id \in Pinned \/ Lingering(id) THEN previous \cup {id} ELSE previous
  /\ slot' = [slot EXCEPT ![id] = IF id \in Pinned THEN "held"
                                       ELSE IF @ = "detaching" THEN "none" ELSE @]
  /\ owner' = [owner EXCEPT ![id] = NoCred]
  /\ detach' = [detach EXCEPT ![id] = NoDetach]
  /\ flight' = [i \in Ids |-> IF flight[i].victim = id THEN [flight[i] EXCEPT !.victim = NoVictim]
                                                       ELSE flight[i]]
  /\ UNCHANGED <<retry, erase, permits, negative, releasing, lost, mem, row, request,
                 shutdown, closeSet, bound>>

-----------------------------------------------------------------------------
(* Erases.                                                                 *)

\* Mutated: the permits are not waited for.
MayClaim_Unpermitted(id) == slot[id] \notin {"erasing", "detaching", "attaching"}

\* With every permit, and only what nothing else takes up or down.
MayClaim(id) == permits = {} /\ slot[id] \notin {"erasing", "detaching", "attaching"}

\* erase_now: with every permit, and given back at once. A live handle is
\* fenced; what was in the slot otherwise is remembered.
EraseClaims(id) ==
  /\ id \in bound.erased
  /\ erase[id].pc = "none"
  /\ ~Closing
  /\ MayClaim(id)
  /\ slot' = [slot EXCEPT ![id] = "erasing"]
  /\ IF slot[id] = "live"
       THEN /\ mem' = [mem EXCEPT ![id] = "fenced"]
            /\ erase' = [erase EXCEPT ![id] = [pc |-> "close", attached |-> TRUE, prior |-> "none"]]
       ELSE /\ erase' = [erase EXCEPT ![id] =
                          [pc |-> "store", attached |-> FALSE, prior |-> slot[id]]]
            /\ UNCHANGED mem
  /\ UNCHANGED <<flight, retry, detach, permits, owner, negative, previous, releasing, lost, row,
                 request, shutdown, closeSet, bound>>

EraseCloses(id) ==
  /\ erase[id].pc = "close"
  /\ CloseHandle(id)
  /\ erase' = [erase EXCEPT ![id].pc = "store"]
  /\ UNCHANGED <<slot, flight, retry, detach, permits, owner, negative, previous, releasing, lost,
                 shutdown, closeSet, bound>>

\* erase_session: refused by a live lease that is not the eraser's own (the
\* eraser of an unattached session is not the process's holder), committed
\* with or without an answer, or failed.
EraseInStore(id, answer) ==
  /\ erase[id].pc = "store"
  /\ \/ /\ answer = "held"
        /\ row[id] = "other" \/ (row[id] = "mine" /\ ~erase[id].attached)
        /\ UNCHANGED row
     \/ /\ answer \in {"committed", "error"}
        /\ row[id] # "other"
        /\ row' = [row EXCEPT ![id] = "tombstone"]
     \/ /\ answer = "error"
        /\ UNCHANGED row
  /\ erase' = [erase EXCEPT ![id].pc = answer]
  /\ UNCHANGED <<slot, flight, retry, detach, permits, owner, negative, previous, releasing, lost,
                 mem, request, shutdown, closeSet, bound>>

\* The last write of an erase, while the slot is still its own.
Settle(id, next) == slot' = [slot EXCEPT ![id] = IF @ = "erasing" THEN next ELSE @]

\* mark_erased: the commit was answered, or is read back.
EraseMarks(id) ==
  /\ \/ erase[id].pc = "committed"
     \/ erase[id].pc = "error" /\ row[id] = "tombstone"
  /\ Settle(id, IF id \in Pinned THEN "erased" ELSE "none")
  /\ owner' = [owner EXCEPT ![id] = IF id \in Pinned THEN @ ELSE NoCred]
  /\ negative' = [negative EXCEPT ![id] = IF id \in Pinned THEN @ ELSE "erased"]
  /\ erase' = [erase EXCEPT ![id] = NoErase]
  /\ UNCHANGED <<flight, retry, detach, permits, previous, releasing, lost, mem, row, request,
                 shutdown, closeSet, bound>>

\* restore: the slot an erase of an unattached session replaced.
EraseRestores(id) ==
  /\ erase[id].pc \in {"held", "error"} /\ ~erase[id].attached
  /\ Settle(id, erase[id].prior)
  /\ erase' = [erase EXCEPT ![id] = NoErase]
  /\ UNCHANGED <<flight, retry, detach, permits, owner, negative, previous, releasing, lost, mem,
                 row, request, shutdown, closeSet, bound>>

\* after_failed_attached, behind the release of the lease: a pinned session
\* is held, with its old handle; an on-demand one loses its slot first, and
\* its old handle is remembered after that.
EraseUndone(id) ==
  /\ erase[id].pc \in {"held", "error"} /\ erase[id].attached
  /\ IF erase[id].pc = "error" THEN TryRelease(id) ELSE UNCHANGED row
  /\ Settle(id, IF id \in Pinned THEN "held" ELSE "none")
  /\ owner' = [owner EXCEPT ![id] = NoCred]
  /\ previous' = IF id \in Pinned THEN previous \cup {id} ELSE previous
  /\ erase' = [erase EXCEPT ![id] = IF id \in Pinned THEN NoErase ELSE [@ EXCEPT !.pc = "previous"]]
  /\ IF id \in Pinned THEN UNCHANGED request ELSE Become(id, {"stale"}, "missed")
  /\ UNCHANGED <<flight, retry, detach, permits, negative, releasing, lost, mem, shutdown,
                 closeSet, bound>>

EraseRemembers(id) ==
  /\ erase[id].pc = "previous"
  /\ previous' = IF Lingering(id) THEN previous \cup {id} ELSE previous
  /\ erase' = [erase EXCEPT ![id] = NoErase]
  /\ UNCHANGED <<slot, flight, retry, detach, permits, owner, negative, releasing, lost, mem, row,
                 request, shutdown, closeSet, bound>>

\* The shutdown cuts an erase short: its slot stays as it is.
EraseCutOff(id) ==
  /\ Closing
  /\ erase[id].pc \notin {"none", "previous"}
  /\ erase' = [erase EXCEPT ![id] = NoErase]
  /\ UNCHANGED <<slot, flight, retry, detach, permits, owner, negative, previous, releasing, lost,
                 mem, row, request, shutdown, closeSet, bound>>

-----------------------------------------------------------------------------
(* The process shutdown, and the other processes.                          *)

ShutdownBegins ==
  /\ bound.shutdown
  /\ shutdown = "no"
  /\ shutdown' = "closing"
  /\ UNCHANGED <<slot, flight, retry, detach, erase, permits, owner, negative, previous,
                 releasing, lost, mem, row, request, closeSet, bound>>

\* Mutated: the attaches in flight are not waited for.
MayCloseSet_AtOnce == TRUE

\* Every permit: no attach is in flight.
MayCloseSet == permits = {}

\* close_set: with every permit, the live sessions leave their slots.
TakeCloseSet ==
  /\ shutdown = "closing"
  /\ MayCloseSet
  /\ shutdown' = "closed"
  /\ closeSet' = {id \in Ids : slot[id] = "live"}
  /\ slot' = [id \in Ids |-> IF slot[id] = "live" THEN "none" ELSE slot[id]]
  /\ UNCHANGED <<flight, retry, detach, erase, permits, owner, negative, previous, releasing,
                 lost, mem, row, request, bound>>

CloseOne(id) ==
  /\ id \in closeSet
  /\ CloseHandle(id)
  /\ closeSet' = closeSet \ {id}
  /\ UNCHANGED <<slot, flight, retry, detach, erase, permits, owner, negative, previous,
                 releasing, lost, shutdown, bound>>

\* join_detaches: the attaches, detaches and erases in flight have ended.
Exit ==
  /\ shutdown = "closed" /\ closeSet = {}
  /\ \A id \in Ids : flight[id].pc = "none" /\ detach[id].pc = "none" /\ erase[id].pc = "none"
  /\ shutdown' = "gone"
  /\ UNCHANGED <<slot, flight, retry, detach, erase, permits, owner, negative, previous,
                 releasing, lost, mem, row, request, closeSet, bound>>

\* Another process takes a lease that is free or has lapsed.
OtherTakes(id) ==
  /\ id \in bound.contended
  /\ MayAcquire(id)
  /\ row' = [row EXCEPT ![id] = "other"]
  /\ UNCHANGED <<slot, flight, retry, detach, erase, permits, owner, negative, previous,
                 releasing, lost, mem, request, shutdown, closeSet, bound>>

\* It gives the lease back, or erases the session.
OtherLeaves(id, next) ==
  /\ row[id] = "other"
  /\ row' = [row EXCEPT ![id] = next]
  /\ UNCHANGED <<slot, flight, retry, detach, erase, permits, owner, negative, previous,
                 releasing, lost, mem, request, shutdown, closeSet, bound>>

\* The heartbeat of a handle that missed the takeover takes the row again.
Refresh(id) ==
  /\ mem[id] = "open" /\ row[id] = "free"
  /\ row' = [row EXCEPT ![id] = "mine"]
  /\ UNCHANGED <<slot, flight, retry, detach, erase, permits, owner, negative, previous,
                 releasing, lost, mem, request, shutdown, closeSet, bound>>

-----------------------------------------------------------------------------
AttachStep(id) ==
  \/ AttachGetsPermit(id) \/ Probe(id) \/ Reserve(id) \/ VictimGone(id)
  \/ Acquire(id) \/ Admit(id)
  \/ \E outcome \in {"busy", "failed"} : AttachFails(id, outcome)
  \/ AttachTimesOut(id) \/ AttachSeesClosing(id) \/ AttachReleases(id) \/ AttachDies(id)

RetryStep(id) ==
  \/ RetryStarts(id) \/ RetryAcquires(id) \/ RetryAdmits(id)
  \/ \E next \in {"held", "failed"} : RetryFails(id, next)
  \/ RetryAbandons(id) \/ RetryReleases(id)

DetachStep(id) == DetachCloses(id) \/ DetachFinishes(id)

EraseStep(id) ==
  \/ EraseCloses(id)
  \/ \E answer \in {"committed", "held", "error"} : EraseInStore(id, answer)
  \/ EraseMarks(id) \/ EraseRestores(id) \/ EraseUndone(id) \/ EraseRemembers(id)
  \/ EraseCutOff(id)

ShutdownStep == TakeCloseSet \/ Exit \/ (\E id \in Ids : CloseOne(id))

Next ==
  \/ \E r \in Requests : Answer(r) \/ (\E id \in Ids : Serve(r, id))
  \/ \E id \in Ids :
       \/ \E cred \in Creds, create \in BOOLEAN : StartAttach(id, cred, create)
       \/ AttachStep(id) \/ Forget(id) \/ BackgroundRelease(id)
       \/ RetryStep(id)
       \/ SweepIdle(id) \/ LeaseLost(id) \/ DetachLost(id) \/ DetachStep(id)
       \/ EraseClaims(id) \/ EraseStep(id)
       \/ OtherTakes(id) \/ Refresh(id)
       \/ \E next \in {"free", "tombstone"} : OtherLeaves(id, next)
  \/ ShutdownBegins \/ ShutdownStep

Spec == Init /\ [][Next]_vars

\* Every task that runs goes on, and none of its awaits is without a deadline.
Fairness ==
  /\ \A id \in Ids :
       /\ WF_vars(AttachTimesOut(id)) /\ WF_vars(AttachSeesClosing(id))
       /\ WF_vars(AttachReleases(id))
       /\ WF_vars(RetryAbandons(id)) /\ WF_vars(RetryReleases(id))
       /\ WF_vars(DetachStep(id)) /\ WF_vars(EraseStep(id))
  /\ WF_vars(ShutdownStep)

FairSpec == Spec /\ Fairness

-----------------------------------------------------------------------------
(* Properties.                                                             *)

\* The handles of on-demand sessions that are not closed never exceed the
\* places under max_attached, whatever evictions, timeouts and erases do:
\* a place may be given away before the handle in it is closed, but nothing
\* is acquired for it until then (registry.rs:895).
PlacesBound == Cardinality({id \in OnDemand : mem[id] # "none"}) <= Places

\* A session gets a new handle only when its last one is closed and either
\* nothing holds that one any more or the registry has waited for it long
\* enough. A handle that a failed erase took down is the exception: the
\* slot is given up before the handle is remembered (erase.rs:527).
OldHandleFirst ==
  [][\A id \in Ids : mem'[id] = "loading" /\ mem[id] # "loading"
       => mem[id] = "none" /\ ~\E r \in Requests : request[r] = [pc |-> "stale", at |-> id]]_vars

\* This process never gives a lease up under a handle that is not closed:
\* a release is by holder, and the holder of an abandoned attach is the
\* holder of the attach that came after it (registry.rs:1614).
LeaseOutlivesHandle ==
  [][\A id \in Ids : row[id] = "mine" /\ row'[id] \in {"free", "tombstone"} => mem'[id] = "none"]_vars

\* While an erase is past its claim nothing attaches the session, and when
\* the store is asked no handle of it is left (erase.rs:223).
ErasesAlone ==
  \A id \in Ids : erase[id].pc \notin {"none", "previous"} =>
    /\ slot[id] = "erasing" /\ flight[id].pc = "none" /\ retry.at # id /\ detach[id].pc = "none"
    /\ erase[id].pc = "close" \/ mem[id] = "none"

\* When the process goes, no handle is left that could have flushed: what
\* was attached when the shutdown began, and what was being attached, was
\* closed or had lost its lease (registry.rs:1840).
ExitIsClean == shutdown = "gone" => \A id \in Ids : mem[id] \in {"none", "fenced"}

\* An attach always ends, so every request that waits for it is answered
\* and the session is not stuck (on_demand.rs:345).
AttachEnds == \A id \in OnDemand : slot[id] = "attaching" ~> slot[id] # "attaching"

\* A shutdown that has begun comes to its end: no attach, retry, detach or
\* erase keeps the permits or the tasks from it.
ExitComes == Closing ~> shutdown = "gone"

=============================================================================
