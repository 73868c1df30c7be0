-------------------------- MODULE ServeRegistryProofs --------------------------
(***************************************************************************)
(* Proofs about ServeRegistry, for any sessions, credentials, requests and *)
(* limits.                                                                 *)
(*                                                                         *)
(* The slot of a session says which one of an attach, a retry, a detach    *)
(* and an erase may be at work on it, and who closes its handle: that is   *)
(* what makes the properties inductive.                                    *)
(***************************************************************************)
EXTENDS ServeRegistry, FiniteSetTheorems, TLAPS

(* The task at work on a session is the one its slot names.                  *)
SlotInv(id) ==
  /\ flight[id].pc # "none" <=> slot[id] = "attaching"
  /\ flight[id].pc # "none" => id \in OnDemand
  /\ detach[id].pc # "none" <=> slot[id] = "detaching"
  /\ erase[id].pc \notin {"none", "previous"} => slot[id] = "erasing"

(* A permit is held from the probe to the end, and by the retry loop while   *)
(* it is at a session, which stays held meanwhile.                           *)
PermitInv(id) ==
  /\ flight[id].pc \in {"probe", "reserve", "gone", "acquire", "loading"} => id \in permits
  /\ retry.at = id => retry.pc # "none" /\ id \in permits /\ slot[id] = "held" /\ id \notin OnDemand

(* Who is to close a handle.                                                 *)
MemInv(id) ==
  /\ mem[id] = "loading" <=>
       flight[id].pc = "loading" \/ (retry.pc = "loading" /\ retry.at = id)
  /\ mem[id] = "open" => slot[id] = "live" \/ detach[id].pc = "close" \/ id \in closeSet
  /\ mem[id] = "fenced" => \/ slot[id] = "live" \/ detach[id].pc = "close" \/ id \in closeSet
                           \/ slot[id] = "erasing" /\ erase[id].pc \in {"close", "none"}
  /\ id \in closeSet => slot[id] = "none" /\ shutdown = "closed"

(* What an erase knows of the session it claimed.                            *)
EraseInv(id) ==
  /\ erase[id].pc = "committed" => row[id] = "tombstone"
  /\ erase[id].pc = "close" => erase[id].attached
  /\ erase[id].pc \notin {"none", "previous"} =>
       erase[id].prior \notin {"live", "attaching", "detaching", "erasing"}

(* While the lease of an attach that died is released nothing attaches.      *)
ReleaseInv(id) ==
  id \in releasing =>
    /\ id \in OnDemand /\ mem[id] = "none"
    /\ negative[id] \in {"failed", "erased"}
    /\ slot[id] \notin {"live", "attaching", "detaching"}

Stale(id) == \E r \in Requests : request[r] = [pc |-> "stale", at |-> id]

(* Why no attach of a session begins under a request that still holds its    *)
(* last handle, and what an attach or a retry that began relies on.          *)
StaleInv(id) ==
  /\ Stale(id) =>
       \/ id \in previous \/ row[id] = "tombstone" \/ detach[id].pc = "finish"
       \/ slot[id] = "erasing" /\ (erase[id].pc = "none" \/ erase[id].attached)
       \/ shutdown \in {"closed", "gone"}
  /\ Stale(id) /\ flight[id].pc \in {"probe", "reserve", "gone", "acquire"}
       => row[id] = "tombstone"
  /\ Stale(id) /\ retry.at = id /\ retry.pc = "acquire" => row[id] = "tombstone"

(* What a shutdown with every permit has left.                               *)
ClosedInv(id) ==
  /\ shutdown \in {"closed", "gone"} =>
       slot[id] # "live" /\ flight[id].pc \in {"none", "permit", "release"} /\ retry.at # id
  /\ shutdown = "gone" =>
       id \notin closeSet /\ flight[id].pc = "none" /\ detach[id].pc = "none"

Sound(id) ==
  /\ SlotInv(id) /\ PermitInv(id) /\ MemInv(id) /\ EraseInv(id)
  /\ ReleaseInv(id) /\ StaleInv(id) /\ ClosedInv(id)

IInv == TypeOK /\ \A id \in Ids : Sound(id)

(* The action properties, of one session.                                    *)
LeaseKept(id) == row[id] = "mine" /\ row'[id] \in {"free", "tombstone"} => mem'[id] = "none"
HandleFresh(id) == mem'[id] = "loading" /\ mem[id] # "loading" => mem[id] = "none" /\ ~Stale(id)

(* What a step has to do for a session.                                      *)
Kept(id) == Sound(id)' /\ LeaseKept(id) /\ HandleFresh(id)

(* What a step that is about other sessions does to one.                     *)
Untouched(id) ==
  /\ slot'[id] = slot[id] /\ flight'[id].pc = flight[id].pc /\ detach'[id] = detach[id]
  /\ erase'[id] = erase[id] /\ mem'[id] = mem[id] /\ row'[id] = row[id]
  /\ negative'[id] = negative[id] /\ shutdown' = shutdown
  /\ id \in permits => id \in permits'
  /\ id \in releasing' => id \in releasing
  /\ id \in closeSet' <=> id \in closeSet
  /\ Stale(id)' => Stale(id)
  /\ Stale(id)' /\ id \in previous => id \in previous'
  /\ retry'.at = id <=> retry.at = id
  /\ retry.at = id => retry'.pc = retry.pc

(* An attach that waits for the place of its victim.                         *)
Waits(id) == flight[id].pc = "gone" /\ flight[id].victim # NoVictim

(* The sessions that have a place: with a handle not closed, or owed one. An *)
(* attach that waits has the place its victim still counts for.              *)
Counts(id) ==
  \/ slot[id] \in {"live", "detaching"}
  \/ slot[id] = "erasing" /\ mem[id] # "none"
  \/ Placed(id) /\ ~Waits(id)
  \/ id \in closeSet
Counted == {id \in OnDemand : Counts(id)}

PlacesInv ==
  /\ \A i \in OnDemand :
       Waits(i) => flight[i].victim \in OnDemand /\ slot[flight[i].victim] = "detaching"
  /\ \A i, j \in OnDemand : Waits(i) /\ Waits(j) /\ i # j => flight[i].victim # flight[j].victim
  /\ Cardinality(Counted) <= Places

(* What all steps but three do to the places.                                *)
Frees(id) ==
  id \in OnDemand =>
    /\ Waits(id)' => flight'[id] = flight[id]
    /\ slot[id] = "detaching" => slot'[id] = "detaching"
    /\ Counts(id)' => Counts(id)

-----------------------------------------------------------------------------
LEMMA NonesTyped ==
  /\ NoFlight \in Flights /\ NoRetry \in Retries /\ NoDetach \in Detaches /\ NoErase \in Erases
  /\ NoFlight.pc = "none" /\ NoRetry.pc = "none" /\ NoDetach.pc = "none" /\ NoErase.pc = "none"
  /\ NoFlight.victim = NoVictim /\ NoRetry.at = NoVictim
BY DEF NoFlight, NoRetry, NoDetach, NoErase, Flights, FlightPcs, Retries, Detaches, Erases, Slots

LEMMA FlightMoves ==
  ASSUME NEW f \in Flights, NEW pc \in FlightPcs
  PROVE  /\ [f EXCEPT !.pc = pc] \in Flights /\ [f EXCEPT !.pc = pc].pc = pc
         /\ [f EXCEPT !.pc = pc].victim = f.victim
BY DEF Flights

LEMMA FlightEvicts ==
  ASSUME NEW f \in Flights, NEW v \in Ids
  PROVE  /\ [f EXCEPT !.pc = "gone", !.victim = v] \in Flights
         /\ [f EXCEPT !.pc = "gone", !.victim = v].pc = "gone"
         /\ [f EXCEPT !.pc = "gone", !.victim = v].victim = v
         /\ [f EXCEPT !.victim = NoVictim] \in Flights
         /\ [f EXCEPT !.victim = NoVictim].pc = f.pc
         /\ [f EXCEPT !.victim = NoVictim].victim = NoVictim
BY DEF Flights, FlightPcs

LEMMA EraseMoves ==
  ASSUME NEW e \in Erases, NEW pc \in {"store", "committed", "held", "error", "previous"}
  PROVE  /\ [e EXCEPT !.pc = pc] \in Erases /\ [e EXCEPT !.pc = pc].pc = pc
         /\ [e EXCEPT !.pc = pc].attached = e.attached /\ [e EXCEPT !.pc = pc].prior = e.prior
BY DEF Erases

LEMMA Elsewhere == ASSUME NEW id \in Ids, Sound(id), Untouched(id)
                   PROVE  Kept(id) /\ (flight'[id] = flight[id] => Frees(id))
<1> USE DEF Sound, Untouched
<1>1. SlotInv(id)' /\ PermitInv(id)'
  BY DEF SlotInv, PermitInv
<1>2. MemInv(id)' /\ EraseInv(id)'
  BY DEF MemInv, EraseInv, PermitInv
<1>3. ReleaseInv(id)'
  BY DEF ReleaseInv
<1>4. StaleInv(id)'
  BY DEF StaleInv
<1>5. ClosedInv(id)'
  BY DEF ClosedInv
<1>6. LeaseKept(id) /\ HandleFresh(id)
  BY DEF LeaseKept, HandleFresh
<1>7. flight'[id] = flight[id] => Frees(id)
  BY DEF Frees, Waits, Counts, Placed
<1>8. QED
  BY <1>1, <1>2, <1>3, <1>4, <1>5, <1>6, <1>7 DEF Kept

LEMMA StartAttachKeeps == ASSUME IInv, NEW id \in Ids, NEW cred \in Creds, NEW create \in BOOLEAN, StartAttach(id, cred, create)
                          PROVE  TypeOK' /\ \A j \in Ids : Kept(j) /\ Frees(j)
<1> USE RegistryAssumption, NonesTyped DEF RegistryAssumption, Ids, IInv, StartAttach, Refused, Closing
<1>1. TypeOK'
  BY DEF TypeOK, Slots, Negatives, Mems, Rows, Flights, FlightPcs
<1>2. /\ slot[id] = "none" /\ slot'[id] = "attaching" /\ flight'[id].pc = "permit"
      /\ id \in OnDemand /\ negative[id] \in {"none", "absent"} /\ shutdown = "no"
      /\ Stale(id)' => Stale(id)
      /\ UNCHANGED <<detach[id].pc, erase[id], mem[id], row[id], negative[id],
                     permits, previous, releasing, closeSet, retry, shutdown>>
  BY DEF TypeOK, Stale, Sound, SlotInv, PermitInv
<1>3. Kept(id)
  BY <1>2 DEF Kept, Sound, LeaseKept, HandleFresh, Mems,
       SlotInv, PermitInv, MemInv, EraseInv, ReleaseInv, StaleInv, ClosedInv
<1>4. Frees(id)
  BY <1>2 DEF Frees, Waits, Counts, Placed, Mems, Sound, SlotInv, PermitInv, MemInv, EraseInv
<1>5. ASSUME NEW j \in Ids, j # id PROVE Kept(j) /\ Frees(j)
  <2>1. Untouched(j) /\ flight'[j] = flight[j]
    BY <1>5 DEF TypeOK, Untouched, Stale, Sound, PermitInv
  <2>2. QED
    BY <2>1, Elsewhere
<1>6. QED
  BY <1>1, <1>3, <1>4, <1>5

LEMMA ForgetKeeps == ASSUME IInv, NEW id \in Ids, Forget(id)
                     PROVE  TypeOK' /\ \A j \in Ids : Kept(j) /\ Frees(j)
<1> USE RegistryAssumption, NonesTyped DEF RegistryAssumption, Ids, IInv, Forget
<1>1. TypeOK'
  BY DEF TypeOK, Slots, Negatives, Mems, Rows
<1>2. /\ id \notin releasing
      /\ Stale(id)' => Stale(id)
      /\ UNCHANGED <<slot[id], flight[id], detach[id].pc, erase[id], mem[id],
                     row[id], permits, previous, releasing, closeSet, retry,
                     shutdown>>
  BY DEF TypeOK, Stale, Sound, SlotInv, PermitInv
<1>3. Kept(id)
  BY <1>2 DEF Kept, Sound, LeaseKept, HandleFresh, Mems,
       SlotInv, PermitInv, MemInv, EraseInv, ReleaseInv, StaleInv, ClosedInv
<1>4. Frees(id)
  BY <1>2 DEF Frees, Waits, Counts, Placed, Mems, Sound, SlotInv, PermitInv, MemInv, EraseInv
<1>5. ASSUME NEW j \in Ids, j # id PROVE Kept(j) /\ Frees(j)
  <2>1. Untouched(j) /\ flight'[j] = flight[j]
    BY <1>5 DEF TypeOK, Untouched, Stale, Sound, PermitInv
  <2>2. QED
    BY <2>1, Elsewhere
<1>6. QED
  BY <1>1, <1>3, <1>4, <1>5

LEMMA PreviousAwaitedKeeps == ASSUME IInv, NEW id \in Ids, WaitsForPrevious(id), AttachGetsPermit(id)
                              PROVE  TypeOK' /\ \A j \in Ids : Kept(j) /\ Frees(j)
<1> USE RegistryAssumption, NonesTyped DEF RegistryAssumption, Ids, IInv, AttachGetsPermit, WaitsForPrevious, Lingering, Closing, EndFlight
<1>1. TypeOK'
  BY DEF TypeOK, Slots, Negatives, Mems, Rows
<1>2. /\ flight[id].pc = "permit" /\ shutdown = "no"
      /\ slot'[id] = "none" /\ flight'[id].pc = "none" /\ permits' = permits \ {id}
      /\ Stale(id)' /\ id \in previous => id \in previous'
      /\ Stale(id)' => Stale(id)
      /\ UNCHANGED <<detach[id].pc, erase[id], mem[id], row[id], negative[id],
                     releasing, closeSet, retry, shutdown>>
  BY DEF TypeOK, Stale, Sound, SlotInv, PermitInv
<1>3. Kept(id)
  BY <1>2 DEF Kept, Sound, LeaseKept, HandleFresh, Mems,
       SlotInv, PermitInv, MemInv, EraseInv, ReleaseInv, StaleInv, ClosedInv
<1>4. Frees(id)
  BY <1>2 DEF Frees, Waits, Counts, Placed, Mems, Sound, SlotInv, PermitInv, MemInv, EraseInv
<1>5. ASSUME NEW j \in Ids, j # id PROVE Kept(j) /\ Frees(j)
  <2>1. Untouched(j) /\ flight'[j] = flight[j]
    BY <1>5 DEF TypeOK, Untouched, Stale, Sound, PermitInv
  <2>2. QED
    BY <2>1, Elsewhere
<1>6. QED
  BY <1>1, <1>3, <1>4, <1>5

LEMMA GoesOnKeeps == ASSUME IInv, NEW id \in Ids, GoesOn(id), AttachGetsPermit(id)
                     PROVE  TypeOK' /\ \A j \in Ids : Kept(j) /\ Frees(j)
<1> USE RegistryAssumption, NonesTyped DEF RegistryAssumption, Ids, IInv, AttachGetsPermit, GoesOn, GiveUpWaiting, Become, Lingering, Closing
<1>1. [flight[id] EXCEPT !.pc = "probe"] \in Flights /\ [flight[id] EXCEPT !.pc = "probe"].pc = "probe"
  BY FlightMoves DEF TypeOK, FlightPcs
<1>2. TypeOK'
  <2>1. CASE id \in previous
    BY <1>1, <2>1 DEF TypeOK, Slots, Negatives, Mems, Rows, Holds
  <2>2. CASE ~(id \in previous)
    BY <1>1, <2>2 DEF TypeOK, Slots, Negatives, Mems, Rows, Holds
  <2>3. QED
    BY <2>1, <2>2
<1>3. /\ flight[id].pc = "permit" /\ flight'[id].pc = "probe" /\ shutdown = "no"
      /\ permits' = permits \cup {id} /\ Stale(id)' => id \notin previous
      /\ Stale(id)' => Stale(id)
      /\ UNCHANGED <<slot[id], detach[id].pc, erase[id], mem[id], row[id],
                     negative[id], releasing, closeSet, retry, shutdown>>
  <2>1. CASE id \in previous
    BY <1>1, <2>1 DEF TypeOK, Stale, Sound, SlotInv, PermitInv
  <2>2. CASE ~(id \in previous)
    BY <1>1, <2>2 DEF TypeOK, Stale, Sound, SlotInv, PermitInv
  <2>3. QED
    BY <2>1, <2>2
<1>4. Kept(id)
  BY <1>3 DEF Kept, Sound, LeaseKept, HandleFresh, Mems,
       SlotInv, PermitInv, MemInv, EraseInv, ReleaseInv, StaleInv, ClosedInv
<1>5. Frees(id)
  BY <1>3 DEF Frees, Waits, Counts, Placed, Mems, Sound, SlotInv, PermitInv, MemInv, EraseInv
<1>6. ASSUME NEW j \in Ids, j # id PROVE Kept(j) /\ Frees(j)
  <2>1. Untouched(j) /\ flight'[j] = flight[j]
    BY <1>6 DEF TypeOK, Untouched, Stale, Sound, PermitInv
  <2>2. QED
    BY <2>1, Elsewhere
<1>7. QED
  BY <1>2, <1>4, <1>5, <1>6

LEMMA ProbeKeeps == ASSUME IInv, NEW id \in Ids, Probe(id)
                    PROVE  TypeOK' /\ \A j \in Ids : Kept(j) /\ Frees(j)
<1> USE RegistryAssumption, NonesTyped DEF RegistryAssumption, Ids, IInv, Probe, EndFlight
<1>1. [flight[id] EXCEPT !.pc = "reserve"] \in Flights /\ [flight[id] EXCEPT !.pc = "reserve"].pc = "reserve"
  BY FlightMoves DEF TypeOK, FlightPcs
<1>2. TypeOK'
  BY <1>1 DEF TypeOK, Slots, Negatives, Mems, Rows
<1>3. /\ flight[id].pc = "probe"
      /\ \/ slot'[id] = "none" /\ flight'[id].pc = "none" /\ permits' = permits \ {id}
         \/ /\ slot'[id] = slot[id] /\ flight'[id].pc = "reserve"
            /\ UNCHANGED <<negative[id], permits>>
      /\ Stale(id)' => Stale(id)
      /\ UNCHANGED <<detach[id].pc, erase[id], mem[id], row[id], previous,
                     releasing, closeSet, retry, shutdown>>
  BY <1>1, ZenonT(40) DEF TypeOK, Stale, Sound, SlotInv, PermitInv
<1>4. Kept(id)
  BY <1>3 DEF Kept, Sound, LeaseKept, HandleFresh, Mems,
       SlotInv, PermitInv, MemInv, EraseInv, ReleaseInv, StaleInv, ClosedInv
<1>5. Frees(id)
  BY <1>3 DEF Frees, Waits, Counts, Placed, Mems, Sound, SlotInv, PermitInv, MemInv, EraseInv
<1>6. ASSUME NEW j \in Ids, j # id PROVE Kept(j) /\ Frees(j)
  <2>1. Untouched(j) /\ flight'[j] = flight[j]
    BY <1>6 DEF TypeOK, Untouched, Stale, Sound, PermitInv
  <2>2. QED
    BY <2>1, Elsewhere
<1>7. QED
  BY <1>2, <1>4, <1>5, <1>6

LEMMA NoVictimYetKeeps == ASSUME IInv, NEW id \in Ids, NoVictimYet(id), Reserve(id)
                          PROVE  TypeOK' /\ \A j \in Ids : Kept(j) /\ Frees(j)
<1> USE RegistryAssumption, NonesTyped DEF RegistryAssumption, Ids, IInv, Reserve, NoVictimYet, EndFlight
<1>1. TypeOK'
  BY DEF TypeOK, Slots, Negatives, Mems, Rows
<1>2. /\ flight[id].pc = "reserve" /\ flight'[id].pc = "none" /\ slot'[id] = "none"
      /\ permits' = permits \ {id}
      /\ Stale(id)' => Stale(id)
      /\ UNCHANGED <<detach[id].pc, erase[id], mem[id], row[id], previous,
                     releasing, closeSet, retry, shutdown>>
  BY DEF TypeOK, Stale, Sound, SlotInv, PermitInv
<1>3. Kept(id)
  BY <1>2 DEF Kept, Sound, LeaseKept, HandleFresh, Mems,
       SlotInv, PermitInv, MemInv, EraseInv, ReleaseInv, StaleInv, ClosedInv
<1>4. Frees(id)
  BY <1>2 DEF Frees, Waits, Counts, Placed, Mems, Sound, SlotInv, PermitInv, MemInv, EraseInv
<1>5. ASSUME NEW j \in Ids, j # id PROVE Kept(j) /\ Frees(j)
  <2>1. Untouched(j) /\ flight'[j] = flight[j]
    BY <1>5 DEF TypeOK, Untouched, Stale, Sound, PermitInv
  <2>2. QED
    BY <2>1, Elsewhere
<1>6. QED
  BY <1>1, <1>3, <1>4, <1>5

LEMMA VictimGoneKeeps == ASSUME IInv, NEW id \in Ids, VictimGone(id)
                         PROVE  TypeOK' /\ \A j \in Ids : Kept(j) /\ Frees(j)
<1> USE RegistryAssumption, NonesTyped DEF RegistryAssumption, Ids, IInv, VictimGone
<1>1. [flight[id] EXCEPT !.pc = "acquire"] \in Flights /\ [flight[id] EXCEPT !.pc = "acquire"].pc = "acquire"
  BY FlightMoves DEF TypeOK, FlightPcs
<1>2. TypeOK'
  BY <1>1 DEF TypeOK, Slots, Negatives, Mems, Rows
<1>3. /\ ~Waits(id) /\ flight[id].pc = "gone" /\ flight'[id].pc = "acquire"
      /\ Stale(id)' => Stale(id)
      /\ UNCHANGED <<slot[id], detach[id].pc, erase[id], mem[id], row[id],
                     negative[id], permits, previous, releasing, closeSet, retry,
                     shutdown>>
  BY <1>1 DEF TypeOK, Stale, Sound, SlotInv, PermitInv, Waits
<1>4. Kept(id)
  BY <1>3 DEF Kept, Sound, LeaseKept, HandleFresh, Mems,
       SlotInv, PermitInv, MemInv, EraseInv, ReleaseInv, StaleInv, ClosedInv
<1>5. Frees(id)
  BY <1>3 DEF Frees, Waits, Counts, Placed, Mems, Sound, SlotInv, PermitInv, MemInv, EraseInv
<1>6. ASSUME NEW j \in Ids, j # id PROVE Kept(j) /\ Frees(j)
  <2>1. Untouched(j) /\ flight'[j] = flight[j]
    BY <1>6 DEF TypeOK, Untouched, Stale, Sound, PermitInv
  <2>2. QED
    BY <2>1, Elsewhere
<1>7. QED
  BY <1>2, <1>4, <1>5, <1>6

LEMMA AcquireKeeps == ASSUME IInv, NEW id \in Ids, Acquire(id)
                      PROVE  TypeOK' /\ \A j \in Ids : Kept(j) /\ Frees(j)
<1> USE RegistryAssumption, NonesTyped DEF RegistryAssumption, Ids, IInv, Acquire, MayAcquire, EndFlight
<1>1. [flight[id] EXCEPT !.pc = "loading"] \in Flights /\ [flight[id] EXCEPT !.pc = "loading"].pc = "loading"
  BY FlightMoves DEF TypeOK, FlightPcs
<1>2. TypeOK'
  <2>1. CASE MayAcquire(id)
    BY <1>1, <2>1 DEF TypeOK, Slots, Negatives, Mems, Rows
  <2>2. CASE ~(MayAcquire(id))
    BY <1>1, <2>2 DEF TypeOK, Slots, Negatives, Mems, Rows
  <2>3. QED
    BY <2>1, <2>2
<1>3. /\ flight[id].pc = "acquire" /\ mem[id] \in Mems
      /\ \/ /\ row[id] # "tombstone" /\ row'[id] = "mine" /\ mem'[id] = "loading"
            /\ flight'[id].pc = "loading" /\ UNCHANGED <<slot[id], negative[id], permits>>
         \/ /\ slot'[id] = "none" /\ flight'[id].pc = "none" /\ permits' = permits \ {id}
            /\ UNCHANGED <<row[id], mem[id]>>
      /\ Stale(id)' => Stale(id)
      /\ UNCHANGED <<detach[id].pc, erase[id], previous, releasing, closeSet,
                     retry, shutdown>>
  <2>1. CASE MayAcquire(id)
    BY <1>1, <2>1, ZenonT(40) DEF TypeOK, Stale, Sound, SlotInv, PermitInv
  <2>2. CASE ~(MayAcquire(id))
    BY <1>1, <2>2 DEF TypeOK, Stale, Sound, SlotInv, PermitInv
  <2>3. QED
    BY <2>1, <2>2
<1>4. Kept(id)
  BY <1>3 DEF Kept, Sound, LeaseKept, HandleFresh, Mems,
       SlotInv, PermitInv, MemInv, EraseInv, ReleaseInv, StaleInv, ClosedInv
<1>5. Frees(id)
  BY <1>3 DEF Frees, Waits, Counts, Placed, Mems, Sound, SlotInv, PermitInv, MemInv, EraseInv
<1>6. ASSUME NEW j \in Ids, j # id PROVE Kept(j) /\ Frees(j)
  <2>1. Untouched(j) /\ flight'[j] = flight[j]
    BY <1>6 DEF TypeOK, Untouched, Stale, Sound, PermitInv
  <2>2. QED
    BY <2>1, Elsewhere
<1>7. QED
  BY <1>2, <1>4, <1>5, <1>6

LEMMA AdmitKeeps == ASSUME IInv, NEW id \in Ids, Admit(id)
                    PROVE  TypeOK' /\ \A j \in Ids : Kept(j) /\ Frees(j)
<1> USE RegistryAssumption, NonesTyped DEF RegistryAssumption, Ids, IInv, Admit, Owns
<1>1. slot[id] = "attaching"
  BY DEF Sound, SlotInv
<1>2. TypeOK'
  BY <1>1 DEF TypeOK, Slots, Negatives, Mems, Rows
<1>3. /\ flight[id].pc = "loading" /\ flight'[id].pc = "none"
      /\ slot'[id] = "live" /\ mem'[id] = "open" /\ permits' = permits \ {id}
      /\ Stale(id)' => Stale(id)
      /\ UNCHANGED <<detach[id].pc, erase[id], row[id], previous, releasing,
                     closeSet, retry, shutdown>>
  BY <1>1 DEF TypeOK, Stale, Sound, SlotInv, PermitInv
<1>4. Kept(id)
  BY <1>3 DEF Kept, Sound, LeaseKept, HandleFresh, Mems,
       SlotInv, PermitInv, MemInv, EraseInv, ReleaseInv, StaleInv, ClosedInv
<1>5. Frees(id)
  BY <1>3 DEF Frees, Waits, Counts, Placed, Mems, Sound, SlotInv, PermitInv, MemInv, EraseInv
<1>6. ASSUME NEW j \in Ids, j # id PROVE Kept(j) /\ Frees(j)
  <2>1. Untouched(j) /\ flight'[j] = flight[j]
    BY <1>6, <1>1 DEF TypeOK, Untouched, Stale, Sound, PermitInv
  <2>2. QED
    BY <2>1, Elsewhere
<1>7. QED
  BY <1>2, <1>4, <1>5, <1>6

LEMMA AttachFailsKeeps == ASSUME IInv, NEW id \in Ids, NEW outcome \in {"busy", "failed"}, AttachFails(id, outcome)
                          PROVE  TypeOK' /\ \A j \in Ids : Kept(j) /\ Frees(j)
<1> USE RegistryAssumption, NonesTyped DEF RegistryAssumption, Ids, IInv, AttachFails, TryRelease, ReleaseRow, EndFlight
<1>1. TypeOK'
  BY DEF TypeOK, Slots, Negatives, Mems, Rows
<1>2. /\ flight[id].pc # "none" /\ flight'[id].pc = "none" /\ slot'[id] = "none"
      /\ mem'[id] = "none" /\ permits' = permits \ {id}
      /\ row'[id] = row[id] \/ (row[id] = "mine" /\ row'[id] = "free")
      /\ Stale(id)' => Stale(id)
      /\ UNCHANGED <<detach[id].pc, erase[id], previous, releasing, closeSet,
                     retry, shutdown>>
  BY DEF TypeOK, Stale, Sound, SlotInv, PermitInv
<1>3. Kept(id)
  BY <1>2 DEF Kept, Sound, LeaseKept, HandleFresh, Mems,
       SlotInv, PermitInv, MemInv, EraseInv, ReleaseInv, StaleInv, ClosedInv
<1>4. Frees(id)
  BY <1>2 DEF Frees, Waits, Counts, Placed, Mems, Sound, SlotInv, PermitInv, MemInv, EraseInv
<1>5. ASSUME NEW j \in Ids, j # id PROVE Kept(j) /\ Frees(j)
  <2>1. Untouched(j) /\ flight'[j] = flight[j]
    BY <1>5 DEF TypeOK, Untouched, Stale, Sound, PermitInv
  <2>2. QED
    BY <2>1, Elsewhere
<1>6. QED
  BY <1>1, <1>3, <1>4, <1>5

LEMMA AttachTimesOutKeeps == ASSUME IInv, NEW id \in Ids, AttachTimesOut(id)
                             PROVE  TypeOK' /\ \A j \in Ids : Kept(j) /\ Frees(j)
<1> USE RegistryAssumption, NonesTyped DEF RegistryAssumption, Ids, IInv, AttachTimesOut, Abandon, Acquiring, EndFlight
<1>1. [flight[id] EXCEPT !.pc = "release"] \in Flights /\ [flight[id] EXCEPT !.pc = "release"].pc = "release"
  BY FlightMoves DEF TypeOK, FlightPcs
<1>2. TypeOK'
  BY <1>1 DEF TypeOK, Slots, Negatives, Mems, Rows
<1>3. /\ flight[id].pc # "none" /\ mem[id] \in Mems
      /\ mem'[id] = IF mem[id] = "loading" THEN "none" ELSE mem[id]
      /\ permits' = permits \ {id}
      /\ \/ slot'[id] = "none" /\ flight'[id].pc = "none"
         \/ /\ flight[id].pc \in {"acquire", "loading"} /\ flight'[id].pc = "release"
            /\ UNCHANGED <<slot[id], negative[id]>>
      /\ Stale(id)' => Stale(id)
      /\ UNCHANGED <<detach[id].pc, erase[id], row[id], previous, releasing,
                     closeSet, retry, shutdown>>
  BY <1>1, ZenonT(40) DEF TypeOK, Stale, Sound, SlotInv, PermitInv
<1>4. Kept(id)
  BY <1>3 DEF Kept, Sound, LeaseKept, HandleFresh, Mems,
       SlotInv, PermitInv, MemInv, EraseInv, ReleaseInv, StaleInv, ClosedInv
<1>5. Frees(id)
  BY <1>3 DEF Frees, Waits, Counts, Placed, Mems, Sound, SlotInv, PermitInv, MemInv, EraseInv
<1>6. ASSUME NEW j \in Ids, j # id PROVE Kept(j) /\ Frees(j)
  <2>1. Untouched(j) /\ flight'[j] = flight[j]
    BY <1>6 DEF TypeOK, Untouched, Stale, Sound, PermitInv
  <2>2. QED
    BY <2>1, Elsewhere
<1>7. QED
  BY <1>2, <1>4, <1>5, <1>6

LEMMA AttachSeesClosingKeeps == ASSUME IInv, NEW id \in Ids, AttachSeesClosing(id)
                                PROVE  TypeOK' /\ \A j \in Ids : Kept(j) /\ Frees(j)
<1> USE RegistryAssumption, NonesTyped DEF RegistryAssumption, Ids, IInv, AttachSeesClosing, Abandon, Acquiring, EndFlight
<1>1. [flight[id] EXCEPT !.pc = "release"] \in Flights /\ [flight[id] EXCEPT !.pc = "release"].pc = "release"
  BY FlightMoves DEF TypeOK, FlightPcs
<1>2. TypeOK'
  BY <1>1 DEF TypeOK, Slots, Negatives, Mems, Rows
<1>3. /\ flight[id].pc # "none" /\ mem[id] \in Mems
      /\ mem'[id] = IF mem[id] = "loading" THEN "none" ELSE mem[id]
      /\ \/ slot'[id] = "none" /\ flight'[id].pc = "none" /\ permits' = permits \ {id}
         \/ /\ flight[id].pc \in {"acquire", "loading"} /\ flight'[id].pc = "release"
            /\ UNCHANGED <<slot[id], negative[id], permits>>
      /\ Stale(id)' => Stale(id)
      /\ UNCHANGED <<detach[id].pc, erase[id], row[id], previous, releasing,
                     closeSet, retry, shutdown>>
  BY <1>1, ZenonT(40) DEF TypeOK, Stale, Sound, SlotInv, PermitInv
<1>4. Kept(id)
  BY <1>3 DEF Kept, Sound, LeaseKept, HandleFresh, Mems,
       SlotInv, PermitInv, MemInv, EraseInv, ReleaseInv, StaleInv, ClosedInv
<1>5. Frees(id)
  BY <1>3 DEF Frees, Waits, Counts, Placed, Mems, Sound, SlotInv, PermitInv, MemInv, EraseInv
<1>6. ASSUME NEW j \in Ids, j # id PROVE Kept(j) /\ Frees(j)
  <2>1. Untouched(j) /\ flight'[j] = flight[j]
    BY <1>6 DEF TypeOK, Untouched, Stale, Sound, PermitInv
  <2>2. QED
    BY <2>1, Elsewhere
<1>7. QED
  BY <1>2, <1>4, <1>5, <1>6

LEMMA AttachReleasesKeeps == ASSUME IInv, NEW id \in Ids, AttachReleases(id)
                             PROVE  TypeOK' /\ \A j \in Ids : Kept(j) /\ Frees(j)
<1> USE RegistryAssumption, NonesTyped DEF RegistryAssumption, Ids, IInv, AttachReleases, TryRelease, ReleaseRow, EndFlight
<1>1. TypeOK'
  BY DEF TypeOK, Slots, Negatives, Mems, Rows
<1>2. /\ flight[id].pc = "release" /\ flight'[id].pc = "none" /\ slot'[id] = "none"
      /\ permits' = permits \ {id} /\ mem[id] \in Mems
      /\ row'[id] = row[id] \/ (row[id] = "mine" /\ row'[id] = "free")
      /\ Stale(id)' => Stale(id)
      /\ UNCHANGED <<detach[id].pc, erase[id], mem[id], previous, releasing,
                     closeSet, retry, shutdown>>
  BY DEF TypeOK, Stale, Sound, SlotInv, PermitInv
<1>3. Kept(id)
  BY <1>2 DEF Kept, Sound, LeaseKept, HandleFresh, Mems,
       SlotInv, PermitInv, MemInv, EraseInv, ReleaseInv, StaleInv, ClosedInv
<1>4. Frees(id)
  BY <1>2 DEF Frees, Waits, Counts, Placed, Mems, Sound, SlotInv, PermitInv, MemInv, EraseInv
<1>5. ASSUME NEW j \in Ids, j # id PROVE Kept(j) /\ Frees(j)
  <2>1. Untouched(j) /\ flight'[j] = flight[j]
    BY <1>5 DEF TypeOK, Untouched, Stale, Sound, PermitInv
  <2>2. QED
    BY <2>1, Elsewhere
<1>6. QED
  BY <1>1, <1>3, <1>4, <1>5

LEMMA AttachDiesKeeps == ASSUME IInv, NEW id \in Ids, AttachDies(id)
                         PROVE  TypeOK' /\ \A j \in Ids : Kept(j) /\ Frees(j)
<1> USE RegistryAssumption, NonesTyped DEF RegistryAssumption, Ids, IInv, AttachDies, Abandon, EndFlight
<1>1. TypeOK'
  BY DEF TypeOK, Slots, Negatives, Mems, Rows
<1>2. /\ flight[id].pc # "none" /\ flight'[id].pc = "none" /\ slot'[id] = "none"
      /\ negative'[id] = "failed" /\ permits' = permits \ {id} /\ mem[id] \in Mems
      /\ mem'[id] = IF mem[id] = "loading" THEN "none" ELSE mem[id]
      /\ Stale(id)' => Stale(id)
      /\ UNCHANGED <<detach[id].pc, erase[id], row[id], previous, closeSet, retry,
                     shutdown>>
  BY DEF TypeOK, Stale, Sound, SlotInv, PermitInv
<1>3. Kept(id)
  BY <1>2 DEF Kept, Sound, LeaseKept, HandleFresh, Mems,
       SlotInv, PermitInv, MemInv, EraseInv, ReleaseInv, StaleInv, ClosedInv
<1>4. Frees(id)
  BY <1>2 DEF Frees, Waits, Counts, Placed, Mems, Sound, SlotInv, PermitInv, MemInv, EraseInv
<1>5. ASSUME NEW j \in Ids, j # id PROVE Kept(j) /\ Frees(j)
  <2>1. Untouched(j) /\ flight'[j] = flight[j]
    BY <1>5 DEF TypeOK, Untouched, Stale, Sound, PermitInv
  <2>2. QED
    BY <2>1, Elsewhere
<1>6. QED
  BY <1>1, <1>3, <1>4, <1>5

LEMMA BackgroundReleaseKeeps == ASSUME IInv, NEW id \in Ids, BackgroundRelease(id)
                                PROVE  TypeOK' /\ \A j \in Ids : Kept(j) /\ Frees(j)
<1> USE RegistryAssumption, NonesTyped DEF RegistryAssumption, Ids, IInv, BackgroundRelease, TryRelease, ReleaseRow
<1>1. TypeOK'
  BY DEF TypeOK, Slots, Negatives, Mems, Rows
<1>2. /\ id \in releasing /\ id \notin releasing'
      /\ row'[id] = row[id] \/ (row[id] = "mine" /\ row'[id] = "free")
      /\ Stale(id)' => Stale(id)
      /\ UNCHANGED <<slot[id], flight[id], detach[id].pc, erase[id], mem[id],
                     negative[id], permits, previous, closeSet, retry, shutdown>>
  BY DEF TypeOK, Stale, Sound, SlotInv, PermitInv
<1>3. Kept(id)
  BY <1>2 DEF Kept, Sound, LeaseKept, HandleFresh, Mems,
       SlotInv, PermitInv, MemInv, EraseInv, ReleaseInv, StaleInv, ClosedInv
<1>4. Frees(id)
  BY <1>2 DEF Frees, Waits, Counts, Placed, Mems, Sound, SlotInv, PermitInv, MemInv, EraseInv
<1>5. ASSUME NEW j \in Ids, j # id PROVE Kept(j) /\ Frees(j)
  <2>1. Untouched(j) /\ flight'[j] = flight[j]
    BY <1>5 DEF TypeOK, Untouched, Stale, Sound, PermitInv
  <2>2. QED
    BY <2>1, Elsewhere
<1>6. QED
  BY <1>1, <1>3, <1>4, <1>5

LEMMA RetryStartsKeeps == ASSUME IInv, NEW id \in Ids, RetryStarts(id)
                          PROVE  TypeOK' /\ \A j \in Ids : Kept(j) /\ Frees(j)
<1> USE RegistryAssumption, NonesTyped DEF RegistryAssumption, Ids, IInv, RetryStarts, GiveUpWaiting, Become, Closing
<1>1. TypeOK'
  BY DEF TypeOK, Slots, Negatives, Mems, Rows, Retries, Holds
<1>2. /\ slot[id] = "held" /\ id \notin OnDemand /\ shutdown = "no" /\ retry.pc = "none"
      /\ retry'.pc = "acquire" /\ retry'.at = id /\ permits' = permits \cup {id}
      /\ Stale(id)' => id \notin previous
      /\ Stale(id)' => Stale(id)
      /\ UNCHANGED <<slot[id], flight[id], detach[id].pc, erase[id], mem[id],
                     row[id], negative[id], releasing, closeSet, shutdown>>
  BY DEF TypeOK, Stale, Sound, SlotInv, PermitInv
<1>3. Kept(id)
  BY <1>2 DEF Kept, Sound, LeaseKept, HandleFresh, Mems,
       SlotInv, PermitInv, MemInv, EraseInv, ReleaseInv, StaleInv, ClosedInv
<1>4. Frees(id)
  BY <1>2 DEF Frees, Waits, Counts, Placed, Mems, Sound, SlotInv, PermitInv, MemInv, EraseInv
<1>5. ASSUME NEW j \in Ids, j # id PROVE Kept(j) /\ Frees(j)
  <2>1. Untouched(j) /\ flight'[j] = flight[j]
    BY <1>5 DEF TypeOK, Untouched, Stale, Sound, PermitInv
  <2>2. QED
    BY <2>1, Elsewhere
<1>6. QED
  BY <1>1, <1>3, <1>4, <1>5

LEMMA RetryAcquiresKeeps == ASSUME IInv, NEW id \in Ids, RetryAcquires(id)
                            PROVE  TypeOK' /\ \A j \in Ids : Kept(j) /\ Frees(j)
<1> USE RegistryAssumption, NonesTyped DEF RegistryAssumption, Ids, IInv, RetryAcquires, MayAcquire, RetryDone
<1>1. TypeOK'
  BY DEF TypeOK, Slots, Negatives, Mems, Rows, Retries
<1>2. /\ retry.pc = "acquire" /\ retry.at = id /\ mem[id] \in Mems
      /\ \/ /\ row[id] # "tombstone" /\ row'[id] = "mine" /\ mem'[id] = "loading"
            /\ retry'.pc = "loading" /\ retry'.at = id /\ UNCHANGED <<slot[id], permits>>
         \/ /\ slot'[id] \in {"erased", "held"} /\ retry'.at # id /\ retry'.pc = "none"
            /\ permits' = permits \ {id} /\ UNCHANGED <<row[id], mem[id]>>
      /\ Stale(id)' => Stale(id)
      /\ UNCHANGED <<flight[id], detach[id].pc, erase[id], negative[id], previous,
                     releasing, closeSet, shutdown>>
  BY DEF TypeOK, Stale, Sound, SlotInv, PermitInv
<1>3. Kept(id)
  BY <1>2 DEF Kept, Sound, LeaseKept, HandleFresh, Mems,
       SlotInv, PermitInv, MemInv, EraseInv, ReleaseInv, StaleInv, ClosedInv
<1>4. Frees(id)
  BY <1>2 DEF Frees, Waits, Counts, Placed, Mems, Sound, SlotInv, PermitInv, MemInv, EraseInv
<1>5. ASSUME NEW j \in Ids, j # id PROVE Kept(j) /\ Frees(j)
  <2>1. Untouched(j) /\ flight'[j] = flight[j]
    BY <1>5 DEF TypeOK, Untouched, Stale, Sound, PermitInv
  <2>2. QED
    BY <2>1, Elsewhere
<1>6. QED
  BY <1>1, <1>3, <1>4, <1>5

LEMMA RetryAdmitsKeeps == ASSUME IInv, NEW id \in Ids, RetryAdmits(id)
                          PROVE  TypeOK' /\ \A j \in Ids : Kept(j) /\ Frees(j)
<1> USE RegistryAssumption, NonesTyped DEF RegistryAssumption, Ids, IInv, RetryAdmits, RetryDone
<1>1. slot[id] = "held"
  BY DEF Sound, PermitInv
<1>2. TypeOK'
  BY <1>1 DEF TypeOK, Slots, Negatives, Mems, Rows
<1>3. /\ retry.pc = "loading" /\ retry.at = id /\ retry'.pc = "none" /\ retry'.at # id
      /\ slot'[id] = "live" /\ mem'[id] = "open" /\ permits' = permits \ {id}
      /\ Stale(id)' => Stale(id)
      /\ UNCHANGED <<flight[id], detach[id].pc, erase[id], row[id], negative[id],
                     previous, releasing, closeSet, shutdown>>
  BY <1>1 DEF TypeOK, Stale, Sound, SlotInv, PermitInv
<1>4. Kept(id)
  BY <1>3 DEF Kept, Sound, LeaseKept, HandleFresh, Mems,
       SlotInv, PermitInv, MemInv, EraseInv, ReleaseInv, StaleInv, ClosedInv
<1>5. Frees(id)
  BY <1>3 DEF Frees, Waits, Counts, Placed, Mems, Sound, SlotInv, PermitInv, MemInv, EraseInv
<1>6. ASSUME NEW j \in Ids, j # id PROVE Kept(j) /\ Frees(j)
  <2>1. Untouched(j) /\ flight'[j] = flight[j]
    BY <1>6, <1>1 DEF TypeOK, Untouched, Stale, Sound, PermitInv
  <2>2. QED
    BY <2>1, Elsewhere
<1>7. QED
  BY <1>2, <1>4, <1>5, <1>6

LEMMA RetryFailsKeeps == ASSUME IInv, NEW id \in Ids, NEW next \in {"held", "failed"}, RetryFails(id, next)
                         PROVE  TypeOK' /\ \A j \in Ids : Kept(j) /\ Frees(j)
<1> USE RegistryAssumption, NonesTyped DEF RegistryAssumption, Ids, IInv, RetryFails, RetryDone, TryRelease, ReleaseRow
<1>1. TypeOK'
  BY DEF TypeOK, Slots, Negatives, Mems, Rows
<1>2. /\ retry.pc # "none" /\ retry.at = id /\ retry'.pc = "none" /\ retry'.at # id
      /\ slot'[id] \in {"held", "failed"} /\ mem'[id] = "none" /\ permits' = permits \ {id}
      /\ row'[id] = row[id] \/ (row[id] = "mine" /\ row'[id] = "free")
      /\ Stale(id)' => Stale(id)
      /\ UNCHANGED <<flight[id], detach[id].pc, erase[id], negative[id], previous,
                     releasing, closeSet, shutdown>>
  BY DEF TypeOK, Stale, Sound, SlotInv, PermitInv
<1>3. Kept(id)
  BY <1>2 DEF Kept, Sound, LeaseKept, HandleFresh, Mems,
       SlotInv, PermitInv, MemInv, EraseInv, ReleaseInv, StaleInv, ClosedInv
<1>4. Frees(id)
  BY <1>2 DEF Frees, Waits, Counts, Placed, Mems, Sound, SlotInv, PermitInv, MemInv, EraseInv
<1>5. ASSUME NEW j \in Ids, j # id PROVE Kept(j) /\ Frees(j)
  <2>1. Untouched(j) /\ flight'[j] = flight[j]
    BY <1>5 DEF TypeOK, Untouched, Stale, Sound, PermitInv
  <2>2. QED
    BY <2>1, Elsewhere
<1>6. QED
  BY <1>1, <1>3, <1>4, <1>5

LEMMA RetryAbandonsKeeps == ASSUME IInv, NEW id \in Ids, RetryAbandons(id)
                            PROVE  TypeOK' /\ \A j \in Ids : Kept(j) /\ Frees(j)
<1> USE RegistryAssumption, NonesTyped DEF RegistryAssumption, Ids, IInv, RetryAbandons
<1>1. TypeOK'
  BY DEF TypeOK, Slots, Negatives, Mems, Rows, Retries
<1>2. /\ retry.at = id /\ retry'.pc = "release" /\ retry'.at = id /\ mem'[id] = "none"
      /\ Stale(id)' => Stale(id)
      /\ UNCHANGED <<slot[id], flight[id], detach[id].pc, erase[id], row[id],
                     negative[id], permits, previous, releasing, closeSet,
                     shutdown>>
  BY DEF TypeOK, Stale, Sound, SlotInv, PermitInv, Retries
<1>3. Kept(id)
  BY <1>2 DEF Kept, Sound, LeaseKept, HandleFresh, Mems,
       SlotInv, PermitInv, MemInv, EraseInv, ReleaseInv, StaleInv, ClosedInv
<1>4. Frees(id)
  BY <1>2 DEF Frees, Waits, Counts, Placed, Mems, Sound, SlotInv, PermitInv, MemInv, EraseInv
<1>5. ASSUME NEW j \in Ids, j # id PROVE Kept(j) /\ Frees(j)
  <2>1. Untouched(j) /\ flight'[j] = flight[j]
    BY <1>5 DEF TypeOK, Untouched, Stale, Sound, PermitInv
  <2>2. QED
    BY <2>1, Elsewhere
<1>6. QED
  BY <1>1, <1>3, <1>4, <1>5

LEMMA RetryReleasesKeeps == ASSUME IInv, NEW id \in Ids, RetryReleases(id)
                            PROVE  TypeOK' /\ \A j \in Ids : Kept(j) /\ Frees(j)
<1> USE RegistryAssumption, NonesTyped DEF RegistryAssumption, Ids, IInv, RetryReleases, RetryDone, TryRelease, ReleaseRow
<1>1. TypeOK'
  BY DEF TypeOK, Slots, Negatives, Mems, Rows
<1>2. /\ retry.pc = "release" /\ retry.at = id /\ retry'.pc = "none" /\ retry'.at # id
      /\ slot'[id] = "held" /\ permits' = permits \ {id} /\ mem[id] \in Mems
      /\ row'[id] = row[id] \/ (row[id] = "mine" /\ row'[id] = "free")
      /\ Stale(id)' => Stale(id)
      /\ UNCHANGED <<flight[id], detach[id].pc, erase[id], mem[id], negative[id],
                     previous, releasing, closeSet, shutdown>>
  BY DEF TypeOK, Stale, Sound, SlotInv, PermitInv
<1>3. Kept(id)
  BY <1>2 DEF Kept, Sound, LeaseKept, HandleFresh, Mems,
       SlotInv, PermitInv, MemInv, EraseInv, ReleaseInv, StaleInv, ClosedInv
<1>4. Frees(id)
  BY <1>2 DEF Frees, Waits, Counts, Placed, Mems, Sound, SlotInv, PermitInv, MemInv, EraseInv
<1>5. ASSUME NEW j \in Ids, j # id PROVE Kept(j) /\ Frees(j)
  <2>1. Untouched(j) /\ flight'[j] = flight[j]
    BY <1>5 DEF TypeOK, Untouched, Stale, Sound, PermitInv
  <2>2. QED
    BY <2>1, Elsewhere
<1>6. QED
  BY <1>1, <1>3, <1>4, <1>5

LEMMA SweepIdleKeeps == ASSUME IInv, NEW id \in Ids, SweepIdle(id)
                        PROVE  TypeOK' /\ \A j \in Ids : Kept(j) /\ Frees(j)
<1> USE RegistryAssumption, NonesTyped DEF RegistryAssumption, Ids, IInv, SweepIdle, TakeDown
<1>1. TypeOK'
  BY DEF TypeOK, Slots, Negatives, Mems, Rows, Detaches
<1>2. /\ slot[id] = "live" /\ slot'[id] = "detaching" /\ detach'[id].pc = "close"
      /\ Stale(id)' => Stale(id)
      /\ UNCHANGED <<flight[id], erase[id], mem[id], row[id], negative[id],
                     permits, previous, releasing, closeSet, retry, shutdown>>
  BY DEF TypeOK, Stale, Sound, SlotInv, PermitInv
<1>3. Kept(id)
  BY <1>2 DEF Kept, Sound, LeaseKept, HandleFresh, Mems,
       SlotInv, PermitInv, MemInv, EraseInv, ReleaseInv, StaleInv, ClosedInv
<1>4. Frees(id)
  BY <1>2 DEF Frees, Waits, Counts, Placed, Mems, Sound, SlotInv, PermitInv, MemInv, EraseInv
<1>5. ASSUME NEW j \in Ids, j # id PROVE Kept(j) /\ Frees(j)
  <2>1. Untouched(j) /\ flight'[j] = flight[j]
    BY <1>5 DEF TypeOK, Untouched, Stale, Sound, PermitInv
  <2>2. QED
    BY <2>1, Elsewhere
<1>6. QED
  BY <1>1, <1>3, <1>4, <1>5

LEMMA LeaseLostKeeps == ASSUME IInv, NEW id \in Ids, LeaseLost(id)
                        PROVE  TypeOK' /\ \A j \in Ids : Kept(j) /\ Frees(j)
<1> USE RegistryAssumption, NonesTyped DEF RegistryAssumption, Ids, IInv, LeaseLost
<1>1. TypeOK'
  BY DEF TypeOK, Slots, Negatives, Mems, Rows
<1>2. /\ mem[id] = "open" /\ mem'[id] = "fenced"
      /\ Stale(id)' => Stale(id)
      /\ UNCHANGED <<slot[id], flight[id], detach[id].pc, erase[id], row[id],
                     negative[id], permits, previous, releasing, closeSet, retry,
                     shutdown>>
  BY DEF TypeOK, Stale, Sound, SlotInv, PermitInv
<1>3. Kept(id)
  BY <1>2 DEF Kept, Sound, LeaseKept, HandleFresh, Mems,
       SlotInv, PermitInv, MemInv, EraseInv, ReleaseInv, StaleInv, ClosedInv
<1>4. Frees(id)
  BY <1>2 DEF Frees, Waits, Counts, Placed, Mems, Sound, SlotInv, PermitInv, MemInv, EraseInv
<1>5. ASSUME NEW j \in Ids, j # id PROVE Kept(j) /\ Frees(j)
  <2>1. Untouched(j) /\ flight'[j] = flight[j]
    BY <1>5 DEF TypeOK, Untouched, Stale, Sound, PermitInv
  <2>2. QED
    BY <2>1, Elsewhere
<1>6. QED
  BY <1>1, <1>3, <1>4, <1>5

LEMMA DetachLostKeeps == ASSUME IInv, NEW id \in Ids, DetachLost(id)
                         PROVE  TypeOK' /\ \A j \in Ids : Kept(j) /\ Frees(j)
<1> USE RegistryAssumption, NonesTyped DEF RegistryAssumption, Ids, IInv, DetachLost, TakeDown
<1>1. TypeOK'
  BY DEF TypeOK, Slots, Negatives, Mems, Rows, Detaches
<1>2. /\ \/ slot[id] = "live" /\ slot'[id] = "detaching" /\ detach'[id].pc = "close"
         \/ UNCHANGED <<slot[id], detach[id].pc>>
      /\ Stale(id)' => Stale(id)
      /\ UNCHANGED <<flight[id], erase[id], mem[id], row[id], negative[id],
                     permits, previous, releasing, closeSet, retry, shutdown>>
  BY DEF TypeOK, Stale, Sound, SlotInv, PermitInv
<1>3. Kept(id)
  BY <1>2 DEF Kept, Sound, LeaseKept, HandleFresh, Mems,
       SlotInv, PermitInv, MemInv, EraseInv, ReleaseInv, StaleInv, ClosedInv
<1>4. Frees(id)
  BY <1>2 DEF Frees, Waits, Counts, Placed, Mems, Sound, SlotInv, PermitInv, MemInv, EraseInv
<1>5. ASSUME NEW j \in Ids, j # id PROVE Kept(j) /\ Frees(j)
  <2>1. Untouched(j) /\ flight'[j] = flight[j]
    BY <1>5 DEF TypeOK, Untouched, Stale, Sound, PermitInv
  <2>2. QED
    BY <2>1, Elsewhere
<1>6. QED
  BY <1>1, <1>3, <1>4, <1>5

LEMMA DetachClosesKeeps == ASSUME IInv, NEW id \in Ids, DetachCloses(id)
                           PROVE  TypeOK' /\ \A j \in Ids : Kept(j) /\ Frees(j)
<1> USE RegistryAssumption, NonesTyped DEF RegistryAssumption, Ids, IInv, DetachCloses, CloseHandle, TryRelease, ReleaseRow, Outlive, Become
<1>1. TypeOK'
  BY DEF TypeOK, Slots, Negatives, Mems, Rows, Detaches, Holds
<1>2. /\ detach[id].pc = "close" /\ detach'[id].pc = "finish" /\ mem'[id] = "none"
      /\ row'[id] = row[id] \/ (row[id] = "mine" /\ row'[id] = "free")
      /\ UNCHANGED <<slot[id], flight[id], erase[id], negative[id], permits,
                     previous, releasing, closeSet, retry, shutdown>>
  BY DEF TypeOK, Stale, Sound, SlotInv, PermitInv, Detaches
<1>3. Kept(id)
  BY <1>2 DEF Kept, Sound, LeaseKept, HandleFresh, Mems,
       SlotInv, PermitInv, MemInv, EraseInv, ReleaseInv, StaleInv, ClosedInv
<1>4. Frees(id)
  BY <1>2 DEF Frees, Waits, Counts, Placed, Mems, Sound, SlotInv, PermitInv, MemInv, EraseInv
<1>5. ASSUME NEW j \in Ids, j # id PROVE Kept(j) /\ Frees(j)
  <2>1. Untouched(j) /\ flight'[j] = flight[j]
    BY <1>5 DEF TypeOK, Untouched, Stale, Sound, PermitInv
  <2>2. QED
    BY <2>1, Elsewhere
<1>6. QED
  BY <1>1, <1>3, <1>4, <1>5

LEMMA EraseClaimsKeeps == ASSUME IInv, NEW id \in Ids, EraseClaims(id)
                          PROVE  TypeOK' /\ \A j \in Ids : Kept(j) /\ Frees(j)
<1> USE RegistryAssumption, NonesTyped DEF RegistryAssumption, Ids, IInv, EraseClaims, MayClaim, Closing
<1>1. erase' \in [Ids -> Erases]
  <2>1. slot[id] \in Slots /\ erase \in [Ids -> Erases]
    BY DEF TypeOK
  <2>2. /\ [pc |-> "close", attached |-> TRUE, prior |-> "none"] \in Erases
        /\ [pc |-> "store", attached |-> FALSE, prior |-> slot[id]] \in Erases
    BY <2>1 DEF Erases, Slots
  <2>3. QED
    BY <2>1, <2>2
<1>2. TypeOK'
  <2>1. CASE slot[id] = "live"
    BY <1>1, <2>1 DEF TypeOK, Slots, Negatives, Mems, Rows
  <2>2. CASE ~(slot[id] = "live")
    BY <1>1, <2>2 DEF TypeOK, Slots, Negatives, Mems, Rows
  <2>3. QED
    BY <2>1, <2>2
<1>3. /\ erase[id].pc = "none" /\ permits = {} /\ shutdown = "no" /\ mem[id] \in Mems
      /\ slot[id] \notin {"erasing", "detaching", "attaching"} /\ slot'[id] = "erasing"
      /\ \/ /\ slot[id] = "live" /\ mem'[id] = "fenced"
            /\ erase'[id].pc = "close" /\ erase'[id].attached /\ erase'[id].prior = "none"
         \/ /\ slot[id] # "live" /\ UNCHANGED mem[id]
            /\ erase'[id].pc = "store" /\ ~erase'[id].attached /\ erase'[id].prior = slot[id]
      /\ Stale(id)' => Stale(id)
      /\ UNCHANGED <<flight[id], detach[id].pc, row[id], negative[id], permits,
                     previous, releasing, closeSet, retry, shutdown>>
  <2>1. CASE slot[id] = "live"
    BY <1>1, <2>1 DEF TypeOK, Stale, Sound, SlotInv, PermitInv
  <2>2. CASE ~(slot[id] = "live")
    BY <1>1, <2>2 DEF TypeOK, Stale, Sound, SlotInv, PermitInv
  <2>3. QED
    BY <2>1, <2>2
<1>4. Kept(id)
  BY <1>3 DEF Kept, Sound, LeaseKept, HandleFresh, Mems,
       SlotInv, PermitInv, MemInv, EraseInv, ReleaseInv, StaleInv, ClosedInv
<1>5. Frees(id)
  BY <1>3 DEF Frees, Waits, Counts, Placed, Mems, Sound, SlotInv, PermitInv, MemInv, EraseInv
<1>6. ASSUME NEW j \in Ids, j # id PROVE Kept(j) /\ Frees(j)
  <2>1. Untouched(j) /\ flight'[j] = flight[j]
    BY <1>6 DEF TypeOK, Untouched, Stale, Sound, PermitInv
  <2>2. QED
    BY <2>1, Elsewhere
<1>7. QED
  BY <1>2, <1>4, <1>5, <1>6

LEMMA EraseClosesKeeps == ASSUME IInv, NEW id \in Ids, EraseCloses(id)
                          PROVE  TypeOK' /\ \A j \in Ids : Kept(j) /\ Frees(j)
<1> USE RegistryAssumption, NonesTyped DEF RegistryAssumption, Ids, IInv, EraseCloses, CloseHandle, TryRelease, ReleaseRow, Outlive, Become
<1>1. /\ [erase[id] EXCEPT !.pc = "store"] \in Erases /\ [erase[id] EXCEPT !.pc = "store"].pc = "store"
      /\ [erase[id] EXCEPT !.pc = "store"].attached = erase[id].attached
      /\ [erase[id] EXCEPT !.pc = "store"].prior = erase[id].prior
  BY EraseMoves DEF TypeOK
<1>2. TypeOK'
  BY <1>1 DEF TypeOK, Slots, Negatives, Mems, Rows, Holds
<1>3. /\ erase[id].pc = "close" /\ erase'[id].pc = "store" /\ mem'[id] = "none"
      /\ UNCHANGED <<erase[id].attached, erase[id].prior>>
      /\ row'[id] = row[id] \/ (row[id] = "mine" /\ row'[id] = "free")
      /\ UNCHANGED <<slot[id], flight[id], detach[id].pc, negative[id], permits,
                     previous, releasing, closeSet, retry, shutdown>>
  BY <1>1 DEF TypeOK, Stale, Sound, SlotInv, PermitInv
<1>4. Kept(id)
  BY <1>3 DEF Kept, Sound, LeaseKept, HandleFresh, Mems,
       SlotInv, PermitInv, MemInv, EraseInv, ReleaseInv, StaleInv, ClosedInv
<1>5. Frees(id)
  BY <1>3 DEF Frees, Waits, Counts, Placed, Mems, Sound, SlotInv, PermitInv, MemInv, EraseInv
<1>6. ASSUME NEW j \in Ids, j # id PROVE Kept(j) /\ Frees(j)
  <2>1. Untouched(j) /\ flight'[j] = flight[j]
    BY <1>6 DEF TypeOK, Untouched, Stale, Sound, PermitInv
  <2>2. QED
    BY <2>1, Elsewhere
<1>7. QED
  BY <1>2, <1>4, <1>5, <1>6

LEMMA EraseInStoreKeeps == ASSUME IInv, NEW id \in Ids, NEW answer \in {"committed", "held", "error"}, EraseInStore(id, answer)
                           PROVE  TypeOK' /\ \A j \in Ids : Kept(j) /\ Frees(j)
<1> USE RegistryAssumption, NonesTyped DEF RegistryAssumption, Ids, IInv, EraseInStore
<1>1. /\ [erase[id] EXCEPT !.pc = answer] \in Erases /\ [erase[id] EXCEPT !.pc = answer].pc = answer
      /\ [erase[id] EXCEPT !.pc = answer].attached = erase[id].attached
      /\ [erase[id] EXCEPT !.pc = answer].prior = erase[id].prior
  BY DEF TypeOK, Erases
<1>2. TypeOK'
  BY <1>1 DEF TypeOK, Slots, Negatives, Mems, Rows
<1>3. /\ erase[id].pc = "store" /\ erase'[id].pc = answer /\ mem[id] \in Mems
      /\ UNCHANGED <<erase[id].attached, erase[id].prior>>
      /\ row'[id] = "tombstone" \/ (row'[id] = row[id] /\ answer # "committed")
      /\ Stale(id)' => Stale(id)
      /\ UNCHANGED <<slot[id], flight[id], detach[id].pc, mem[id], negative[id],
                     permits, previous, releasing, closeSet, retry, shutdown>>
  BY <1>1 DEF TypeOK, Stale, Sound, SlotInv, PermitInv
<1>4. Kept(id)
  BY <1>3 DEF Kept, Sound, LeaseKept, HandleFresh, Mems,
       SlotInv, PermitInv, MemInv, EraseInv, ReleaseInv, StaleInv, ClosedInv
<1>5. Frees(id)
  BY <1>3 DEF Frees, Waits, Counts, Placed, Mems, Sound, SlotInv, PermitInv, MemInv, EraseInv
<1>6. ASSUME NEW j \in Ids, j # id PROVE Kept(j) /\ Frees(j)
  <2>1. Untouched(j) /\ flight'[j] = flight[j]
    BY <1>6 DEF TypeOK, Untouched, Stale, Sound, PermitInv
  <2>2. QED
    BY <2>1, Elsewhere
<1>7. QED
  BY <1>2, <1>4, <1>5, <1>6

LEMMA EraseMarksKeeps == ASSUME IInv, NEW id \in Ids, EraseMarks(id)
                         PROVE  TypeOK' /\ \A j \in Ids : Kept(j) /\ Frees(j)
<1> USE RegistryAssumption, NonesTyped DEF RegistryAssumption, Ids, IInv, EraseMarks, Settle
<1>1. TypeOK'
  BY DEF TypeOK, Slots, Negatives, Mems, Rows
<1>2. /\ row[id] = "tombstone" /\ erase[id].pc \notin {"none", "previous"} /\ erase'[id].pc = "none"
      /\ slot'[id] \in {"erased", "none"} /\ negative'[id] \in {negative[id], "erased"}
      /\ Stale(id)' => Stale(id)
      /\ UNCHANGED <<flight[id], detach[id].pc, mem[id], row[id], permits,
                     previous, releasing, closeSet, retry, shutdown>>
  BY DEF TypeOK, Stale, Sound, SlotInv, PermitInv, EraseInv
<1>3. Kept(id)
  BY <1>2 DEF Kept, Sound, LeaseKept, HandleFresh, Mems,
       SlotInv, PermitInv, MemInv, EraseInv, ReleaseInv, StaleInv, ClosedInv
<1>4. Frees(id)
  BY <1>2 DEF Frees, Waits, Counts, Placed, Mems, Sound, SlotInv, PermitInv, MemInv, EraseInv
<1>5. ASSUME NEW j \in Ids, j # id PROVE Kept(j) /\ Frees(j)
  <2>1. Untouched(j) /\ flight'[j] = flight[j]
    BY <1>5 DEF TypeOK, Untouched, Stale, Sound, PermitInv
  <2>2. QED
    BY <2>1, Elsewhere
<1>6. QED
  BY <1>1, <1>3, <1>4, <1>5

LEMMA EraseRestoresKeeps == ASSUME IInv, NEW id \in Ids, EraseRestores(id)
                            PROVE  TypeOK' /\ \A j \in Ids : Kept(j) /\ Frees(j)
<1> USE RegistryAssumption, NonesTyped DEF RegistryAssumption, Ids, IInv, EraseRestores, Settle
<1>1. TypeOK'
  BY DEF TypeOK, Slots, Negatives, Mems, Rows, Erases
<1>2. /\ erase[id].pc \in {"held", "error"} /\ ~erase[id].attached /\ erase'[id].pc = "none"
      /\ slot'[id] = erase[id].prior
      /\ Stale(id)' => Stale(id)
      /\ UNCHANGED <<flight[id], detach[id].pc, mem[id], row[id], negative[id],
                     permits, previous, releasing, closeSet, retry, shutdown>>
  BY DEF TypeOK, Stale, Sound, SlotInv, PermitInv
<1>3. Kept(id)
  BY <1>2 DEF Kept, Sound, LeaseKept, HandleFresh, Mems,
       SlotInv, PermitInv, MemInv, EraseInv, ReleaseInv, StaleInv, ClosedInv
<1>4. Frees(id)
  BY <1>2 DEF Frees, Waits, Counts, Placed, Mems, Sound, SlotInv, PermitInv, MemInv, EraseInv
<1>5. ASSUME NEW j \in Ids, j # id PROVE Kept(j) /\ Frees(j)
  <2>1. Untouched(j) /\ flight'[j] = flight[j]
    BY <1>5 DEF TypeOK, Untouched, Stale, Sound, PermitInv
  <2>2. QED
    BY <2>1, Elsewhere
<1>6. QED
  BY <1>1, <1>3, <1>4, <1>5

LEMMA EraseUndoneKeeps == ASSUME IInv, NEW id \in Ids, EraseUndone(id)
                          PROVE  TypeOK' /\ \A j \in Ids : Kept(j) /\ Frees(j)
<1> USE RegistryAssumption, NonesTyped DEF RegistryAssumption, Ids, IInv, EraseUndone, Settle, TryRelease, ReleaseRow, Become
<1>1. /\ [erase[id] EXCEPT !.pc = "previous"] \in Erases /\ [erase[id] EXCEPT !.pc = "previous"].pc = "previous"
      /\ [erase[id] EXCEPT !.pc = "previous"].attached = erase[id].attached
      /\ [erase[id] EXCEPT !.pc = "previous"].prior = erase[id].prior
  BY EraseMoves DEF TypeOK
<1>2. TypeOK'
  BY <1>1 DEF TypeOK, Slots, Negatives, Mems, Rows, Holds
<1>3. /\ erase[id].pc \in {"held", "error"} /\ erase'[id].pc \in {"none", "previous"}
      /\ slot'[id] \in {"held", "none"} /\ mem[id] \in Mems
      /\ Stale(id)' => id \in previous'
      /\ row'[id] = row[id] \/ (row[id] = "mine" /\ row'[id] = "free")
      /\ Stale(id)' => Stale(id)
      /\ UNCHANGED <<flight[id], detach[id].pc, mem[id], negative[id], permits,
                     releasing, closeSet, retry, shutdown>>
  BY <1>1 DEF TypeOK, Stale, Sound, SlotInv, PermitInv
<1>4. Kept(id)
  BY <1>3 DEF Kept, Sound, LeaseKept, HandleFresh, Mems,
       SlotInv, PermitInv, MemInv, EraseInv, ReleaseInv, StaleInv, ClosedInv
<1>5. Frees(id)
  BY <1>3 DEF Frees, Waits, Counts, Placed, Mems, Sound, SlotInv, PermitInv, MemInv, EraseInv
<1>6. ASSUME NEW j \in Ids, j # id PROVE Kept(j) /\ Frees(j)
  <2>1. Untouched(j) /\ flight'[j] = flight[j]
    BY <1>6 DEF TypeOK, Untouched, Stale, Sound, PermitInv
  <2>2. QED
    BY <2>1, Elsewhere
<1>7. QED
  BY <1>2, <1>4, <1>5, <1>6

LEMMA EraseRemembersKeeps == ASSUME IInv, NEW id \in Ids, EraseRemembers(id)
                             PROVE  TypeOK' /\ \A j \in Ids : Kept(j) /\ Frees(j)
<1> USE RegistryAssumption, NonesTyped DEF RegistryAssumption, Ids, IInv, EraseRemembers
<1>1. TypeOK'
  BY DEF TypeOK, Slots, Negatives, Mems, Rows
<1>2. /\ erase[id].pc = "previous" /\ erase'[id].pc = "none" /\ previous \subseteq previous'
      /\ Stale(id)' => Stale(id)
      /\ UNCHANGED <<slot[id], flight[id], detach[id].pc, mem[id], row[id],
                     negative[id], permits, releasing, closeSet, retry, shutdown>>
  BY DEF TypeOK, Stale, Sound, SlotInv, PermitInv
<1>3. Kept(id)
  BY <1>2 DEF Kept, Sound, LeaseKept, HandleFresh, Mems,
       SlotInv, PermitInv, MemInv, EraseInv, ReleaseInv, StaleInv, ClosedInv
<1>4. Frees(id)
  BY <1>2 DEF Frees, Waits, Counts, Placed, Mems, Sound, SlotInv, PermitInv, MemInv, EraseInv
<1>5. ASSUME NEW j \in Ids, j # id PROVE Kept(j) /\ Frees(j)
  <2>1. Untouched(j) /\ flight'[j] = flight[j]
    BY <1>5 DEF TypeOK, Untouched, Stale, Sound, PermitInv
  <2>2. QED
    BY <2>1, Elsewhere
<1>6. QED
  BY <1>1, <1>3, <1>4, <1>5

LEMMA EraseCutOffKeeps == ASSUME IInv, NEW id \in Ids, EraseCutOff(id)
                          PROVE  TypeOK' /\ \A j \in Ids : Kept(j) /\ Frees(j)
<1> USE RegistryAssumption, NonesTyped DEF RegistryAssumption, Ids, IInv, EraseCutOff
<1>1. TypeOK'
  BY DEF TypeOK, Slots, Negatives, Mems, Rows
<1>2. /\ erase[id].pc \notin {"none", "previous"} /\ erase'[id].pc = "none"
      /\ Stale(id)' => Stale(id)
      /\ UNCHANGED <<slot[id], flight[id], detach[id].pc, mem[id], row[id],
                     negative[id], permits, previous, releasing, closeSet, retry,
                     shutdown>>
  BY DEF TypeOK, Stale, Sound, SlotInv, PermitInv
<1>3. Kept(id)
  BY <1>2 DEF Kept, Sound, LeaseKept, HandleFresh, Mems,
       SlotInv, PermitInv, MemInv, EraseInv, ReleaseInv, StaleInv, ClosedInv
<1>4. Frees(id)
  BY <1>2 DEF Frees, Waits, Counts, Placed, Mems, Sound, SlotInv, PermitInv, MemInv, EraseInv
<1>5. ASSUME NEW j \in Ids, j # id PROVE Kept(j) /\ Frees(j)
  <2>1. Untouched(j) /\ flight'[j] = flight[j]
    BY <1>5 DEF TypeOK, Untouched, Stale, Sound, PermitInv
  <2>2. QED
    BY <2>1, Elsewhere
<1>6. QED
  BY <1>1, <1>3, <1>4, <1>5

LEMMA CloseOneKeeps == ASSUME IInv, NEW id \in Ids, CloseOne(id)
                       PROVE  TypeOK' /\ \A j \in Ids : Kept(j) /\ Frees(j)
<1> USE RegistryAssumption, NonesTyped DEF RegistryAssumption, Ids, IInv, CloseOne, CloseHandle, TryRelease, ReleaseRow, Outlive, Become
<1>1. TypeOK'
  BY DEF TypeOK, Slots, Negatives, Mems, Rows, Holds
<1>2. /\ id \in closeSet /\ closeSet' = closeSet \ {id} /\ mem'[id] = "none"
      /\ row'[id] = row[id] \/ (row[id] = "mine" /\ row'[id] = "free")
      /\ UNCHANGED <<slot[id], flight[id], detach[id].pc, erase[id], negative[id],
                     permits, previous, releasing, retry, shutdown>>
  BY DEF TypeOK, Stale, Sound, SlotInv, PermitInv
<1>3. Kept(id)
  BY <1>2 DEF Kept, Sound, LeaseKept, HandleFresh, Mems,
       SlotInv, PermitInv, MemInv, EraseInv, ReleaseInv, StaleInv, ClosedInv
<1>4. Frees(id)
  BY <1>2 DEF Frees, Waits, Counts, Placed, Mems, Sound, SlotInv, PermitInv, MemInv, EraseInv
<1>5. ASSUME NEW j \in Ids, j # id PROVE Kept(j) /\ Frees(j)
  <2>1. Untouched(j) /\ flight'[j] = flight[j]
    BY <1>5 DEF TypeOK, Untouched, Stale, Sound, PermitInv
  <2>2. QED
    BY <2>1, Elsewhere
<1>6. QED
  BY <1>1, <1>3, <1>4, <1>5

LEMMA OtherTakesKeeps == ASSUME IInv, NEW id \in Ids, OtherTakes(id)
                         PROVE  TypeOK' /\ \A j \in Ids : Kept(j) /\ Frees(j)
<1> USE RegistryAssumption, NonesTyped DEF RegistryAssumption, Ids, IInv, OtherTakes, MayAcquire
<1>1. TypeOK'
  BY DEF TypeOK, Slots, Negatives, Mems, Rows
<1>2. /\ row[id] # "tombstone" /\ row'[id] = "other"
      /\ Stale(id)' => Stale(id)
      /\ UNCHANGED <<slot[id], flight[id], detach[id].pc, erase[id], mem[id],
                     negative[id], permits, previous, releasing, closeSet, retry,
                     shutdown>>
  BY DEF TypeOK, Stale, Sound, SlotInv, PermitInv
<1>3. Kept(id)
  BY <1>2 DEF Kept, Sound, LeaseKept, HandleFresh, Mems,
       SlotInv, PermitInv, MemInv, EraseInv, ReleaseInv, StaleInv, ClosedInv
<1>4. Frees(id)
  BY <1>2 DEF Frees, Waits, Counts, Placed, Mems, Sound, SlotInv, PermitInv, MemInv, EraseInv
<1>5. ASSUME NEW j \in Ids, j # id PROVE Kept(j) /\ Frees(j)
  <2>1. Untouched(j) /\ flight'[j] = flight[j]
    BY <1>5 DEF TypeOK, Untouched, Stale, Sound, PermitInv
  <2>2. QED
    BY <2>1, Elsewhere
<1>6. QED
  BY <1>1, <1>3, <1>4, <1>5

LEMMA OtherLeavesKeeps == ASSUME IInv, NEW id \in Ids, NEW next \in {"free", "tombstone"}, OtherLeaves(id, next)
                          PROVE  TypeOK' /\ \A j \in Ids : Kept(j) /\ Frees(j)
<1> USE RegistryAssumption, NonesTyped DEF RegistryAssumption, Ids, IInv, OtherLeaves
<1>1. TypeOK'
  BY DEF TypeOK, Slots, Negatives, Mems, Rows
<1>2. /\ row[id] = "other"
      /\ Stale(id)' => Stale(id)
      /\ UNCHANGED <<slot[id], flight[id], detach[id].pc, erase[id], mem[id],
                     negative[id], permits, previous, releasing, closeSet, retry,
                     shutdown>>
  BY DEF TypeOK, Stale, Sound, SlotInv, PermitInv
<1>3. Kept(id)
  BY <1>2 DEF Kept, Sound, LeaseKept, HandleFresh, Mems,
       SlotInv, PermitInv, MemInv, EraseInv, ReleaseInv, StaleInv, ClosedInv
<1>4. Frees(id)
  BY <1>2 DEF Frees, Waits, Counts, Placed, Mems, Sound, SlotInv, PermitInv, MemInv, EraseInv
<1>5. ASSUME NEW j \in Ids, j # id PROVE Kept(j) /\ Frees(j)
  <2>1. Untouched(j) /\ flight'[j] = flight[j]
    BY <1>5 DEF TypeOK, Untouched, Stale, Sound, PermitInv
  <2>2. QED
    BY <2>1, Elsewhere
<1>6. QED
  BY <1>1, <1>3, <1>4, <1>5

LEMMA RefreshKeeps == ASSUME IInv, NEW id \in Ids, Refresh(id)
                      PROVE  TypeOK' /\ \A j \in Ids : Kept(j) /\ Frees(j)
<1> USE RegistryAssumption, NonesTyped DEF RegistryAssumption, Ids, IInv, Refresh
<1>1. TypeOK'
  BY DEF TypeOK, Slots, Negatives, Mems, Rows
<1>2. /\ row[id] = "free" /\ row'[id] = "mine"
      /\ Stale(id)' => Stale(id)
      /\ UNCHANGED <<slot[id], flight[id], detach[id].pc, erase[id], mem[id],
                     negative[id], permits, previous, releasing, closeSet, retry,
                     shutdown>>
  BY DEF TypeOK, Stale, Sound, SlotInv, PermitInv
<1>3. Kept(id)
  BY <1>2 DEF Kept, Sound, LeaseKept, HandleFresh, Mems,
       SlotInv, PermitInv, MemInv, EraseInv, ReleaseInv, StaleInv, ClosedInv
<1>4. Frees(id)
  BY <1>2 DEF Frees, Waits, Counts, Placed, Mems, Sound, SlotInv, PermitInv, MemInv, EraseInv
<1>5. ASSUME NEW j \in Ids, j # id PROVE Kept(j) /\ Frees(j)
  <2>1. Untouched(j) /\ flight'[j] = flight[j]
    BY <1>5 DEF TypeOK, Untouched, Stale, Sound, PermitInv
  <2>2. QED
    BY <2>1, Elsewhere
<1>6. QED
  BY <1>1, <1>3, <1>4, <1>5

LEMMA DetachFinishesKeeps == ASSUME IInv, NEW id \in Ids, DetachFinishes(id)
                             PROVE  TypeOK' /\ \A j \in Ids : Kept(j)
<1> USE RegistryAssumption, NonesTyped DEF RegistryAssumption, Ids, IInv, DetachFinishes
<1>1. \A i \in Ids : /\ [flight[i] EXCEPT !.victim = NoVictim] \in Flights
                     /\ [flight[i] EXCEPT !.victim = NoVictim].pc = flight[i].pc
  BY DEF TypeOK, Flights
<1>2. TypeOK'
  BY <1>1 DEF TypeOK, Slots, Negatives, Mems, Rows
<1>3. \A i \in Ids : flight'[i].pc = flight[i].pc
  BY <1>1 DEF TypeOK
<1>4. /\ detach[id].pc = "finish" /\ detach'[id].pc = "none" /\ slot'[id] \in {"held", "none"}
      /\ Stale(id) => id \in previous'
      /\ Stale(id)' => Stale(id)
      /\ UNCHANGED <<erase[id], mem[id], row[id], negative[id], permits, releasing, closeSet,
                     retry, shutdown>>
  BY DEF TypeOK, Stale, Lingering, Sound, SlotInv
<1>5. Kept(id)
  BY <1>3, <1>4 DEF Kept, Sound, LeaseKept, HandleFresh,
       SlotInv, PermitInv, MemInv, EraseInv, ReleaseInv, StaleInv, ClosedInv
<1>6. ASSUME NEW j \in Ids, j # id PROVE Kept(j)
  <2>1. Untouched(j)
    BY <1>3, <1>6 DEF TypeOK, Untouched, Stale
  <2>2. QED
    BY <2>1, Elsewhere
<1>7. QED
  BY <1>2, <1>5, <1>6

LEMMA TakeFreePlaceKeeps == ASSUME IInv, NEW id \in Ids, Reserve(id), TakeFreePlace(id)
                            PROVE  TypeOK' /\ \A j \in Ids : Kept(j)
<1> USE RegistryAssumption, NonesTyped DEF RegistryAssumption, Ids, IInv, Reserve, TakeFreePlace
<1>1. [flight[id] EXCEPT !.pc = "acquire"] \in Flights /\ [flight[id] EXCEPT !.pc = "acquire"].pc = "acquire"
  BY FlightMoves DEF TypeOK, FlightPcs
<1>2. TypeOK'
  BY <1>1 DEF TypeOK, Flights
<1>3. /\ flight[id].pc = "reserve" /\ flight'[id].pc = "acquire"
      /\ Stale(id)' => Stale(id)
      /\ UNCHANGED <<slot[id], detach[id], erase[id], mem[id], row[id], negative[id], permits,
                     previous, releasing, closeSet, retry, shutdown>>
  BY <1>1 DEF TypeOK, Stale
<1>4. Kept(id)
  BY <1>3 DEF Kept, Sound, LeaseKept, HandleFresh,
       SlotInv, PermitInv, MemInv, EraseInv, ReleaseInv, StaleInv, ClosedInv
<1>5. ASSUME NEW j \in Ids, j # id PROVE Kept(j)
  <2>1. Untouched(j)
    BY <1>5 DEF TypeOK, Untouched, Stale
  <2>2. QED
    BY <2>1, Elsewhere
<1>6. QED
  BY <1>2, <1>4, <1>5

LEMMA EvictKeeps == ASSUME IInv, NEW id \in Ids, Reserve(id), NEW v \in OnDemand, Evict(id, v)
                    PROVE  TypeOK' /\ \A j \in Ids : Kept(j)
<1> USE RegistryAssumption, NonesTyped DEF RegistryAssumption, Ids, IInv, Reserve, Evict, Evictable
<1>1. /\ [flight[id] EXCEPT !.pc = "gone", !.victim = v] \in Flights
      /\ [flight[id] EXCEPT !.pc = "gone", !.victim = v].pc = "gone"
  <2>1. flight[id] \in Flights
    BY DEF TypeOK
  <2>2. QED
    BY <2>1, FlightEvicts
<1>2. [pc |-> "close", why |-> "evicted"] \in Detaches
  BY DEF Detaches
<1>3. TypeOK'
  <2>1. flight[id].cred \in Creds \cup {NoCred}
    BY DEF TypeOK, Flights
  <2>2. QED
    BY <1>1, <1>2, <2>1 DEF TypeOK, Slots
<1>4. v # id
  BY DEF Sound, SlotInv
<1>5. /\ flight[id].pc = "reserve" /\ flight'[id].pc = "gone"
      /\ Stale(id)' => Stale(id)
      /\ UNCHANGED <<slot[id], detach[id], erase[id], mem[id], row[id], negative[id], permits,
                     previous, releasing, closeSet, retry, shutdown>>
  BY <1>1, <1>4 DEF TypeOK, Stale
<1>6. /\ slot[v] = "live" /\ slot'[v] = "detaching" /\ detach'[v].pc = "close"
      /\ Stale(v)' => Stale(v)
      /\ UNCHANGED <<flight[v], erase[v], mem[v], row[v], negative[v], permits,
                     previous, releasing, closeSet, retry, shutdown>>
  BY <1>4 DEF TypeOK, Stale
<1>7. Kept(id)
  BY <1>5 DEF Kept, Sound, LeaseKept, HandleFresh,
       SlotInv, PermitInv, MemInv, EraseInv, ReleaseInv, StaleInv, ClosedInv
<1>8. Kept(v)
  BY <1>6 DEF Kept, Sound, LeaseKept, HandleFresh,
       SlotInv, PermitInv, MemInv, EraseInv, ReleaseInv, StaleInv, ClosedInv
<1>9. ASSUME NEW j \in Ids, j # id, j # v PROVE Kept(j)
  <2>1. Untouched(j)
    BY <1>9 DEF TypeOK, Untouched, Stale
  <2>2. QED
    BY <2>1, Elsewhere
<1>10. QED
  BY <1>3, <1>7, <1>8, <1>9

LEMMA RequestsKeep ==
  ASSUME IInv, \E r \in Requests : Answer(r) \/ \E id \in Ids : Serve(r, id)
  PROVE  TypeOK' /\ \A j \in Ids : Kept(j) /\ Frees(j)
<1> USE RegistryAssumption DEF RegistryAssumption, Ids, IInv
<1>1. PICK r \in Requests : Answer(r) \/ \E id \in Ids : Serve(r, id)
  OBVIOUS
<1>2. PICK h \in Holds : /\ request' = [request EXCEPT ![r] = h] /\ h.pc # "stale"
                         /\ UNCHANGED <<slot, flight, retry, detach, erase, permits, owner, negative,
                                        previous, releasing, lost, mem, row, shutdown, closeSet, bound>>
  <2>1. Idle \in Holds /\ Idle.pc # "stale"
    BY DEF Idle, Holds
  <2>2. \A id \in Ids : /\ [pc |-> "serving", at |-> id] \in Holds
                        /\ [pc |-> "serving", at |-> id].pc # "stale"
    BY DEF Holds
  <2>3. CASE Answer(r)
    BY <2>1, <2>3 DEF Answer
  <2>4. CASE \E id \in Ids : Serve(r, id)
    BY <2>2, <2>4 DEF Serve
  <2>5. QED
    BY <1>1, <2>3, <2>4
<1>3. TypeOK'
  BY <1>2 DEF TypeOK
<1>4. ASSUME NEW j \in Ids PROVE Kept(j) /\ Frees(j)
  <2>1. Stale(j)' => Stale(j)
    BY <1>2 DEF TypeOK, Stale
  <2>2. Untouched(j) /\ flight'[j] = flight[j]
    BY <1>2, <2>1 DEF Untouched
  <2>3. QED
    BY <2>2, Elsewhere
<1>5. QED
  BY <1>3, <1>4

LEMMA ShutdownKeeps == ASSUME IInv, ShutdownBegins \/ TakeCloseSet \/ Exit
                       PROVE  TypeOK' /\ \A j \in Ids : Kept(j) /\ Frees(j)
<1> USE RegistryAssumption DEF RegistryAssumption, Ids, IInv
<1>1. TypeOK'
  BY DEF TypeOK, Slots, ShutdownBegins, TakeCloseSet, Exit
<1>2. ASSUME NEW j \in Ids PROVE Kept(j) /\ Frees(j)
  <2>1. Stale(j)' <=> Stale(j)
    BY DEF Stale, ShutdownBegins, TakeCloseSet, Exit
  <2>2. UNCHANGED <<flight[j], detach[j], erase[j], mem[j], row[j], negative[j], permits, previous,
                    releasing, retry>>
    BY DEF ShutdownBegins, TakeCloseSet, Exit
  <2>3. \/ /\ shutdown = "no" /\ shutdown' = "closing" /\ UNCHANGED <<slot[j], closeSet>>
        \/ /\ shutdown = "closing" /\ shutdown' = "closed" /\ permits = {}
           /\ \/ slot[j] = "live" /\ slot'[j] = "none" /\ j \in closeSet'
              \/ slot[j] # "live" /\ slot'[j] = slot[j] /\ j \notin closeSet'
        \/ /\ shutdown = "closed" /\ shutdown' = "gone" /\ closeSet = {}
           /\ flight[j].pc = "none" /\ detach[j].pc = "none" /\ UNCHANGED <<slot[j], closeSet>>
    BY DEF ShutdownBegins, TakeCloseSet, Exit, MayCloseSet
  <2>4. flight[j].pc \in FlightPcs
    BY DEF TypeOK, Flights
  <2>5. Kept(j)
    BY <2>1, <2>2, <2>3, <2>4 DEF Kept, Sound, LeaseKept, HandleFresh, FlightPcs,
         SlotInv, PermitInv, MemInv, EraseInv, ReleaseInv, StaleInv, ClosedInv
  <2>6. Frees(j)
    BY <2>2, <2>3 DEF Frees, Waits, Counts, Placed, Sound, SlotInv, MemInv
  <2>7. QED
    BY <2>5, <2>6
<1>3. QED
  BY <1>1, <1>2

-----------------------------------------------------------------------------
(* The places.                                                               *)

LEMMA AddOne == ASSUME NEW S, IsFiniteSet(S), NEW x
                PROVE  /\ IsFiniteSet(S \cup {x}) /\ Cardinality(S \cup {x}) \in Nat
                       /\ Cardinality(S \cup {x}) <= Cardinality(S) + 1
<1>1. Cardinality(S) \in Nat
  BY FS_CardinalityType
<1>2. CASE x \in S
  BY <1>1, <1>2, FS_AddElement
<1>3. CASE x \notin S
  BY <1>1, <1>3, FS_AddElement
<1>4. QED
  BY <1>2, <1>3

LEMMA CountedTaken == ASSUME IInv
                      PROVE  /\ IsFiniteSet(Counted) /\ IsFiniteSet(Taken)
                             /\ Cardinality(Counted) \in Nat /\ Cardinality(Taken) \in Nat
                             /\ ~Closing => Cardinality(Counted) <= Cardinality(Taken)
<1> USE RegistryAssumption DEF RegistryAssumption, Ids, IInv
<1>1. IsFiniteSet(Counted) /\ IsFiniteSet(Taken)
  BY FS_Subset DEF Counted, Taken
<1>2. ASSUME ~Closing PROVE Counted \subseteq Taken
  BY <1>2 DEF Counted, Counts, Taken, TakesPlace, Placed, Closing, Sound, SlotInv, MemInv
<1>3. QED
  BY <1>1, <1>2, FS_Subset, FS_CardinalityType

LEMMA PlacesTyped == Places \in Nat
<1>1. IsFiniteSet(Pinned)
  BY RegistryAssumption, FS_Subset DEF RegistryAssumption, Ids
<1>2. Cardinality(Pinned) \in Nat /\ MaxAttached \in Nat
  BY <1>1, FS_CardinalityType, RegistryAssumption DEF RegistryAssumption
<1>3. QED
  BY <1>2 DEF Places

LEMMA FreesPlaces == ASSUME IInv, PlacesInv, \A j \in Ids : Frees(j)
                     PROVE  PlacesInv'
<1> USE RegistryAssumption DEF RegistryAssumption, Ids, PlacesInv
<1>1. \A i \in OnDemand : Waits(i)' => Waits(i) /\ flight'[i] = flight[i]
  BY DEF Frees, Waits
<1>2. \A i \in OnDemand : slot[i] = "detaching" => slot'[i] = "detaching"
  BY DEF Frees
<1>3. Counted' \subseteq Counted
  BY DEF Frees, Counted
<1>4. Cardinality(Counted') <= Cardinality(Counted) /\ Cardinality(Counted') \in Nat
  BY <1>3, CountedTaken, FS_Subset, FS_CardinalityType
<1>5. QED
  BY <1>1, <1>2, <1>4, CountedTaken, PlacesTyped

LEMMA TakeFreePlacePlaces ==
  ASSUME IInv, PlacesInv, NEW id \in OnDemand, Reserve(id), TakeFreePlace(id)
  PROVE  PlacesInv'
<1> USE RegistryAssumption DEF RegistryAssumption, Ids, PlacesInv
<1>1. /\ \A i \in OnDemand : i # id => flight'[i] = flight[i]
      /\ flight'[id].pc = "acquire" /\ slot' = slot /\ mem' = mem /\ closeSet' = closeSet
  BY FlightMoves DEF IInv, Reserve, TakeFreePlace, TypeOK, FlightPcs
<1>2. Counted' \subseteq Counted \cup {id}
  BY <1>1 DEF Counted, Counts, Placed, Waits
<1>3. Cardinality(Counted') <= Cardinality(Counted) + 1 /\ Cardinality(Counted') \in Nat
  <2>1. IsFiniteSet(Counted \cup {id}) /\ Cardinality(Counted \cup {id}) <= Cardinality(Counted) + 1
    BY CountedTaken, AddOne
  <2>2. QED
    BY <1>2, <2>1, CountedTaken, FS_Subset, FS_CardinalityType
<1>4. Cardinality(Counted) < Places
  BY CountedTaken, PlacesTyped DEF Reserve, TakeFreePlace
<1>5. Cardinality(Counted') <= Places
  BY <1>3, <1>4, CountedTaken, PlacesTyped
<1>6. \A i \in OnDemand : Waits(i)' => Waits(i) /\ flight'[i] = flight[i]
  BY <1>1 DEF Waits
<1>7. QED
  BY <1>1, <1>5, <1>6

LEMMA EvictPlaces ==
  ASSUME IInv, PlacesInv, NEW id \in OnDemand, Reserve(id), NEW v \in OnDemand, Evict(id, v)
  PROVE  PlacesInv'
<1> USE RegistryAssumption DEF RegistryAssumption, Ids, PlacesInv
<1>1. /\ v # id /\ v # NoVictim /\ slot[v] = "live" /\ slot'[v] = "detaching"
      /\ \A i \in OnDemand : i # v => slot'[i] = slot[i]
      /\ \A i \in OnDemand : i # id => flight'[i] = flight[i]
      /\ flight'[id].pc = "gone" /\ flight'[id].victim = v
      /\ mem' = mem /\ closeSet' = closeSet
  <2>1. /\ [flight[id] EXCEPT !.pc = "gone", !.victim = v].pc = "gone"
        /\ [flight[id] EXCEPT !.pc = "gone", !.victim = v].victim = v
    <3>1. flight[id] \in Flights /\ v \in Ids
      BY DEF IInv, TypeOK
    <3>2. QED
      BY ONLY <3>1, FlightEvicts
  <2>2. v # id
    BY DEF IInv, Reserve, Evict, Evictable, Sound, SlotInv
  <2>3. QED
    BY <2>1, <2>2 DEF IInv, Reserve, Evict, Evictable, TypeOK
<1>2. Counted' \subseteq Counted
  BY <1>1 DEF Counted, Counts, Placed, Waits
<1>3. Cardinality(Counted') <= Places
  BY <1>2, CountedTaken, PlacesTyped, FS_Subset, FS_CardinalityType
<1>4. \A i \in OnDemand : i # id /\ Waits(i)' => Waits(i) /\ flight'[i] = flight[i] /\ flight[i].victim # v
  BY <1>1 DEF Waits
<1>5. ASSUME NEW i \in OnDemand, Waits(i)'
      PROVE  flight'[i].victim \in OnDemand /\ slot'[flight'[i].victim] = "detaching"
  <2>1. CASE i = id
    BY <1>1, <2>1
  <2>2. CASE i # id
    BY <1>1, <1>4, <1>5, <2>2
  <2>3. QED
    BY <2>1, <2>2
<1>6. ASSUME NEW i \in OnDemand, NEW j \in OnDemand, Waits(i)', Waits(j)', i # j
      PROVE  flight'[i].victim # flight'[j].victim
  BY <1>1, <1>4, <1>6
<1>7. QED
  BY <1>3, <1>5, <1>6

LEMMA DetachFinishesPlaces == ASSUME IInv, PlacesInv, NEW id \in Ids, DetachFinishes(id)
                              PROVE  PlacesInv'
<1> USE RegistryAssumption, NonesTyped DEF RegistryAssumption, Ids, PlacesInv
<1>1. /\ slot[id] = "detaching" /\ slot'[id] \in {"held", "none"}
      /\ \A i \in OnDemand : i # id => slot'[i] = slot[i]
      /\ \A i \in OnDemand : flight'[i].pc = flight[i].pc
      /\ \A i \in OnDemand : flight[i].victim # id => flight'[i] = flight[i]
      /\ \A i \in OnDemand : flight[i].victim = id => flight'[i].victim = NoVictim
      /\ mem' = mem /\ closeSet' = closeSet
  BY FlightEvicts DEF IInv, DetachFinishes, TypeOK, Sound, SlotInv
<1>2. \A i \in OnDemand : Waits(i)' => Waits(i) /\ flight'[i] = flight[i] /\ flight[i].victim # id
  BY <1>1 DEF Waits
<1>3. Cardinality(Counted') <= Cardinality(Counted) /\ Cardinality(Counted') \in Nat
  <2>1. id \notin Counted'
    BY <1>1 DEF IInv, Counted, Counts, Placed, Sound, SlotInv, MemInv
  <2>2. \A i \in Counted' : i \in Counted \/ (Waits(i) /\ flight[i].victim = id)
    BY <1>1, <2>1 DEF Counted, Counts, Placed, Waits
  <2>3. CASE \E i \in OnDemand : Waits(i) /\ flight[i].victim = id
    <3>1. PICK i \in OnDemand : Waits(i) /\ flight[i].victim = id
      BY <2>3
    <3>2. id \in Counted
      BY <1>1, <3>1 DEF Counted, Counts
    <3>3. Counted' \subseteq (Counted \ {id}) \cup {i}
      BY <2>1, <2>2, <3>1 DEF Counted
    <3>4. /\ IsFiniteSet((Counted \ {id}) \cup {i})
          /\ Cardinality((Counted \ {id}) \cup {i}) <= Cardinality(Counted)
      <4>1. IsFiniteSet(Counted \ {id}) /\ Cardinality(Counted \ {id}) = Cardinality(Counted) - 1
        BY <3>2, CountedTaken, FS_RemoveElement
      <4>2. QED
        <5>1. /\ IsFiniteSet((Counted \ {id}) \cup {i})
              /\ Cardinality((Counted \ {id}) \cup {i}) \in Nat
              /\ Cardinality((Counted \ {id}) \cup {i}) <= Cardinality(Counted \ {id}) + 1
          BY <4>1, AddOne
        <5>2. Cardinality(Counted) \in Nat
          BY CountedTaken
        <5>3. QED
          BY <4>1, <5>1, <5>2
    <3>5. QED
      BY <3>3, <3>4, CountedTaken, FS_Subset, FS_CardinalityType
  <2>4. CASE ~\E i \in OnDemand : Waits(i) /\ flight[i].victim = id
    <3>1. Counted' \subseteq Counted
      BY <2>2, <2>4 DEF Counted
    <3>2. QED
      BY <3>1, CountedTaken, FS_Subset, FS_CardinalityType
  <2>5. QED
    BY <2>3, <2>4
<1>4. Cardinality(Counted') <= Places
  BY <1>3, CountedTaken, PlacesTyped
<1>5. ASSUME NEW i \in OnDemand, Waits(i)'
      PROVE  flight'[i].victim \in OnDemand /\ slot'[flight'[i].victim] = "detaching"
  BY <1>1, <1>2, <1>5
<1>6. ASSUME NEW i \in OnDemand, NEW j \in OnDemand, Waits(i)', Waits(j)', i # j
      PROVE  flight'[i].victim # flight'[j].victim
  BY <1>2, <1>6
<1>7. QED
  BY <1>4, <1>5, <1>6

-----------------------------------------------------------------------------
(* The invariants hold of every step.                                        *)

Stepped == TypeOK' /\ (\A j \in Ids : Kept(j)) /\ (PlacesInv => PlacesInv')

LEMMA Freed == ASSUME IInv, TypeOK' /\ \A j \in Ids : Kept(j) /\ Frees(j)
               PROVE  Stepped
BY FreesPlaces DEF Stepped

LEMMA AttachStepKeeps == ASSUME IInv, NEW id \in Ids, AttachStep(id)
                         PROVE  Stepped
<1>1. CASE AttachGetsPermit(id)
  <2>1. CASE WaitsForPrevious(id)
    BY <1>1, <2>1, PreviousAwaitedKeeps, Freed
  <2>2. CASE GoesOn(id)
    BY <1>1, <2>2, GoesOnKeeps, Freed
  <2>3. QED
    BY <1>1, <2>1, <2>2 DEF AttachGetsPermit
<1>2. CASE Probe(id)
  BY <1>2, ProbeKeeps, Freed
<1>3. CASE Reserve(id)
  <2>1. id \in OnDemand
    BY <1>3 DEF IInv, Sound, SlotInv, Reserve
  <2>2. CASE TakeFreePlace(id)
    BY <1>3, <2>1, <2>2, TakeFreePlaceKeeps, TakeFreePlacePlaces DEF Stepped
  <2>3. CASE NoVictimYet(id)
    BY <1>3, <2>3, NoVictimYetKeeps, Freed
  <2>4. ASSUME NEW v \in OnDemand, Evict(id, v) PROVE Stepped
    BY <1>3, <2>1, <2>4, EvictKeeps, EvictPlaces DEF Stepped
  <2>5. QED
    BY <1>3, <2>2, <2>3, <2>4 DEF Reserve
<1>4. CASE VictimGone(id)
  BY <1>4, VictimGoneKeeps, Freed
<1>5. CASE Acquire(id)
  BY <1>5, AcquireKeeps, Freed
<1>6. CASE Admit(id)
  BY <1>6, AdmitKeeps, Freed
<1>7. ASSUME NEW outcome \in {"busy", "failed"}, AttachFails(id, outcome) PROVE Stepped
  BY <1>7, AttachFailsKeeps, Freed
<1>8. CASE AttachTimesOut(id)
  BY <1>8, AttachTimesOutKeeps, Freed
<1>9. CASE AttachSeesClosing(id)
  BY <1>9, AttachSeesClosingKeeps, Freed
<1>10. CASE AttachReleases(id)
  BY <1>10, AttachReleasesKeeps, Freed
<1>11. CASE AttachDies(id)
  BY <1>11, AttachDiesKeeps, Freed
<1>12. QED
  BY <1>1, <1>2, <1>3, <1>4, <1>5, <1>6, <1>7, <1>8, <1>9, <1>10, <1>11 DEF AttachStep

LEMMA RetryStepKeeps == ASSUME IInv, NEW id \in Ids, RetryStep(id)
                        PROVE  Stepped
<1>1. CASE RetryStarts(id)
  BY <1>1, RetryStartsKeeps, Freed
<1>2. CASE RetryAcquires(id)
  BY <1>2, RetryAcquiresKeeps, Freed
<1>3. CASE RetryAdmits(id)
  BY <1>3, RetryAdmitsKeeps, Freed
<1>4. ASSUME NEW next \in {"held", "failed"}, RetryFails(id, next) PROVE Stepped
  BY <1>4, RetryFailsKeeps, Freed
<1>5. CASE RetryAbandons(id)
  BY <1>5, RetryAbandonsKeeps, Freed
<1>6. CASE RetryReleases(id)
  BY <1>6, RetryReleasesKeeps, Freed
<1>7. QED
  BY <1>1, <1>2, <1>3, <1>4, <1>5, <1>6 DEF RetryStep

LEMMA DetachStepKeeps == ASSUME IInv, NEW id \in Ids, DetachStep(id)
                         PROVE  Stepped
<1>1. CASE DetachCloses(id)
  BY <1>1, DetachClosesKeeps, Freed
<1>2. CASE DetachFinishes(id)
  BY <1>2, DetachFinishesKeeps, DetachFinishesPlaces DEF Stepped
<1>3. QED
  BY <1>1, <1>2 DEF DetachStep

LEMMA EraseStepKeeps == ASSUME IInv, NEW id \in Ids, EraseStep(id)
                        PROVE  Stepped
<1>1. CASE EraseCloses(id)
  BY <1>1, EraseClosesKeeps, Freed
<1>2. ASSUME NEW answer \in {"committed", "held", "error"}, EraseInStore(id, answer) PROVE Stepped
  BY <1>2, EraseInStoreKeeps, Freed
<1>3. CASE EraseMarks(id)
  BY <1>3, EraseMarksKeeps, Freed
<1>4. CASE EraseRestores(id)
  BY <1>4, EraseRestoresKeeps, Freed
<1>5. CASE EraseUndone(id)
  BY <1>5, EraseUndoneKeeps, Freed
<1>6. CASE EraseRemembers(id)
  BY <1>6, EraseRemembersKeeps, Freed
<1>7. CASE EraseCutOff(id)
  BY <1>7, EraseCutOffKeeps, Freed
<1>8. QED
  BY <1>1, <1>2, <1>3, <1>4, <1>5, <1>6, <1>7 DEF EraseStep

LEMMA SessionStepKeeps ==
  ASSUME IInv, NEW id \in Ids,
         \/ \E cred \in Creds, create \in BOOLEAN : StartAttach(id, cred, create)
         \/ Forget(id) \/ BackgroundRelease(id)
         \/ SweepIdle(id) \/ LeaseLost(id) \/ DetachLost(id) \/ EraseClaims(id)
         \/ OtherTakes(id) \/ Refresh(id) \/ CloseOne(id)
         \/ \E next \in {"free", "tombstone"} : OtherLeaves(id, next)
  PROVE  Stepped
<1>1. ASSUME NEW cred \in Creds, NEW create \in BOOLEAN, StartAttach(id, cred, create) PROVE Stepped
  BY <1>1, StartAttachKeeps, Freed
<1>2. CASE Forget(id)
  BY <1>2, ForgetKeeps, Freed
<1>3. CASE BackgroundRelease(id)
  BY <1>3, BackgroundReleaseKeeps, Freed
<1>4. CASE SweepIdle(id)
  BY <1>4, SweepIdleKeeps, Freed
<1>5. CASE LeaseLost(id)
  BY <1>5, LeaseLostKeeps, Freed
<1>6. CASE DetachLost(id)
  BY <1>6, DetachLostKeeps, Freed
<1>7. CASE EraseClaims(id)
  BY <1>7, EraseClaimsKeeps, Freed
<1>8. CASE OtherTakes(id)
  BY <1>8, OtherTakesKeeps, Freed
<1>9. CASE Refresh(id)
  BY <1>9, RefreshKeeps, Freed
<1>10. CASE CloseOne(id)
  BY <1>10, CloseOneKeeps, Freed
<1>11. ASSUME NEW next \in {"free", "tombstone"}, OtherLeaves(id, next) PROVE Stepped
  BY <1>11, OtherLeavesKeeps, Freed
<1>12. QED
  BY <1>1, <1>2, <1>3, <1>4, <1>5, <1>6, <1>7, <1>8, <1>9, <1>10, <1>11

LEMMA StutterKeeps == ASSUME IInv, UNCHANGED vars PROVE Stepped
<1>1. TypeOK'
  BY DEF IInv, TypeOK, vars
<1>2. ASSUME NEW j \in Ids PROVE Kept(j) /\ Frees(j)
  <2>1. Untouched(j) /\ flight'[j] = flight[j]
    BY DEF vars, Untouched, Stale
  <2>2. QED
    BY <2>1, Elsewhere DEF IInv
<1>3. QED
  BY <1>1, <1>2, Freed

LEMMA NextKeeps == ASSUME IInv, [Next]_vars PROVE Stepped
<1>1. CASE \E r \in Requests : Answer(r) \/ \E id \in Ids : Serve(r, id)
  BY <1>1, RequestsKeep, Freed
<1>2. CASE ShutdownBegins \/ ShutdownStep
  <2>1. CASE ShutdownBegins \/ TakeCloseSet \/ Exit
    BY <2>1, ShutdownKeeps, Freed
  <2>2. ASSUME NEW id \in Ids, CloseOne(id) PROVE Stepped
    BY <2>2, SessionStepKeeps
  <2>3. QED
    BY <1>2, <2>1, <2>2 DEF ShutdownStep
<1>3. CASE UNCHANGED vars
  BY <1>3, StutterKeeps
<1>4. QED
  BY <1>1, <1>2, <1>3, AttachStepKeeps, RetryStepKeeps, DetachStepKeeps, EraseStepKeeps,
     SessionStepKeeps DEF Next

LEMMA InitInv == Init => IInv /\ PlacesInv
<1> SUFFICES ASSUME Init PROVE IInv /\ PlacesInv
  OBVIOUS
<1> USE RegistryAssumption, NonesTyped DEF RegistryAssumption, Ids
<1>1. Idle \in Holds /\ Idle.pc = "idle"
  BY DEF Idle, Holds
<1>2. TypeOK
  BY <1>1 DEF Init, TypeOK, Slots, Negatives, Mems, Rows
<1>3. \A id \in Ids : ~Stale(id)
  BY <1>1 DEF Init, Stale
<1>4. ASSUME NEW id \in Ids PROVE Sound(id)
  BY <1>3 DEF Init, Sound, SlotInv, PermitInv, MemInv, EraseInv, ReleaseInv, StaleInv, ClosedInv
<1>5. Counted = {}
  BY DEF Init, Counted, Counts, Placed
<1>6. Cardinality(Counted) <= Places
  BY <1>5, FS_EmptySet, PlacesTyped
<1>7. \A i \in OnDemand : ~Waits(i)
  BY DEF Init, Waits
<1>8. QED
  BY <1>2, <1>4, <1>6, <1>7 DEF IInv, PlacesInv

-----------------------------------------------------------------------------
(* The theorems.                                                             *)

LEMMA StepInv == IInv /\ [Next]_vars => IInv'
BY NextKeeps DEF Stepped, Kept, IInv

LEMMA StepPlaces == IInv /\ PlacesInv /\ [Next]_vars => PlacesInv'
BY NextKeeps DEF Stepped

LEMMA Invariance == Spec => [](IInv /\ PlacesInv)
<1>1. QED
  BY InitInv, StepInv, StepPlaces, PTL DEF Spec

(* Every state of the registry has its type.                                 *)
THEOREM TypeCorrect == Spec => []TypeOK
<1>1. IInv => TypeOK
  BY DEF IInv
<1>2. QED
  BY <1>1, Invariance, PTL

(* While an erase is past its claim, no attach, retry or detach of the       *)
(* session runs, and the store is asked when no handle of it is left.        *)
THEOREM EraseIsAlone == Spec => []ErasesAlone
<1>1. IInv => ErasesAlone
  <2> SUFFICES ASSUME IInv, NEW id \in Ids, erase[id].pc \notin {"none", "previous"}
               PROVE  /\ slot[id] = "erasing" /\ flight[id].pc = "none" /\ retry.at # id
                      /\ detach[id].pc = "none" /\ (erase[id].pc = "close" \/ mem[id] = "none")
    BY DEF ErasesAlone
  <2>1. Sound(id) /\ mem[id] \in Mems
    BY DEF IInv, TypeOK
  <2>2. QED
    BY <2>1 DEF Sound, SlotInv, PermitInv, MemInv, Mems
<1>2. QED
  BY <1>1, Invariance, PTL

(* When the process goes, every handle is closed or lost its lease.          *)
THEOREM CleanExit == Spec => []ExitIsClean
<1>1. IInv => ExitIsClean
  <2> SUFFICES ASSUME IInv, shutdown = "gone", NEW id \in Ids
               PROVE  mem[id] \in {"none", "fenced"}
    BY DEF ExitIsClean
  <2>1. Sound(id) /\ mem[id] \in Mems
    BY DEF IInv, TypeOK
  <2>2. QED
    BY <2>1 DEF Sound, MemInv, ClosedInv, Mems
<1>2. QED
  BY <1>1, Invariance, PTL

(* This process never gives up the lease of a handle that is not closed.     *)
THEOREM LeaseIsKept == Spec => LeaseOutlivesHandle
<1>1. IInv /\ [Next]_vars => \A id \in Ids : LeaseKept(id)
  BY NextKeeps DEF Stepped, Kept
<1>2. Spec => [][\A id \in Ids : LeaseKept(id)]_vars
  BY <1>1, Invariance, PTL DEF Spec
<1>3. QED
  BY <1>2 DEF LeaseOutlivesHandle, LeaseKept

(* No session gets a new handle over one that is not closed, or that a       *)
(* request still holds while the registry is to wait for it.                 *)
THEOREM OldHandlesFirst == Spec => OldHandleFirst
<1>1. IInv /\ [Next]_vars => \A id \in Ids : HandleFresh(id)
  BY NextKeeps DEF Stepped, Kept
<1>2. Spec => [][\A id \in Ids : HandleFresh(id)]_vars
  BY <1>1, Invariance, PTL DEF Spec
<1>3. QED
  BY <1>2 DEF OldHandleFirst, HandleFresh, Stale

(* The handles of on-demand sessions never exceed the places.                *)
THEOREM PlacesAreBound == Spec => []PlacesBound
<1>1. IInv /\ PlacesInv => PlacesBound
  <2> SUFFICES ASSUME IInv, PlacesInv PROVE PlacesBound
    OBVIOUS
  <2> DEFINE Handles == {id \in OnDemand : mem[id] # "none"}
  <2>1. Handles \subseteq Counted
    <3>1. ASSUME NEW id \in OnDemand, mem[id] # "none" PROVE Counts(id)
      <4>1. Sound(id) /\ mem[id] \in Mems
        BY DEF IInv, TypeOK, Ids
      <4>2. QED
        BY <3>1, <4>1 DEF Counts, Placed, Waits, Sound, SlotInv, PermitInv, MemInv, Mems
    <3>2. QED
      BY <3>1 DEF Counted
  <2>2. Cardinality(Handles) <= Cardinality(Counted) /\ Cardinality(Handles) \in Nat
    BY <2>1, CountedTaken, FS_Subset, FS_CardinalityType
  <2>3. QED
    BY <2>2, CountedTaken, PlacesTyped DEF PlacesInv, PlacesBound
<1>2. QED
  BY <1>1, Invariance, PTL

=============================================================================
