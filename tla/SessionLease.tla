---------------------------- MODULE SessionLease ----------------------------
(***************************************************************************)
(* One session's single-writer lease (store/lease.rs), the processes that  *)
(* contend for it (memory/builder.rs, memory/leases.rs,                    *)
(* memory/shutdown.rs), the fence of every durable write (store/erase.rs,  *)
(* store/pg/persistence.rs) and the erasure of the session.                *)
(*                                                                         *)
(* A holder is one process that opens the session at most once: its token  *)
(* agent@host#pid is its name on the row.  The clock is left out: a live   *)
(* lease may lapse at any moment, which is what a stalled process, a       *)
(* starved heartbeat and a suspended host come to.  The store is the       *)
(* Postgres one at READ COMMITTED, the weakest of the three: a write       *)
(* transaction holds the lease row FOR SHARE from its fence check to its   *)
(* commit, and every statement that changes the row waits for it.          *)
(***************************************************************************)
EXTENDS Naturals, Sequences

CONSTANTS
  Holders,     \* the processes that may open the session
  NoHolder,    \* no row yet: the session was never leased
  Released,    \* RELEASED_HOLDER, the holder of a released row
  Erased,      \* ERASED_HOLDER, the holder of the tombstone
  MaxToken,    \* bound: fencing tokens minted
  MaxWrite     \* bound: durable writes

ASSUME LeaseAssumption ==
  /\ NoHolder \notin Holders
  /\ Released \notin Holders \cup {NoHolder}
  /\ Erased \notin Holders \cup {NoHolder, Released}
  /\ MaxToken \in Nat /\ MaxWrite \in Nat

VARIABLES
  row,      \* session_leases: [holder, token, live]
  content,  \* the durable graph: the author of each committed write
  phase,    \* per holder: idle, loading, open, closing, abandoned, erasing or gone
  token,    \* per holder: the fencing token its acquire returned
  fence,    \* per holder: lease_lost
  beat,     \* per holder: its heartbeat task
  stray,    \* refreshes still on their way although their task was aborted
  view,     \* per holder: the durable writes its graph holds
  txs,      \* holders with a write transaction past its fence check
  checked,  \* holders whose stats or refusal insert has found no tombstone
  side      \* session_stats or lease_refusals has a row of this session

vars == <<row, content, phase, token, fence, beat, stray, view, txs, checked, side>>

-----------------------------------------------------------------------------
(* The row.                                                                *)

NoRow == [holder |-> NoHolder, token |-> 0, live |-> FALSE]

(* The WHERE of the acquire: the lease has expired or is already ours.       *)
Admits(p) == ~row.live \/ row.holder = p

(* Its SET: our own row keeps its token, anything else mints the next one.   *)
Taken(p) ==
  [holder |-> p,
   token  |-> IF row.holder = p THEN row.token ELSE row.token + 1,
   live   |-> TRUE]

(* Faults of a release: it is not scoped to its holder; the row is deleted,  *)
(* and the fencing token with it.                                            *)
ReleasedBy_AnyHolder(p) ==
  [holder |-> Released, token |-> row.token, live |-> FALSE]
ReleasedBy_Deletes(p) == IF row.holder = p THEN NoRow ELSE row

(* expire_lease_row: only our own row is released; the token stays.          *)
ReleasedBy(p) ==
  IF row.holder = p
    THEN [holder |-> Released, token |-> row.token, live |-> FALSE]
    ELSE row

(* The tombstone, a takeover that never lapses; a second one is the first.   *)
Tombstone ==
  [holder |-> Erased,
   token  |-> IF row.holder = Erased THEN row.token ELSE row.token + 1,
   live   |-> TRUE]

IsTombstone == row.holder = Erased

(* check_fence and lease_permits_write, for the token p presents.            *)
Permits(p) == ~IsTombstone /\ (row.token = 0 \/ token[p] >= row.token)

(* Fault: the fence reads the row with a plain SELECT, which locks nothing.   *)
RowIsFree_NoLock == TRUE

(* A statement that changes the row waits for every FOR SHARE lock on it.    *)
RowIsFree == txs = {}

(* erase_gate, for an eraser that is not the holder.                         *)
ErasableByOthers == IsTombstone \/ ~row.live

Attached == {"loading", "open", "closing", "abandoned", "erasing"}

(* The handles whose tasks can reach the store.                              *)
MayWrite(p) == phase[p] \in {"open", "closing", "abandoned"}

-----------------------------------------------------------------------------
Init ==
  /\ row = NoRow
  /\ content = <<>>
  /\ phase = [p \in Holders |-> "idle"]
  /\ token = [p \in Holders |-> 0]
  /\ fence = [p \in Holders |-> FALSE]
  /\ beat = [p \in Holders |-> "off"]
  /\ stray = {}
  /\ view = [p \in Holders |-> <<>>]
  /\ txs = {}
  /\ checked = {}
  /\ side = FALSE

(* build_attach: the lease is taken before anything is loaded, and the       *)
(* heartbeat starts with it.                                                 *)
Acquire(p) ==
  /\ phase[p] = "idle"
  /\ RowIsFree
  /\ Admits(p)
  /\ row.token < MaxToken
  /\ row' = Taken(p)
  /\ token' = [token EXCEPT ![p] = Taken(p).token]
  /\ phase' = [phase EXCEPT ![p] = "loading"]
  /\ beat' = [beat EXCEPT ![p] = "idle"]
  /\ UNCHANGED <<content, fence, stray, view, txs, checked, side>>

(* A live lease is someone else's: the refused process records its refusal.  *)
(* The insert's own NOT EXISTS has read the row by the end of this step.     *)
AcquireRefused(p) ==
  /\ phase[p] = "idle"
  /\ ~Admits(p)
  /\ ~IsTombstone
  /\ checked' = checked \cup {p}
  /\ UNCHANGED <<row, content, phase, token, fence, beat, stray, view, txs, side>>

(* The startup load; an erased session has no rows to load.                  *)
Load(p) ==
  /\ phase[p] = "loading"
  /\ view' = [view EXCEPT ![p] = content]
  /\ phase' = [phase EXCEPT ![p] = "open"]
  /\ UNCHANGED <<row, content, token, fence, beat, stray, txs, checked, side>>

(* Aborting the heartbeat drops its future; a refresh it had already sent is  *)
(* a statement the store may still run.                                       *)
HeartbeatAborted(p) ==
  /\ beat' = [beat EXCEPT ![p] = "off"]
  /\ stray' = IF beat[p] = "sent" THEN stray \cup {p} ELSE stray

(* The startup failed, or a signal abandoned it: heartbeat off, lease back.   *)
LoadFails(p) ==
  /\ phase[p] = "loading"
  /\ RowIsFree
  /\ row' = ReleasedBy(p)
  /\ phase' = [phase EXCEPT ![p] = "gone"]
  /\ HeartbeatAborted(p)
  /\ UNCHANGED <<content, token, fence, view, txs, checked, side>>

-----------------------------------------------------------------------------
(* The heartbeat: a refresh is the acquire again, for its holder's name.   *)

BeatSends(p) ==
  /\ beat[p] = "idle"
  /\ beat' = [beat EXCEPT ![p] = "sent"]
  /\ UNCHANGED <<row, content, phase, token, fence, stray, view, txs, checked, side>>

(* The refresh runs.  The token it returns is not looked at.                 *)
BeatRefreshes(p) ==
  /\ beat[p] = "sent"
  /\ RowIsFree
  /\ Admits(p)
  /\ Taken(p).token <= MaxToken
  /\ row' = Taken(p)
  /\ beat' = [beat EXCEPT ![p] = "idle"]
  /\ UNCHANGED <<content, phase, token, fence, stray, view, txs, checked, side>>

(* The refresh finds a live lease of someone else's, or the tombstone.       *)
BeatRefused(p) ==
  /\ beat[p] = "sent"
  /\ ~Admits(p)
  /\ beat' = [beat EXCEPT ![p] = "held"]
  /\ UNCHANGED <<row, content, phase, token, fence, stray, view, txs, checked, side>>

(* The heartbeat hears Held and latches the fence; it keeps beating.         *)
BeatLatches(p) ==
  /\ beat[p] = "held"
  /\ fence' = [fence EXCEPT ![p] = TRUE]
  /\ beat' = [beat EXCEPT ![p] = "idle"]
  /\ UNCHANGED <<row, content, phase, token, stray, view, txs, checked, side>>

(* The refresh failed or its answer was lost: logged, and the beat goes on.  *)
BeatFails(p) ==
  /\ beat[p] \in {"sent", "held"}
  /\ beat' = [beat EXCEPT ![p] = "idle"]
  /\ UNCHANGED <<row, content, phase, token, fence, stray, view, txs, checked, side>>

(* A refresh whose task is gone runs after all, or never does.               *)
StrayRefresh(p) ==
  /\ p \in stray
  /\ stray' = stray \ {p}
  /\ \/ /\ RowIsFree /\ Admits(p) /\ Taken(p).token <= MaxToken
        /\ row' = Taken(p)
     \/ row' = row
  /\ UNCHANGED <<content, phase, token, fence, beat, view, txs, checked, side>>

(* expires_at passes on the store's clock.                                   *)
Lapse ==
  /\ row.live
  /\ row.holder \in Holders
  /\ row' = [row EXCEPT !.live = FALSE]
  /\ UNCHANGED <<content, phase, token, fence, beat, stray, view, txs, checked, side>>

(* OPERATOR_OVERRIDE: the row is expired by hand, the token kept.            *)
OperatorExpires ==
  /\ RowIsFree
  /\ row.holder \in Holders
  /\ row' = ReleasedBy(row.holder)
  /\ UNCHANGED <<content, phase, token, fence, beat, stray, view, txs, checked, side>>

-----------------------------------------------------------------------------
(* Durable writes: a flush, or a canonization, which consults no fence     *)
(* flag.  The flush loop reads its flag only between two cycles.           *)

(* The fence check passes and its read locks the row; two transactions of    *)
(* one process hold the lock together.                                       *)
WriteBegins(p) ==
  /\ MayWrite(p)
  /\ Permits(p)
  /\ txs' = txs \cup {p}
  /\ UNCHANGED <<row, content, phase, token, fence, beat, stray, view, checked, side>>

(* The commit.  The graph it came from held the write already.               *)
WriteCommits(p) ==
  /\ p \in txs
  /\ Len(content) < MaxWrite
  /\ content' = Append(content, p)
  /\ view' = [view EXCEPT ![p] = Append(@, p)]
  /\ txs' = txs \ {p}
  /\ UNCHANGED <<row, phase, token, fence, beat, stray, checked, side>>

(* The transaction rolls back: an error, or the attempt's timeout.           *)
WriteRollsBack(p) ==
  /\ p \in txs
  /\ txs' = txs \ {p}
  /\ UNCHANGED <<row, content, phase, token, fence, beat, stray, view, checked, side>>

(* A write refused by the tombstone latches the fence at once.               *)
WriteRefusedErased(p) ==
  /\ MayWrite(p)
  /\ IsTombstone
  /\ ~fence[p]
  /\ fence' = [fence EXCEPT ![p] = TRUE]
  /\ UNCHANGED <<row, content, phase, token, beat, stray, view, txs, checked, side>>

(* write_flush_stats: INSERT ... SELECT ... WHERE NOT EXISTS (tombstone), a  *)
(* plain read that takes no lock on the lease row ...                        *)
StatsChecked(p) ==
  /\ MayWrite(p)
  /\ ~IsTombstone
  /\ checked' = checked \cup {p}
  /\ UNCHANGED <<row, content, phase, token, fence, beat, stray, view, txs, side>>

(* ... whose row lands when the statement commits.                           *)
SideRowLands(p) ==
  /\ p \in checked
  /\ checked' = checked \ {p}
  /\ side' = TRUE
  /\ UNCHANGED <<row, content, phase, token, fence, beat, stray, view, txs>>

-----------------------------------------------------------------------------
(* The ends of a holder.                                                   *)

(* close, step 5: the heartbeat is aborted, then the fence read, once.       *)
CloseBegins(p) ==
  /\ phase[p] = "open"
  /\ ~fence[p]
  /\ phase' = [phase EXCEPT ![p] = "closing"]
  /\ HeartbeatAborted(p)
  /\ UNCHANGED <<row, content, token, fence, view, txs, checked, side>>

(* A fenced close joins its tasks, drops the tail and releases nothing.      *)
CloseFenced(p) ==
  /\ phase[p] = "open"
  /\ fence[p]
  /\ phase' = [phase EXCEPT ![p] = "gone"]
  /\ HeartbeatAborted(p)
  /\ txs' = txs \ {p}
  /\ UNCHANGED <<row, content, token, fence, view, checked, side>>

(* The tail is flushed and no task is left: the lease is released.           *)
CloseReleases(p) ==
  /\ phase[p] = "closing"
  /\ RowIsFree
  /\ row' = ReleasedBy(p)
  /\ phase' = [phase EXCEPT ![p] = "gone"]
  /\ UNCHANGED <<content, token, fence, beat, stray, view, txs, checked, side>>

(* serve gave the close up at its deadline, wherever it was, and hands the   *)
(* lease back before it exits, unless it was fenced; until it has, the tasks *)
(* the close did not join write on.                                          *)
CloseAbandoned(p) ==
  /\ phase[p] \in {"open", "closing"}
  /\ ~fence[p]
  /\ RowIsFree
  /\ row' = ReleasedBy(p)
  /\ phase' = [phase EXCEPT ![p] = "abandoned"]
  /\ HeartbeatAborted(p)
  /\ UNCHANGED <<content, token, fence, view, txs, checked, side>>

(* The process dies, the handle is dropped, or its close failed and it       *)
(* exits: its transactions roll back and its lease is left to lapse.         *)
Crash(p) ==
  /\ phase[p] \in Attached
  /\ phase' = [phase EXCEPT ![p] = "gone"]
  /\ HeartbeatAborted(p)
  /\ txs' = txs \ {p}
  /\ UNCHANGED <<row, content, token, fence, view, checked, side>>

-----------------------------------------------------------------------------
(* Erasure: one transaction that replaces the row by the tombstone and     *)
(* deletes every row keyed to the session.                                 *)

EraseTransaction ==
  /\ RowIsFree
  /\ Tombstone.token <= MaxToken
  /\ row' = Tombstone
  /\ content' = <<>>
  /\ side' = FALSE

(* lambo erase-session, or a serve that does not hold the session.           *)
EraseByOther ==
  /\ ErasableByOthers
  /\ EraseTransaction
  /\ UNCHANGED <<phase, token, fence, beat, stray, view, txs, checked>>

(* A serve erasing a session it holds fences its own handle first ...        *)
FenceForErase(p) ==
  /\ phase[p] = "open"
  /\ fence' = [fence EXCEPT ![p] = TRUE]
  /\ phase' = [phase EXCEPT ![p] = "erasing"]
  /\ HeartbeatAborted(p)
  /\ UNCHANGED <<row, content, token, view, txs, checked, side>>

(* ... stops its tasks, and erases under the name the row still shows.       *)
EraseByHolder(p) ==
  /\ phase[p] = "erasing"
  /\ row.holder = p \/ ErasableByOthers
  /\ EraseTransaction
  /\ phase' = [phase EXCEPT ![p] = "gone"]
  /\ UNCHANGED <<token, fence, beat, stray, view, txs, checked>>

(* Another writer took the lapsed lease: it owns the session, untouched.     *)
EraseHeld(p) ==
  /\ phase[p] = "erasing"
  /\ RowIsFree
  /\ row.holder # p /\ ~ErasableByOthers
  /\ phase' = [phase EXCEPT ![p] = "gone"]
  /\ UNCHANGED <<row, content, token, fence, beat, stray, view, txs, checked, side>>

(* The erase failed before its commit: the lease is handed back.             *)
EraseFails(p) ==
  /\ phase[p] = "erasing"
  /\ RowIsFree
  /\ row' = ReleasedBy(p)
  /\ phase' = [phase EXCEPT ![p] = "gone"]
  /\ UNCHANGED <<content, token, fence, beat, stray, view, txs, checked, side>>

-----------------------------------------------------------------------------
Next ==
  \/ \E p \in Holders :
       \/ Acquire(p) \/ AcquireRefused(p) \/ Load(p) \/ LoadFails(p)
       \/ BeatSends(p) \/ BeatRefreshes(p) \/ BeatRefused(p) \/ BeatLatches(p)
       \/ BeatFails(p) \/ StrayRefresh(p)
       \/ WriteBegins(p) \/ WriteCommits(p) \/ WriteRollsBack(p)
       \/ WriteRefusedErased(p) \/ StatsChecked(p) \/ SideRowLands(p)
       \/ CloseBegins(p) \/ CloseFenced(p) \/ CloseReleases(p)
       \/ CloseAbandoned(p) \/ Crash(p)
       \/ FenceForErase(p) \/ EraseByHolder(p) \/ EraseHeld(p) \/ EraseFails(p)
  \/ Lapse
  \/ OperatorExpires
  \/ EraseByOther

Spec == Init /\ [][Next]_vars

-----------------------------------------------------------------------------
(* The row, the tokens and the write sets have their types; only a holder's  *)
(* lease and the tombstone are ever live.                                    *)
TypeOK ==
  /\ row \in [holder : Holders \cup {NoHolder, Released, Erased},
              token : 0..MaxToken, live : BOOLEAN]
  /\ row.live => row.holder \in Holders \cup {Erased}
  /\ content \in Seq(Holders)
  /\ phase \in [Holders -> {"idle", "gone"} \cup Attached]
  /\ token \in [Holders -> 0..MaxToken]
  /\ fence \in [Holders -> BOOLEAN]
  /\ beat \in [Holders -> {"off", "idle", "sent", "held"}]
  /\ stray \subseteq Holders
  /\ view \in [Holders -> Seq(Holders)]
  /\ txs \subseteq Holders
  /\ checked \subseteq Holders
  /\ side \in BOOLEAN

(* A write that can still commit comes from a graph that holds every durable *)
(* write of the session: whoever lapsed, was taken over from, was released   *)
(* by hand or was erased in the meantime, no commit overwrites rows its      *)
(* author has not seen (the split brain of store/lease.rs).                  *)
WriterSeesAll == \A p \in txs : view[p] = content

(* A live lease leaves its holder only by that holder's own hand, or by the  *)
(* operator's: no takeover, no late release of an earlier holder and no      *)
(* erasure by anyone else evicts a writer whose lease has not lapsed.        *)
LeaseKept ==
  [][\A p \in Holders :
       row.live /\ row.holder = p /\ row'.holder # p =>
         \/ phase[p] \in {"loading", "closing", "erasing"}
         \/ CloseAbandoned(p)
         \/ OperatorExpires]_vars

(* The writer of the current epoch: the attached handle whose token is the   *)
(* row's.                                                                    *)
IsWriter(p) == phase[p] \in Attached /\ token[p] = row.token /\ ~IsTombstone

Writer == IF \E p \in Holders : IsWriter(p)
            THEN CHOOSE p \in Holders : IsWriter(p)
            ELSE NoHolder

Custody == INSTANCE SessionCustody
             WITH epoch <- row.token, writer <- Writer, erased <- IsTombstone

(* The lease, the tokens and the fence implement single-writer custody:      *)
(* every durable write is the work of the one writer of the row's current    *)
(* token, tokens only grow, and nothing is written after an erasure.         *)
ImplementsCustody == Custody!Spec

-----------------------------------------------------------------------------
(* builder.rs: "A refresh PRESERVES it, so the value is stable for the       *)
(* handle's life."  A handle whose name is on the live row would then always *)
(* be one whose writes the store accepts.                                    *)
NeverSquats ==
  \A p \in Holders :
    phase[p] = "open" /\ row.live /\ row.holder = p => Permits(p)

(* store/mod.rs: an erase deletes "every row keyed to `session` in every     *)
(* table"; a late stats row is "not for an erased session".                  *)
ErasedLeavesNothing == IsTombstone => content = <<>> /\ ~side

=============================================================================
