------------------------- MODULE SessionLeaseProofs -------------------------
(***************************************************************************)
(* Proofs about SessionLease, for any number of processes, tokens and      *)
(* writes: its types, that a write which can still commit comes from a     *)
(* graph that has seen every durable write, and that the lease implements  *)
(* SessionCustody.                                                         *)
(*                                                                         *)
(* What makes WriterSeesAll inductive is TokensInv.  A token is handed out  *)
(* once, so at most one attached handle's token is the row's; a            *)
(* transaction that passed its fence check is that handle's, because       *)
(* nothing changes the row while it is open; and that handle, once it has  *)
(* loaded, has seen everything, because only it has written since.         *)
(***************************************************************************)
EXTENDS SessionLease, TLAPS

(* Who has taken the lease once, and what it was given.                      *)
TokensInv ==
  /\ \A p \in Holders :
       IF phase[p] = "idle"
         THEN token[p] = 0 /\ row.holder # p /\ beat[p] = "off" /\ p \notin stray
         ELSE 0 < token[p] /\ token[p] <= row.token
  /\ \A p, q \in Holders :
       p # q /\ phase[p] # "idle" => token[p] # token[q]

(* An open transaction is the current writer's.                              *)
TxsInv ==
  \A p \in txs : IsWriter(p) /\ phase[p] # "loading"

(* The current writer has seen everything once it has loaded.                *)
ViewInv ==
  \A p \in Holders :
    IsWriter(p) /\ phase[p] # "loading" => view[p] = content

(* A tombstone never lapses and nothing is stored under it.                  *)
TombstoneInv == IsTombstone => row.live /\ content = <<>>

IInv == TypeOK /\ TokensInv /\ TxsInv /\ ViewInv /\ TombstoneInv

(* The steps fall into groups that the invariant cannot tell apart.  Those    *)
(* that touch only the fence, a heartbeat's own state, or the side rows;      *)
Aside(p) ==
  \/ AcquireRefused(p) \/ BeatSends(p) \/ BeatRefused(p) \/ BeatLatches(p)
  \/ BeatFails(p) \/ WriteRefusedErased(p) \/ StatsChecked(p) \/ SideRowLands(p)

(* those by which a handle moves on and leaves the row alone;                *)
Departs(p) ==
  CloseBegins(p) \/ CloseFenced(p) \/ Crash(p) \/ FenceForErase(p) \/ EraseHeld(p)

(* those that give the lease back;                                           *)
Releases(p) ==
  LoadFails(p) \/ CloseReleases(p) \/ CloseAbandoned(p) \/ EraseFails(p)

(* and those that erase.                                                     *)
Erases == EraseByOther \/ \E p \in Holders : EraseByHolder(p)

-----------------------------------------------------------------------------
LEMMA InitInv == Init => IInv
<1> SUFFICES ASSUME Init PROVE IInv
  OBVIOUS
<1> USE LeaseAssumption DEF LeaseAssumption, Init, NoRow
<1>1. TypeOK
  <2>1. <<>> \in Seq(Holders)
    OBVIOUS
  <2>2. row \in [holder : Holders \cup {NoHolder, Released, Erased},
                token : 0..MaxToken, live : BOOLEAN]
    OBVIOUS
  <2>3. QED
    BY <2>1, <2>2 DEF TypeOK
<1>2. TokensInv
  BY DEF TokensInv
<1>3. TxsInv /\ ViewInv
  BY DEF TxsInv, ViewInv, IsWriter, Attached
<1>4. TombstoneInv
  BY DEF TombstoneInv, IsTombstone
<1>5. QED
  BY <1>1, <1>2, <1>3, <1>4 DEF IInv

LEMMA AcquireInv == ASSUME IInv, NEW p \in Holders, Acquire(p) PROVE IInv'
<1> USE LeaseAssumption DEF LeaseAssumption, IInv
<1>1. /\ phase[p] = "idle" /\ phase' = [phase EXCEPT ![p] = "loading"]
      /\ txs = {} /\ ~row.live /\ row.token < MaxToken
      /\ row' = [holder |-> p, token |-> row.token + 1, live |-> TRUE]
      /\ token' = [token EXCEPT ![p] = row.token + 1]
      /\ beat' = [beat EXCEPT ![p] = "idle"]
      /\ UNCHANGED <<content, fence, stray, view, txs, checked, side>>
  BY DEF Acquire, Admits, Taken, RowIsFree, TokensInv
<1>2. TypeOK'
  BY <1>1 DEF TypeOK, Attached
<1>3. TokensInv'
  BY <1>1 DEF TypeOK, TokensInv
<1>4. TxsInv'
  BY <1>1 DEF TxsInv
<1>5. ViewInv'
  <2> SUFFICES ASSUME NEW q \in Holders, IsWriter(q)', phase'[q] # "loading"
               PROVE FALSE
    BY DEF ViewInv
  <2>1. q # p
    BY <1>1 DEF TypeOK
  <2>2. token[q] <= row.token /\ row'.token = row.token + 1
    BY <1>1, <2>1 DEF TypeOK, TokensInv, IsWriter, Attached
  <2>3. QED
    BY <1>1, <2>1, <2>2 DEF TypeOK, IsWriter
<1>6. TombstoneInv'
  BY <1>1 DEF TombstoneInv, IsTombstone
<1>7. QED
  BY <1>2, <1>3, <1>4, <1>5, <1>6

LEMMA LoadInv == ASSUME IInv, NEW p \in Holders, Load(p) PROVE IInv'
<1> USE DEF IInv, Load
<1>1. TypeOK'
  BY DEF TypeOK, Attached
<1>2. TokensInv'
  BY DEF TypeOK, TokensInv
<1>3. p \notin txs
  BY DEF TxsInv
<1>4. \A q \in Holders : IsWriter(q)' <=> IsWriter(q)
  BY DEF TypeOK, IsWriter, IsTombstone, Attached
<1>5. TxsInv'
  BY <1>3, <1>4 DEF TypeOK, TxsInv
<1>6. ViewInv'
  BY <1>4 DEF TypeOK, ViewInv
<1>7. TombstoneInv'
  BY DEF TombstoneInv, IsTombstone
<1>8. QED
  BY <1>1, <1>2, <1>5, <1>6, <1>7

(* A refresh that runs, with its task or without: p is not idle, so its token *)
(* is at most the row's, and a token minted here is nobody's.                *)
LEMMA RefreshInv ==
  ASSUME IInv, TypeOK', NEW p \in Holders, phase[p] # "idle",
         RowIsFree, Admits(p), row' = Taken(p),
         UNCHANGED <<content, phase, token, view, txs>>,
         \A q \in Holders : phase[q] = "idle" => beat'[q] = beat[q],
         stray' \subseteq stray
  PROVE  IInv'
<1> USE LeaseAssumption DEF LeaseAssumption, IInv
<1>1. /\ row'.holder = p /\ row'.live /\ txs' = {}
      /\ ~IsTombstone /\ ~IsTombstone'
      /\ row'.token = IF row.holder = p THEN row.token ELSE row.token + 1
  BY DEF Taken, Admits, RowIsFree, TombstoneInv, IsTombstone
<1>2. TokensInv'
  BY <1>1 DEF TypeOK, TokensInv
<1>3. TxsInv' /\ TombstoneInv'
  BY <1>1 DEF TxsInv, TombstoneInv
<1>4. ViewInv'
  <2> SUFFICES ASSUME NEW q \in Holders, IsWriter(q)', phase'[q] # "loading"
               PROVE view'[q] = content'
    BY DEF ViewInv
  <2>1. token[q] <= row.token /\ token[q] = row'.token
    BY DEF TokensInv, IsWriter, Attached
  <2>2. row.holder = p
    BY <1>1, <2>1 DEF TypeOK
  <2>3. IsWriter(q) /\ phase[q] # "loading"
    BY <1>1, <2>2 DEF IsWriter
  <2>4. QED
    BY <2>3 DEF ViewInv
<1>5. QED
  BY <1>2, <1>3, <1>4

LEMMA BeatRefreshesInv == ASSUME IInv, NEW p \in Holders, BeatRefreshes(p) PROVE IInv'
<1> USE LeaseAssumption DEF LeaseAssumption, IInv, BeatRefreshes
<1>1. phase[p] # "idle"
  BY DEF TokensInv
<1>2. Taken(p) \in [holder : Holders, token : 0..MaxToken, live : {TRUE}]
  BY DEF TypeOK, Taken
<1>3. TypeOK'
  BY <1>2 DEF TypeOK
<1>4. \A q \in Holders : phase[q] = "idle" => beat'[q] = beat[q]
  BY <1>1 DEF TypeOK
<1>5. QED
  BY <1>1, <1>3, <1>4, RefreshInv

LEMMA StrayRefreshInv == ASSUME IInv, NEW p \in Holders, StrayRefresh(p) PROVE IInv'
<1> USE LeaseAssumption DEF LeaseAssumption, IInv, StrayRefresh
<1>1. phase[p] # "idle"
  BY DEF TokensInv
<1>2. CASE row' = row
  <2>1. TypeOK'
    BY <1>2 DEF TypeOK
  <2>2. TokensInv'
    BY <1>2 DEF TypeOK, TokensInv
  <2>3. TxsInv' /\ ViewInv' /\ TombstoneInv'
    BY <1>2 DEF TxsInv, ViewInv, TombstoneInv, IsWriter, IsTombstone
  <2>4. QED
    BY <2>1, <2>2, <2>3
<1>3. CASE RowIsFree /\ Admits(p) /\ Taken(p).token <= MaxToken /\ row' = Taken(p)
  <2>1. Taken(p) \in [holder : Holders, token : 0..MaxToken, live : {TRUE}]
    BY <1>3 DEF TypeOK, Taken
  <2>2. TypeOK'
    BY <1>3, <2>1 DEF TypeOK
  <2>3. QED
    BY <1>1, <1>3, <2>2, RefreshInv
<1>4. QED
  BY <1>2, <1>3

(* The fence check admits only the current writer, and only once it has      *)
(* loaded: a token that is at least the row's is the row's.                  *)
LEMMA WriteBeginsInv == ASSUME IInv, NEW p \in Holders, WriteBegins(p) PROVE IInv'
<1> USE DEF IInv
<1>1. /\ txs' = txs \cup {p} /\ MayWrite(p) /\ Permits(p)
      /\ UNCHANGED <<row, content, phase, token, fence, beat, stray, view, checked, side>>
  BY DEF WriteBegins
<1>2. IsWriter(p) /\ phase[p] # "loading"
  <2>1. 0 < token[p] /\ token[p] <= row.token /\ phase[p] \in Attached \ {"loading"}
    BY <1>1 DEF MayWrite, TokensInv, Attached
  <2>2. QED
    BY <1>1, <2>1 DEF Permits, TypeOK, IsWriter
<1>3. TypeOK'
  BY <1>1 DEF TypeOK
<1>4. TxsInv'
  BY <1>1, <1>2 DEF TxsInv, IsWriter, IsTombstone
<1>5. TokensInv' /\ ViewInv' /\ TombstoneInv'
  BY <1>1 DEF TokensInv, ViewInv, TombstoneInv, IsWriter, IsTombstone
<1>6. QED
  BY <1>3, <1>4, <1>5

(* The one who commits is the only writer, and sees its own write.           *)
LEMMA WriteCommitsInv == ASSUME IInv, NEW p \in Holders, WriteCommits(p) PROVE IInv'
<1> USE DEF IInv, WriteCommits
<1>1. IsWriter(p) /\ phase[p] # "loading" /\ view[p] = content
  BY DEF TxsInv, ViewInv, TypeOK
<1>2. TypeOK'
  BY DEF TypeOK
<1>3. \A q \in Holders : IsWriter(q)' <=> IsWriter(q)
  BY DEF IsWriter, IsTombstone
<1>4. \A q \in Holders : IsWriter(q) => q = p
  BY <1>1 DEF TokensInv, IsWriter, Attached
<1>5. TokensInv' /\ TxsInv'
  BY <1>3 DEF TokensInv, TxsInv, TypeOK
<1>6. ViewInv'
  BY <1>1, <1>3, <1>4 DEF ViewInv, TypeOK
<1>7. TombstoneInv'
  BY <1>1 DEF TombstoneInv, IsTombstone, IsWriter
<1>8. QED
  BY <1>2, <1>5, <1>6, <1>7

LEMMA WriteRollsBackInv == ASSUME IInv, NEW p \in Holders, WriteRollsBack(p) PROVE IInv'
<1> USE DEF IInv, WriteRollsBack
<1>1. TypeOK'
  BY DEF TypeOK
<1>2. TxsInv' /\ ViewInv'
  BY DEF TxsInv, ViewInv, IsWriter, IsTombstone
<1>3. TokensInv' /\ TombstoneInv'
  BY DEF TokensInv, TombstoneInv, IsTombstone
<1>4. QED
  BY <1>1, <1>2, <1>3

LEMMA AsideInv == ASSUME IInv, NEW p \in Holders, Aside(p) PROVE IInv'
<1> USE DEF IInv
<1>1. UNCHANGED <<row, content, phase, token, stray, view, txs>>
  BY DEF Aside, AcquireRefused, BeatSends, BeatRefused, BeatLatches, BeatFails,
     WriteRefusedErased, StatsChecked, SideRowLands
<1>2. \A q \in Holders : beat[q] = "off" => beat'[q] = "off"
  BY DEF Aside, AcquireRefused, BeatSends, BeatRefused, BeatLatches, BeatFails,
     WriteRefusedErased, StatsChecked, SideRowLands, TypeOK
<1>3. /\ fence' \in [Holders -> BOOLEAN]
      /\ beat' \in [Holders -> {"off", "idle", "sent", "held"}]
      /\ checked' \subseteq Holders /\ side' \in BOOLEAN
  BY DEF Aside, AcquireRefused, BeatSends, BeatRefused, BeatLatches, BeatFails,
     WriteRefusedErased, StatsChecked, SideRowLands, TypeOK
<1>4. TypeOK'
  BY <1>1, <1>3 DEF TypeOK
<1>5. TokensInv'
  BY <1>1, <1>2 DEF TokensInv
<1>6. TxsInv' /\ ViewInv' /\ TombstoneInv'
  BY <1>1 DEF TxsInv, ViewInv, TombstoneInv, IsWriter, IsTombstone
<1>7. QED
  BY <1>4, <1>5, <1>6

(* What aborting a heartbeat does to its state, and to a refresh on its way.  *)
LEMMA AbortTypes ==
  ASSUME TypeOK, NEW p \in Holders, HeartbeatAborted(p) \/ UNCHANGED <<beat, stray>>
  PROVE  /\ beat' \in [Holders -> {"off", "idle", "sent", "held"}]
         /\ stray' \subseteq Holders
         /\ \A q \in Holders \ {p} : beat'[q] = beat[q] /\ (q \in stray' => q \in stray)
<1>1. CASE UNCHANGED <<beat, stray>>
  BY <1>1 DEF TypeOK
<1>2. CASE HeartbeatAborted(p)
  <2>1. beat' = [beat EXCEPT ![p] = "off"] /\ stray' \subseteq stray \cup {p}
    BY <1>2 DEF HeartbeatAborted
  <2>2. QED
    BY <2>1 DEF TypeOK
<1>3. QED
  BY <1>1, <1>2

LEMMA DepartsInv == ASSUME IInv, NEW p \in Holders, Departs(p) PROVE IInv'
<1> USE DEF IInv
<1>1. PICK s \in {"closing", "erasing", "gone"} :
         /\ phase' = [phase EXCEPT ![p] = s]
         /\ phase[p] \in Attached
         /\ s # "gone" => phase[p] = "open"
         /\ p \in txs' => s # "gone"
  BY DEF Departs, CloseBegins, CloseFenced, Crash, FenceForErase, EraseHeld, RowIsFree,
     Attached
<1>2. UNCHANGED <<row, content, token, view, checked, side>> /\ txs' \subseteq txs
  BY DEF Departs, CloseBegins, CloseFenced, Crash, FenceForErase, EraseHeld
<1>3. fence' = fence \/ fence' = [fence EXCEPT ![p] = TRUE]
  BY DEF Departs, CloseBegins, CloseFenced, Crash, FenceForErase, EraseHeld
<1>4. HeartbeatAborted(p) \/ UNCHANGED <<beat, stray>>
  BY DEF Departs, CloseBegins, CloseFenced, Crash, FenceForErase, EraseHeld
<1>5. TypeOK'
  <2>1. phase' \in [Holders -> {"idle", "gone"} \cup Attached]
    BY <1>1 DEF TypeOK, Attached
  <2>2. beat' \in [Holders -> {"off", "idle", "sent", "held"}] /\ stray' \subseteq Holders
    BY <1>4, AbortTypes
  <2>3. fence' \in [Holders -> BOOLEAN]
    BY <1>3 DEF TypeOK
  <2>4. QED
    BY <1>2, <2>1, <2>2, <2>3 DEF TypeOK
<1>6. TokensInv'
  <2>1. \A q \in Holders \ {p} : beat'[q] = beat[q] /\ (q \in stray' => q \in stray)
    BY <1>4, AbortTypes
  <2>2. QED
    BY <1>1, <1>2, <2>1 DEF TypeOK, TokensInv, Attached
<1>7. \A q \in Holders : IsWriter(q)' => IsWriter(q)
  BY <1>1, <1>2 DEF TypeOK, IsWriter, IsTombstone
<1>8. TxsInv'
  BY <1>1, <1>2 DEF TypeOK, TxsInv, IsWriter, IsTombstone, Attached
<1>9. ViewInv'
  BY <1>1, <1>2, <1>7 DEF TypeOK, ViewInv, IsWriter, Attached
<1>10. TombstoneInv'
  BY <1>2 DEF TombstoneInv, IsTombstone
<1>11. QED
  BY <1>5, <1>6, <1>8, <1>9, <1>10

LEMMA ReleasesInv == ASSUME IInv, NEW p \in Holders, Releases(p) PROVE IInv'
<1> USE LeaseAssumption DEF LeaseAssumption, IInv
<1>1. PICK s \in {"gone", "abandoned"} :
         /\ phase' = [phase EXCEPT ![p] = s]
         /\ phase[p] \in Attached
         /\ s # "gone" => phase[p] \in {"open", "closing"}
  BY DEF Releases, LoadFails, CloseReleases, CloseAbandoned, EraseFails, Attached
<1>2. /\ row' = ReleasedBy(p) /\ txs = {}
      /\ UNCHANGED <<content, token, fence, view, txs, checked, side>>
  BY DEF Releases, LoadFails, CloseReleases, CloseAbandoned, EraseFails, RowIsFree
<1>3. HeartbeatAborted(p) \/ UNCHANGED <<beat, stray>>
  BY DEF Releases, LoadFails, CloseReleases, CloseAbandoned, EraseFails
<1>4. /\ row' \in [holder : Holders \cup {NoHolder, Released, Erased},
                   token : 0..MaxToken, live : BOOLEAN]
      /\ row'.token = row.token /\ (row'.holder = row.holder \/ row'.holder = Released)
      /\ (IsTombstone' <=> IsTombstone) /\ (row.holder # p => row' = row)
  BY <1>2 DEF ReleasedBy, TypeOK, IsTombstone
<1>5. row'.live => row'.holder \in Holders \cup {Erased}
  BY <1>2 DEF ReleasedBy, TypeOK
<1>6. TypeOK'
  <2>1. phase' \in [Holders -> {"idle", "gone"} \cup Attached]
    BY <1>1 DEF TypeOK, Attached
  <2>2. beat' \in [Holders -> {"off", "idle", "sent", "held"}] /\ stray' \subseteq Holders
    BY <1>3, AbortTypes
  <2>3. QED
    BY <1>2, <1>4, <1>5, <2>1, <2>2 DEF TypeOK
<1>7. TokensInv'
  <2>1. \A q \in Holders \ {p} : beat'[q] = beat[q] /\ (q \in stray' => q \in stray)
    BY <1>3, AbortTypes
  <2>2. QED
    BY <1>1, <1>2, <1>4, <2>1 DEF TypeOK, TokensInv, Attached
<1>8. TxsInv'
  BY <1>2 DEF TxsInv
<1>9. ViewInv'
  BY <1>1, <1>2, <1>4 DEF TypeOK, ViewInv, IsWriter, Attached
<1>10. TombstoneInv'
  BY <1>2, <1>4 DEF TombstoneInv, IsTombstone
<1>11. QED
  BY <1>6, <1>7, <1>8, <1>9, <1>10

LEMMA ErasesInv == ASSUME IInv, Erases PROVE IInv'
<1> USE LeaseAssumption DEF LeaseAssumption, IInv
<1>1. /\ UNCHANGED <<token, fence, beat, stray, view, txs, checked>>
      /\ txs = {} /\ row' = Tombstone /\ content' = <<>> /\ side' = FALSE
      /\ Tombstone.token <= MaxToken
      /\ \/ phase' = phase
         \/ \E p \in Holders : phase[p] = "erasing" /\ phase' = [phase EXCEPT ![p] = "gone"]
  BY DEF Erases, EraseByOther, EraseByHolder, EraseTransaction, RowIsFree
<1>2. /\ row' \in [holder : Holders \cup {NoHolder, Released, Erased},
                   token : 0..MaxToken, live : BOOLEAN]
      /\ row'.live /\ row'.holder = Erased /\ row'.token >= row.token
  BY <1>1 DEF Tombstone, TypeOK
<1>3. <<>> \in Seq(Holders)
  OBVIOUS
<1>4. TypeOK'
  <2>1. phase' \in [Holders -> {"idle", "gone"} \cup Attached]
    BY <1>1 DEF TypeOK
  <2>2. QED
    BY <1>1, <1>2, <1>3, <2>1 DEF TypeOK
<1>5. TokensInv'
  BY <1>1, <1>2 DEF TypeOK, TokensInv
<1>6. TxsInv' /\ ViewInv' /\ TombstoneInv'
  BY <1>1, <1>2 DEF TxsInv, ViewInv, TombstoneInv, IsWriter, IsTombstone
<1>7. QED
  BY <1>4, <1>5, <1>6

(* The clock and the operator leave every token, and the tombstone, alone.   *)
LEMMA ExpiryInv == ASSUME IInv, Lapse \/ OperatorExpires PROVE IInv'
<1> USE LeaseAssumption DEF LeaseAssumption, IInv
<1>1. UNCHANGED <<content, phase, token, fence, beat, stray, view, txs, checked, side>>
  BY DEF Lapse, OperatorExpires
<1>2. /\ row' \in [holder : Holders \cup {NoHolder, Released, Erased},
                   token : 0..MaxToken, live : BOOLEAN]
      /\ row'.token = row.token /\ row'.live = FALSE
      /\ row.holder \in Holders /\ row'.holder \in {row.holder, Released}
  <2>1. CASE Lapse
    BY <2>1 DEF Lapse, TypeOK
  <2>2. CASE OperatorExpires
    BY <2>2 DEF OperatorExpires, ReleasedBy, TypeOK
  <2>3. QED
    BY <2>1, <2>2
<1>3. TypeOK'
  BY <1>1, <1>2 DEF TypeOK
<1>4. TokensInv'
  BY <1>1, <1>2 DEF TokensInv
<1>5. ~IsTombstone /\ ~IsTombstone'
  BY <1>2 DEF IsTombstone
<1>6. TxsInv' /\ ViewInv' /\ TombstoneInv'
  BY <1>1, <1>2, <1>5 DEF TxsInv, ViewInv, TombstoneInv, IsWriter
<1>7. QED
  BY <1>3, <1>4, <1>6

-----------------------------------------------------------------------------
(* Every step of a holder is one of these.                                   *)
Step(p) ==
  \/ Acquire(p) \/ Load(p) \/ BeatRefreshes(p) \/ StrayRefresh(p)
  \/ WriteBegins(p) \/ WriteCommits(p) \/ WriteRollsBack(p)
  \/ Aside(p) \/ Departs(p) \/ Releases(p)

LEMMA NextIs ==
  Next => (\E p \in Holders : Step(p)) \/ Erases \/ Lapse \/ OperatorExpires
  BY DEF Next, Step, Aside, Departs, Releases, Erases

(* Every step keeps the inductive invariant.                                 *)
LEMMA StepInv == IInv /\ [Next]_vars => IInv'
<1> SUFFICES ASSUME IInv, [Next]_vars PROVE IInv'
  OBVIOUS
<1>1. ASSUME NEW p \in Holders, Step(p) PROVE IInv'
  BY <1>1, AcquireInv, LoadInv, BeatRefreshesInv, StrayRefreshInv, WriteBeginsInv,
     WriteCommitsInv, WriteRollsBackInv, AsideInv, DepartsInv, ReleasesInv DEF Step
<1>2. CASE Erases \/ Lapse \/ OperatorExpires
  BY <1>2, ErasesInv, ExpiryInv
<1>3. CASE UNCHANGED vars
  <2> USE <1>3 DEF IInv, vars
  <2>1. TypeOK' /\ TombstoneInv'
    BY DEF TypeOK, TombstoneInv, IsTombstone
  <2>2. TokensInv'
    BY DEF TokensInv
  <2>3. TxsInv' /\ ViewInv'
    BY DEF TxsInv, ViewInv, IsWriter, IsTombstone
  <2>4. QED
    BY <2>1, <2>2, <2>3
<1>4. QED
  BY <1>1, <1>2, <1>3, NextIs

(* The inductive invariant holds in every behaviour.                         *)
THEOREM Invariance == Spec => []IInv
<1>1. QED
  BY InitInv, StepInv, PTL DEF Spec

(* Every variable keeps its type, and only a holder's lease and the          *)
(* tombstone are ever live.                                                  *)
THEOREM TypeCorrect == Spec => []TypeOK
<1>1. IInv => TypeOK
  BY DEF IInv
<1>2. QED
  BY <1>1, Invariance, PTL

(* No commit can come from a graph that has missed a durable write, for any  *)
(* number of processes contending for the session.                           *)
THEOREM WritersSeeAll == Spec => []WriterSeesAll
<1>1. IInv => WriterSeesAll
  BY DEF IInv, TypeOK, TxsInv, ViewInv, WriterSeesAll
<1>2. QED
  BY <1>1, Invariance, PTL

-----------------------------------------------------------------------------
(* The refinement: which holder the abstract writer is.                      *)

LEMMA WriterType == Writer \in Holders \cup {NoHolder}
  BY DEF Writer

(* At most one handle is the writer, so Writer names it ...                  *)
LEMMA WriterIs == ASSUME IInv, NEW p \in Holders, IsWriter(p) PROVE Writer = p
<1>1. \A q \in Holders : IsWriter(q) => q = p
  BY DEF IInv, TokensInv, IsWriter, Attached
<1>2. QED
  BY <1>1 DEF Writer

(* ... in the state after a step as well.                                    *)
LEMMA NextWriterIs ==
  ASSUME IInv', NEW p \in Holders, IsWriter(p)' PROVE Writer' = p
<1>1. \A q \in Holders : IsWriter(q)' => q = p
  BY DEF IInv, TokensInv, IsWriter, Attached
<1>2. QED
  BY <1>1 DEF Writer

(* A step after which no handle is a writer that was not one before keeps    *)
(* the writer or loses it.                                                   *)
LEMMA WriterStaysOrLeaves ==
  ASSUME IInv, IInv', \A q \in Holders : IsWriter(q)' => IsWriter(q)
  PROVE  Writer' = Writer \/ Writer' = NoHolder
<1>1. CASE \E q \in Holders : IsWriter(q)'
  <2>1. PICK q \in Holders : IsWriter(q)'
    BY <1>1
  <2>2. Writer' = q /\ Writer = q
    BY <2>1, WriterIs, NextWriterIs
  <2>3. QED
    BY <2>2
<1>2. CASE ~ \E q \in Holders : IsWriter(q)'
  BY <1>2 DEF Writer
<1>3. QED
  BY <1>1, <1>2

(* Steps that mint no token, write nothing and erase nothing.                *)
LEMMA QuietStep ==
  ASSUME IInv, IInv', row'.token = row.token, IsTombstone' <=> IsTombstone,
         content' = content, \A q \in Holders : IsWriter(q)' => IsWriter(q)
  PROVE  [Custody!Next]_Custody!vars
<1>1. IsTombstone' = IsTombstone
  BY DEF IsTombstone
<1>2. CASE Writer' = Writer
  BY <1>1, <1>2 DEF Custody!vars
<1>3. CASE Writer' = NoHolder
  BY <1>1, <1>3 DEF Custody!Next, Custody!Leave
<1>4. QED
  BY <1>2, <1>3, WriterStaysOrLeaves

(* Steps that mint a token for a new lease.                                  *)
LEMMA MintStep ==
  ASSUME row'.token = row.token + 1, ~IsTombstone, ~IsTombstone', content' = content
  PROVE  [Custody!Next]_Custody!vars
<1>1. Writer' \in Holders \cup {NoHolder}
  BY DEF Writer
<1>2. IsTombstone' = IsTombstone
  BY DEF IsTombstone
<1>3. QED
  BY <1>1, <1>2 DEF Custody!Next, Custody!Grant

(* A row taken by p is p's, with its token kept or the next one minted.      *)
LEMMA TakenStep ==
  ASSUME IInv, IInv', NEW p \in Holders, Admits(p), row' = Taken(p), content' = content,
         \A q \in Holders : row'.token = row.token /\ IsWriter(q)' => IsWriter(q)
  PROVE  [Custody!Next]_Custody!vars
<1> USE LeaseAssumption DEF LeaseAssumption
<1>1. ~IsTombstone /\ ~IsTombstone'
  BY DEF IInv, TypeOK, TombstoneInv, IsTombstone, Admits, Taken
<1>2. CASE row.holder = p
  <2>1. row'.token = row.token
    BY <1>2 DEF IInv, TypeOK, Taken
  <2>2. QED
    BY <1>1, <2>1, QuietStep
<1>3. CASE row.holder # p
  <2>1. row'.token = row.token + 1
    BY <1>3 DEF IInv, TypeOK, Taken
  <2>2. QED
    BY <1>1, <2>1, MintStep
<1>4. QED
  BY <1>2, <1>3

(* An erasure is one step of the abstract one; repeated, it changes nothing. *)
LEMMA EraseStep ==
  ASSUME IInv, IInv', EraseTransaction PROVE [Custody!Next]_Custody!vars
<1> USE LeaseAssumption DEF LeaseAssumption, EraseTransaction
<1>1. IsTombstone' /\ Writer' = NoHolder
  BY DEF IInv, TypeOK, IsTombstone, Tombstone, Writer, IsWriter
<1>2. CASE IsTombstone
  <2>1. row'.token = row.token /\ content' = content
    BY <1>2 DEF IInv, TypeOK, TombstoneInv, Tombstone, IsTombstone
  <2>2. Writer = NoHolder
    BY <1>2 DEF Writer, IsWriter
  <2>3. IsTombstone' = IsTombstone
    BY <1>1, <1>2 DEF IsTombstone
  <2>4. QED
    BY <1>1, <2>1, <2>2, <2>3 DEF Custody!vars
<1>3. CASE ~IsTombstone
  <2>1. row'.token = row.token + 1 /\ content' = <<>>
    BY <1>3 DEF IInv, TypeOK, Tombstone, IsTombstone
  <2>2. ~IsTombstone /\ IsTombstone' = TRUE
    BY <1>1, <1>3 DEF IsTombstone
  <2>3. QED
    BY <1>1, <2>1, <2>2 DEF Custody!Next, Custody!Erase
<1>4. QED
  BY <1>2, <1>3

LEMMA RefinementInit == Init => Custody!Init
  BY LeaseAssumption
  DEF Init, NoRow, Custody!Init, Writer, IsWriter, Attached, IsTombstone, LeaseAssumption

LEMMA RefinementStep == IInv /\ IInv' /\ [Next]_vars => [Custody!Next]_Custody!vars
<1> SUFFICES ASSUME IInv, IInv', [Next]_vars PROVE [Custody!Next]_Custody!vars
  OBVIOUS
<1> USE LeaseAssumption DEF LeaseAssumption
<1>1. ASSUME NEW p \in Holders, Acquire(p) PROVE [Custody!Next]_Custody!vars
  <2>1. \A q \in Holders : row'.token = row.token /\ IsWriter(q)' => IsWriter(q)
    BY <1>1 DEF Acquire, Taken, IInv, TypeOK, TokensInv, IsWriter
  <2>2. QED
    BY <1>1, <2>1, TakenStep DEF Acquire
<1>2. ASSUME NEW p \in Holders, BeatRefreshes(p) PROVE [Custody!Next]_Custody!vars
  <2>1. \A q \in Holders : row'.token = row.token /\ IsWriter(q)' => IsWriter(q)
    BY <1>2 DEF BeatRefreshes, Admits, IInv, TypeOK, TombstoneInv, IsWriter, IsTombstone
  <2>2. QED
    BY <1>2, <2>1, TakenStep DEF BeatRefreshes
<1>3. ASSUME NEW p \in Holders, StrayRefresh(p) PROVE [Custody!Next]_Custody!vars
  <2>1. CASE row' = row
    <3>1. \A q \in Holders : IsWriter(q)' => IsWriter(q)
      BY <1>3, <2>1 DEF StrayRefresh, IsWriter, IsTombstone
    <3>2. QED
      BY <1>3, <2>1, <3>1, QuietStep DEF StrayRefresh, IsTombstone
  <2>2. CASE Admits(p) /\ row' = Taken(p)
    <3>1. \A q \in Holders : row'.token = row.token /\ IsWriter(q)' => IsWriter(q)
      BY <1>3, <2>2 DEF StrayRefresh, Admits, IInv, TypeOK, TombstoneInv, IsWriter,
         IsTombstone
    <3>2. QED
      BY <1>3, <2>2, <3>1, TakenStep DEF StrayRefresh
  <2>3. QED
    BY <1>3, <2>1, <2>2 DEF StrayRefresh
<1>4. ASSUME NEW p \in Holders, WriteCommits(p) PROVE [Custody!Next]_Custody!vars
  <2>1. IsWriter(p)
    BY <1>4 DEF WriteCommits, IInv, TxsInv
  <2>2. IsWriter(p)'
    BY <1>4, <2>1 DEF WriteCommits, IsWriter, IsTombstone
  <2>3. Writer = p /\ Writer' = p
    BY <2>1, <2>2, WriterIs, NextWriterIs
  <2>4. IsTombstone' = IsTombstone /\ row'.token = row.token
    BY <1>4 DEF WriteCommits, IsTombstone
  <2>5. QED
    BY <1>4, <2>3, <2>4 DEF WriteCommits, Custody!Next, Custody!Commit
<1>5. ASSUME NEW p \in Holders,
             Load(p) \/ WriteBegins(p) \/ WriteRollsBack(p) \/ Aside(p)
      PROVE  [Custody!Next]_Custody!vars
  <2>1. row' = row /\ content' = content /\ token' = token
    BY <1>5 DEF Load, WriteBegins, WriteRollsBack, Aside, AcquireRefused, BeatSends,
       BeatRefused, BeatLatches, BeatFails, WriteRefusedErased, StatsChecked, SideRowLands
  <2>2. \A q \in Holders : phase'[q] \in Attached => phase[q] \in Attached
    BY <1>5 DEF Load, WriteBegins, WriteRollsBack, Aside, AcquireRefused, BeatSends,
       BeatRefused, BeatLatches, BeatFails, WriteRefusedErased, StatsChecked, SideRowLands,
       IInv, TypeOK, Attached
  <2>3. QED
    BY <2>1, <2>2, QuietStep DEF IsWriter, IsTombstone
<1>6. ASSUME NEW p \in Holders, Departs(p) PROVE [Custody!Next]_Custody!vars
  <2>1. row' = row /\ content' = content /\ token' = token
    BY <1>6 DEF Departs, CloseBegins, CloseFenced, Crash, FenceForErase, EraseHeld
  <2>2. \E s : phase[p] \in Attached /\ phase' = [phase EXCEPT ![p] = s]
    BY <1>6 DEF Departs, CloseBegins, CloseFenced, Crash, FenceForErase, EraseHeld, Attached
  <2>3. \A q \in Holders : phase'[q] \in Attached => phase[q] \in Attached
    BY <2>2 DEF IInv, TypeOK
  <2>4. QED
    BY <2>1, <2>3, QuietStep DEF IsWriter, IsTombstone
<1>7. ASSUME NEW p \in Holders, Releases(p) PROVE [Custody!Next]_Custody!vars
  <2>1. row' = ReleasedBy(p) /\ content' = content /\ token' = token
    BY <1>7 DEF Releases, LoadFails, CloseReleases, CloseAbandoned, EraseFails
  <2>2. row'.token = row.token /\ (IsTombstone' <=> IsTombstone)
    BY <2>1 DEF ReleasedBy, IInv, TypeOK, IsTombstone
  <2>3. \E s : phase[p] \in Attached /\ phase' = [phase EXCEPT ![p] = s]
    BY <1>7 DEF Releases, LoadFails, CloseReleases, CloseAbandoned, EraseFails, Attached
  <2>4. \A q \in Holders : phase'[q] \in Attached => phase[q] \in Attached
    BY <2>3 DEF IInv, TypeOK
  <2>5. QED
    BY <2>1, <2>2, <2>4, QuietStep DEF IsWriter
<1>8. CASE Erases
  BY <1>8, EraseStep DEF Erases, EraseByHolder, EraseByOther
<1>9. CASE Lapse \/ OperatorExpires
  <2>1. row'.token = row.token /\ (IsTombstone' <=> IsTombstone)
    BY <1>9 DEF Lapse, OperatorExpires, ReleasedBy, IInv, TypeOK, IsTombstone
  <2>2. UNCHANGED <<content, phase, token>>
    BY <1>9 DEF Lapse, OperatorExpires
  <2>3. QED
    BY <2>1, <2>2, QuietStep DEF IsWriter
<1>10. CASE UNCHANGED vars
  <2>1. \A q \in Holders : IsWriter(q)' => IsWriter(q)
    BY <1>10 DEF vars, IsWriter, IsTombstone
  <2>2. QED
    BY <1>10, <2>1, QuietStep DEF vars, IsTombstone
<1>11. QED
  BY <1>1, <1>2, <1>3, <1>4, <1>5, <1>6, <1>7, <1>8, <1>9, <1>10, NextIs DEF Step

(* The lease, its tokens and its fence implement single-writer custody: every *)
(* durable write is by the writer of the row's token, tokens only grow, and   *)
(* nothing is written after an erasure.                                       *)
THEOREM Refinement == Spec => ImplementsCustody
<1>1. QED
  BY RefinementInit, RefinementStep, Invariance, PTL
  DEF Spec, ImplementsCustody, Custody!Spec

-----------------------------------------------------------------------------
(* What LeaseKept says of one step.                                          *)
KeptStep ==
  \A p \in Holders :
    row.live /\ row.holder = p /\ row'.holder # p =>
      \/ phase[p] \in {"loading", "closing", "erasing"}
      \/ CloseAbandoned(p)
      \/ OperatorExpires

(* A live lease leaves its holder only by its own hand or the operator's.    *)
THEOREM LeasesAreKept == Spec => LeaseKept
<1>1. IInv /\ [Next]_vars => KeptStep
  <2> SUFFICES ASSUME IInv, [Next]_vars, NEW h \in Holders,
                      row.live, row.holder = h, row'.holder # h
               PROVE  \/ phase[h] \in {"loading", "closing", "erasing"}
                      \/ CloseAbandoned(h)
                      \/ OperatorExpires
    BY DEF KeptStep
  <2> USE LeaseAssumption DEF LeaseAssumption, IInv, TypeOK
  <2>1. ASSUME NEW p \in Holders, Acquire(p) \/ BeatRefreshes(p) \/ StrayRefresh(p)
        PROVE  FALSE
    BY <2>1 DEF Acquire, BeatRefreshes, StrayRefresh, Admits, Taken
  <2>2. ASSUME NEW p \in Holders, Releases(p)
        PROVE  phase[h] \in {"loading", "closing", "erasing"} \/ CloseAbandoned(h)
    <3>1. row' = ReleasedBy(p)
      BY <2>2 DEF Releases, LoadFails, CloseReleases, CloseAbandoned, EraseFails
    <3>2. p = h
      BY <3>1 DEF ReleasedBy
    <3>3. QED
      BY <2>2, <3>2 DEF Releases, LoadFails, CloseReleases, EraseFails
  <2>3. CASE EraseByOther
    BY <2>3 DEF EraseByOther, EraseTransaction, ErasableByOthers, IsTombstone
  <2>4. ASSUME NEW p \in Holders, EraseByHolder(p)
        PROVE  phase[h] \in {"loading", "closing", "erasing"}
    BY <2>4 DEF EraseByHolder, EraseTransaction, ErasableByOthers, IsTombstone
  <2>5. ASSUME NEW p \in Holders,
               \/ Load(p) \/ WriteBegins(p) \/ WriteCommits(p) \/ WriteRollsBack(p)
               \/ Aside(p) \/ Departs(p)
        PROVE  FALSE
    BY <2>5 DEF Load, WriteBegins, WriteCommits, WriteRollsBack, Aside, AcquireRefused,
       BeatSends, BeatRefused, BeatLatches, BeatFails, WriteRefusedErased, StatsChecked,
       SideRowLands, Departs, CloseBegins, CloseFenced, Crash, FenceForErase, EraseHeld
  <2>6. CASE Lapse \/ UNCHANGED vars
    BY <2>6 DEF Lapse, vars
  <2>7. QED
    BY <2>1, <2>2, <2>3, <2>4, <2>5, <2>6, NextIs DEF Step, Erases
<1>2. Spec => [][KeptStep]_vars
  BY <1>1, Invariance, PTL DEF Spec
<1>3. QED
  BY <1>2 DEF LeaseKept, KeptStep

-----------------------------------------------------------------------------
(* Two handles that both take themselves for the session's writer, and can    *)
(* both pass the fence, are one: however often the lease lapsed, was taken    *)
(* over, released late, expired by hand or refreshed by an aborted heartbeat. *)
OneWriter == \A p, q \in Holders : IsWriter(p) /\ IsWriter(q) => p = q

THEOREM AtMostOneWriter == Spec => []OneWriter
<1>1. IInv => OneWriter
  BY DEF IInv, TokensInv, OneWriter, IsWriter, Attached
<1>2. QED
  BY <1>1, Invariance, PTL

(* What an erasure promises of one step: the tombstone stays and nothing is   *)
(* stored under it.                                                           *)
StaysErased == IsTombstone => IsTombstone' /\ content = <<>> /\ content' = <<>>

(* An erased session stays erased and empty: no refresh, late release,        *)
(* operator's expiry, takeover or commit that was under way brings it back.   *)
THEOREM ErasedStaysEmpty == Spec => [][StaysErased]_vars
<1>1. [Custody!Next]_Custody!vars /\ IsTombstone => IsTombstone'
  BY DEF Custody!Next, Custody!vars, Custody!Grant, Custody!Commit, Custody!Leave, Custody!Erase
<1>2. IInv /\ IInv' /\ [Next]_vars => StaysErased
  BY <1>1, RefinementStep DEF IInv, TombstoneInv, StaysErased
<1>3. QED
  BY <1>2, Invariance, PTL DEF Spec
=============================================================================
