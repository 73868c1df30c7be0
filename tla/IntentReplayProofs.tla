------------------------- MODULE IntentReplayProofs -------------------------
(***************************************************************************)
(* Proofs about IntentReplay for every set of agents, every number of      *)
(* receipts and serves, and all limits.                                    *)
(***************************************************************************)
EXTENDS IntentReplay, TLAPS, FiniteSetTheorems

(***************************************************************************)
(* The inductive invariant, in parts.                                      *)
(***************************************************************************)

\* A serve that is down keeps nothing but the store.
DownInv ==
  /\ up # "down" => 0 < serve
  /\ up = "down" =>
       /\ ~fenced /\ log = <<>> /\ sent = 0
       /\ jobs = [a \in Agents |-> <<>>]
       /\ graph = [id \in Ids |-> {}]
       /\ replay = "none" /\ todo = {} /\ verdict = "none" /\ owed = 0
       /\ streak = 0 /\ lookups = 0
       /\ restart = [id \in Ids |-> "absent"]

\* A receipt not yet issued has left no trace, and none is from the future.
IssueInv ==
  \A id \in Ids :
    /\ issuer[id] <= serve
    /\ id > nextSeq =>
         intent[id] = "none" /\ rows[id] = {} /\ graph[id] = {} /\ restart[id] = "absent"
    /\ restart[id] # "absent" => issuer[id] < serve

\* A waiting job is this serve's, waits once and only in its agent's lane, and
\* has had no effect.
JobsInv ==
  \A a \in Agents :
    /\ \A i \in 1..Len(jobs[a]) :
         /\ Owner[jobs[a][i]] = a /\ issuer[jobs[a][i]] = serve
         /\ jobs[a][i] <= nextSeq /\ graph[jobs[a][i]] = {}
    /\ \A i, j \in 1..Len(jobs[a]) : i # j => jobs[a][i] # jobs[a][j]

Tagged(p) == log[p].tag # "none"

\* What one log entry says agrees with the graph, and a consumption is the
\* last word on its intent.
LogInv ==
  \A p \in 1..Len(log) :
    /\ log[p].id <= nextSeq
    /\ log[p].put => ~Tagged(p) /\ issuer[log[p].id] = serve
    /\ log[p].write => graph[log[p].id] = {serve} /\ Tagged(p)
    /\ Tagged(p) => log[p].write \/ (log[p].tag = "failed" /\ graph[log[p].id] = {})
    /\ log[p].write => log[p].tag # "failed"
    /\ Tagged(p) =>
         /\ \A a \in Agents : \A i \in 1..Len(jobs[a]) : jobs[a][i] # log[p].id
         /\ log[p].id \in todo => replay \in {"committed", "reporting"} /\ IsNext(log[p].id)

\* An intent enters the log before its consumption, and while it is in the log
\* its write is in the store only by an attempt not yet confirmed.
PutInv ==
  \A p \in 1..Len(log) : log[p].put =>
    /\ \A q \in 1..Len(log) : log[q].id = log[p].id /\ Tagged(q) => p < q
    /\ \/ rows[log[p].id] = {}
       \/ \E q \in 1..sent : log[q].id = log[p].id /\ log[q].write

\* The graph holds what is stored, and each write once.
GraphInv ==
  \A id \in Ids :
    /\ \A s, t \in graph[id] : s = t
    /\ \A s, t \in rows[id] : s = t
    /\ up # "down" => rows[id] \subseteq graph[id]

\* What the replay has before it, and what it is about to report.
ReplayInv ==
  /\ replay # "ended" => streak < SickThreshold /\ lookups < LookupLimit
  /\ replay = "committed" => verdict = "applied_after_restart" /\ \E id \in todo : IsNext(id)
  /\ replay = "refusing" => verdict = "failed"
  /\ replay = "reporting" => verdict \in {"applied_after_restart", "failed"}
  /\ \A id \in todo :
       /\ restart[id] = "pending_replay"
       /\ replay \in {"committed", "reporting"} /\ IsNext(id) =>
            IF verdict = "failed" THEN graph[id] = {} ELSE graph[id] # {}

IInv ==
  /\ TypeOK /\ DownInv /\ IssueInv /\ JobsInv /\ LogInv /\ PutInv /\ GraphInv
  /\ ReplayInv /\ DurableAgrees /\ AnswersAreTrue /\ DebtsAreAnswered

-----------------------------------------------------------------------------
(* Sequences.                                                              *)

LEMMA OneMore ==
  ASSUME NEW S, NEW s \in Seq(S), NEW e \in S
  PROVE  /\ s \o <<e>> \in Seq(S)
         /\ Len(s \o <<e>>) = Len(s) + 1
         /\ \A i \in 1..Len(s) : (s \o <<e>>)[i] = s[i]
         /\ (s \o <<e>>)[Len(s) + 1] = e
  OBVIOUS

LEMMA Rest ==
  ASSUME NEW S, NEW s \in Seq(S), NEW k \in 0..Len(s)
  PROVE  /\ SubSeq(s, k + 1, Len(s)) \in Seq(S)
         /\ Len(SubSeq(s, k + 1, Len(s))) = Len(s) - k
         /\ \A i \in 1..(Len(s) - k) : SubSeq(s, k + 1, Len(s))[i] = s[i + k]
  OBVIOUS

LEMMA Prefix ==
  ASSUME NEW S, NEW s \in Seq(S), NEW k \in 0..Len(s)
  PROVE  ToSet(SubSeq(s, 1, k)) = {s[i] : i \in 1..k}
<1>1. Len(SubSeq(s, 1, k)) = k /\ DOMAIN SubSeq(s, 1, k) = 1..k
      /\ \A i \in 1..k : SubSeq(s, 1, k)[i] = s[i]
  OBVIOUS
<1>2. QED
  BY <1>1 DEF ToSet

-----------------------------------------------------------------------------
(* What a batch does to the rows of one intent.                            *)

LEMMA StoreFacts ==
  ASSUME TypeOK, NEW k \in 0..Len(log), StoreTakes(SubSeq(log, 1, k))
  PROVE  /\ intent' \in [Ids -> Consumed \cup {"none", "owed"}]
         /\ rows' = [id \in Ids |->
              IF \E q \in 1..k : log[q].id = id /\ log[q].write
              THEN rows[id] \cup {serve} ELSE rows[id]]
         /\ \A id \in Ids :
              \/ \E q \in 1..k : log[q].id = id /\ Tagged(q) /\ intent'[id] = log[q].tag
              \/ /\ \A q \in 1..k : log[q].id = id => ~Tagged(q)
                 /\ \E q \in 1..k : log[q].id = id /\ log[q].put
                 /\ intent'[id] = "owed"
              \/ /\ intent[id] # "none" => \A q \in 1..k : log[q].id = id => ~Tagged(q)
                 /\ intent'[id] = intent[id]
              \/ intent[id] # "owed" /\ intent'[id] = "none"
<1> DEFINE batch == ToSet(SubSeq(log, 1, k))
           of(id) == {e \in batch : e.id = id}
           tags(id) == {e.tag : e \in of(id)} \ {"none"}
           put(id) == \E e \in of(id) : e.put
           row(id) == IF put(id) THEN "owed" ELSE intent[id]
           some == \E e \in batch : e.tag # "none"
<1>1. /\ \A p \in 1..Len(log) : log[p] \in Entry
      /\ 1..k \subseteq 1..Len(log)
      /\ intent \in [Ids -> Consumed \cup {"none", "owed"}]
  BY DEF TypeOK
<1>2. batch = {log[q] : q \in 1..k}
  BY Prefix DEF TypeOK
<1>3. PICK old \in SUBSET (IF some THEN Purgeable ELSE {}) :
        intent' = [id \in Ids |->
             IF row(id) # "none" /\ tags(id) # {} THEN CHOOSE t \in tags(id) : TRUE
             ELSE IF id \in old /\ ~put(id) THEN "none"
             ELSE row(id)]
  BY DEF StoreTakes
<1>4. rows' = [id \in Ids |->
           IF \E e \in of(id) : e.write THEN rows[id] \cup {serve} ELSE rows[id]]
  BY DEF StoreTakes
<1>5. ASSUME NEW id \in Ids
      PROVE  (\E e \in of(id) : e.write) <=> \E q \in 1..k : log[q].id = id /\ log[q].write
  BY <1>2
<1>6. rows' = [id \in Ids |->
              IF \E q \in 1..k : log[q].id = id /\ log[q].write
              THEN rows[id] \cup {serve} ELSE rows[id]]
  BY <1>4, <1>5
<1>7. old \subseteq Purgeable
  BY <1>3
<1>8. ASSUME NEW id \in Ids
      PROVE  /\ tags(id) # {} => (CHOOSE t \in tags(id) : TRUE) \in tags(id)
             /\ \A t \in tags(id) : \E q \in 1..k : log[q].id = id /\ Tagged(q) /\ t = log[q].tag
             /\ tags(id) = {} => \A q \in 1..k : log[q].id = id => ~Tagged(q)
             /\ put(id) => \E q \in 1..k : log[q].id = id /\ log[q].put
             /\ tags(id) \subseteq Consumed
  <2>1. tags(id) # {} => (CHOOSE t \in tags(id) : TRUE) \in tags(id)
    OBVIOUS
  <2>2. \A t \in tags(id) : \E q \in 1..k : log[q].id = id /\ Tagged(q) /\ t = log[q].tag
    BY <1>2 DEF Tagged
  <2>3. tags(id) = {} => \A q \in 1..k : log[q].id = id => ~Tagged(q)
    <3> SUFFICES ASSUME tags(id) = {}, NEW q \in 1..k, log[q].id = id, Tagged(q) PROVE FALSE
      OBVIOUS
    <3>1. log[q] \in of(id)
      BY <1>2
    <3>2. log[q].tag \in tags(id)
      BY <3>1 DEF Tagged
    <3>3. QED
      BY <3>2
  <2>4. put(id) => \E q \in 1..k : log[q].id = id /\ log[q].put
    BY <1>2
  <2>5. tags(id) \subseteq Consumed
    BY <1>1, <1>2 DEF Entry
  <2>6. QED
    BY <2>1, <2>2, <2>3, <2>4, <2>5
<1> HIDE DEF tags, put, of, some
<1>9. ASSUME NEW id \in Ids
      PROVE  /\ \/ \E q \in 1..k : log[q].id = id /\ Tagged(q) /\ intent'[id] = log[q].tag
                \/ /\ \A q \in 1..k : log[q].id = id => ~Tagged(q)
                   /\ \E q \in 1..k : log[q].id = id /\ log[q].put
                   /\ intent'[id] = "owed"
                \/ /\ intent[id] # "none" => \A q \in 1..k : log[q].id = id => ~Tagged(q)
                   /\ intent'[id] = intent[id]
                \/ intent[id] # "owed" /\ intent'[id] = "none"
             /\ intent'[id] \in Consumed \cup {"none", "owed"}
  <2>1. CASE row(id) # "none" /\ tags(id) # {}
    <3>1. intent'[id] \in tags(id)
      BY <1>3, <1>8, <2>1
    <3>2. QED
      BY <3>1, <1>8
  <2>2. CASE ~(row(id) # "none" /\ tags(id) # {}) /\ id \in old /\ ~put(id)
    <3>1. intent'[id] = "none"
      BY <1>3, <2>2
    <3>2. intent[id] # "owed"
      BY <1>7, <2>2 DEF Purgeable, Consumed
    <3>3. QED
      BY <3>1, <3>2
  <2>3. CASE ~(row(id) # "none" /\ tags(id) # {}) /\ ~(id \in old /\ ~put(id))
    <3>1. intent'[id] = row(id)
      BY <1>3, <2>3
    <3>2. CASE put(id)
      BY <3>1, <3>2, <2>3, <1>8
    <3>3. CASE ~put(id)
      BY <3>1, <3>3, <2>3, <1>8, <1>1
    <3>4. QED
      BY <3>2, <3>3
  <2>4. QED
    BY <2>1, <2>2, <2>3
<1>10. intent' \in [Ids -> Consumed \cup {"none", "owed"}]
  <2>1. \A id \in Ids : intent'[id] \in Consumed \cup {"none", "owed"}
    BY <1>9
  <2>2. intent' = [id \in Ids |-> intent'[id]]
    BY <1>3
  <2>3. QED
    BY <2>1, <2>2
<1>11. QED
  BY <1>6, <1>9, <1>10

(* What keeps the answers, and where the replay is, keeps the debts.         *)
LEMMA DebtsStay ==
  ASSUME DebtsAreAnswered, up # "down", UNCHANGED <<restart, owed, todo, serve>>,
         \A id \in Owed' : issuer'[id] < serve => id \in Owed /\ issuer[id] < serve,
         replay' \in {"refusing", "reporting"} <=> replay \in {"refusing", "reporting"}
  PROVE  DebtsAreAnswered'
<1>1. \A id \in Ids : Decided(id)' <=> Decided(id)
  BY DEF Decided, IsNext
<1>2. {id \in Ids : restart'[id] = "pending_replay" /\ ~Decided(id)'}
      = {id \in Ids : restart[id] = "pending_replay" /\ ~Decided(id)}
  BY <1>1
<1>3. owed' = Cardinality({id \in Ids : restart'[id] = "pending_replay" /\ ~Decided(id)'})
  BY <1>2 DEF DebtsAreAnswered
<1>4. \A id \in Owed' : issuer'[id] < serve' => restart'[id] # "absent"
  BY DEF DebtsAreAnswered
<1>5. QED
  BY <1>3, <1>4 DEF DebtsAreAnswered

-----------------------------------------------------------------------------
LEMMA InitInv == Init => IInv
<1> SUFFICES ASSUME Init PROVE IInv
  OBVIOUS
<1> USE ReplayAssumption DEF Init
<1>1. TypeOK
  <2>1. \A a \in Agents : jobs[a] \in Seq(Ids)
    OBVIOUS
  <2>2. log \in Seq(Entry) /\ Len(log) = 0
    OBVIOUS
  <2>3. /\ serve \in 0..MaxServe /\ nextSeq \in 0..MaxReceipt /\ owed \in 0..MaxReceipt
        /\ streak \in 0..SickThreshold /\ lookups \in 0..LookupLimit /\ sent \in 0..Len(log)
    BY <2>2
  <2>4. /\ issuer \in [Ids -> 0..MaxServe] /\ jobs \in [Agents -> Seq(Ids)]
        /\ graph \in [Ids -> SUBSET Serves] /\ rows \in [Ids -> SUBSET Serves]
        /\ intent \in [Ids -> Consumed \cup {"none", "owed"}]
        /\ restart \in [Ids -> {"absent", "pending_replay", "applied_after_restart", "failed"}]
    BY <2>1
  <2>5. QED
    BY <2>2, <2>3, <2>4 DEF TypeOK, Reasons
<1>2. DownInv /\ IssueInv /\ JobsInv /\ GraphInv /\ ReplayInv
  BY DEF DownInv, IssueInv, JobsInv, GraphInv, ReplayInv, Ids
<1>3. LogInv /\ PutInv
  BY DEF LogInv, PutInv
<1>4. DurableAgrees /\ AnswersAreTrue /\ DebtsAreAnswered
  BY DEF DurableAgrees, AnswersAreTrue, DebtsAreAnswered, Decided
<1>5. QED
  BY <1>1, <1>2, <1>3, <1>4 DEF IInv

-----------------------------------------------------------------------------
(* The store under a batch: what a flush and a close have in common.        *)

LEMMA StoreStep ==
  ASSUME IInv, up # "down",
         NEW k \in 0..Len(log), sent <= k, StoreTakes(SubSeq(log, 1, k))
  PROVE  /\ intent' \in [Ids -> Consumed \cup {"none", "owed"}]
         /\ rows' \in [Ids -> SUBSET Serves]
         /\ DurableAgrees'
         /\ \A id \in Ids : /\ rows'[id] \subseteq graph[id]
                            /\ rows[id] \subseteq rows'[id]
         /\ \A id \in Ids : id > nextSeq => intent'[id] = "none" /\ rows'[id] = {}
         /\ \A id \in Ids : intent'[id] = "owed" => intent[id] = "owed" \/ issuer[id] = serve
         /\ \A id \in Ids : intent[id] = "owed" => intent'[id] \in {"owed", "failed"} \/ rows'[id] # {}
         /\ \A p \in 1..Len(log) : log[p].put =>
              \/ rows'[log[p].id] = {}
              \/ \E q \in 1..k : log[q].id = log[p].id /\ log[q].write
<1>1. /\ intent' \in [Ids -> Consumed \cup {"none", "owed"}]
      /\ rows' = [id \in Ids |->
           IF \E q \in 1..k : log[q].id = id /\ log[q].write
           THEN rows[id] \cup {serve} ELSE rows[id]]
      /\ \A id \in Ids :
           \/ \E q \in 1..k : log[q].id = id /\ Tagged(q) /\ intent'[id] = log[q].tag
           \/ /\ \A q \in 1..k : log[q].id = id => ~Tagged(q)
              /\ \E q \in 1..k : log[q].id = id /\ log[q].put
              /\ intent'[id] = "owed"
           \/ /\ intent[id] # "none" => \A q \in 1..k : log[q].id = id => ~Tagged(q)
              /\ intent'[id] = intent[id]
           \/ intent[id] # "owed" /\ intent'[id] = "none"
  BY StoreFacts DEF IInv
<1>2. /\ \A p \in 1..Len(log) : log[p] \in Entry
      /\ 1..k \subseteq 1..Len(log) /\ 1..sent \subseteq 1..k
      /\ serve \in Serves
      /\ rows \in [Ids -> SUBSET Serves] /\ graph \in [Ids -> SUBSET Serves]
      /\ intent \in [Ids -> Consumed \cup {"none", "owed"}]
      /\ nextSeq \in Nat
  BY ReplayAssumption DEF IInv, TypeOK, DownInv, Serves
<1>3. ASSUME NEW q \in 1..k
      PROVE  /\ log[q].id \in Ids /\ log[q].id <= nextSeq
             /\ log[q].put => ~Tagged(q) /\ issuer[log[q].id] = serve
             /\ log[q].write => graph[log[q].id] = {serve} /\ Tagged(q) /\ log[q].tag # "failed"
             /\ Tagged(q) => log[q].write \/ (log[q].tag = "failed" /\ graph[log[q].id] = {})
  BY <1>2 DEF IInv, LogInv, Entry
<1>4. \A id \in Ids : rows[id] \subseteq graph[id]
  BY DEF IInv, GraphInv
<1>5. \A id \in Ids : /\ rows'[id] \subseteq graph[id]
                      /\ rows[id] \subseteq rows'[id]
  BY <1>1, <1>3, <1>4
<1>6. rows' \in [Ids -> SUBSET Serves]
  BY <1>1, <1>2
<1>7. \A p \in 1..Len(log) : log[p].put =>
              \/ rows'[log[p].id] = {}
              \/ \E q \in 1..k : log[q].id = log[p].id /\ log[q].write
  <2> SUFFICES ASSUME NEW p \in 1..Len(log), log[p].put,
                      ~\E q \in 1..k : log[q].id = log[p].id /\ log[q].write
               PROVE  rows'[log[p].id] = {}
    OBVIOUS
  <2>1. rows[log[p].id] = {}
    BY <1>2 DEF IInv, PutInv
  <2>2. QED
    BY <2>1, <1>1, <1>2 DEF Entry
<1>8. ASSUME NEW id \in Ids
      PROVE  /\ intent'[id] \in {"owed", "failed"} => rows'[id] = {}
             /\ intent'[id] \in {"applied", "applied_after_restart"} => rows'[id] # {}
             /\ id > nextSeq => intent'[id] = "none" /\ rows'[id] = {}
             /\ intent'[id] = "owed" => intent[id] = "owed" \/ issuer[id] = serve
             /\ intent[id] = "owed" => intent'[id] \in {"owed", "failed"} \/ rows'[id] # {}
  <2>1. CASE \E q \in 1..k : log[q].id = id /\ Tagged(q) /\ intent'[id] = log[q].tag
    <3>1. PICK q \in 1..k : log[q].id = id /\ Tagged(q) /\ intent'[id] = log[q].tag
      BY <2>1
    <3>2. log[q].tag \in Consumed /\ id <= nextSeq
      BY <1>2, <1>3, <3>1 DEF Entry, Tagged
    <3>3. CASE log[q].write
      <4>1. serve \in rows'[id] /\ intent'[id] \in {"applied", "applied_after_restart"}
        BY <3>1, <3>2, <3>3, <1>1, <1>3 DEF Consumed
      <4>2. QED
        BY <4>1, <3>2, <1>2 DEF Ids
    <3>4. CASE ~log[q].write
      <4>1. intent'[id] = "failed" /\ graph[id] = {}
        BY <3>1, <3>4, <1>3
      <4>2. QED
        BY <4>1, <3>2, <1>2, <1>5 DEF Ids
    <3>5. QED
      BY <3>3, <3>4
  <2>2. CASE /\ \A q \in 1..k : log[q].id = id => ~Tagged(q)
             /\ \E q \in 1..k : log[q].id = id /\ log[q].put
             /\ intent'[id] = "owed"
    <3>1. PICK q \in 1..k : log[q].id = id /\ log[q].put
      BY <2>2
    <3>2. ~\E r \in 1..k : log[r].id = id /\ log[r].write
      BY <2>2, <1>3
    <3>3. rows'[id] = {}
      BY <3>1, <3>2, <1>7, <1>2
    <3>4. QED
      BY <3>1, <3>3, <2>2, <1>2, <1>3 DEF Ids
  <2>3. CASE /\ intent[id] # "none" => \A q \in 1..k : log[q].id = id => ~Tagged(q)
             /\ intent'[id] = intent[id]
    <3>1. intent[id] # "none" => rows'[id] = rows[id]
      BY <2>3, <1>1, <1>3
    <3>2. id > nextSeq => rows'[id] = rows[id]
      BY <1>1, <1>2, <1>3 DEF Ids
    <3>3. QED
      BY <2>3, <3>1, <3>2 DEF IInv, DurableAgrees, IssueInv
  <2>4. CASE intent[id] # "owed" /\ intent'[id] = "none"
    <3>1. id > nextSeq => rows'[id] = rows[id]
      BY <1>1, <1>2, <1>3 DEF Ids
    <3>2. QED
      BY <2>4, <3>1 DEF IInv, IssueInv
  <2>5. QED
    BY <1>1, <2>1, <2>2, <2>3, <2>4
<1>9. QED
  BY <1>1, <1>5, <1>6, <1>7, <1>8 DEF DurableAgrees

-----------------------------------------------------------------------------
(* One lemma for each kind of step, one step of its proof for each part of  *)
(* the invariant.                                                           *)

USE DEF serveVars, laneVars, graphVars, storeVars, streakVars, replayVars

LEMMA CountBound ==
  ASSUME NEW S \in SUBSET Ids
  PROVE  IsFiniteSet(S) /\ Cardinality(S) \in 0..MaxReceipt
<1>1. IsFiniteSet(Ids) /\ Cardinality(Ids) = MaxReceipt
  <2>1. MaxReceipt \in Nat
    BY ReplayAssumption
  <2>2. IsFiniteSet(1..MaxReceipt)
        /\ Cardinality(1..MaxReceipt) = IF 1 > MaxReceipt THEN 0 ELSE MaxReceipt - 1 + 1
    BY <2>1, FS_Interval
  <2>3. QED
    BY <2>1, <2>2 DEF Ids
<1>2. IsFiniteSet(S) /\ Cardinality(S) <= Cardinality(Ids)
  BY <1>1, FS_Subset
<1>3. Cardinality(S) \in Nat
  BY <1>2, FS_CardinalityType
<1>4. QED
  BY <1>1, <1>2, <1>3, ReplayAssumption

LEMMA SeededFacts ==
  ASSUME NEW r \in Consumed \cup {"none", "owed"}
  PROVE  /\ Seeded(r) = "absent" <=> r = "none"
         /\ Seeded(r) = "pending_replay" <=> r = "owed"
         /\ Seeded(r) = "failed" <=> r = "failed"
         /\ Seeded(r) = "applied_after_restart" <=> r \in {"applied", "applied_after_restart"}
         /\ Seeded(r) \in {"absent", "pending_replay", "applied_after_restart", "failed"}
BY DEF Seeded, Consumed

LEMMA AttachInv == ASSUME IInv, Attach PROVE IInv'
<1>1. /\ up = "down" /\ up' = "up" /\ serve < MaxServe /\ serve' = serve + 1
      /\ graph' = rows /\ todo' = Owed
      /\ replay' = IF Owed = {} THEN "none" ELSE "probing"
      /\ owed' = Cardinality(Owed)
      /\ UNCHANGED <<fenced, laneVars, log, sent, storeVars, streakVars, verdict, blocked>>
  BY DEF Attach
<1>2. PICK old \in SUBSET Forgettable :
        restart' = [id \in Ids |-> IF id \in old THEN "absent" ELSE Seeded(intent[id])]
  BY DEF Attach
<1>3. /\ log = <<>> /\ sent = 0 /\ verdict = "none" /\ streak = 0 /\ lookups = 0
      /\ jobs = [a \in Agents |-> <<>>]
  BY <1>1 DEF IInv, DownInv
<1>4. /\ serve \in 0..MaxServe /\ MaxServe \in Nat
      /\ issuer \in [Ids -> 0..MaxServe] /\ rows \in [Ids -> SUBSET Serves]
      /\ intent \in [Ids -> Consumed \cup {"none", "owed"}]
  BY ReplayAssumption DEF IInv, TypeOK
<1>5. ASSUME NEW id \in Ids
      PROVE  /\ restart'[id] \in {"absent", "pending_replay", "applied_after_restart", "failed"}
             /\ restart'[id] = "pending_replay" <=> id \in Owed
             /\ restart'[id] = "failed" => intent[id] = "failed"
             /\ restart'[id] = "applied_after_restart" =>
                  intent[id] \in {"applied", "applied_after_restart"}
             /\ intent[id] = "none" => restart'[id] = "absent"
  <2>1. CASE id \in old
    <3>1. restart'[id] = "absent" /\ id \notin Owed
      BY <1>2, <2>1 DEF Forgettable, Owed, Consumed
    <3>2. QED
      BY <3>1
  <2>2. CASE id \notin old
    <3>1. restart'[id] = Seeded(intent[id])
      BY <1>2, <2>2
    <3>2. QED
      BY <3>1, <1>4, SeededFacts DEF Owed
  <2>3. QED
    BY <2>1, <2>2
<1>6. Owed \subseteq Ids
  BY DEF Owed
<1>7. TypeOK'
  <2>1. owed' \in 0..MaxReceipt
    BY <1>1, <1>6, CountBound
  <2>2. restart' \in [Ids -> {"absent", "pending_replay", "applied_after_restart", "failed"}]
    BY <1>2, <1>5
  <2>3. serve' \in 0..MaxServe
    BY <1>1, <1>4
  <2>4. QED
    BY <1>1, <1>6, <2>1, <2>2, <2>3 DEF IInv, TypeOK
<1>8. DownInv'
  BY <1>1, <1>4 DEF DownInv
<1>9. IssueInv'
  <2> SUFFICES ASSUME NEW id \in Ids
               PROVE  /\ issuer[id] <= serve + 1
                      /\ id > nextSeq => intent[id] = "none" /\ rows[id] = {} /\ restart'[id] = "absent"
                      /\ restart'[id] # "absent" => issuer[id] < serve + 1
    BY <1>1 DEF IssueInv
  <2>1. issuer[id] \in Nat /\ issuer[id] <= serve
        /\ (id > nextSeq => intent[id] = "none" /\ rows[id] = {})
    BY <1>4 DEF IInv, IssueInv
  <2>2. QED
    BY <2>1, <1>4, <1>5
<1>10. JobsInv'
  BY <1>1, <1>3 DEF JobsInv
<1>11. LogInv' /\ PutInv'
  BY <1>1, <1>3 DEF LogInv, PutInv
<1>12. GraphInv'
  BY <1>1 DEF IInv, GraphInv
<1>13. ReplayInv'
  BY <1>1, <1>3, <1>5, ReplayAssumption DEF ReplayInv, Owed
<1>14. DurableAgrees'
  BY <1>1 DEF IInv, DurableAgrees
<1>15. AnswersAreTrue'
  BY <1>1, <1>5 DEF IInv, DurableAgrees, AnswersAreTrue, Owed
<1>16. DebtsAreAnswered'
  <2>1. {id \in Ids : restart'[id] = "pending_replay"} = Owed
    BY <1>5, <1>6
  <2>2. Owed' = Owed
    BY <1>1 DEF Owed
  <2>3. \A id \in Ids : ~Decided(id)'
    BY <1>1, <1>3 DEF Decided
  <2>4. {id \in Ids : restart'[id] = "pending_replay" /\ ~Decided(id)'} = Owed
    BY <2>1, <2>3
  <2>5. QED
    BY <1>1, <1>5, <1>6, <2>2, <2>4 DEF DebtsAreAnswered
<1>17. QED
  BY <1>7, <1>8, <1>9, <1>10, <1>11, <1>12, <1>13, <1>14, <1>15, <1>16 DEF IInv

LEMMA AdmitInv == ASSUME IInv, Admit PROVE IInv'
<1> DEFINE new == nextSeq + 1
           e == [id |-> new, put |-> TRUE, write |-> FALSE, tag |-> "none"]
<1>1. /\ up = "up" /\ nextSeq < MaxReceipt /\ nextSeq' = new
      /\ issuer' = [issuer EXCEPT ![new] = serve]
      /\ jobs' = [jobs EXCEPT ![Owner[new]] = Append(@, new)]
      /\ log' = log \o <<e>>
      /\ UNCHANGED <<serveVars, graph, sent, storeVars, replayVars>>
  BY DEF Admit, Put
<1>2. /\ nextSeq \in Nat /\ MaxReceipt \in Nat /\ new \in Ids /\ new > nextSeq /\ ~(new <= nextSeq)
      /\ Owner[new] \in Agents
      /\ serve \in 0..MaxServe /\ issuer \in [Ids -> 0..MaxServe]
      /\ jobs \in [Agents -> Seq(Ids)] /\ log \in Seq(Entry) /\ sent \in 0..Len(log)
      /\ graph \in [Ids -> SUBSET Serves]
  <2>1. /\ nextSeq \in 0..MaxReceipt /\ MaxReceipt \in Nat /\ Owner \in [Ids -> Agents]
        /\ serve \in 0..MaxServe /\ issuer \in [Ids -> 0..MaxServe]
        /\ jobs \in [Agents -> Seq(Ids)] /\ log \in Seq(Entry) /\ sent \in 0..Len(log)
        /\ graph \in [Ids -> SUBSET Serves]
    BY ReplayAssumption DEF IInv, TypeOK
  <2>2. nextSeq \in Nat /\ new \in 1..MaxReceipt /\ new > nextSeq /\ ~(new <= nextSeq)
    BY <2>1, <1>1
  <2>3. QED
    BY <2>1, <2>2 DEF Ids
<1>3. e \in Entry
  BY <1>2 DEF Entry
<1>4. /\ log' \in Seq(Entry) /\ Len(log') = Len(log) + 1
      /\ \A p \in 1..Len(log) : log'[p] = log[p]
      /\ log'[Len(log) + 1] = e
  BY <1>1, <1>2, <1>3, OneMore
<1>5. ASSUME NEW a \in Agents
      PROVE  /\ jobs'[a] \in Seq(Ids)
             /\ a # Owner[new] => jobs'[a] = jobs[a]
             /\ a = Owner[new] =>
                  /\ Len(jobs'[a]) = Len(jobs[a]) + 1
                  /\ \A i \in 1..Len(jobs[a]) : jobs'[a][i] = jobs[a][i]
                  /\ jobs'[a][Len(jobs[a]) + 1] = new
  <2>1. jobs[a] \in Seq(Ids) /\ new \in Ids
    BY <1>2
  <2>2. CASE a # Owner[new]
    <3>1. jobs'[a] = jobs[a]
      BY <2>2, <1>1, <1>2
    <3>2. QED
      BY <3>1, <2>1, <2>2
  <2>3. CASE a = Owner[new]
    <3>1. jobs'[a] = Append(jobs[a], new)
      BY <2>3, <1>1, <1>2
    <3>2. QED
      BY <3>1, <2>1, <2>3
  <2>4. QED
    BY <2>2, <2>3
<1>6. /\ intent[new] = "none" /\ rows[new] = {} /\ restart[new] = "absent"
      /\ issuer[new] <= serve
  BY <1>2 DEF IInv, IssueInv
<1>7. graph[new] = {}
  BY <1>2 DEF IInv, IssueInv
<1>19. /\ serve' = serve /\ graph' = graph /\ todo' = todo /\ replay' = replay /\ sent' = sent
       /\ rows' = rows /\ nextSeq' = new
  BY <1>1
<1>20. \A id \in Ids : id # new => issuer'[id] = issuer[id]
  BY <1>1, <1>2
<1>21. issuer'[new] = serve
  BY <1>1, <1>2
<1>8. TypeOK'
  <2>1. jobs' \in [Agents -> Seq(Ids)]
    BY <1>1, <1>2
  <2>2. nextSeq' \in 0..MaxReceipt /\ issuer' \in [Ids -> 0..MaxServe] /\ sent' \in 0..Len(log')
    BY <1>1, <1>2, <1>4
  <2>3. QED
    BY <1>1, <1>4, <2>1, <2>2 DEF IInv, TypeOK
<1>9. DownInv'
  BY <1>1 DEF IInv, DownInv
<1>10. IssueInv'
  <2>1. IssueInv
    BY DEF IInv
  <2>2. \A id \in Ids : id > new => id > nextSeq /\ id # new
    BY <1>2 DEF Ids
  <2>3. /\ issuer'[new] <= serve /\ ~(new > new)
        /\ restart[new] = "absent"
    BY <1>2, <1>6, <1>21
  <2>4. UNCHANGED <<serve, intent, rows, graph, restart>> /\ nextSeq' = new
    BY <1>1
  <2>5. QED
    BY <2>1, <2>2, <2>3, <2>4, <1>20 DEF IssueInv
<1>11. JobsInv'
  <2> SUFFICES ASSUME NEW a \in Agents
               PROVE  /\ \A i \in 1..Len(jobs'[a]) :
                           /\ Owner[jobs'[a][i]] = a /\ issuer'[jobs'[a][i]] = serve
                           /\ jobs'[a][i] <= new /\ graph[jobs'[a][i]] = {}
                      /\ \A i, j \in 1..Len(jobs'[a]) : i # j => jobs'[a][i] # jobs'[a][j]
    BY <1>19 DEF JobsInv
  <2>1. /\ \A i \in 1..Len(jobs[a]) :
              /\ jobs[a][i] \in Ids /\ jobs[a][i] # new
              /\ Owner[jobs[a][i]] = a /\ issuer'[jobs[a][i]] = serve
              /\ jobs[a][i] <= new /\ graph[jobs[a][i]] = {}
        /\ \A i, j \in 1..Len(jobs[a]) : i # j => jobs[a][i] # jobs[a][j]
        /\ issuer'[new] = serve
    <3>1. \A i \in 1..Len(jobs[a]) : jobs[a][i] \in Ids
      BY <1>2
    <3>2. \A i \in 1..Len(jobs[a]) :
              /\ Owner[jobs[a][i]] = a /\ issuer[jobs[a][i]] = serve
              /\ jobs[a][i] <= nextSeq /\ graph[jobs[a][i]] = {}
      BY DEF IInv, JobsInv
    <3>3. \A i \in 1..Len(jobs[a]) : jobs[a][i] # new /\ jobs[a][i] <= new
      <4>1. \A n \in Ids : n <= nextSeq => n # new /\ n <= new
        BY <1>2 DEF Ids
      <4>2. QED
        BY <4>1, <3>1, <3>2
    <3>4. \A i, j \in 1..Len(jobs[a]) : i # j => jobs[a][i] # jobs[a][j]
      BY DEF IInv, JobsInv
    <3>5. QED
      BY <3>1, <3>2, <3>3, <3>4, <1>20, <1>21
  <2>2. CASE a # Owner[new]
    <3>1. jobs'[a] = jobs[a]
      BY <2>2, <1>5
    <3>2. QED
      BY <3>1, <2>1
  <2>3. CASE a = Owner[new]
    <3>1. Len(jobs[a]) \in Nat
      BY <1>2
    <3>2. \A i \in 1..Len(jobs'[a]) : i \in 1..Len(jobs[a]) \/ i = Len(jobs[a]) + 1
      BY <3>1, <2>3, <1>5
    <3>3. /\ \A i \in 1..Len(jobs[a]) : jobs'[a][i] = jobs[a][i]
          /\ jobs'[a][Len(jobs[a]) + 1] = new
      BY <2>3, <1>5
    <3>4. ASSUME NEW i \in 1..Len(jobs'[a])
          PROVE  /\ Owner[jobs'[a][i]] = a /\ issuer'[jobs'[a][i]] = serve
                 /\ jobs'[a][i] <= new /\ graph[jobs'[a][i]] = {}
      <4>1. CASE i \in 1..Len(jobs[a])
        <5>1. jobs'[a][i] = jobs[a][i]
          BY <4>1, <3>3
        <5>2. QED
          BY <4>1, <5>1, <2>1
      <4>2. CASE i = Len(jobs[a]) + 1
        <5>1. jobs'[a][i] = new /\ new <= new
          BY <4>2, <3>3, <1>2
        <5>2. QED
          BY <5>1, <2>1, <2>3, <1>7
      <4>3. QED
        BY <3>2, <4>1, <4>2
    <3>5. \A i, j \in 1..Len(jobs'[a]) : i # j => jobs'[a][i] # jobs'[a][j]
      BY <2>1, <3>2, <3>3
    <3>6. QED
      BY <3>4, <3>5
  <2>4. QED
    BY <2>2, <2>3
<1>12. \A p \in 1..Len(log') : p \in 1..Len(log) \/ p = Len(log) + 1
  BY <1>2, <1>4
<1>13. \A p \in 1..Len(log) : log[p].id \in Ids /\ log[p].id # new
  <2>1. \A p \in 1..Len(log) : log[p] \in Entry
    BY <1>2
  <2>2. \A p \in 1..Len(log) : log[p].id <= nextSeq
    BY DEF IInv, LogInv
  <2>3. QED
    BY <2>1, <2>2, <1>2 DEF Entry
<1>14. LogInv'
  <2> SUFFICES ASSUME NEW p \in 1..Len(log')
               PROVE  /\ log'[p].id <= new
                      /\ log'[p].put => log'[p].tag = "none" /\ issuer'[log'[p].id] = serve
                      /\ log'[p].write => graph[log'[p].id] = {serve} /\ log'[p].tag # "none"
                      /\ log'[p].tag # "none" => log'[p].write \/ (log'[p].tag = "failed" /\ graph[log'[p].id] = {})
                      /\ log'[p].write => log'[p].tag # "failed"
                      /\ log'[p].tag # "none" =>
                           /\ \A a \in Agents : \A i \in 1..Len(jobs'[a]) : jobs'[a][i] # log'[p].id
                           /\ log'[p].id \in todo =>
                                replay \in {"committed", "reporting"} /\ IsNext(log'[p].id)
    BY <1>19 DEF LogInv, Tagged, IsNext
  <2>1. CASE p = Len(log) + 1
    BY <2>1, <1>1, <1>2, <1>4
  <2>2. CASE p \in 1..Len(log)
    <3>1. log'[p] = log[p] /\ log[p].id \in Ids /\ log[p].id # new /\ log[p].id <= nextSeq
      BY <2>2, <1>4, <1>13 DEF IInv, LogInv
    <3>2. issuer'[log[p].id] = issuer[log[p].id]
      BY <3>1, <1>1, <1>2
    <3>3. ASSUME log[p].tag # "none", NEW a \in Agents, NEW i \in 1..Len(jobs'[a])
          PROVE  jobs'[a][i] # log[p].id
      <4>1. \A j \in 1..Len(jobs[a]) : jobs[a][j] # log[p].id
        BY <3>3, <2>2 DEF IInv, LogInv, Tagged
      <4>2. Len(jobs[a]) \in Nat
        BY <1>2
      <4>3. QED
        BY <4>1, <4>2, <3>1, <1>5
    <3>4. /\ log[p].put => log[p].tag = "none" /\ issuer[log[p].id] = serve
          /\ log[p].write => graph[log[p].id] = {serve} /\ log[p].tag # "none"
          /\ log[p].tag # "none" => log[p].write \/ (log[p].tag = "failed" /\ graph[log[p].id] = {})
          /\ log[p].write => log[p].tag # "failed"
          /\ log[p].tag # "none" /\ log[p].id \in todo =>
               replay \in {"committed", "reporting"} /\ IsNext(log[p].id)
      BY <2>2 DEF IInv, LogInv, Tagged
    <3>5. log[p].id <= new
      <4>1. \A n \in Ids : n <= nextSeq => n <= new
        BY <1>2 DEF Ids
      <4>2. QED
        BY <4>1, <3>1, <3>4
    <3>6. QED
      BY <3>1, <3>2, <3>3, <3>4, <3>5
  <2>3. QED
    BY <2>1, <2>2, <1>12
<1>15. PutInv'
  <2> SUFFICES ASSUME NEW p \in 1..Len(log'), log'[p].put
               PROVE  /\ \A q \in 1..Len(log') : log'[q].id = log'[p].id /\ log'[q].tag # "none" => p < q
                      /\ \/ rows[log'[p].id] = {}
                         \/ \E q \in 1..sent : log'[q].id = log'[p].id /\ log'[q].write
    BY <1>19 DEF PutInv, Tagged
  <2>1. CASE p = Len(log) + 1
    <3>1. log'[p].id = new
      BY <2>1, <1>4
    <3>2. \A q \in 1..Len(log') : log'[q].id = new => log'[q].tag = "none"
      BY <1>4, <1>12, <1>13
    <3>3. QED
      BY <3>1, <3>2, <1>6
  <2>2. CASE p \in 1..Len(log)
    <3>1. log'[p] = log[p]
      BY <2>2, <1>4
    <3>2. /\ \A q \in 1..Len(log) : log[q].id = log[p].id /\ log[q].tag # "none" => p < q
          /\ \/ rows[log[p].id] = {}
             \/ \E q \in 1..sent : log[q].id = log[p].id /\ log[q].write
      BY <2>2, <3>1 DEF IInv, PutInv, Tagged
    <3>3. \A q \in 1..sent : q \in 1..Len(log) /\ log'[q] = log[q]
      BY <1>2, <1>4
    <3>4. \A q \in 1..Len(log') : log'[q].id = log'[p].id /\ log'[q].tag # "none" => p < q
      <4> SUFFICES ASSUME NEW q \in 1..Len(log'), log'[q].id = log'[p].id, log'[q].tag # "none"
                   PROVE  p < q
        OBVIOUS
      <4>1. CASE q \in 1..Len(log)
        BY <4>1, <3>1, <3>2, <1>4
      <4>2. CASE q = Len(log) + 1
        BY <4>2, <1>4
      <4>3. QED
        BY <4>1, <4>2, <1>12
    <3>5. \/ rows[log'[p].id] = {}
          \/ \E q \in 1..sent : log'[q].id = log'[p].id /\ log'[q].write
      BY <3>1, <3>2, <3>3
    <3>6. QED
      BY <3>4, <3>5
  <2>3. QED
    BY <2>1, <2>2, <1>12
<1>16. GraphInv' /\ ReplayInv' /\ DurableAgrees' /\ AnswersAreTrue'
  BY <1>1 DEF IInv, GraphInv, ReplayInv, IsNext, DurableAgrees, AnswersAreTrue
<1>17. DebtsAreAnswered'
  <2>1. Owed' = Owed /\ \A id \in Owed : issuer'[id] < serve => issuer[id] < serve
    BY <1>1, <1>2 DEF Owed
  <2>2. DebtsAreAnswered
    BY DEF IInv
  <2>3. QED
    BY <2>1, <2>2, <1>1, DebtsStay
<1>18. QED
  BY <1>8, <1>9, <1>10, <1>11, <1>14, <1>15, <1>16, <1>17 DEF IInv

(* A commit or a refusal of intent id, whoever makes it: what it does to the *)
(* graph and the log.                                                        *)
LEMMA Consumes ==
  ASSUME IInv, up # "down", NEW id \in Ids, NEW e \in Entry,
         e.id = id, ~e.put, e.tag # "none",
         log' = log \o <<e>>,
         \/ e.write /\ e.tag # "failed" /\ graph' = [graph EXCEPT ![id] = @ \cup {serve}]
         \/ ~e.write /\ e.tag = "failed" /\ graph' = graph,
         UNCHANGED <<up, serve, nextSeq, issuer, sent, rows>>,
         id <= nextSeq, graph[id] = {},
         \A p \in 1..Len(log) : Tagged(p) => log[p].id # id,
         \A a \in Agents : \A i \in 1..Len(jobs'[a]) :
           jobs'[a][i] # id /\ \E j \in 1..Len(jobs[a]) : jobs'[a][i] = jobs[a][j],
         id \in todo => replay' \in {"committed", "reporting"} /\ IsNext(id),
         todo' = todo,
         \A p \in 1..Len(log) :
           Tagged(p) /\ log[p].id \in todo => replay' \in {"committed", "reporting"}
  PROVE  /\ log' \in Seq(Entry) /\ sent' \in 0..Len(log')
         /\ graph' \in [Ids -> SUBSET Serves]
         /\ LogInv' /\ PutInv' /\ GraphInv'
         /\ graph'[id] = IF e.write THEN {serve} ELSE {}
         /\ \A other \in Ids : other # id => graph'[other] = graph[other]
<1>1. /\ log \in Seq(Entry) /\ sent \in 0..Len(log) /\ Len(log) \in Nat
      /\ graph \in [Ids -> SUBSET Serves] /\ serve \in Serves
      /\ \A p \in 1..Len(log) : log[p] \in Entry /\ log[p].id \in Ids
  <2>1. log \in Seq(Entry) /\ sent \in 0..Len(log) /\ graph \in [Ids -> SUBSET Serves]
    BY DEF IInv, TypeOK
  <2>2. serve \in Serves
    BY ReplayAssumption DEF IInv, TypeOK, DownInv, Serves
  <2>3. \A p \in 1..Len(log) : log[p] \in Entry
    BY <2>1
  <2>4. QED
    BY <2>1, <2>2, <2>3 DEF Entry
<1>2. /\ log' \in Seq(Entry) /\ Len(log') = Len(log) + 1
      /\ \A p \in 1..Len(log) : log'[p] = log[p]
      /\ log'[Len(log) + 1] = e
  BY <1>1, OneMore
<1>3. /\ graph' \in [Ids -> SUBSET Serves]
      /\ graph'[id] = IF e.write THEN {serve} ELSE {}
      /\ \A other \in Ids : other # id => graph'[other] = graph[other]
  <2>1. CASE e.write /\ graph' = [graph EXCEPT ![id] = @ \cup {serve}]
    BY <2>1, <1>1
  <2>2. CASE ~e.write /\ graph' = graph
    BY <2>2, <1>1
  <2>3. QED
    BY <2>1, <2>2
<1>4. \A p \in 1..Len(log') : p \in 1..Len(log) \/ p = Len(log) + 1
  BY <1>1, <1>2
<1>5. sent' \in 0..Len(log')
  BY <1>1, <1>2
<1>6. serve' = serve /\ nextSeq' = nextSeq /\ issuer' = issuer /\ sent' = sent /\ rows' = rows
      /\ up' = up
  OBVIOUS
<1>8. LogInv'
  <2> SUFFICES ASSUME NEW p \in 1..Len(log')
               PROVE  /\ log'[p].id <= nextSeq
                      /\ log'[p].put => log'[p].tag = "none" /\ issuer[log'[p].id] = serve
                      /\ log'[p].write => graph'[log'[p].id] = {serve} /\ log'[p].tag # "none"
                      /\ log'[p].tag # "none" => log'[p].write \/ (log'[p].tag = "failed" /\ graph'[log'[p].id] = {})
                      /\ log'[p].write => log'[p].tag # "failed"
                      /\ log'[p].tag # "none" =>
                           /\ \A a \in Agents : \A i \in 1..Len(jobs'[a]) : jobs'[a][i] # log'[p].id
                           /\ log'[p].id \in todo => replay' \in {"committed", "reporting"} /\ IsNext(log'[p].id)
    <3>1. todo' = todo
      OBVIOUS
    <3>2. ASSUME NEW p \in 1..Len(log')
          PROVE  /\ log'[p].id <= nextSeq'
                 /\ log'[p].put => ~(log'[p].tag # "none") /\ issuer'[log'[p].id] = serve'
                 /\ log'[p].write => graph'[log'[p].id] = {serve'} /\ log'[p].tag # "none"
                 /\ log'[p].tag # "none" => log'[p].write \/ (log'[p].tag = "failed" /\ graph'[log'[p].id] = {})
                 /\ log'[p].write => log'[p].tag # "failed"
                 /\ log'[p].tag # "none" =>
                      /\ \A a \in Agents : \A i \in 1..Len(jobs'[a]) : jobs'[a][i] # log'[p].id
                      /\ log'[p].id \in todo' =>
                           /\ replay' \in {"committed", "reporting"}
                           /\ log'[p].id \in todo' /\ \A other \in todo' : log'[p].id <= other
      BY <1>6, <3>1 DEF IsNext
    <3>3. QED
      BY <3>2 DEF LogInv, Tagged, IsNext
  <2>1. CASE p = Len(log) + 1
    <3>1. log'[p] = e
      BY <2>1, <1>2
    <3>2. QED
      BY <3>1, <1>3
  <2>2. CASE p \in 1..Len(log)
    <3>1. log'[p] = log[p] /\ log[p].id \in Ids
      BY <2>2, <1>1, <1>2
    <3>2. /\ log[p].id <= nextSeq
          /\ log[p].put => log[p].tag = "none" /\ issuer[log[p].id] = serve
          /\ log[p].write => graph[log[p].id] = {serve} /\ log[p].tag # "none"
          /\ log[p].tag # "none" => log[p].write \/ (log[p].tag = "failed" /\ graph[log[p].id] = {})
          /\ log[p].write => log[p].tag # "failed"
          /\ log[p].tag # "none" =>
               /\ \A a \in Agents : \A i \in 1..Len(jobs[a]) : jobs[a][i] # log[p].id
               /\ log[p].id \in todo => IsNext(log[p].id)
      BY <2>2 DEF IInv, LogInv, Tagged
    <3>3. log[p].tag # "none" =>
            /\ graph'[log[p].id] = graph[log[p].id]
            /\ log[p].id \in todo => replay' \in {"committed", "reporting"}
      BY <2>2, <3>1, <1>3 DEF Tagged
    <3>4. log[p].tag # "none" =>
            \A a \in Agents : \A i \in 1..Len(jobs'[a]) : jobs'[a][i] # log[p].id
      BY <3>2
    <3>5. QED
      BY <3>1, <3>2, <3>3, <3>4
  <2>3. QED
    BY <2>1, <2>2, <1>4
<1>9. PutInv'
  <2> SUFFICES ASSUME NEW p \in 1..Len(log'), log'[p].put
               PROVE  /\ \A q \in 1..Len(log') : log'[q].id = log'[p].id /\ log'[q].tag # "none" => p < q
                      /\ \/ rows[log'[p].id] = {}
                         \/ \E q \in 1..sent : log'[q].id = log'[p].id /\ log'[q].write
    BY <1>6 DEF PutInv, Tagged
  <2>1. p \in 1..Len(log) /\ log'[p] = log[p]
    BY <1>2, <1>4
  <2>2. /\ \A q \in 1..Len(log) : log[q].id = log[p].id /\ log[q].tag # "none" => p < q
        /\ \/ rows[log[p].id] = {}
           \/ \E q \in 1..sent : log[q].id = log[p].id /\ log[q].write
    BY <2>1 DEF IInv, PutInv, Tagged
  <2>3. 1..sent \subseteq 1..Len(log) /\ p < Len(log) + 1
    BY <1>1, <2>1
  <2>4. QED
    BY <2>1, <2>2, <2>3, <1>2, <1>4
<1>10. GraphInv'
  <2> SUFFICES ASSUME NEW i \in Ids
               PROVE  /\ \A s, t \in graph'[i] : s = t
                      /\ \A s, t \in rows[i] : s = t
                      /\ rows[i] \subseteq graph'[i]
    BY <1>6 DEF GraphInv
  <2>1. /\ \A s, t \in graph[i] : s = t
        /\ \A s, t \in rows[i] : s = t
        /\ rows[i] \subseteq graph[i]
    BY DEF IInv, GraphInv
  <2>2. QED
    BY <2>1, <1>3
<1>11. QED
  BY <1>2, <1>3, <1>5, <1>8, <1>9, <1>10

LEMMA EntryTypes ==
  ASSUME NEW id \in Ids
  PROVE  /\ [id |-> id, put |-> FALSE, write |-> FALSE, tag |-> "failed"] \in Entry
         /\ [id |-> id, put |-> FALSE, write |-> TRUE, tag |-> "applied"] \in Entry
         /\ [id |-> id, put |-> FALSE, write |-> TRUE, tag |-> "applied_after_restart"] \in Entry
BY DEF Entry, Consumed

LEMMA JobsStay ==
  ASSUME JobsInv, serve' = serve, nextSeq' = nextSeq, issuer' = issuer,
         jobs' = jobs, graph' = graph
  PROVE  JobsInv'
<1>1. ASSUME NEW a \in Agents
      PROVE  /\ \A i \in 1..Len(jobs'[a]) :
                  /\ Owner[jobs'[a][i]] = a /\ issuer'[jobs'[a][i]] = serve'
                  /\ jobs'[a][i] <= nextSeq' /\ graph'[jobs'[a][i]] = {}
             /\ \A i, j \in 1..Len(jobs'[a]) : i # j => jobs'[a][i] # jobs'[a][j]
  <2>1. /\ \A i \in 1..Len(jobs[a]) :
             /\ Owner[jobs[a][i]] = a /\ issuer[jobs[a][i]] = serve
             /\ jobs[a][i] <= nextSeq /\ graph[jobs[a][i]] = {}
        /\ \A i, j \in 1..Len(jobs[a]) : i # j => jobs[a][i] # jobs[a][j]
    BY DEF JobsInv
  <2>2. QED
    BY <2>1
<1>2. QED
  BY <1>1 DEF JobsInv

LEMMA PopFacts ==
  ASSUME TypeOK, JobsInv, NEW a \in Agents, jobs[a] # <<>>,
         jobs' = [jobs EXCEPT ![a] = Tail(@)]
  PROVE  /\ Head(jobs[a]) \in Ids /\ Len(jobs[a]) \in Nat \ {0} /\ Head(jobs[a]) = jobs[a][1]
         /\ Owner[Head(jobs[a])] = a /\ issuer[Head(jobs[a])] = serve
         /\ Head(jobs[a]) <= nextSeq /\ graph[Head(jobs[a])] = {}
         /\ jobs' \in [Agents -> Seq(Ids)]
         /\ \A b \in Agents : \A i \in 1..Len(jobs'[b]) :
              jobs'[b][i] # Head(jobs[a]) /\ \E j \in 1..Len(jobs[b]) : jobs'[b][i] = jobs[b][j]
         /\ \A b \in Agents : \A i, j \in 1..Len(jobs'[b]) : i # j => jobs'[b][i] # jobs'[b][j]
<1>1. jobs \in [Agents -> Seq(Ids)]
  BY DEF TypeOK
<1>2. /\ Head(jobs[a]) \in Ids /\ Len(jobs[a]) \in Nat \ {0} /\ Head(jobs[a]) = jobs[a][1]
      /\ Tail(jobs[a]) \in Seq(Ids)
      /\ Len(Tail(jobs[a])) = Len(jobs[a]) - 1
      /\ \A i \in 1..Len(jobs[a]) - 1 : Tail(jobs[a])[i] = jobs[a][i + 1]
  BY <1>1
<1>3. jobs' \in [Agents -> Seq(Ids)]
  BY <1>1, <1>2
<1>4. jobs'[a] = Tail(jobs[a]) /\ \A b \in Agents : b # a => jobs'[b] = jobs[b]
  BY <1>1
<1>5. \A b \in Agents :
        /\ \A i \in 1..Len(jobs[b]) :
             /\ Owner[jobs[b][i]] = b /\ issuer[jobs[b][i]] = serve
             /\ jobs[b][i] <= nextSeq /\ graph[jobs[b][i]] = {}
        /\ \A i, j \in 1..Len(jobs[b]) : i # j => jobs[b][i] # jobs[b][j]
  BY DEF JobsInv
<1>6. /\ Owner[Head(jobs[a])] = a /\ issuer[Head(jobs[a])] = serve
      /\ Head(jobs[a]) <= nextSeq /\ graph[Head(jobs[a])] = {}
  BY <1>2, <1>5
<1>7. ASSUME NEW b \in Agents
      PROVE  /\ \A i \in 1..Len(jobs'[b]) :
                  jobs'[b][i] # Head(jobs[a]) /\ \E j \in 1..Len(jobs[b]) : jobs'[b][i] = jobs[b][j]
             /\ \A i, j \in 1..Len(jobs'[b]) : i # j => jobs'[b][i] # jobs'[b][j]
  <2>1. CASE b = a
    <3>1. \A i \in 1..Len(jobs'[a]) : /\ i + 1 \in 1..Len(jobs[a]) /\ i + 1 # 1
                                      /\ jobs'[a][i] = jobs[a][i + 1]
      <4>1. jobs'[a] = Tail(jobs[a]) /\ Len(jobs'[a]) = Len(jobs[a]) - 1
        BY <1>2, <1>4
      <4>2. QED
        BY <4>1, <1>2
    <3>2. 1 \in 1..Len(jobs[a])
      BY <1>2
    <3>3. \A i, j \in 1..Len(jobs'[a]) : i # j => i + 1 # j + 1
      OBVIOUS
    <3>4. QED
      BY <2>1, <3>1, <3>2, <3>3, <1>2, <1>5
  <2>2. CASE b # a
    <3>1. jobs'[b] = jobs[b]
      BY <2>2, <1>4
    <3>2. QED
      BY <2>2, <3>1, <1>5, <1>6
  <2>3. QED
    BY <2>1, <2>2
<1>8. QED
  BY <1>2, <1>3, <1>6, <1>7

(* A commit or a refusal by a lane's worker.                                 *)
LEMMA WorkerConsumes ==
  ASSUME IInv, NEW a \in Agents, WorkerApplies(a) \/ WorkerRefused(a)
  PROVE  IInv'
<1> DEFINE id == Head(jobs[a])
<1>1. /\ up # "down" /\ jobs[a] # <<>> /\ jobs' = [jobs EXCEPT ![a] = Tail(@)]
      /\ UNCHANGED <<serveVars, nextSeq, issuer, sent, storeVars, replayVars>>
  BY DEF WorkerApplies, WorkerRefused
<1>2. PICK e \in Entry :
        /\ e.id = id /\ ~e.put /\ e.tag # "none" /\ log' = log \o <<e>>
        /\ \/ e.write /\ e.tag # "failed" /\ graph' = [graph EXCEPT ![id] = @ \cup {serve}]
           \/ ~e.write /\ e.tag = "failed" /\ graph' = graph
  <2>1. id \in Ids
    BY <1>1, PopFacts DEF IInv
  <2>2. CASE WorkerApplies(a)
    <3>1. log' = log \o <<[id |-> id, put |-> FALSE, write |-> TRUE, tag |-> "applied"]>>
          /\ graph' = [graph EXCEPT ![id] = @ \cup {serve}]
      BY <2>2 DEF WorkerApplies, Applied
    <3>2. QED
      BY <2>1, <3>1, EntryTypes
  <2>3. CASE WorkerRefused(a)
    <3>1. log' = log \o <<[id |-> id, put |-> FALSE, write |-> FALSE, tag |-> "failed"]>>
          /\ graph' = graph
      BY <2>3 DEF WorkerRefused, Refused
    <3>2. QED
      BY <2>1, <3>1, EntryTypes
  <2>4. QED
    BY <2>2, <2>3
<1>16. TypeOK /\ JobsInv
  BY DEF IInv
<1>17. /\ serve' = serve /\ nextSeq' = nextSeq /\ issuer' = issuer
  BY <1>1
<1>3. /\ id \in Ids /\ issuer[id] = serve /\ id <= nextSeq /\ graph[id] = {} /\ id = jobs[a][1]
      /\ 1 \in 1..Len(jobs[a])
      /\ jobs' \in [Agents -> Seq(Ids)]
      /\ \A b \in Agents : \A i \in 1..Len(jobs'[b]) :
           jobs'[b][i] # id /\ \E j \in 1..Len(jobs[b]) : jobs'[b][i] = jobs[b][j]
      /\ \A b \in Agents : \A i, j \in 1..Len(jobs'[b]) : i # j => jobs'[b][i] # jobs'[b][j]
  <2>1. 1 \in 1..Len(jobs[a])
    BY <1>1, <1>16, PopFacts
  <2>2. QED
    BY <2>1, <1>1, <1>16, PopFacts
<1>4. \A p \in 1..Len(log) : Tagged(p) => log[p].id # id
  BY <1>3 DEF IInv, LogInv
<1>5. restart[id] = "absent" /\ id \notin todo
  <2>1. serve \in Nat
    BY DEF IInv, TypeOK
  <2>2. QED
    BY <2>1, <1>3 DEF IInv, IssueInv, ReplayInv
<1>6. \A p \in 1..Len(log) :
        Tagged(p) /\ log[p].id \in todo => replay' \in {"committed", "reporting"}
  BY <1>1 DEF IInv, LogInv
<1>7. /\ log' \in Seq(Entry) /\ sent' \in 0..Len(log')
      /\ graph' \in [Ids -> SUBSET Serves]
      /\ LogInv' /\ PutInv' /\ GraphInv'
      /\ \A other \in Ids : other # id => graph'[other] = graph[other]
  BY <1>1, <1>2, <1>3, <1>4, <1>5, <1>6, Consumes
<1>8. TypeOK'
  BY <1>1, <1>3, <1>7 DEF IInv, TypeOK
<1>9. DownInv'
  BY <1>1 DEF IInv, DownInv
<1>10. IssueInv'
  <2>1. nextSeq \in Nat /\ ~(id > nextSeq)
    BY <1>3 DEF IInv, TypeOK, Ids
  <2>2. QED
    BY <2>1, <1>1, <1>7 DEF IInv, IssueInv
<1>11. JobsInv'
  <2> SUFFICES ASSUME NEW b \in Agents, NEW i \in 1..Len(jobs'[b])
               PROVE  /\ Owner[jobs'[b][i]] = b /\ issuer[jobs'[b][i]] = serve
                      /\ jobs'[b][i] <= nextSeq /\ graph'[jobs'[b][i]] = {}
    BY <1>17, <1>3 DEF JobsInv
  <2>1. PICK j \in 1..Len(jobs[b]) : jobs'[b][i] = jobs[b][j]
    BY <1>3
  <2>2. jobs[b][j] \in Ids /\ jobs[b][j] # id
    <3>1. jobs \in [Agents -> Seq(Ids)]
      BY DEF IInv, TypeOK
    <3>2. jobs[b] \in Seq(Ids) /\ jobs'[b][i] # id
      BY <3>1, <1>3
    <3>3. QED
      BY <3>2, <2>1
  <2>3. /\ Owner[jobs[b][j]] = b /\ issuer[jobs[b][j]] = serve
        /\ jobs[b][j] <= nextSeq /\ graph[jobs[b][j]] = {}
    BY DEF IInv, JobsInv
  <2>4. QED
    BY <2>1, <2>2, <2>3, <1>7
<1>12. ReplayInv'
  BY <1>1, <1>5, <1>7 DEF IInv, ReplayInv, TypeOK, IsNext
<1>13. DurableAgrees' /\ DebtsAreAnswered'
  <2>1. DurableAgrees' /\ DebtsAreAnswered /\ Owed' = Owed
    BY <1>1 DEF IInv, DurableAgrees, Owed
  <2>2. QED
    BY <2>1, <1>1, DebtsStay
<1>14. AnswersAreTrue'
  BY <1>1, <1>5, <1>7 DEF IInv, AnswersAreTrue, IsNext
<1>15. QED
  BY <1>7, <1>8, <1>9, <1>10, <1>11, <1>12, <1>13, <1>14 DEF IInv

LEMMA WorkerLeavesInv == ASSUME IInv, NEW a \in Agents, WorkerLeaves(a) PROVE IInv'
<1>1. /\ up # "down" /\ jobs[a] # <<>> /\ jobs' = [jobs EXCEPT ![a] = Tail(@)]
      /\ UNCHANGED <<serveVars, nextSeq, issuer, graphVars, storeVars, replayVars>>
  BY DEF WorkerLeaves
<1>2. /\ jobs' \in [Agents -> Seq(Ids)]
      /\ \A b \in Agents : \A i \in 1..Len(jobs'[b]) :
           jobs'[b][i] # Head(jobs[a]) /\ \E j \in 1..Len(jobs[b]) : jobs'[b][i] = jobs[b][j]
      /\ \A b \in Agents : \A i, j \in 1..Len(jobs'[b]) : i # j => jobs'[b][i] # jobs'[b][j]
  <2>1. TypeOK /\ JobsInv
    BY DEF IInv
  <2>2. QED
    BY <2>1, <1>1, PopFacts
<1>11. /\ serve' = serve /\ nextSeq' = nextSeq /\ issuer' = issuer /\ graph' = graph
       /\ log' = log /\ todo' = todo /\ replay' = replay
  BY <1>1
<1>3. TypeOK'
  BY <1>1, <1>2 DEF IInv, TypeOK
<1>4. JobsInv'
  <2> SUFFICES ASSUME NEW b \in Agents, NEW i \in 1..Len(jobs'[b])
               PROVE  /\ Owner[jobs'[b][i]] = b /\ issuer[jobs'[b][i]] = serve
                      /\ jobs'[b][i] <= nextSeq /\ graph[jobs'[b][i]] = {}
    <3>1. /\ serve' = serve /\ nextSeq' = nextSeq /\ issuer' = issuer /\ graph' = graph
          /\ \A b \in Agents : \A i, j \in 1..Len(jobs'[b]) : i # j => jobs'[b][i] # jobs'[b][j]
      BY <1>11, <1>2
    <3>2. ASSUME NEW b \in Agents
          PROVE  /\ \A i \in 1..Len(jobs'[b]) :
                      /\ Owner[jobs'[b][i]] = b /\ issuer'[jobs'[b][i]] = serve'
                      /\ jobs'[b][i] <= nextSeq' /\ graph'[jobs'[b][i]] = {}
                 /\ \A i, j \in 1..Len(jobs'[b]) : i # j => jobs'[b][i] # jobs'[b][j]
      BY <3>1
    <3>3. QED
      BY <3>2 DEF JobsInv
  <2>1. PICK j \in 1..Len(jobs[b]) : jobs'[b][i] = jobs[b][j]
    BY <1>2
  <2>2. JobsInv
    BY DEF IInv
  <2>3. QED
    BY <2>1, <2>2 DEF JobsInv
<1>5. LogInv'
  <2>1. \A p \in 1..Len(log) : Tagged(p) =>
          \A b \in Agents : \A i \in 1..Len(jobs'[b]) : jobs'[b][i] # log[p].id
    <3>1. \A p \in 1..Len(log) : Tagged(p) =>
            \A b \in Agents : \A i \in 1..Len(jobs[b]) : jobs[b][i] # log[p].id
      BY DEF IInv, LogInv
    <3>2. \A b \in Agents : \A i \in 1..Len(jobs'[b]) :
            \E j \in 1..Len(jobs[b]) : jobs'[b][i] = jobs[b][j]
      BY <1>2
    <3>3. QED
      BY <3>1, <3>2
  <2>2. LogInv
    BY DEF IInv
  <2>3. QED
    BY <2>1, <2>2, <1>11 DEF LogInv, Tagged, IsNext
<1>6. DownInv' /\ IssueInv'
  BY <1>1 DEF IInv, DownInv, IssueInv
<1>7. PutInv' /\ GraphInv'
  BY <1>1 DEF IInv, PutInv, Tagged, GraphInv
<1>8. ReplayInv'
  BY <1>1 DEF IInv, ReplayInv, IsNext
<1>9. DurableAgrees' /\ AnswersAreTrue' /\ DebtsAreAnswered'
  BY <1>1 DEF IInv, DurableAgrees, AnswersAreTrue, DebtsAreAnswered, Decided, IsNext, Owed
<1>10. QED
  BY <1>3, <1>4, <1>5, <1>6, <1>7, <1>8, <1>9 DEF IInv

-----------------------------------------------------------------------------
(* The flush.                                                              *)

LEMMA FlushCommitsInv == ASSUME IInv, FlushCommits PROVE IInv'
<1>1. PICK k \in Batches : StoreTakes(SubSeq(log, 1, k)) /\ sent' = k
  BY DEF FlushCommits
<1>2. up # "down" /\ UNCHANGED <<serveVars, laneVars, graph, log, replayVars>>
  BY DEF FlushCommits
<1>3. k \in 0..Len(log) /\ sent <= k
  <2>1. log \in Seq(Entry) /\ sent \in 0..Len(log)
    BY DEF IInv, TypeOK
  <2>2. QED
    BY <2>1, <1>1 DEF Batches
<1>4. /\ intent' \in [Ids -> Consumed \cup {"none", "owed"}]
      /\ rows' \in [Ids -> SUBSET Serves]
      /\ DurableAgrees'
      /\ \A id \in Ids : rows'[id] \subseteq graph[id]
      /\ \A id \in Ids : id > nextSeq => intent'[id] = "none" /\ rows'[id] = {}
      /\ \A id \in Ids : intent'[id] = "owed" => intent[id] = "owed" \/ issuer[id] = serve
      /\ \A p \in 1..Len(log) : log[p].put =>
           \/ rows'[log[p].id] = {}
           \/ \E q \in 1..k : log[q].id = log[p].id /\ log[q].write
  BY <1>1, <1>2, <1>3, StoreStep
<1>5. TypeOK'
  BY <1>1, <1>2, <1>3, <1>4 DEF IInv, TypeOK
<1>6. DownInv' /\ IssueInv'
  BY <1>2, <1>4 DEF IInv, DownInv, IssueInv
<1>7. JobsInv' /\ LogInv'
  <2>1. /\ serve' = serve /\ nextSeq' = nextSeq /\ issuer' = issuer /\ jobs' = jobs
        /\ graph' = graph /\ log' = log /\ todo' = todo /\ replay' = replay
    BY <1>2
  <2>2. JobsInv /\ LogInv
    BY DEF IInv
  <2>3. JobsInv'
    BY <2>1, <2>2, JobsStay
  <2>4. LogInv'
    BY <2>1, <2>2 DEF LogInv, Tagged, IsNext
  <2>5. QED
    BY <2>3, <2>4
<1>8. PutInv'
  BY <1>1, <1>2, <1>4 DEF IInv, PutInv, Tagged
<1>9. GraphInv'
  BY <1>2, <1>4 DEF IInv, GraphInv
<1>10. ReplayInv' /\ AnswersAreTrue'
  BY <1>2 DEF IInv, ReplayInv, AnswersAreTrue, IsNext
<1>11. DebtsAreAnswered'
  <2>1. serve \in Nat
    BY DEF IInv, TypeOK
  <2>2. \A id \in Owed' : issuer[id] < serve => id \in Owed
    BY <2>1, <1>4 DEF Owed
  <2>3. DebtsAreAnswered
    BY DEF IInv
  <2>4. QED
    BY <2>2, <2>3, <1>2, DebtsStay
<1>12. QED
  BY <1>4, <1>5, <1>6, <1>7, <1>8, <1>9, <1>10, <1>11 DEF IInv

(* A prefix of the log goes: it was stored, or it is dropped.                *)
LEMMA PrefixGoes ==
  ASSUME IInv, up # "down", NEW k \in 0..Len(log), sent <= k,
         log' = SubSeq(log, k + 1, Len(log)), sent' = 0,
         UNCHANGED <<serveVars, laneVars, graph, storeVars, replayVars>>
  PROVE  IInv'
<1>1. /\ log \in Seq(Entry) /\ sent \in 0..Len(log) /\ Len(log) \in Nat
  BY DEF IInv, TypeOK
<1>2. /\ log' \in Seq(Entry) /\ Len(log') = Len(log) - k
      /\ \A p \in 1..(Len(log) - k) : log'[p] = log[p + k]
  BY <1>1, Rest
<1>3. \A p \in 1..Len(log') : p + k \in 1..Len(log) /\ log'[p] = log[p + k]
  <2>1. \A p \in 1..(Len(log) - k) : p + k \in 1..Len(log)
    BY <1>1
  <2>2. QED
    BY <2>1, <1>2
<1>4. TypeOK'
  BY <1>1, <1>2 DEF IInv, TypeOK
<1>5. LogInv'
  <2> SUFFICES ASSUME NEW p \in 1..Len(log')
               PROVE  /\ log'[p].id <= nextSeq
                      /\ log'[p].put => log'[p].tag = "none" /\ issuer[log'[p].id] = serve
                      /\ log'[p].write => graph[log'[p].id] = {serve} /\ log'[p].tag # "none"
                      /\ log'[p].tag # "none" => log'[p].write \/ (log'[p].tag = "failed" /\ graph[log'[p].id] = {})
                      /\ log'[p].write => log'[p].tag # "failed"
                      /\ log'[p].tag # "none" =>
                           /\ \A a \in Agents : \A i \in 1..Len(jobs[a]) : jobs[a][i] # log'[p].id
                           /\ log'[p].id \in todo =>
                                replay \in {"committed", "reporting"} /\ IsNext(log'[p].id)
    BY DEF LogInv, Tagged, IsNext
  <2>1. p + k \in 1..Len(log) /\ log'[p] = log[p + k]
    BY <1>3
  <2>2. QED
    BY <2>1 DEF IInv, LogInv, Tagged
<1>6. PutInv'
  <2> SUFFICES ASSUME NEW p \in 1..Len(log'), log'[p].put
               PROVE  /\ \A q \in 1..Len(log') : log'[q].id = log'[p].id /\ log'[q].tag # "none" => p < q
                      /\ rows[log'[p].id] = {}
    BY DEF PutInv, Tagged
  <2>1. p + k \in 1..Len(log) /\ log'[p] = log[p + k]
    BY <1>3
  <2>2. /\ \A q \in 1..Len(log) : log[q].id = log[p + k].id /\ log[q].tag # "none" => p + k < q
        /\ \/ rows[log[p + k].id] = {}
           \/ \E q \in 1..sent : log[q].id = log[p + k].id /\ log[q].write
    BY <2>1 DEF IInv, PutInv, Tagged
  <2>3. \A q \in 1..Len(log') : log'[q].id = log'[p].id /\ log'[q].tag # "none" => p < q
    <3> SUFFICES ASSUME NEW q \in 1..Len(log'), log'[q].id = log'[p].id, log'[q].tag # "none"
                 PROVE  p < q
      OBVIOUS
    <3>1. q + k \in 1..Len(log) /\ log'[q] = log[q + k]
      BY <1>3
    <3>2. p + k < q + k
      BY <2>1, <2>2, <3>1
    <3>3. QED
      BY <3>2, <1>1
  <2>4. ASSUME NEW q \in 1..sent, log[q].id = log[p + k].id, log[q].write PROVE FALSE
    <3>1. q \in 1..Len(log) /\ q <= k
      BY <1>1
    <3>2. log[q].tag # "none"
      BY <3>1, <2>4 DEF IInv, LogInv, Tagged
    <3>3. p + k < q
      BY <3>1, <3>2, <2>2, <2>4
    <3>4. QED
      BY <3>1, <3>3
  <2>5. QED
    BY <2>1, <2>2, <2>3, <2>4
<1>7. DownInv' /\ IssueInv'
  BY DEF IInv, DownInv, IssueInv
<1>8. JobsInv' /\ GraphInv'
  BY DEF IInv, JobsInv, GraphInv
<1>9. ReplayInv' /\ AnswersAreTrue'
  BY DEF IInv, ReplayInv, AnswersAreTrue, IsNext
<1>10. DurableAgrees' /\ DebtsAreAnswered'
  <2>1. DurableAgrees' /\ DebtsAreAnswered /\ Owed' = Owed
    BY DEF IInv, DurableAgrees, Owed
  <2>2. QED
    BY <2>1, DebtsStay
<1>11. QED
  BY <1>4, <1>5, <1>6, <1>7, <1>8, <1>9, <1>10 DEF IInv

LEMMA FlushEndsInv == ASSUME IInv, FlushConfirmed \/ BatchDropped PROVE IInv'
<1>1. log \in Seq(Entry) /\ sent \in 0..Len(log)
  BY DEF IInv, TypeOK
<1>2. CASE FlushConfirmed
  BY <1>1, <1>2, PrefixGoes DEF FlushConfirmed
<1>3. CASE BatchDropped
  <2>1. PICK k \in Batches : log' = SubSeq(log, k + 1, Len(log))
    BY <1>3 DEF BatchDropped
  <2>2. k \in 0..Len(log) /\ sent <= k
    BY <1>1, <2>1 DEF Batches
  <2>3. QED
    BY <2>1, <2>2, <1>3, PrefixGoes DEF BatchDropped
<1>4. QED
  BY <1>2, <1>3

-----------------------------------------------------------------------------
(* The replay.                                                             *)

LEMMA ReplayIsUp == ASSUME IInv, replay # "none" PROVE up # "down"
BY DEF IInv, DownInv

\* Exactly one intent is the next.
LEMMA OneNext ==
  ASSUME TypeOK, NEW id \in todo, NEW other \in todo, IsNext(id), IsNext(other)
  PROVE  id = other
<1>1. id \in Int /\ other \in Int
  BY DEF TypeOK, Ids
<1>2. id <= other /\ other <= id
  BY DEF IsNext
<1>3. QED
  BY <1>1, <1>2

(* Steps that only move the replay on, or past an intent that it leaves.     *)
LEMMA Moves ==
  ASSUME IInv, up # "down", up' \in {"up", "closing"},
         replay \notin {"committed", "refusing", "reporting"},
         UNCHANGED <<serve, fenced, laneVars, graphVars, storeVars, verdict, owed, restart>>,
         replay' \in {"none", "probing", "top", "running", "ended"}, todo' \subseteq todo,
         streak' \in 0..SickThreshold, lookups' \in 0..LookupLimit, blocked' \in Reasons,
         replay' # "ended" => streak' < SickThreshold /\ lookups' < LookupLimit
  PROVE  IInv'
<1>1. TypeOK'
  BY DEF IInv, TypeOK
<1>2. DownInv' /\ IssueInv' /\ JobsInv'
  BY DEF IInv, DownInv, IssueInv, JobsInv
<1>3. LogInv'
  <2>1. /\ serve' = serve /\ nextSeq' = nextSeq /\ issuer' = issuer /\ jobs' = jobs
        /\ graph' = graph /\ log' = log
    OBVIOUS
  <2>2. \A p \in 1..Len(log) : Tagged(p) => log[p].id \notin todo
    BY DEF IInv, LogInv
  <2>3. LogInv
    BY DEF IInv
  <2>4. QED
    BY <2>1, <2>2, <2>3 DEF LogInv, Tagged
<1>4. PutInv' /\ GraphInv'
  BY DEF IInv, PutInv, Tagged, GraphInv
<1>5. ReplayInv'
  BY DEF IInv, ReplayInv
<1>6. DurableAgrees' /\ DebtsAreAnswered'
  <2>1. DurableAgrees' /\ Owed' = Owed
    BY DEF IInv, DurableAgrees, Owed
  <2>2. \A id \in Ids : ~Decided(id) /\ ~Decided(id)'
    BY DEF Decided
  <2>3. {id \in Ids : restart'[id] = "pending_replay" /\ ~Decided(id)'}
        = {id \in Ids : restart[id] = "pending_replay" /\ ~Decided(id)}
    BY <2>2
  <2>4. QED
    BY <2>1, <2>3 DEF IInv, DebtsAreAnswered
<1>7. AnswersAreTrue'
  BY DEF IInv, AnswersAreTrue
<1>8. QED
  BY <1>1, <1>2, <1>3, <1>4, <1>5, <1>6, <1>7 DEF IInv

(* A commit by the replay, or the consumption of a failed intent.            *)
LEMMA ReplayLogs ==
  ASSUME IInv, NEW id \in todo, IsNext(id), NEW e \in Entry,
         e.id = id, ~e.put, e.tag # "none", log' = log \o <<e>>,
         \/ /\ e.write /\ e.tag # "failed" /\ graph' = [graph EXCEPT ![id] = @ \cup {serve}]
            /\ replay = "running" /\ replay' = "committed" /\ verdict' = "applied_after_restart"
         \/ /\ ~e.write /\ e.tag = "failed" /\ graph' = graph
            /\ replay = "refusing" /\ replay' = "reporting" /\ verdict' = "failed",
         streak' \in 0..SickThreshold /\ streak' < SickThreshold,
         lookups' \in 0..LookupLimit /\ lookups' < LookupLimit,
         UNCHANGED <<serveVars, laneVars, sent, storeVars, todo, blocked, owed, restart>>
  PROVE  IInv'
<1>1. up # "down" /\ replay \in {"running", "refusing"} /\ id \in Ids /\ TypeOK /\ JobsInv
  BY ReplayIsUp DEF IInv, TypeOK
<1>2. restart[id] = "pending_replay" /\ graph[id] = {} /\ issuer[id] < serve
  BY <1>1 DEF IInv, ReplayInv, AnswersAreTrue, IssueInv
<1>3. serve \in Nat /\ nextSeq \in Nat /\ issuer[id] # serve /\ id <= nextSeq
  <2>1. serve \in Nat /\ nextSeq \in Nat /\ id \in Nat
    BY <1>1 DEF TypeOK, Ids
  <2>2. ~(id > nextSeq)
    BY <1>1, <1>2 DEF IInv, IssueInv
  <2>3. issuer[id] # serve
    BY <2>1, <1>2
  <2>4. QED
    BY <2>1, <2>2, <2>3
<1>4. /\ \A p \in 1..Len(log) : Tagged(p) => log[p].id # id
      /\ \A p \in 1..Len(log) : Tagged(p) => log[p].id \notin todo
  BY <1>1 DEF IInv, LogInv
<1>5. \A a \in Agents : \A i \in 1..Len(jobs'[a]) :
        jobs'[a][i] # id /\ \E j \in 1..Len(jobs[a]) : jobs'[a][i] = jobs[a][j]
  <2>1. jobs' = jobs
    OBVIOUS
  <2>2. QED
    BY <2>1, <1>1, <1>3 DEF JobsInv
<1>6. /\ log' \in Seq(Entry) /\ sent' \in 0..Len(log')
      /\ graph' \in [Ids -> SUBSET Serves]
      /\ LogInv' /\ PutInv' /\ GraphInv'
      /\ graph'[id] = IF e.write THEN {serve} ELSE {}
      /\ \A other \in Ids : other # id => graph'[other] = graph[other]
  BY <1>1, <1>2, <1>3, <1>4, <1>5, Consumes
<1>7. TypeOK'
  <2>1. verdict' \in Consumed \cup {"none"}
    BY DEF Consumed
  <2>2. QED
    BY <2>1, <1>1, <1>6 DEF TypeOK
<1>8. DownInv'
  BY <1>1 DEF IInv, DownInv
<1>9. IssueInv'
  <2>1. ~(id > nextSeq)
    BY <1>1, <1>3 DEF Ids
  <2>2. \A other \in Ids : other > nextSeq => graph'[other] = graph[other]
    BY <2>1, <1>6
  <2>3. QED
    BY <2>2 DEF IInv, IssueInv
<1>10. JobsInv'
  <2>1. /\ serve' = serve /\ nextSeq' = nextSeq /\ issuer' = issuer /\ jobs' = jobs
    OBVIOUS
  <2>2. \A a \in Agents : \A i \in 1..Len(jobs[a]) : jobs[a][i] \in Ids /\ jobs[a][i] # id
    <3> SUFFICES ASSUME NEW a \in Agents, NEW i \in 1..Len(jobs[a])
                 PROVE  jobs[a][i] \in Ids /\ jobs[a][i] # id
      OBVIOUS
    <3>1. jobs[a] \in Seq(Ids)
      BY <1>1 DEF TypeOK
    <3>2. issuer[jobs[a][i]] = serve
      BY <1>1 DEF JobsInv
    <3>3. QED
      BY <3>1, <3>2, <1>3
  <2>3. \A a \in Agents : \A i \in 1..Len(jobs[a]) : graph'[jobs[a][i]] = {}
    <3> SUFFICES ASSUME NEW a \in Agents, NEW i \in 1..Len(jobs[a])
                 PROVE  graph'[jobs[a][i]] = {}
      OBVIOUS
    <3>1. graph[jobs[a][i]] = {}
      BY <1>1 DEF JobsInv
    <3>2. graph'[jobs[a][i]] = graph[jobs[a][i]]
      BY <2>2, <1>6
    <3>3. QED
      BY <3>1, <3>2
  <2>4. QED
    BY <2>1, <2>3, <1>1 DEF JobsInv
<1>11. ASSUME NEW other \in todo, IsNext(other) PROVE other = id
  BY <1>1, <1>11, OneNext
<1>12. ReplayInv'
  <2>1. todo' = todo /\ restart' = restart
    OBVIOUS
  <2>2. \A other \in todo : restart[other] = "pending_replay"
    BY DEF IInv, ReplayInv
  <2>3. IF verdict' = "failed" THEN graph'[id] = {} ELSE graph'[id] # {}
    BY <1>6
  <2>4. \A other \in todo : IsNext(other)' => IsNext(other)
    BY <2>1 DEF IsNext
  <2>5. id \in todo' /\ IsNext(id)'
    BY <2>1 DEF IsNext
  <2>6. QED
    BY <2>1, <2>2, <2>3, <2>4, <2>5, <1>11 DEF ReplayInv
<1>13. DurableAgrees' /\ DebtsAreAnswered'
  <2>1. DurableAgrees'
    BY DEF IInv, DurableAgrees
  <2>2. /\ Owed' = Owed /\ issuer' = issuer /\ serve' = serve /\ up' = up /\ owed' = owed
        /\ restart' = restart
    BY DEF Owed
  <2>3. \A other \in Ids : Decided(other)' <=> Decided(other)
    BY DEF Decided, IsNext
  <2>4. QED
    BY <2>1, <2>2, <2>3, <1>1 DEF IInv, DebtsAreAnswered
<1>14. AnswersAreTrue'
  <2>1. todo' = todo /\ restart' = restart /\ up' = up
    OBVIOUS
  <2>2. IsNext(id)'
    BY <2>1, <1>1 DEF IsNext
  <2>3. \A other \in Ids :
          /\ restart[other] = "applied_after_restart" => graph[other] # {}
          /\ restart[other] = "failed" => graph[other] = {}
          /\ restart[other] = "pending_replay" => graph[other] = {}
    BY <1>1 DEF IInv, AnswersAreTrue
  <2>4. QED
    BY <2>1, <2>2, <2>3, <1>2, <1>6 DEF AnswersAreTrue
<1>15. QED
  BY <1>6, <1>7, <1>8, <1>9, <1>10, <1>12, <1>13, <1>14 DEF IInv

(* A debt is counted off as its outcome is decided.                          *)
LEMMA CountedOff ==
  ASSUME IInv, NEW id \in todo, IsNext(id), replay \in {"running", "committed"},
         replay' \in {"refusing", "reporting"}, verdict' \in {"applied_after_restart", "failed"},
         replay = "running" <=> verdict' = "failed",
         replay' = "refusing" <=> verdict' = "failed",
         replay = "committed" => verdict' = verdict,
         owed' = owed - 1, streak' \in 0..SickThreshold, lookups' \in 0..LookupLimit,
         streak' < SickThreshold /\ lookups' < LookupLimit,
         UNCHANGED <<serveVars, laneVars, graphVars, storeVars, todo, blocked, restart>>
  PROVE  IInv'
<1>1. up # "down" /\ id \in Ids /\ TypeOK /\ restart[id] = "pending_replay"
  BY ReplayIsUp DEF IInv, TypeOK, ReplayInv
<1>2. \A other \in todo : IsNext(other) => other = id
  BY <1>1, OneNext
<1>3. \A other \in Ids : IsNext(other)' <=> IsNext(other)
  BY DEF IsNext
<1>4. /\ owed' = Cardinality({other \in Ids : restart'[other] = "pending_replay" /\ ~Decided(other)'})
      /\ owed' \in 0..MaxReceipt
  <2> DEFINE S == {other \in Ids : restart[other] = "pending_replay"}
             T == {other \in Ids : restart'[other] = "pending_replay" /\ ~Decided(other)'}
  <2>1. S = {other \in Ids : restart[other] = "pending_replay" /\ ~Decided(other)}
    BY DEF Decided
  <2>2. owed = Cardinality(S)
    BY <2>1, <1>1 DEF IInv, DebtsAreAnswered
  <2>3. id \in S /\ T = S \ {id}
    <3>1. \A other \in Ids : Decided(other)' <=> other = id
      BY <1>1, <1>2, <1>3 DEF Decided, IsNext
    <3>2. QED
      BY <3>1, <1>1
  <2>4. IsFiniteSet(S) /\ IsFiniteSet(T) /\ Cardinality(T) \in 0..MaxReceipt
    BY CountBound
  <2>5. Cardinality(S \ {id}) = Cardinality(S) - 1
    BY <2>3, <2>4, FS_RemoveElement
  <2>6. QED
    BY <2>2, <2>3, <2>4, <2>5
<1>5. TypeOK'
  BY <1>1, <1>4 DEF TypeOK, Consumed
<1>6. DownInv' /\ IssueInv' /\ JobsInv' /\ PutInv' /\ GraphInv'
  BY <1>1 DEF IInv, DownInv, IssueInv, JobsInv, PutInv, Tagged, GraphInv
<1>7. LogInv'
  <2>1. /\ serve' = serve /\ nextSeq' = nextSeq /\ issuer' = issuer /\ jobs' = jobs
        /\ graph' = graph /\ log' = log /\ todo' = todo
    OBVIOUS
  <2>2. \A p \in 1..Len(log) : Tagged(p) /\ log[p].id \in todo => replay = "committed"
    BY DEF IInv, LogInv
  <2>3. replay = "committed" => replay' = "reporting"
    OBVIOUS
  <2>4. LogInv
    BY DEF IInv
  <2>5. QED
    BY <2>1, <2>2, <2>3, <2>4 DEF LogInv, Tagged, IsNext
<1>8. ReplayInv'
  <2>1. todo' = todo /\ restart' = restart /\ graph' = graph
    OBVIOUS
  <2>2. \A other \in todo : restart[other] = "pending_replay"
    BY DEF IInv, ReplayInv
  <2>3. replay' = "reporting" => verdict' # "failed" /\ graph[id] # {}
    BY DEF IInv, ReplayInv
  <2>4. \A other \in todo : IsNext(other)' => other = id
    BY <1>1, <1>2, <1>3 DEF TypeOK
  <2>5. QED
    BY <2>1, <2>2, <2>3, <2>4 DEF ReplayInv
<1>9. DurableAgrees' /\ DebtsAreAnswered'
  <2>1. DurableAgrees' /\ Owed' = Owed
    BY DEF IInv, DurableAgrees, Owed
  <2>2. QED
    BY <2>1, <1>1, <1>4 DEF IInv, DebtsAreAnswered
<1>10. AnswersAreTrue'
  <2>1. \A other \in Ids :
          /\ restart[other] = "applied_after_restart" => graph[other] # {}
          /\ restart[other] = "failed" => graph[other] = {}
          /\ restart[other] = "pending_replay" =>
               graph[other] = {} \/ (replay = "committed" /\ IsNext(other))
    BY <1>1 DEF IInv, AnswersAreTrue
  <2>2. replay = "committed" => replay' = "reporting"
    OBVIOUS
  <2>3. QED
    BY <2>1, <2>2, <1>3 DEF AnswersAreTrue
<1>11. QED
  BY <1>5, <1>6, <1>7, <1>8, <1>9, <1>10 DEF IInv

LEMMA ReplayReportsInv == ASSUME IInv, NEW id \in todo, ReplayReports(id) PROVE IInv'
<1>1. /\ replay = "reporting" /\ IsNext(id)
      /\ restart' = [restart EXCEPT ![id] = verdict]
      /\ todo' = todo \ {id}
      /\ replay' = "top" /\ verdict' = "none"
      /\ UNCHANGED <<serveVars, laneVars, graphVars, storeVars, streakVars, blocked, owed>>
  BY DEF ReplayReports
<1>2. /\ up # "down" /\ id \in Ids /\ TypeOK
      /\ verdict \in {"applied_after_restart", "failed"}
      /\ restart[id] = "pending_replay"
      /\ IF verdict = "failed" THEN graph[id] = {} ELSE graph[id] # {}
  BY <1>1, ReplayIsUp DEF IInv, TypeOK, ReplayInv
<1>3. /\ restart'[id] = verdict
      /\ \A other \in Ids : other # id => restart'[other] = restart[other]
      /\ restart' \in [Ids -> {"absent", "pending_replay", "applied_after_restart", "failed"}]
  BY <1>1, <1>2 DEF TypeOK
<1>4. ASSUME NEW other \in Ids, other # id
      PROVE  ~(IsNext(other))
  BY <1>1, <1>2, <1>4, OneNext DEF IsNext
<1>5. owed' = Cardinality({other \in Ids : restart'[other] = "pending_replay" /\ ~Decided(other)'})
  <2>1. owed = Cardinality({other \in Ids : restart[other] = "pending_replay" /\ ~Decided(other)})
    BY <1>2 DEF IInv, DebtsAreAnswered
  <2>2. \A other \in Ids : Decided(other) <=> other = id
    BY <1>1, <1>4 DEF Decided
  <2>3. \A other \in Ids : ~Decided(other)'
    BY <1>1 DEF Decided
  <2>4. {other \in Ids : restart'[other] = "pending_replay" /\ ~Decided(other)'}
        = {other \in Ids : restart[other] = "pending_replay" /\ ~Decided(other)}
    BY <2>2, <2>3, <1>2, <1>3
  <2>5. owed' = owed
    BY <1>1
  <2>6. QED
    BY <2>1, <2>4, <2>5
<1>6. TypeOK'
  BY <1>1, <1>2, <1>3 DEF TypeOK
<1>7. DownInv'
  BY <1>1, <1>2 DEF IInv, DownInv
<1>8. IssueInv'
  <2>1. \A other \in Ids : restart'[other] # "absent" => restart[other] # "absent"
    BY <1>2, <1>3
  <2>2. \A other \in Ids : restart[other] = "absent" => restart'[other] = "absent"
    BY <1>2, <1>3
  <2>3. QED
    BY <2>1, <2>2, <1>1 DEF IInv, IssueInv
<1>9. JobsInv' /\ PutInv' /\ GraphInv'
  BY <1>1 DEF IInv, JobsInv, PutInv, Tagged, GraphInv
<1>10. LogInv'
  <2>1. /\ serve' = serve /\ nextSeq' = nextSeq /\ issuer' = issuer /\ jobs' = jobs
        /\ graph' = graph /\ log' = log
    BY <1>1
  <2>2. \A p \in 1..Len(log) : Tagged(p) => log[p].id \notin todo'
    <3> SUFFICES ASSUME NEW p \in 1..Len(log), Tagged(p), log[p].id \in todo, log[p].id # id
                 PROVE  FALSE
      BY <1>1
    <3>1. IsNext(log[p].id) /\ log[p].id \in Ids
      BY <1>2 DEF IInv, LogInv, TypeOK
    <3>2. QED
      BY <3>1, <1>4
  <2>3. LogInv
    BY DEF IInv
  <2>4. QED
    BY <2>1, <2>2, <2>3 DEF LogInv, Tagged
<1>11. ReplayInv'
  <2>1. \A other \in todo' : other \in todo /\ other \in Ids /\ other # id
    BY <1>1, <1>2 DEF TypeOK
  <2>2. QED
    BY <2>1, <1>1, <1>3 DEF IInv, ReplayInv
<1>12. DurableAgrees'
  BY <1>1 DEF IInv, DurableAgrees
<1>13. AnswersAreTrue'
  <2>1. graph' = graph
    BY <1>1
  <2>2. \A other \in Ids : other # id =>
          /\ restart[other] = "applied_after_restart" => graph[other] # {}
          /\ restart[other] = "failed" => graph[other] = {}
          /\ restart[other] = "pending_replay" => graph[other] = {}
    BY <1>2, <1>4 DEF IInv, AnswersAreTrue
  <2>3. QED
    BY <2>1, <2>2, <1>2, <1>3 DEF AnswersAreTrue
<1>14. DebtsAreAnswered'
  <2>1. Owed' = Owed /\ issuer' = issuer /\ serve' = serve
    BY <1>1 DEF Owed
  <2>2. \A other \in Owed : issuer[other] < serve => restart'[other] # "absent"
    BY <1>2, <1>3 DEF IInv, DebtsAreAnswered, Owed
  <2>3. QED
    BY <2>1, <2>2, <1>5 DEF DebtsAreAnswered
<1>15. QED
  BY <1>6, <1>7, <1>8, <1>9, <1>10, <1>11, <1>12, <1>13, <1>14 DEF IInv

LEMMA ReplayStepInv == ASSUME IInv, ReplayStep PROVE IInv'
<1>1. /\ TypeOK /\ streak \in 0..SickThreshold /\ lookups \in 0..LookupLimit /\ blocked \in Reasons
      /\ SickThreshold \in Nat /\ LookupLimit \in Nat
      /\ up \in {"down", "up", "closing"} /\ todo \subseteq Ids
      /\ replay # "ended" => streak < SickThreshold /\ lookups < LookupLimit
  BY ReplayAssumption DEF IInv, TypeOK, ReplayInv
<1>2. {"none", "embedder", "other"} \subseteq Reasons
  BY DEF Reasons
<1>3. CASE ProbeAnswers \/ ProbeFails
  <2>1. up # "down"
    BY <1>3, ReplayIsUp DEF ProbeAnswers, ProbeFails
  <2>2. QED
    BY <1>1, <1>2, <1>3, <2>1, Moves DEF ProbeAnswers, ProbeFails, Ended
<1>4. CASE ReplayTakes \/ ReplayDone
  <2>1. up # "down"
    BY <1>4, ReplayIsUp DEF ReplayTakes, ReplayDone
  <2>2. QED
    BY <1>1, <1>4, <2>1, Moves DEF ReplayTakes, ReplayDone, Ended
<1>5. ASSUME NEW id \in todo, ReplayApplies(id) PROVE IInv'
  <2> DEFINE e == [id |-> id, put |-> FALSE, write |-> TRUE, tag |-> "applied_after_restart"]
  <2>1. e \in Entry /\ log' = log \o <<e>> /\ Trying(id)
    BY <1>1, <1>5, EntryTypes DEF ReplayApplies, Applied
  <2>2. streak' \in 0..SickThreshold /\ streak' < SickThreshold
    BY <1>5, ReplayAssumption DEF ReplayApplies
  <2>3. lookups' \in 0..LookupLimit /\ lookups' < LookupLimit
    BY <1>1, <1>5, <2>1, ReplayAssumption DEF ReplayApplies, Trying
  <2>4. IsNext(id) /\ replay = "running"
    BY <2>1 DEF Trying
  <2>5. QED
    BY <1>5, <2>1, <2>2, <2>3, <2>4, ReplayLogs DEF ReplayApplies
<1>6. ASSUME NEW id \in todo, ReplayRefused(id) PROVE IInv'
  <2>1. IsNext(id) /\ replay = "running"
    BY <1>6 DEF ReplayRefused, Trying
  <2>2. streak' \in 0..SickThreshold /\ streak' < SickThreshold
    BY <1>1, <1>6, <2>1, ReplayAssumption DEF ReplayRefused
  <2>3. lookups' \in 0..LookupLimit /\ lookups' < LookupLimit
    BY <1>1, <1>6, <2>1 DEF ReplayRefused
  <2>4. QED
    BY <1>6, <2>1, <2>2, <2>3, CountedOff DEF ReplayRefused, CountedFailed
<1>7. ASSUME NEW id \in todo, ReplayLookupTimesOut(id) PROVE IInv'
  <2>1. Trying(id) /\ IsNext(id) /\ up # "down" /\ replay = "running"
    BY <1>7, ReplayIsUp DEF ReplayLookupTimesOut, Trying
  <2>2. lookups' \in 0..LookupLimit
    BY <1>1, <1>7, <2>1 DEF ReplayLookupTimesOut
  <2>3. CASE TooMany(lookups', LookupLimit)
    BY <1>1, <1>2, <1>7, <2>1, <2>2, <2>3, Moves DEF ReplayLookupTimesOut, Ended
  <2>4. CASE ~TooMany(lookups', LookupLimit)
    <3>1. lookups' < LookupLimit
      BY <1>1, <2>2, <2>4 DEF TooMany
    <3>2. streak' \in 0..SickThreshold /\ streak' < SickThreshold
      BY <1>1, <1>7, <2>1 DEF ReplayLookupTimesOut
    <3>3. QED
      BY <1>7, <2>1, <2>2, <2>4, <3>1, <3>2, CountedOff DEF ReplayLookupTimesOut, CountedFailed
  <2>5. QED
    BY <2>3, <2>4
<1>8. ASSUME NEW id \in todo, ReplayOutage(id) PROVE IInv'
  <2>1. up # "down" /\ replay = "running"
    BY <1>8, ReplayIsUp DEF ReplayOutage, Trying
  <2>2. streak' \in 0..SickThreshold
    BY <1>1, <1>8, <2>1 DEF ReplayOutage
  <2>3. CASE TooMany(streak', SickThreshold)
    BY <1>1, <1>2, <1>8, <2>1, <2>2, <2>3, Moves DEF ReplayOutage, Ended
  <2>4. CASE ~TooMany(streak', SickThreshold)
    <3>1. streak' < SickThreshold
      BY <1>1, <2>2, <2>4 DEF TooMany
    <3>2. QED
      BY <1>1, <1>8, <2>1, <2>2, <2>4, <3>1, Moves DEF ReplayOutage
  <2>5. QED
    BY <2>3, <2>4
<1>9. ASSUME NEW id \in todo, ReplayBlocked(id) PROVE IInv'
  <2>1. up # "down" /\ replay = "running"
    BY <1>9, ReplayIsUp DEF ReplayBlocked, Trying
  <2>2. QED
    BY <1>1, <1>2, <1>9, <2>1, Moves DEF ReplayBlocked, Ended
<1>10. CASE ReplayCounts
  <2>1. PICK id \in todo : IsNext(id)
    BY <1>10 DEF IInv, ReplayInv, ReplayCounts
  <2>2. verdict = "applied_after_restart" /\ streak < SickThreshold /\ lookups < LookupLimit
    BY <1>10 DEF IInv, ReplayInv, ReplayCounts
  <2>3. QED
    BY <1>1, <1>10, <2>1, <2>2, CountedOff DEF ReplayCounts
<1>11. ASSUME NEW id \in todo, ReplayConsumes(id) PROVE IInv'
  <2> DEFINE e == [id |-> id, put |-> FALSE, write |-> FALSE, tag |-> "failed"]
  <2>1. e \in Entry /\ log' = log \o <<e>> /\ IsNext(id)
    BY <1>1, <1>11, EntryTypes DEF ReplayConsumes, Refused
  <2>2. replay = "refusing" /\ verdict = "failed"
    BY <1>11 DEF IInv, ReplayInv, ReplayConsumes
  <2>3. QED
    BY <1>1, <1>11, <2>1, <2>2, ReplayLogs DEF ReplayConsumes
<1>12. QED
  BY <1>3, <1>4, <1>5, <1>6, <1>7, <1>8, <1>9, <1>10, <1>11, ReplayReportsInv DEF ReplayStep

-----------------------------------------------------------------------------
(* The ends of a serve.                                                    *)

LEMMA LoseLeaseInv == ASSUME IInv, LoseLease PROVE IInv'
<1>1. /\ up # "down" /\ fenced' = TRUE
      /\ UNCHANGED <<up, serve, laneVars, graphVars, storeVars, replayVars>>
  BY DEF LoseLease
<1>2. TypeOK' /\ DownInv' /\ IssueInv'
  BY <1>1 DEF IInv, TypeOK, DownInv, IssueInv
<1>3. JobsInv' /\ PutInv' /\ GraphInv'
  BY <1>1 DEF IInv, JobsInv, PutInv, Tagged, GraphInv
<1>4. LogInv'
  <2>1. /\ serve' = serve /\ nextSeq' = nextSeq /\ issuer' = issuer /\ jobs' = jobs
        /\ graph' = graph /\ log' = log /\ todo' = todo /\ replay' = replay
    BY <1>1
  <2>2. QED
    BY <2>1 DEF IInv, LogInv, Tagged, IsNext
<1>5. ReplayInv' /\ AnswersAreTrue'
  BY <1>1 DEF IInv, ReplayInv, AnswersAreTrue, IsNext
<1>6. DurableAgrees' /\ DebtsAreAnswered'
  <2>1. DurableAgrees' /\ DebtsAreAnswered /\ Owed' = Owed
    BY <1>1 DEF IInv, DurableAgrees, Owed
  <2>2. QED
    BY <2>1, <1>1, DebtsStay
<1>7. QED
  BY <1>2, <1>3, <1>4, <1>5, <1>6 DEF IInv

LEMMA CloseStopsReplayInv == ASSUME IInv, CloseStopsReplay PROVE IInv'
<1>1. /\ up = "up" /\ up' = "closing" /\ replay \notin {"committed", "refusing", "reporting"}
      /\ replay' = IF replay \in {"probing", "top", "running"} THEN "ended" ELSE replay
      /\ UNCHANGED <<serve, fenced, laneVars, graphVars, storeVars, todo, streakVars, verdict,
                     blocked, owed, restart>>
  BY DEF CloseStopsReplay
<1>2. /\ streak \in 0..SickThreshold /\ lookups \in 0..LookupLimit /\ blocked \in Reasons
      /\ replay \in {"none", "probing", "top", "running", "committed", "refusing", "reporting", "ended"}
      /\ replay # "ended" => streak < SickThreshold /\ lookups < LookupLimit
  BY DEF IInv, TypeOK, ReplayInv
<1>3. QED
  BY <1>1, <1>2, Moves

LEMMA ForgottenInv ==
  ASSUME IInv, up # "down", Forgotten,
         intent' \in [Ids -> Consumed \cup {"none", "owed"}],
         rows' \in [Ids -> SUBSET Serves],
         DurableAgrees',
         \A id \in Ids : rows'[id] \subseteq graph[id],
         \A id \in Ids : id > nextSeq => intent'[id] = "none" /\ rows'[id] = {}
  PROVE  IInv'
<1>1. /\ up' = "down" /\ fenced' = FALSE
      /\ jobs' = [a \in Agents |-> <<>>]
      /\ graph' = [id \in Ids |-> {}] /\ log' = <<>> /\ sent' = 0
      /\ replay' = "none" /\ todo' = {}
      /\ streak' = 0 /\ lookups' = 0 /\ verdict' = "none" /\ blocked' = "none" /\ owed' = 0
      /\ restart' = [id \in Ids |-> "absent"]
      /\ UNCHANGED <<serve, nextSeq, issuer>>
  BY DEF Forgotten
<1>2. TypeOK'
  <2>1. /\ jobs' \in [Agents -> Seq(Ids)] /\ log' \in Seq(Entry) /\ Len(log') = 0
    <3>1. \A a \in Agents : jobs'[a] = <<>>
      BY <1>1
    <3>2. QED
      BY <3>1, <1>1
  <2>2. /\ graph' \in [Ids -> SUBSET Serves]
        /\ restart' \in [Ids -> {"absent", "pending_replay", "applied_after_restart", "failed"}]
    BY <1>1
  <2>3. /\ owed' \in 0..MaxReceipt /\ streak' \in 0..SickThreshold /\ lookups' \in 0..LookupLimit
        /\ sent' \in 0..Len(log')
    BY <1>1, <2>1, ReplayAssumption
  <2>4. QED
    BY <1>1, <2>1, <2>2, <2>3 DEF IInv, TypeOK, Reasons
<1>3. DownInv'
  BY <1>1 DEF DownInv
<1>4. IssueInv'
  BY <1>1 DEF IInv, IssueInv
<1>5. JobsInv' /\ LogInv' /\ PutInv'
  BY <1>1 DEF JobsInv, LogInv, PutInv
<1>6. GraphInv'
  <2>1. \A id \in Ids : \A s, t \in rows'[id] : s = t
    BY DEF IInv, GraphInv
  <2>2. QED
    BY <1>1, <2>1 DEF GraphInv
<1>7. ReplayInv'
  BY <1>1, ReplayAssumption DEF ReplayInv
<1>8. AnswersAreTrue' /\ DebtsAreAnswered'
  BY <1>1 DEF AnswersAreTrue, DebtsAreAnswered, Decided
<1>9. QED
  BY <1>2, <1>3, <1>4, <1>5, <1>6, <1>7, <1>8 DEF IInv

LEMMA CloseTakes ==
  ASSUME IInv, CloseFlushes
  PROVE  /\ up # "down" /\ Len(log) \in 0..Len(log) /\ sent <= Len(log)
         /\ StoreTakes(SubSeq(log, 1, Len(log)))
<1>1. log \in Seq(Entry) /\ sent \in 0..Len(log)
  BY DEF IInv, TypeOK
<1>2. SubSeq(log, 1, Len(log)) = log
  BY <1>1
<1>3. Len(log) \in 0..Len(log) /\ sent <= Len(log)
  BY <1>1
<1>4. up # "down" /\ StoreTakes(log)
  BY DEF CloseFlushes
<1>5. QED
  BY <1>2, <1>3, <1>4

LEMMA CloseFlushesInv == ASSUME IInv, CloseFlushes PROVE IInv'
<1>1. Forgotten
  BY DEF CloseFlushes
<1>2. /\ intent' \in [Ids -> Consumed \cup {"none", "owed"}]
      /\ rows' \in [Ids -> SUBSET Serves]
      /\ DurableAgrees'
      /\ \A id \in Ids : rows'[id] \subseteq graph[id]
      /\ \A id \in Ids : id > nextSeq => intent'[id] = "none" /\ rows'[id] = {}
  BY CloseTakes, StoreStep
<1>3. QED
  BY <1>1, <1>2, CloseTakes, ForgottenInv

LEMMA CrashInv == ASSUME IInv, Crash PROVE IInv'
<1>1. up # "down" /\ Forgotten /\ intent' = intent /\ rows' = rows
  BY DEF Crash
<1>2. /\ intent' \in [Ids -> Consumed \cup {"none", "owed"}]
      /\ rows' \in [Ids -> SUBSET Serves]
      /\ DurableAgrees'
  BY <1>1 DEF IInv, TypeOK, DurableAgrees
<1>3. \A id \in Ids : rows'[id] \subseteq graph[id]
  BY <1>1 DEF IInv, GraphInv
<1>4. \A id \in Ids : id > nextSeq => intent'[id] = "none" /\ rows'[id] = {}
  BY <1>1 DEF IInv, IssueInv
<1>5. QED
  BY <1>1, <1>2, <1>3, <1>4, ForgottenInv

-----------------------------------------------------------------------------
LEMMA StepInv == IInv /\ [Next]_vars => IInv'
<1> SUFFICES ASSUME IInv, [Next]_vars PROVE IInv'
  OBVIOUS
<1>1. CASE UNCHANGED vars
  <2>1. UNCHANGED <<serveVars, laneVars, graphVars, storeVars, replayVars>>
    BY <1>1 DEF vars
  <2>2. TypeOK' /\ DownInv' /\ IssueInv'
    BY <2>1 DEF IInv, TypeOK, DownInv, IssueInv
  <2>3. JobsInv' /\ PutInv' /\ GraphInv'
    BY <2>1 DEF IInv, JobsInv, PutInv, Tagged, GraphInv
  <2>4. LogInv'
    BY <2>1 DEF IInv, LogInv, Tagged, IsNext
  <2>5. ReplayInv' /\ AnswersAreTrue'
    BY <2>1 DEF IInv, ReplayInv, AnswersAreTrue, IsNext
  <2>6. DurableAgrees' /\ DebtsAreAnswered'
    BY <2>1 DEF IInv, DurableAgrees, DebtsAreAnswered, Decided, IsNext, Owed
  <2>7. QED
    BY <2>2, <2>3, <2>4, <2>5, <2>6 DEF IInv
<1>2. CASE Next
  BY <1>2, AttachInv, AdmitInv, WorkerConsumes, WorkerLeavesInv, FlushCommitsInv, FlushEndsInv,
     ReplayStepInv, LoseLeaseInv, CloseStopsReplayInv, CloseFlushesInv, CrashInv DEF Next
<1>3. QED
  BY <1>1, <1>2

(* The inductive invariant holds in every behaviour.                         *)
THEOREM Invariance == Spec => []IInv
<1>1. QED
  BY InitInv, StepInv, PTL DEF Spec

(* Every variable keeps its type; in particular neither streak passes the    *)
(* limit that ends the replay.                                               *)
THEOREM TypeCorrect == Spec => []TypeOK
<1>1. IInv => TypeOK
  BY DEF IInv
<1>2. QED
  BY <1>1, Invariance, PTL

LEMMA AtMostOne ==
  ASSUME NEW S, \A s, t \in S : s = t
  PROVE  Cardinality(S) <= 1
<1>1. CASE S = {}
  BY <1>1, FS_EmptySet
<1>2. CASE S # {}
  <2>1. PICK s \in S : TRUE
    BY <1>2
  <2>2. S = {s}
    BY <2>1
  <2>3. Cardinality({s}) = 1
    BY FS_Singleton
  <2>4. QED
    BY <2>2, <2>3
<1>3. QED
  BY <1>1, <1>2

(* An acknowledged write takes effect at most once, in the graph and in the  *)
(* store, over any number of crashes, restarts, re-sent and dropped batches  *)
(* and replays.                                                              *)
THEOREM WritesApplyOnce == Spec => []AppliedOnce
<1>1. IInv => AppliedOnce
  BY AtMostOne DEF IInv, GraphInv, AppliedOnce
<1>2. QED
  BY <1>1, Invariance, PTL

(* The store's record of an intent agrees with what it holds of the write.   *)
THEOREM RecordsAgree == Spec => []DurableAgrees
<1>1. IInv => DurableAgrees
  BY DEF IInv
<1>2. QED
  BY <1>1, Invariance, PTL

(* What a serve answers for a receipt of an earlier one is true of its graph. *)
THEOREM AnswersHold == Spec => []AnswersAreTrue
<1>1. IInv => AnswersAreTrue
  BY DEF IInv
<1>2. QED
  BY <1>1, Invariance, PTL

(* Every debt that a serve loaded is known to it, and its count is that of   *)
(* the answers still pending, but for one decided and not yet answered.      *)
THEOREM DebtsAreKnown == Spec => []DebtsAreAnswered
<1>1. IInv => DebtsAreAnswered
  BY DEF IInv
<1>2. QED
  BY <1>1, Invariance, PTL

(* A debt in the store is only ever settled there, by its effect or by a     *)
(* refusal on record.                                                        *)
THEOREM DebtsAreKept == Spec => DebtKept
<1> DEFINE Kept == \A id \in Ids :
             intent[id] = "owed" =>
               intent'[id] \in {"owed", "failed"} \/ rows'[id] # {}
<1>1. IInv /\ [Next]_vars => [Kept]_vars
  <2> SUFFICES ASSUME IInv, [Next]_vars PROVE Kept
    OBVIOUS
  <2>1. CASE FlushCommits
    <3>1. PICK k \in Batches : StoreTakes(SubSeq(log, 1, k))
      BY <2>1 DEF FlushCommits
    <3>2. k \in 0..Len(log) /\ sent <= k
      <4>1. log \in Seq(Entry) /\ sent \in 0..Len(log)
        BY DEF IInv, TypeOK
      <4>2. QED
        BY <4>1, <3>1 DEF Batches
    <3>3. QED
      BY <2>1, <3>1, <3>2, StoreStep DEF FlushCommits
  <2>2. CASE CloseFlushes
    BY <2>2, CloseTakes, StoreStep
  <2>3. CASE ~FlushCommits /\ ~CloseFlushes
    <3>1. intent' = intent
      BY <2>3 DEF Next, vars, Attach, Admit, WorkerApplies, WorkerRefused, WorkerLeaves,
        FlushConfirmed, BatchDropped, ReplayStep, ProbeAnswers, ProbeFails, ReplayTakes,
        ReplayDone, ReplayApplies, ReplayCounts, ReplayRefused, ReplayLookupTimesOut,
        CountedFailed, ReplayConsumes, ReplayOutage,
        ReplayBlocked, ReplayReports, LoseLease, CloseStopsReplay, Crash
    <3>2. QED
      BY <3>1
  <2>4. QED
    BY <2>1, <2>2, <2>3
<1>2. QED
  BY <1>1, Invariance, PTL DEF Spec, DebtKept

=============================================================================
