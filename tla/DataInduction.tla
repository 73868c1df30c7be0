---------------------------- MODULE DataInduction ----------------------------
(***************************************************************************)
(* Induction over numbers, finite sets and sequences, and what recursive   *)
(* definitions over them compute. The statements have sets and functions   *)
(* for parameters, never operators, so that a proof can cite them. They    *)
(* rest on the library's theorem that strict inclusion of the subsets of a *)
(* finite set is well-founded.                                             *)
(***************************************************************************)
EXTENDS SequenceFilter, FiniteSets, FiniteSetTheorems, SequenceTheorems, WellFoundedInduction, TLAPS

LEMMA MinimalSubset ==
  ASSUME NEW S, IsFiniteSet(S), NEW F \in SUBSET SUBSET S, F # {}
  PROVE  \E T \in F : \A U \in F : U \subseteq T => U = T
<1>1. IsWellFoundedOn(StrictSubsetOrdering(S), SUBSET S)
  BY FS_StrictSubsetOrderingWellFounded, FS_FiniteSubsetsOfFinite
<1>2. F \subseteq SUBSET S
  OBVIOUS
<1>3. \E T \in F : \A U \in F : ~(<<U, T>> \in StrictSubsetOrdering(S))
  BY <1>1, <1>2, WFMin
<1>4. PICK T \in F : \A U \in F : ~(<<U, T>> \in StrictSubsetOrdering(S))
  BY <1>3
<1>5. ASSUME NEW U \in F, U \subseteq T, U # T PROVE FALSE
  <2>1. <<U, T>> \in (SUBSET S) \X (SUBSET S)
    BY <1>2
  <2>2. <<U, T>> \in StrictSubsetOrdering(S)
    BY <2>1, <1>5 DEF StrictSubsetOrdering
  <2>3. QED
    BY <1>4, <1>5, <2>2
<1>6. QED
  BY <1>4, <1>5

LEMMA Least ==
  ASSUME NEW T \in SUBSET Nat, T # {}
  PROVE  \E m \in T : \A n \in T : m <= n
<1>1. PICK t \in T : TRUE
  OBVIOUS
<1> DEFINE I == 0..t
           F == {0..n : n \in {k \in T : k <= t}}
<1>2. IsFiniteSet(I)
  BY FS_Interval
<1>3. F \in SUBSET SUBSET I
  OBVIOUS
<1>4. F # {}
  <2>1. t \in {k \in T : k <= t}
    OBVIOUS
  <2>2. 0..t \in F
    BY <2>1
  <2>3. QED
    BY <2>2
<1>5. \E V \in F : \A U \in F : U \subseteq V => U = V
  <2> HIDE DEF F, I
  <2>1. QED
    BY <1>2, <1>3, <1>4, MinimalSubset
<1>6. PICK m \in {k \in T : k <= t} : \A U \in F : U \subseteq 0..m => U = 0..m
  BY <1>5
<1>7. ASSUME NEW n \in T, n < m PROVE FALSE
  <2>1. n \in {k \in T : k <= t}
    BY <1>6, <1>7
  <2>2. 0..n \in F /\ 0..n \subseteq 0..m
    BY <1>6, <1>7, <2>1
  <2>3. 0..n = 0..m
    BY <1>6, <2>2
  <2>4. m \in 0..m /\ m \notin 0..n
    BY <1>7
  <2>5. QED
    BY <2>3, <2>4
<1>8. QED
  BY <1>6, <1>7

LEMMA Greatest ==
  ASSUME NEW n \in Nat, NEW T \in SUBSET (0..n), T # {}
  PROVE  \E m \in T : \A k \in T : k <= m
<1> DEFINE U == {n - k : k \in T}
<1>1. U \in SUBSET Nat /\ U # {}
  <2>1. \A k \in T : n - k \in Nat
    OBVIOUS
  <2>2. PICK t \in T : TRUE
    OBVIOUS
  <2>3. n - t \in U
    BY <2>2
  <2>4. QED
    BY <2>1, <2>3
<1>2. PICK u \in U : \A v \in U : u <= v
  <2> HIDE DEF U
  <2>1. QED
    BY <1>1, Least
<1>3. PICK m \in T : u = n - m
  BY <1>2
<1>4. ASSUME NEW k \in T PROVE k <= m
  <2>1. n - k \in U
    OBVIOUS
  <2>2. n - m <= n - k
    BY <1>2, <1>3, <2>1
  <2>3. QED
    BY <2>2
<1>5. QED
  BY <1>4

\* Induction over 0..n.
LEMMA UpTo ==
  ASSUME NEW n \in Nat, NEW G, 0 \in G, \A k \in 1..n : k - 1 \in G => k \in G
  PROVE  \A k \in 0..n : k \in G
<1> DEFINE T == {k \in 0..n : k \notin G}
<1> SUFFICES ASSUME T # {} PROVE FALSE
  OBVIOUS
<1>1. T \in SUBSET Nat
  OBVIOUS
<1>2. PICK m \in T : \A k \in T : m <= k
  <2> HIDE DEF T
  <2>1. QED
    BY <1>1, Least
<1>3. m \in 1..n /\ m - 1 \in 0..n /\ ~(m <= m - 1)
  OBVIOUS
<1>4. m - 1 \in G
  BY <1>2, <1>3
<1>5. QED
  BY <1>3, <1>4

\* Induction over the subsets of a finite set, one chosen element at a time.
LEMMA Pickwise ==
  ASSUME NEW S, IsFiniteSet(S), NEW pick, \A s \in SUBSET S : s # {} => pick[s] \in s,
         NEW G, {} \in G, \A s \in SUBSET S : s # {} /\ s \ {pick[s]} \in G => s \in G
  PROVE  \A s \in SUBSET S : s \in G
<1> DEFINE F == {s \in SUBSET S : s \notin G}
<1> SUFFICES ASSUME F # {} PROVE FALSE
  OBVIOUS
<1>1. F \in SUBSET SUBSET S
  OBVIOUS
<1>2. PICK s \in F : \A U \in F : U \subseteq s => U = s
  <2> HIDE DEF F
  <2>1. QED
    BY <1>1, MinimalSubset
<1>3. s \in SUBSET S /\ s # {} /\ pick[s] \in s /\ s \notin G
  BY <1>2
<1>4. s \ {pick[s]} \in G
  <2>1. s \ {pick[s]} \in SUBSET S /\ s \ {pick[s]} \subseteq s /\ s \ {pick[s]} # s
    BY <1>3
  <2>2. QED
    BY <1>2, <2>1
<1>5. QED
  BY <1>3, <1>4

-----------------------------------------------------------------------------
(* What a recursive definition needs to mean what it says: a function that *)
(* satisfies its equation.                                                 *)

\* A value for each prefix of 1..n.
ChainSteps(n, V, base, step) ==
  n \in Nat /\ base \in V /\ \A k \in 1..n, v \in V : step[<<k, v>>] \in V

IsChain(h, n, V, base, step) ==
  /\ h \in [0..n -> V]
  /\ h[0] = base
  /\ \A k \in 1..n : h[k] = step[<<k, h[k - 1]>>]

LEMMA Chain ==
  ASSUME NEW n, NEW V, NEW base, NEW step, ChainSteps(n, V, base, step)
  PROVE  \E h : IsChain(h, n, V, base, step)
<1> USE DEF ChainSteps, IsChain
<1> DEFINE Good(m, h) == h[0] = base /\ \A k \in 1..m : h[k] = step[<<k, h[k - 1]>>]
           G == {m \in 0..n : \E h \in [0..m -> V] : Good(m, h)}
<1>1. 0 \in G
  <2> DEFINE h == [k \in 0..0 |-> base]
  <2>1. h \in [0..0 -> V] /\ Good(0, h)
    OBVIOUS
  <2>2. 0 \in 0..n
    OBVIOUS
  <2>3. QED
    BY <2>1, <2>2
<1>2. ASSUME NEW m \in 1..n, m - 1 \in G PROVE m \in G
  <2>1. PICK g \in [0..(m - 1) -> V] : Good(m - 1, g)
    BY <1>2
  <2> DEFINE h == [k \in 0..m |-> IF k = m THEN step[<<m, g[m - 1]>>] ELSE g[k]]
  <2>2. m - 1 \in 0..(m - 1) /\ m \in 0..n /\ \A k \in 0..m : k # m => k \in 0..(m - 1)
    OBVIOUS
  <2>3. h \in [0..m -> V]
    BY <2>2
  <2>4. h[0] = base
    BY <2>1
  <2>5. ASSUME NEW k \in 1..m PROVE h[k] = step[<<k, h[k - 1]>>]
    <3>1. k \in 0..m /\ k - 1 \in 0..m /\ k - 1 # m
      OBVIOUS
    <3>2. h[k - 1] = g[k - 1]
      BY <3>1
    <3>3. CASE k = m
      BY <3>1, <3>2, <3>3
    <3>4. CASE k # m
      <4>1. k \in 1..(m - 1) /\ h[k] = g[k]
        BY <3>1, <3>4
      <4>2. QED
        BY <2>1, <3>2, <4>1
    <3>5. QED
      BY <3>3, <3>4
  <2>6. QED
    BY <2>2, <2>3, <2>4, <2>5
<1>3. \A k \in 0..n : k \in G
  <2> HIDE DEF G
  <2>1. QED
    BY <1>1, <1>2, UpTo
<1>4. n \in G
  BY <1>3
<1>5. QED
  BY <1>4

\* A value for each subset of S, from the one without its chosen element.
SetSteps(S, V, base, pick, step) ==
  /\ IsFiniteSet(S)
  /\ base \in V
  /\ \A s \in SUBSET S : s # {} => pick[s] \in s
  /\ \A x \in S, v \in V : step[<<x, v>>] \in V

IsSetRecursion(f, S, V, base, pick, step) ==
  /\ f \in [SUBSET S -> V]
  /\ \A s \in SUBSET S :
       f[s] = IF s = {} THEN base ELSE step[<<pick[s], f[s \ {pick[s]}]>>]

LEMMA SetRecursion ==
  ASSUME NEW S, NEW V, NEW base, NEW pick, NEW step, SetSteps(S, V, base, pick, step)
  PROVE  \E f : IsSetRecursion(f, S, V, base, pick, step)
<1> USE DEF SetSteps, IsSetRecursion
<1> DEFINE Value(f, s) == IF s = {} THEN base ELSE step[<<pick[s], f[s \ {pick[s]}]>>]
           Good(m, f) == \A s \in SUBSET S : Cardinality(s) <= m => f[s] = Value(f, s)
           n == Cardinality(S)
           G == {m \in 0..n : \E f \in [SUBSET S -> V] : Good(m, f)}
<1>1. /\ n \in Nat
      /\ \A s \in SUBSET S :
           /\ IsFiniteSet(s) /\ Cardinality(s) \in Nat /\ Cardinality(s) <= n
           /\ Cardinality(s) = 0 => s = {}
           /\ s # {} => /\ s \ {pick[s]} \in SUBSET S
                       /\ Cardinality(s \ {pick[s]}) = Cardinality(s) - 1
  BY FS_CardinalityType, FS_Subset, FS_EmptySet, FS_RemoveElement
<1>2. ASSUME NEW f \in [SUBSET S -> V] PROVE \A s \in SUBSET S : Value(f, s) \in V
  BY <1>1
<1>3. 0 \in G
  <2> DEFINE f == [s \in SUBSET S |-> base]
  <2>1. ASSUME NEW s \in SUBSET S, Cardinality(s) <= 0 PROVE s = {}
    <3>1. Cardinality(s) \in Nat /\ (Cardinality(s) = 0 => s = {})
      BY <1>1
    <3>2. Cardinality(s) = 0
      BY <2>1, <3>1
    <3>3. QED
      BY <3>1, <3>2
  <2>2. f \in [SUBSET S -> V] /\ Good(0, f) /\ 0 \in 0..n
    BY <1>1, <2>1
  <2>3. QED
    BY <2>1, <2>2
<1>4. ASSUME NEW m \in 1..n, m - 1 \in G PROVE m \in G
  <2>1. PICK g \in [SUBSET S -> V] : Good(m - 1, g)
    BY <1>4
  <2> DEFINE f == [s \in SUBSET S |-> Value(g, s)]
  <2>2. f \in [SUBSET S -> V]
    BY <1>2
  <2>3. ASSUME NEW s \in SUBSET S, Cardinality(s) <= m - 1 PROVE f[s] = g[s]
    BY <2>1, <2>3
  <2>4. ASSUME NEW s \in SUBSET S, Cardinality(s) <= m PROVE f[s] = Value(f, s)
    <3>1. CASE s = {}
      BY <3>1
    <3>2. CASE s # {}
      <4>1. /\ s \ {pick[s]} \in SUBSET S /\ Cardinality(s) \in Nat
            /\ Cardinality(s \ {pick[s]}) = Cardinality(s) - 1
        BY <1>1, <3>2
      <4>2. Cardinality(s \ {pick[s]}) <= m - 1
        BY <2>4, <4>1
      <4>3. f[s \ {pick[s]}] = g[s \ {pick[s]}]
        BY <2>3, <4>1, <4>2
      <4>4. QED
        BY <3>2, <4>3
    <3>3. QED
      BY <3>1, <3>2
  <2>5. Good(m, f)
    BY <2>4
  <2>6. m \in 0..n
    BY <1>1
  <2>7. QED
    BY <2>2, <2>5, <2>6
<1>5. \A k \in 0..n : k \in G
  <2> HIDE DEF G, n
  <2>1. QED
    BY <1>1, <1>3, <1>4, UpTo
<1>6. n \in 0..n
  BY <1>1
<1>7. PICK f \in [SUBSET S -> V] : Good(n, f)
  BY <1>5, <1>6
<1>8. QED
  BY <1>1, <1>7

\* A fold from the left over 1..n takes the greatest index off last.
PicksGreatest(pick, n) ==
  \A s \in SUBSET (1..n) : s # {} => pick[s] \in s /\ \A k \in s : k <= pick[s]

IsFold(f, n, V, base, pick, step) ==
  /\ IsSetRecursion(f, 1..n, V, base, pick, step)
  /\ IsChain([k \in 0..n |-> f[1..k]], n, V, base, step)

LEMMA FoldChain ==
  ASSUME NEW n, NEW V, NEW base, NEW pick, NEW step,
         ChainSteps(n, V, base, step), PicksGreatest(pick, n)
  PROVE  \E f : IsFold(f, n, V, base, pick, step)
<1>1. n \in Nat /\ IsFiniteSet(1..n)
  BY FS_Interval DEF ChainSteps
<1>2. SetSteps(1..n, V, base, pick, step)
  BY <1>1 DEF ChainSteps, SetSteps, PicksGreatest
<1>3. PICK f : IsSetRecursion(f, 1..n, V, base, pick, step)
  BY <1>2, SetRecursion
<1>4. /\ f \in [SUBSET (1..n) -> V]
      /\ \A s \in SUBSET (1..n) :
           f[s] = IF s = {} THEN base ELSE step[<<pick[s], f[s \ {pick[s]}]>>]
  BY <1>3 DEF IsSetRecursion
<1> DEFINE h == [k \in 0..n |-> f[1..k]]
<1>5. h \in [0..n -> V]
  BY <1>1, <1>4
<1>6. h[0] = base
  <2>1. 1..0 = {} /\ 1..0 \in SUBSET (1..n) /\ 0 \in 0..n
    BY <1>1
  <2>2. QED
    BY <1>4, <2>1
<1>7. ASSUME NEW k \in 1..n PROVE h[k] = step[<<k, h[k - 1]>>]
  <2>1. /\ 1..k \in SUBSET (1..n) /\ 1..k # {} /\ k \in 1..k /\ (1..k) \ {k} = 1..(k - 1)
        /\ k \in 0..n /\ k - 1 \in 0..n
    <3>1. k \in Int /\ 1 <= k /\ k <= n
      BY <1>1
    <3>2. 1..k \in SUBSET (1..n)
      BY <1>1, <3>1
    <3>3. k \in 1..k /\ (1..k) \ {k} = 1..(k - 1)
      BY <3>1
    <3>4. QED
      BY <1>1, <3>1, <3>2, <3>3
  <2>2. pick[1..k] = k
    <3>1. pick[1..k] \in 1..k /\ k <= pick[1..k]
      BY <2>1 DEF PicksGreatest
    <3>2. QED
      BY <1>1, <3>1
  <2>3. f[1..k] = step[<<k, f[1..(k - 1)]>>]
    BY <1>4, <2>1, <2>2
  <2>4. QED
    BY <2>1, <2>3
<1>8. IsChain(h, n, V, base, step)
  BY <1>5, <1>6, <1>7 DEF IsChain
<1>9. QED
  BY <1>3, <1>8 DEF IsFold

-----------------------------------------------------------------------------
\* In a strict total order of a finite set every rank is taken.
StrictTotal(R, S) ==
  \A x, y \in S :
    /\ <<x, y>> \in R => <<y, x>> \notin R
    /\ x # y => <<x, y>> \in R \/ <<y, x>> \in R
    /\ \A z \in S : <<x, y>> \in R /\ <<y, z>> \in R => <<x, z>> \in R

LEMMA Ranks ==
  ASSUME NEW S, IsFiniteSet(S), NEW R, StrictTotal(R, S)
  PROVE  \A k \in 1..Cardinality(S) : \E x \in S : Cardinality({y \in S : <<y, x>> \in R}) = k - 1
<1> DEFINE n == Cardinality(S)
           Below(x) == {y \in S : <<y, x>> \in R}
           rank == [x \in S |-> Cardinality(Below(x))]
<1>1. n \in Nat
  BY FS_CardinalityType
<1>2. ASSUME NEW x \in S
      PROVE  Below(x) \in SUBSET S /\ IsFiniteSet(Below(x)) /\ rank[x] \in 0..(n - 1)
  <2>1. Below(x) \subseteq S \ {x}
    BY DEF StrictTotal
  <2>2. IsFiniteSet(S \ {x}) /\ Cardinality(S \ {x}) = n - 1
    BY FS_RemoveElement
  <2>3. IsFiniteSet(Below(x)) /\ Cardinality(Below(x)) <= Cardinality(S \ {x})
    BY <2>1, <2>2, FS_Subset
  <2>4. Cardinality(Below(x)) \in Nat
    BY <2>3, FS_CardinalityType
  <2>5. QED
    BY <1>1, <2>2, <2>3, <2>4
<1>3. ASSUME NEW x \in S, NEW y \in S, <<x, y>> \in R PROVE rank[x] < rank[y]
  <2>1. Below(x) \subseteq Below(y) \ {x}
    BY <1>3 DEF StrictTotal
  <2>2. x \in Below(y) /\ IsFiniteSet(Below(y))
    BY <1>2, <1>3
  <2>3. IsFiniteSet(Below(y) \ {x}) /\ Cardinality(Below(y) \ {x}) = Cardinality(Below(y)) - 1
    BY <2>2, FS_RemoveElement
  <2>4. Cardinality(Below(x)) <= Cardinality(Below(y) \ {x})
    BY <2>1, <2>3, FS_Subset
  <2>5. rank[x] = Cardinality(Below(x)) /\ rank[y] = Cardinality(Below(y))
    OBVIOUS
  <2>6. Cardinality(Below(x)) \in Nat /\ Cardinality(Below(y)) \in Nat
    BY <1>2, FS_CardinalityType
  <2>7. QED
    BY <2>3, <2>4, <2>5, <2>6
<1>4. rank \in [S -> 0..(n - 1)]
  BY <1>2
<1>5. \A x, y \in S : rank[x] = rank[y] => x = y
  <2> SUFFICES ASSUME NEW x \in S, NEW y \in S, rank[x] = rank[y], x # y PROVE FALSE
    OBVIOUS
  <2>1. <<x, y>> \in R \/ <<y, x>> \in R
    BY DEF StrictTotal
  <2>2. rank[x] < rank[y] \/ rank[y] < rank[x]
    BY <1>3, <2>1
  <2>3. rank[x] \in Int
    BY <1>4
  <2>4. QED
    BY <2>2, <2>3
<1>6. IsFiniteSet(0..(n - 1)) /\ Cardinality(0..(n - 1)) = n
  BY <1>1, FS_Interval, SMTT(30)
<1> HIDE DEF rank
<1>7. rank \in Injection(S, 0..(n - 1))
  BY <1>4, <1>5 DEF Injection, IsInjective
<1>8. rank \in Surjection(S, 0..(n - 1))
  BY <1>6, <1>7, FS_Injection
<1>9. ASSUME NEW k \in 1..n PROVE \E x \in S : Cardinality(Below(x)) = k - 1
  <2>1. k - 1 \in 0..(n - 1)
    BY <1>1
  <2>2. \E x \in S : rank[x] = k - 1
    BY <1>8, <2>1 DEF Surjection
  <2>3. QED
    BY <2>2 DEF rank
<1>10. QED
  BY <1>9

\* A sum over a finite set does not depend on the order of its terms.
IsSum(sum, S, f, pick) ==
  /\ IsFiniteSet(S) /\ f \in [S -> Nat]
  /\ \A s \in SUBSET S : s # {} => pick[s] \in s
  /\ sum[{}] = 0
  /\ \A s \in SUBSET S : s # {} => sum[s] = f[pick[s]] + sum[s \ {pick[s]}]

LEMMA AnyOrder ==
  ASSUME NEW S, NEW f, NEW pick, NEW sum, IsSum(sum, S, f, pick)
  PROVE  \A s \in SUBSET S : /\ sum[s] \in Nat
                             /\ \A x \in s : sum[s] = f[x] + sum[s \ {x}]
<1> USE DEF IsSum
<1>1. \A s \in SUBSET S : sum[s] \in Nat
  <2> DEFINE G == {s \in SUBSET S : sum[s] \in Nat}
  <2>1. {} \in G
    OBVIOUS
  <2>2. ASSUME NEW s \in SUBSET S, s # {} /\ s \ {pick[s]} \in G PROVE s \in G
    <3>1. pick[s] \in S /\ sum[s] = f[pick[s]] + sum[s \ {pick[s]}] /\ sum[s \ {pick[s]}] \in Nat
      BY <2>2
    <3>2. f[pick[s]] \in Nat
      BY <3>1
    <3>3. QED
      BY <3>1, <3>2
  <2>3. \A s \in SUBSET S : s \in G
    <3>1. \A s \in SUBSET S : s # {} /\ s \ {pick[s]} \in G => s \in G
      BY <2>2
    <3> HIDE DEF G
    <3>2. QED
      BY ONLY IsFiniteSet(S), \A s \in SUBSET S : s # {} => pick[s] \in s, {} \in G, <3>1, Pickwise, SMTT(60)
  <2>4. QED
    BY <2>3
<1> DEFINE F == {s \in SUBSET S : \E x \in s : sum[s] # f[x] + sum[s \ {x}]}
<1>2. ASSUME F # {} PROVE FALSE
  <2>1. PICK s \in F : \A U \in F : U \subseteq s => U = s
    <3>1. F \in SUBSET SUBSET S
      OBVIOUS
    <3> HIDE DEF F
    <3>2. QED
      BY <1>2, <3>1, MinimalSubset
  <2>2. PICK x \in s : sum[s] # f[x] + sum[s \ {x}]
    BY <2>1
  <2> DEFINE p == pick[s]
  <2>3. s \in SUBSET S /\ p \in s /\ p # x /\ sum[s] = f[p] + sum[s \ {p}]
    BY <2>1, <2>2
  <2>4. s \ {p} \notin F /\ s \ {x} \notin F
    <3>1. s \ {p} \subseteq s /\ s \ {p} # s /\ s \ {x} \subseteq s /\ s \ {x} # s
      BY <2>2, <2>3
    <3> HIDE DEF F
    <3>2. QED
      BY <2>1, <3>1
  <2>5. sum[s \ {p}] = f[x] + sum[(s \ {p}) \ {x}] /\ sum[s \ {x}] = f[p] + sum[(s \ {x}) \ {p}]
    BY <2>2, <2>3, <2>4
  <2>6. (s \ {p}) \ {x} = (s \ {x}) \ {p}
    OBVIOUS
  <2>7. f[x] \in Nat /\ f[p] \in Nat /\ sum[(s \ {p}) \ {x}] \in Nat
    BY <1>1, <2>2, <2>3
  <2>8. sum[s] = f[x] + sum[s \ {x}]
    <3> HIDE DEF F, p
    <3> DEFINE v == sum[(s \ {p}) \ {x}]
    <3> HIDE DEF v
    <3>1. sum[s] = f[p] + (f[x] + v)
      BY <2>3, <2>5 DEF v
    <3>2. sum[s \ {x}] = f[p] + v
      BY <2>5, <2>6 DEF v
    <3>3. f[p] + (f[x] + v) = f[x] + (f[p] + v)
      BY <2>7 DEF v
    <3>4. QED
      BY <3>1, <3>2, <3>3
  <2>9. QED
    BY <2>2, <2>8
<1>3. QED
  BY <1>1, <1>2

-----------------------------------------------------------------------------
(* What Kept leaves of a sequence.                                         *)

KeptUpTo(f, seq, S, V) ==
  /\ f \in [0..Len(seq) -> Seq(V)]
  /\ f[0] = <<>>
  /\ \A n \in 1..Len(seq) :
       f[n] = IF seq[n] \in S THEN Append(f[n - 1], seq[n]) ELSE f[n - 1]

LEMMA KeptDef ==
  ASSUME NEW V, NEW seq \in Seq(V), NEW S
  PROVE  \E f : KeptUpTo(f, seq, S, V) /\ Kept(seq, S) = f[Len(seq)]
<1> DEFINE Value(h, n) == IF n = 0 THEN <<>>
                          ELSE IF seq[n] \in S THEN Append(h[n - 1], seq[n]) ELSE h[n - 1]
           f == CHOOSE f : f = [n \in 0..Len(seq) |-> Value(f, n)]
           step == [kv \in (1..Len(seq)) \X Seq(V) |->
                      IF seq[kv[1]] \in S THEN Append(kv[2], seq[kv[1]]) ELSE kv[2]]
<1>0. Len(seq) \in Nat
  OBVIOUS
<1>1. \A k \in 1..Len(seq), v \in Seq(V) :
        /\ step[<<k, v>>] = IF seq[k] \in S THEN Append(v, seq[k]) ELSE v
        /\ step[<<k, v>>] \in Seq(V)
  OBVIOUS
<1>2. PICK h : IsChain(h, Len(seq), Seq(V), <<>>, step)
  <2>1. ChainSteps(Len(seq), Seq(V), <<>>, step)
    <3>1. <<>> \in Seq(V)
      OBVIOUS
    <3> HIDE DEF step
    <3>2. QED
      BY <1>0, <1>1, <3>1 DEF ChainSteps
  <2> HIDE DEF step
  <2>2. QED
    BY <2>1, Chain
<1>3. /\ h \in [0..Len(seq) -> Seq(V)]
      /\ h[0] = <<>>
      /\ \A k \in 1..Len(seq) : h[k] = step[<<k, h[k - 1]>>]
  <2> HIDE DEF step
  <2>1. QED
    BY <1>2 DEF IsChain
<1>4. \A k \in 1..Len(seq) : k - 1 \in 0..Len(seq) /\ h[k - 1] \in Seq(V)
  <2> HIDE DEF step
  <2>1. QED
    BY <1>0, <1>3, SMTT(30)
<1>5. h = [n \in 0..Len(seq) |-> Value(h, n)]
  <2>1. ASSUME NEW n \in 0..Len(seq) PROVE h[n] = Value(h, n)
    <3>1. CASE n = 0
      BY <3>1, <1>3
    <3>2. CASE n # 0
      <4>1. n \in 1..Len(seq)
        BY <1>0, <3>2
      <4> HIDE DEF step
      <4>2. QED
        BY <1>1, <1>3, <1>4, <3>2, <4>1
    <3>3. QED
      BY <3>1, <3>2
  <2> HIDE DEF step, Value
  <2>2. QED
    BY <1>3, <2>1
<1>6. f = [n \in 0..Len(seq) |-> Value(f, n)]
  BY <1>5
<1>7. Kept(seq, S) = f[Len(seq)]
  BY DEF Kept
<1> HIDE DEF f
<1>8. f[0] = <<>> /\ \A n \in 1..Len(seq) :
        f[n] = IF seq[n] \in S THEN Append(f[n - 1], seq[n]) ELSE f[n - 1]
  <2>1. \A n \in 0..Len(seq) : f[n] = Value(f, n)
    BY <1>6
  <2>2. 0 \in 0..Len(seq) /\ \A n \in 1..Len(seq) : n \in 0..Len(seq) /\ n # 0
    BY <1>0
  <2>3. QED
    BY <2>1, <2>2
<1>9. \A n \in 0..Len(seq) : f[n] \in Seq(V)
  <2> DEFINE G == {n \in 0..Len(seq) : f[n] \in Seq(V)}
  <2>1. 0 \in G
    <3>1. <<>> \in Seq(V) /\ 0 \in 0..Len(seq)
      BY <1>0
    <3>2. QED
      BY <1>8, <3>1
  <2>2. ASSUME NEW n \in 1..Len(seq), n - 1 \in G PROVE n \in G
    <3>1. n \in 0..Len(seq) /\ f[n - 1] \in Seq(V) /\ seq[n] \in V
      BY <1>0, <2>2
    <3>2. f[n] = IF seq[n] \in S THEN Append(f[n - 1], seq[n]) ELSE f[n - 1]
      BY <1>8
    <3>3. f[n] \in Seq(V)
      BY <3>1, <3>2
    <3>4. QED
      BY <3>1, <3>3
  <2>3. \A n \in 0..Len(seq) : n \in G
    <3> HIDE DEF G
    <3>1. QED
      BY <1>0, <2>1, <2>2, UpTo
  <2>4. QED
    BY <2>3
<1>10. f \in [0..Len(seq) -> Seq(V)]
  BY <1>6, <1>9
<1>11. KeptUpTo(f, seq, S, V)
  BY <1>8, <1>10 DEF KeptUpTo
<1>12. QED
  BY <1>7, <1>11

LEMMA KeptEmpty == ASSUME NEW S PROVE Kept(<<>>, S) = <<>>
<1>1. <<>> \in Seq({}) /\ Len(<<>>) = 0
  OBVIOUS
<1>2. \E f : KeptUpTo(f, <<>>, S, {}) /\ Kept(<<>>, S) = f[Len(<<>>)]
  BY <1>1, KeptDef
<1>3. QED
  BY <1>1, <1>2 DEF KeptUpTo

LEMMA KeptAppend ==
  ASSUME NEW V, NEW seq \in Seq(V), NEW v \in V, NEW S
  PROVE  Kept(Append(seq, v), S) = IF v \in S THEN Append(Kept(seq, S), v) ELSE Kept(seq, S)
<1> DEFINE longer == Append(seq, v)
<1>1. /\ longer \in Seq(V) /\ Len(seq) \in Nat /\ Len(longer) = Len(seq) + 1
      /\ longer[Len(seq) + 1] = v
      /\ \A n \in 1..Len(seq) : longer[n] = seq[n]
  OBVIOUS
<1>2. PICK f : KeptUpTo(f, seq, S, V) /\ Kept(seq, S) = f[Len(seq)]
  BY KeptDef
<1> HIDE DEF longer
<1>3. PICK g : KeptUpTo(g, longer, S, V) /\ Kept(longer, S) = g[Len(longer)]
  BY <1>1, KeptDef
<1> USE DEF KeptUpTo
<1> DEFINE G == {n \in 0..Len(seq) : f[n] = g[n]}
<1>4. 0 \in G
  BY <1>1, <1>2, <1>3
<1>5. ASSUME NEW n \in 1..Len(seq), n - 1 \in G PROVE n \in G
  <2>1. n \in 0..Len(seq) /\ n \in 1..Len(longer) /\ longer[n] = seq[n] /\ f[n - 1] = g[n - 1]
    BY <1>1, <1>5
  <2>2. f[n] = g[n]
    BY <1>2, <1>3, <2>1
  <2>3. QED
    BY <2>1, <2>2
<1>6. \A n \in 0..Len(seq) : n \in G
  <2> HIDE DEF G
  <2>1. QED
    BY <1>1, <1>4, <1>5, UpTo
<1>7. f[Len(seq)] = g[Len(seq)]
  BY <1>1, <1>6
<1>8. Len(longer) \in 1..Len(longer) /\ Len(longer) - 1 = Len(seq) /\ longer[Len(longer)] = v
  BY <1>1
<1>9. Kept(longer, S) = IF v \in S THEN Append(g[Len(seq)], v) ELSE g[Len(seq)]
  BY <1>3, <1>8
<1>10. QED
  BY <1>2, <1>7, <1>9 DEF longer

LEMMA KeptType ==
  ASSUME NEW V, NEW seq \in Seq(V), NEW S
  PROVE  Kept(seq, S) \in Seq(V)
<1>1. Len(seq) \in 0..Len(seq)
  OBVIOUS
<1>2. QED
  BY <1>1, KeptDef DEF KeptUpTo

\* Kept keeps the elements of S, those only, and does not repeat any.
LEMMA KeptElements ==
  ASSUME NEW V, NEW seq \in Seq(V), NEW S
  PROVE  /\ \A v : (\E i \in 1..Len(Kept(seq, S)) : Kept(seq, S)[i] = v)
                   <=> v \in S /\ \E i \in 1..Len(seq) : seq[i] = v
         /\ (\A i, j \in 1..Len(seq) : seq[i] = seq[j] => i = j) =>
              \A i, j \in 1..Len(Kept(seq, S)) : Kept(seq, S)[i] = Kept(seq, S)[j] => i = j
<1>1. PICK f : KeptUpTo(f, seq, S, V) /\ Kept(seq, S) = f[Len(seq)]
  BY KeptDef
<1> USE DEF KeptUpTo
<1> DEFINE Elements(n) == \A v : (\E i \in 1..Len(f[n]) : f[n][i] = v)
                                 <=> v \in S /\ \E i \in 1..n : seq[i] = v
           Once(n) == (\A i, j \in 1..n : seq[i] = seq[j] => i = j) =>
                        \A i, j \in 1..Len(f[n]) : f[n][i] = f[n][j] => i = j
           G == {n \in 0..Len(seq) : Elements(n) /\ Once(n)}
<1>2. Len(seq) \in Nat
  OBVIOUS
<1>3. 0 \in G
  <2>1. Len(f[0]) = 0 /\ 0 \in 0..Len(seq)
    BY <1>1, <1>2
  <2>2. 1..0 = {}
    OBVIOUS
  <2>3. QED
    BY <2>1, <2>2
<1>4. ASSUME NEW n \in 1..Len(seq), n - 1 \in G PROVE n \in G
  <2>1. /\ n \in 0..Len(seq) /\ n - 1 \in 0..Len(seq) /\ f[n - 1] \in Seq(V) /\ seq[n] \in V
        /\ 1..n = (1..(n - 1)) \cup {n} /\ n \notin 1..(n - 1)
        /\ Elements(n - 1) /\ Once(n - 1)
    <3>1. /\ n \in 0..Len(seq) /\ n - 1 \in 0..Len(seq)
          /\ 1..n = (1..(n - 1)) \cup {n} /\ n \notin 1..(n - 1)
      BY <1>2
    <3>2. Elements(n - 1) /\ Once(n - 1)
      BY <1>4
    <3> HIDE DEF Elements, Once
    <3>3. QED
      BY <1>1, <3>1, <3>2
  <2>2. CASE seq[n] \notin S
    <3>1. f[n] = f[n - 1]
      BY <1>1, <2>2
    <3>2. QED
      BY <2>1, <2>2, <3>1
  <2>3. CASE seq[n] \in S
    <3>1. f[n] = Append(f[n - 1], seq[n])
      BY <1>1, <2>3
    <3> DEFINE m == Len(f[n - 1])
    <3>2. /\ m \in Nat /\ Len(f[n]) = m + 1 /\ f[n][m + 1] = seq[n]
          /\ \A i \in 1..m : f[n][i] = f[n - 1][i]
          /\ 1..(m + 1) = (1..m) \cup {m + 1}
      BY <2>1, <3>1
    <3> HIDE DEF m
    <3>3. Elements(n)
      <4> SUFFICES ASSUME NEW v
                   PROVE  (\E i \in 1..Len(f[n]) : f[n][i] = v)
                          <=> v \in S /\ \E i \in 1..n : seq[i] = v
        OBVIOUS
      <4>1. (\E i \in 1..m : f[n - 1][i] = v) <=> v \in S /\ \E i \in 1..(n - 1) : seq[i] = v
        BY <2>1 DEF m
      <4>2. (\E i \in 1..Len(f[n]) : f[n][i] = v) <=> v = seq[n] \/ \E i \in 1..m : f[n - 1][i] = v
        <5>1. m + 1 \in 1..(m + 1) /\ \A i \in 1..(m + 1) : i = m + 1 \/ i \in 1..m
          BY <3>2
        <5>2. QED
          BY <3>2, <5>1
      <4>3. (\E i \in 1..n : seq[i] = v) <=> v = seq[n] \/ \E i \in 1..(n - 1) : seq[i] = v
        BY <2>1
      <4>4. QED
        BY <2>3, <4>1, <4>2, <4>3
    <3>4. ASSUME \A i, j \in 1..n : seq[i] = seq[j] => i = j,
                 NEW i \in 1..(m + 1), NEW j \in 1..(m + 1), f[n][i] = f[n][j], i # j
          PROVE  FALSE
      <4>1. \A k \in 1..m : f[n - 1][k] # seq[n]
        <5>1. ASSUME NEW k \in 1..m, f[n - 1][k] = seq[n] PROVE FALSE
          <6>1. \E h \in 1..(n - 1) : seq[h] = seq[n]
            BY <2>1, <5>1 DEF m
          <6>2. \A h \in 1..(n - 1) : h \in 1..n /\ n \in 1..n /\ h # n
            BY <2>1
          <6>3. QED
            BY <3>4, <6>1, <6>2
        <5>2. QED
          BY <5>1
      <4>2. i \in 1..m /\ j \in 1..m
        BY <3>2, <3>4, <4>1
      <4>3. f[n - 1][i] = f[n - 1][j]
        BY <3>2, <3>4, <4>2
      <4>4. QED
        BY <2>1, <3>4, <4>2, <4>3 DEF m
    <3>5. QED
      BY <2>1, <3>2, <3>3, <3>4
  <2>4. QED
    BY <2>2, <2>3
<1>5. \A n \in 0..Len(seq) : n \in G
  <2> HIDE DEF G
  <2>1. QED
    BY <1>2, <1>3, <1>4, UpTo
<1>6. Len(seq) \in G
  <2> HIDE DEF G
  <2>1. QED
    BY <1>2, <1>5
<1>7. QED
  BY <1>1, <1>6

-----------------------------------------------------------------------------
LEMMA SubSeqOfAppend ==
  ASSUME NEW V, NEW seq \in Seq(V), NEW v \in V, NEW k \in 0..Len(seq)
  PROVE  SubSeq(Append(seq, v), k + 1, Len(seq) + 1) = Append(SubSeq(seq, k + 1, Len(seq)), v)
<1> DEFINE longer == Append(seq, v)
           n == Len(seq)
           part == SubSeq(longer, k + 1, n + 1)
           tail == SubSeq(seq, k + 1, n)
<1>1. /\ n \in Nat /\ k \in Int /\ 0 <= k /\ k <= n
      /\ longer \in Seq(V) /\ Len(longer) = n + 1 /\ longer[n + 1] = v
      /\ \A i \in 1..n : longer[i] = seq[i]
  OBVIOUS
<1>2. /\ \A i \in (k + 1)..(n + 1) : longer[i] \in V
      /\ \A i \in (k + 1)..n : seq[i] \in V
  OBVIOUS
<1> HIDE DEF longer, n
<1>3. /\ part \in Seq(V)
      /\ Len(part) = IF k + 1 <= n + 1 THEN (n + 1) - (k + 1) + 1 ELSE 0
      /\ \A i \in 1..((n + 1) - (k + 1) + 1) : part[i] = longer[(k + 1) + i - 1]
  <2>1. k + 1 \in Int /\ n + 1 \in Int
    BY <1>1
  <2>2. QED
    BY <1>2, <2>1, SubSeqProperties
<1>4. /\ tail \in Seq(V)
      /\ Len(tail) = IF k + 1 <= n THEN n - (k + 1) + 1 ELSE 0
      /\ \A i \in 1..(n - (k + 1) + 1) : tail[i] = seq[(k + 1) + i - 1]
  <2>1. k + 1 \in Int /\ n \in Int
    BY <1>1
  <2>2. QED
    BY <1>2, <2>1, SubSeqProperties
<1> HIDE DEF part, tail
<1>5. Len(part) = n - k + 1 /\ Len(tail) = n - k /\ Len(Append(tail, v)) = n - k + 1
  <2>1. n \in Int /\ k \in Int /\ k <= n
    BY ONLY <1>1
  <2>2. Len(part) = n - k + 1
    BY ONLY <1>3, <2>1
  <2>3. Len(tail) = n - k
    BY ONLY <1>4, <2>1
  <2>4. tail \in Seq(V) /\ v \in V
    BY ONLY <1>4, v \in V
  <2>5. Len(Append(tail, v)) = Len(tail) + 1
    BY ONLY <2>4
  <2>6. QED
    BY ONLY <2>1, <2>2, <2>3, <2>5
<1>6. ASSUME NEW i \in 1..(n - k + 1) PROVE part[i] = Append(tail, v)[i]
  <2>1. part[i] = longer[k + i] /\ k + i \in 1..(n + 1)
    <3>1. i \in 1..((n + 1) - (k + 1) + 1) /\ (k + 1) + i - 1 = k + i /\ k + i \in 1..(n + 1)
      BY <1>1
    <3>2. QED
      BY <1>3, <3>1
  <2>2. CASE i = n - k + 1
    <3>1. k + i = n + 1 /\ Append(tail, v)[i] = v
      BY <1>1, <1>4, <1>5, <2>2
    <3>2. QED
      BY <1>1, <2>1, <3>1
  <2>3. CASE i # n - k + 1
    <3>1. i \in 1..(n - (k + 1) + 1) /\ (k + 1) + i - 1 = k + i /\ k + i \in 1..n /\ i \in 1..Len(tail)
      BY <1>1, <1>5, <2>3
    <3>2. Append(tail, v)[i] = tail[i]
      BY <1>4, <3>1
    <3>3. QED
      BY <1>1, <1>4, <2>1, <3>1, <3>2
  <2>4. QED
    BY <2>2, <2>3
<1>7. Append(tail, v) \in Seq(V)
  BY <1>4
<1>8. part = Append(tail, v)
  BY <1>3, <1>5, <1>6, <1>7, SeqEqual
<1>9. QED
  BY <1>8 DEF part, tail, longer, n
=============================================================================
