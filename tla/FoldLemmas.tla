----------------------------- MODULE FoldLemmas -----------------------------
(***************************************************************************)
(* What the proofs need of natural numbers, concatenation and the folds of *)
(* the community modules. MapThenFoldSet chooses a function on the sets of *)
(* positions; FoldExists says there is one, by induction on the length, so *)
(* a fold over a sequence can be computed step by step.                    *)
(* A sum over a finite set is taken the same way, one element after the    *)
(* other: SumExists and SumTyped are by induction on its cardinality.      *)
(***************************************************************************)
EXTENDS Integers, FiniteSets, Sequences, SequencesExt, FiniteSetTheorems, FunctionTheorems, TLAPS

\* Induction over the natural numbers, for a set of them.
LEMMA Induct ==
    ASSUME NEW G \in SUBSET Nat, 0 \in G, \A n \in G : n + 1 \in G
    PROVE  Nat \subseteq G
<1>1. SUFFICES ASSUME NEW m \in Nat, m \notin G PROVE FALSE
    OBVIOUS
<1> DEFINE T == {1..k : k \in {j \in Nat \ G : j <= m}}
<1>2. T \subseteq FiniteSubsetsOf(1..m)
  <2>1. SUFFICES ASSUME NEW k \in Nat, k <= m PROVE 1..k \in FiniteSubsetsOf(1..m)
    OBVIOUS
  <2>2. IsFiniteSet(1..k)
    BY FS_Interval
  <2> QED
    BY <1>1, <2>1, <2>2, 1..k \subseteq 1..m DEF FiniteSubsetsOf
<1>3. IsWellFoundedOn(StrictSubsetOrdering(1..m), FiniteSubsetsOf(1..m))
    BY FS_StrictSubsetOrderingWellFounded
<1>4. 1..m \in T
    BY <1>1
<1> HIDE DEF T
<1>5. PICK x \in T : \A y \in T : ~ (<<y, x>> \in StrictSubsetOrdering(1..m))
    BY <1>2, <1>3, <1>4, WFMin
<1>6. PICK k \in Nat \ G : k <= m /\ x = 1..k
    BY <1>5 DEF T
<1>7. k # 0 /\ k - 1 \in Nat /\ k - 1 \notin G
    BY <1>6
<1>8. 1..(k - 1) \in T
    BY <1>6, <1>7 DEF T
<1>9. <<1..(k - 1), x>> \in StrictSubsetOrdering(1..m)
    BY <1>6, <1>7 DEF StrictSubsetOrdering
<1> QED
    BY <1>5, <1>8, <1>9

\* The least element of a set of natural numbers, and Min of it.
LEMMA HasLeast ==
    ASSUME NEW T \in SUBSET Nat, T # {}
    PROVE  Min(T) \in T /\ \A y \in T : Min(T) <= y
<1> DEFINE G == {n \in Nat : (\E y \in T : y <= n) => \E x \in T : \A y \in T : x <= y}
<1>1. 0 \in G
    OBVIOUS
<1>2. ASSUME NEW n \in G PROVE n + 1 \in G
  <2>1. SUFFICES ASSUME NEW y \in T, y <= n + 1, ~ \E x \in T : x <= n
                 PROVE  \E x \in T : \A z \in T : x <= z
    BY <1>2
  <2>2. \A z \in T : y <= z
    BY <1>2, <2>1
  <2> QED
    BY <2>2
<1> HIDE DEF G
<1>3. Nat \subseteq G
  <2>1. G \in SUBSET Nat BY DEF G
  <2> QED BY <1>1, <1>2, <2>1, Induct
<1>4. \E x \in T : \A y \in T : x <= y
  <2>1. PICK n \in T : TRUE
    OBVIOUS
  <2>2. n \in G /\ n \in Nat /\ n <= n
    BY <1>3, <2>1
  <2> QED
    BY <2>1, <2>2 DEF G
<1> QED
    BY <1>4 DEF Min

\* The greatest number of a set that has one.
LEMMA MaxIs ==
    ASSUME NEW s \in SUBSET Nat, NEW x \in s, \A y \in s : y <= x
    PROVE  Max(s) = x
<1>1. x \in s /\ \A y \in s : x >= y
    OBVIOUS
<1>2. Max(s) \in s /\ \A y \in s : Max(s) >= y
    BY <1>1 DEF Max
<1>3. Max(s) \in Nat /\ Max(s) >= x /\ x >= Max(s) /\ x \in Nat
    BY <1>1, <1>2
<1> QED
    BY <1>3

\* The greatest of some of the first k numbers is one of them.
LEMMA MaxIn ==
    ASSUME NEW k \in Nat, NEW s \in SUBSET (1..k), s # {}
    PROVE  Max(s) \in s
<1> DEFINE T == {k - x : x \in s}
<1>1. T \in SUBSET Nat /\ T # {}
  <2>1. \A x \in s : k - x \in Nat
    OBVIOUS
  <2> QED
    BY <2>1
<1>2. PICK x \in s : Min(T) = k - x
    BY <1>1, HasLeast
<1>3. \A y \in s : y <= x
  <2> TAKE y \in s
  <2>1. k - y \in T OBVIOUS
  <2>2. Min(T) <= k - y BY <1>1, <2>1, HasLeast
  <2> QED BY <1>2, <2>2
<1>4. s \in SUBSET Nat /\ x \in s
    OBVIOUS
<1> QED
    BY <1>3, <1>4, MaxIs

\* The greatest of the first k numbers is k.
LEMMA UpTo ==
    ASSUME NEW k \in Nat \ {0}
    PROVE  1..k # {} /\ Max(1..k) = k /\ (1..k) \ {k} = 1..(k - 1)
<1>1. 1..k \in SUBSET Nat /\ k \in 1..k
    OBVIOUS
<1>2. Max(1..k) = k
    BY <1>1, MaxIs
<1> QED
    BY <1>1, <1>2

(* g is the fold of O over the first n elements of a sequence, by the sets *)
(* of positions that are already folded (MapThenFoldSet).                  *)
IsFold(g, S, O, base, n, list) ==
    /\ g \in [SUBSET (1..n) -> S]
    /\ \A s \in SUBSET (1..n) :
          g[s] = IF s = {} THEN base ELSE O[<<g[s \ {Max(s)}], list[Max(s)]>>]

\* A fold over a sequence exists: there is a function for MapThenFoldSet to choose.
LEMMA FoldExists ==
    ASSUME NEW S, NEW E, NEW O \in [S \X E -> S], NEW base \in S,
           NEW n \in Nat, NEW list \in [1..n -> E]
    PROVE  \E g : IsFold(g, S, O, base, n, list)
<1> DEFINE Folds(k, g) == \A s \in SUBSET (1..k) :
              g[s] = IF s = {} THEN base ELSE O[<<g[s \ {Max(s)}], list[Max(s)]>>]
<1> DEFINE G == {k \in Nat : k <= n => \E g \in [SUBSET (1..k) -> S] : Folds(k, g)}
<1>1. 0 \in G
  <2>1. SUBSET (1..0) = {{}}
    OBVIOUS
  <2>2. [s \in SUBSET (1..0) |-> base] \in [SUBSET (1..0) -> S]
    OBVIOUS
  <2>3. Folds(0, [s \in SUBSET (1..0) |-> base])
    BY <2>1
  <2> QED
    BY <2>2, <2>3
<1>2. ASSUME NEW k \in G PROVE k + 1 \in G
  <2>0. SUFFICES ASSUME k + 1 <= n
                 PROVE  \E h \in [SUBSET (1..(k + 1)) -> S] : Folds(k + 1, h)
    <3>1. k \in Nat /\ k + 1 \in Nat
      BY <1>2
    <3> HIDE DEF Folds
    <3> QED
      BY <3>1
  <2>1. PICK g \in [SUBSET (1..k) -> S] : Folds(k, g)
    <3>1. k \in Nat /\ k <= n
      BY <1>2, <2>0
    <3> HIDE DEF Folds
    <3> QED
      BY <1>2, <3>1
  <2> DEFINE h == [s \in SUBSET (1..(k + 1)) |->
                     IF k + 1 \in s THEN O[<<g[s \ {k + 1}], list[k + 1]>>] ELSE g[s]]
  <2>2. ASSUME NEW s \in SUBSET (1..(k + 1)), k + 1 \in s
        PROVE  /\ Max(s) = k + 1 /\ h[s] \in S
               /\ h[s] = O[<<h[s \ {Max(s)}], list[Max(s)]>>]
    <3>1. s \in SUBSET Nat /\ \A y \in s : y <= k + 1
      BY <1>2
    <3>2. Max(s) = k + 1
      BY <2>2, <3>1, MaxIs
    <3>3. s \ {k + 1} \in SUBSET (1..k) /\ s \ {k + 1} \in SUBSET (1..(k + 1))
      BY <1>2
    <3>4. h[s \ {k + 1}] = g[s \ {k + 1}] /\ g[s \ {k + 1}] \in S
      BY <3>3
    <3>5. h[s] = O[<<g[s \ {k + 1}], list[k + 1]>>]
      BY <2>2
    <3>6. list[k + 1] \in E
      BY <1>2, <2>0
    <3>7. h[s] = O[<<h[s \ {k + 1}], list[k + 1]>>]
      BY <3>4, <3>5
    <3>8. O[<<g[s \ {k + 1}], list[k + 1]>>] \in S
      BY <3>4, <3>6
    <3> HIDE DEF h
    <3> QED
      BY <3>2, <3>5, <3>7, <3>8
  <2>3. ASSUME NEW s \in SUBSET (1..(k + 1)), k + 1 \notin s
        PROVE  /\ h[s] \in S
               /\ h[s] = IF s = {} THEN base ELSE O[<<h[s \ {Max(s)}], list[Max(s)]>>]
    <3>1. s \in SUBSET (1..k)
      BY <1>2, <2>3
    <3>2. h[s] = g[s] /\ g[s] \in S
      BY <2>3, <3>1
    <3>3. s \ {Max(s)} \in SUBSET (1..k) /\ s \ {Max(s)} \in SUBSET (1..(k + 1))
      BY <3>1
    <3>4. h[s \ {Max(s)}] = g[s \ {Max(s)}]
      BY <2>3, <3>3
    <3>5. g[s] = IF s = {} THEN base ELSE O[<<g[s \ {Max(s)}], list[Max(s)]>>]
      BY <2>1, <3>1
    <3> QED
      BY <3>2, <3>4, <3>5
  <2> HIDE DEF h
  <2>4. h \in [SUBSET (1..(k + 1)) -> S]
    <3>1. \A s \in SUBSET (1..(k + 1)) : h[s] \in S
      BY <2>2, <2>3
    <3> QED BY <3>1 DEF h
  <2>5. Folds(k + 1, h)
    BY <2>2, <2>3
  <2> QED
    BY <2>4, <2>5
<1>3. n \in G
  <2>1. G \in SUBSET Nat
    OBVIOUS
  <2> HIDE DEF G
  <2> QED
    BY <1>1, <1>2, <2>1, Induct
<1>4. n <= n
    OBVIOUS
<1>5. \E g \in [SUBSET (1..n) -> S] : Folds(n, g)
  <2> HIDE DEF Folds
  <2> QED
    BY <1>3, <1>4
<1> QED
    BY <1>5 DEF IsFold

\* What holds of the first value of a fold and is kept by each step holds of every value.
LEMMA TraceTyped ==
    ASSUME NEW S, NEW n \in Nat, NEW r, r[0] \in S, \A k \in 1..n : r[k - 1] \in S => r[k] \in S
    PROVE  \A k \in 0..n : r[k] \in S
<1> DEFINE G == {k \in Nat : k <= n => r[k] \in S}
<1>1. 0 \in G
    OBVIOUS
<1>2. ASSUME NEW k \in G PROVE k + 1 \in G
  <2>1. k \in Nat /\ (k <= n => r[k] \in S)
    BY <1>2
  <2>2. SUFFICES ASSUME k + 1 <= n PROVE r[k + 1] \in S
    BY <2>1
  <2>3. k + 1 \in 1..n /\ (k + 1) - 1 = k /\ r[k] \in S
    BY <2>1, <2>2
  <2> QED
    BY <2>3
<1>3. G \in SUBSET Nat
    OBVIOUS
<1> HIDE DEF G
<1>4. Nat \subseteq G
    BY <1>1, <1>2, <1>3, Induct
<1> QED
    BY <1>4 DEF G

(* The same, for a reader who looks at it set by set.                      *)
Folding(g, S, E, O, base, n, list) ==
    /\ g \in [SUBSET (1..n) -> S] /\ g[{}] = base
    /\ \A t \in SUBSET (1..n) : t # {} =>
          /\ g[t \ {Max(t)}] \in S /\ list[Max(t)] \in E
          /\ g[t] = O[<<g[t \ {Max(t)}], list[Max(t)]>>]

\* The function FoldExists gives has typed arguments at every step.
LEMMA FoldSteps ==
    ASSUME NEW S, NEW E, NEW O \in [S \X E -> S], NEW base \in S,
           NEW n \in Nat, NEW list \in [1..n -> E]
    PROVE  \E g : Folding(g, S, E, O, base, n, list)
<1>1. PICK g : IsFold(g, S, O, base, n, list)
    BY FoldExists
<1>2. g \in [SUBSET (1..n) -> S] /\ g[{}] = base
    BY <1>1 DEF IsFold
<1>3. ASSUME NEW t \in SUBSET (1..n), t # {}
      PROVE  /\ g[t \ {Max(t)}] \in S /\ list[Max(t)] \in E
             /\ g[t] = O[<<g[t \ {Max(t)}], list[Max(t)]>>]
  <2>1. t \ {Max(t)} \in SUBSET (1..n)
    OBVIOUS
  <2>2. Max(t) \in 1..n
    BY <1>3, MaxIn
  <2> QED
    BY <1>1, <1>3, <2>1, <2>2 DEF IsFold
<1> QED
    BY <1>2, <1>3 DEF Folding

\* A fold stays where its steps stay.
LEMMA FoldStays ==
    ASSUME NEW S, NEW n \in Nat, NEW g, g[{}] \in S,
           \A t \in SUBSET (1..n) : t # {} /\ g[t \ {Max(t)}] \in S => g[t] \in S
    PROVE  g[1..n] \in S
<1> DEFINE r == [k \in 0..n |-> g[1..k]]
<1>1. r[0] \in S
    BY 1..0 = {}
<1>2. ASSUME NEW k \in 1..n, r[k - 1] \in S PROVE r[k] \in S
  <2>1. 1..k # {} /\ Max(1..k) = k /\ (1..k) \ {k} = 1..(k - 1)
    <3>1. k \in Nat \ {0}
      OBVIOUS
    <3> QED
      BY <3>1, UpTo
  <2>2. 1..k \in SUBSET (1..n) /\ k \in 0..n /\ k - 1 \in 0..n
    OBVIOUS
  <2>3. r[k] = g[1..k] /\ r[k - 1] = g[1..(k - 1)]
    BY <2>2
  <2>4. PICK t \in SUBSET (1..n) : t = 1..k
    BY <2>2
  <2>5. t # {} /\ t \ {Max(t)} = 1..(k - 1)
    BY <2>1, <2>4
  <2> HIDE DEF r
  <2>6. g[t \ {Max(t)}] \in S
    BY <1>2, <2>3, <2>5
  <2>7. g[t] \in S
    BY <2>5, <2>6
  <2> QED
    BY <2>3, <2>4, <2>7
<1>3. r[n] = g[1..n] /\ n \in 0..n
    OBVIOUS
<1> HIDE DEF r
<1>4. \A k \in 0..n : r[k] \in S
    BY <1>1, <1>2, TraceTyped
<1> QED
    BY <1>3, <1>4

\* A concatenation has the elements of both.
LEMMA ConcatKeeps ==
    ASSUME NEW S, NEW s \in Seq(S), NEW t \in Seq(S)
    PROVE  /\ s \o t \in Seq(S) /\ Len(s \o t) = Len(s) + Len(t)
           /\ ToSet(s) \subseteq ToSet(s \o t) /\ ToSet(t) \subseteq ToSet(s \o t)
           /\ \A i \in 1..Len(s) : (s \o t)[i] = s[i]
           /\ \A i \in 1..Len(t) : (s \o t)[Len(s) + i] = t[i]
<1>1. /\ s \o t \in Seq(S) /\ Len(s \o t) = Len(s) + Len(t)
      /\ \A i \in 1..Len(s) : (s \o t)[i] = s[i]
    OBVIOUS
<1>2. \A i \in 1..Len(t) : (s \o t)[Len(s) + i] = t[i]
    OBVIOUS
<1>3. /\ \A i \in 1..Len(s) : i \in 1..Len(s \o t)
      /\ \A i \in 1..Len(t) : Len(s) + i \in 1..Len(s \o t)
    BY <1>1
<1>4. /\ DOMAIN s = 1..Len(s) /\ DOMAIN t = 1..Len(t) /\ DOMAIN (s \o t) = 1..Len(s \o t)
    BY <1>1
<1> QED
    BY <1>1, <1>2, <1>3, <1>4 DEF ToSet

(* g sums what v gives to the elements of S, one chosen element after the  *)
(* other (MapThenSumSet).                                                  *)
OneOf(s) == CHOOSE x \in s : TRUE
IsSum(g, S, v) ==
    g = [s \in SUBSET S |-> IF s = {} THEN 0 ELSE v[OneOf(s)] + g[s \ {OneOf(s)}]]

\* The sum of a finite set exists: there is a function for MapThenSumSet to choose.
LEMMA SumExists ==
    ASSUME NEW S, IsFiniteSet(S), NEW v
    PROVE  \E g : IsSum(g, S, v)
<1> DEFINE Rest(g, s) == IF s = {} THEN 0 ELSE v[OneOf(s)] + g[s \ {OneOf(s)}]
           Sums(k, g) == DOMAIN g = SUBSET S /\ \A s \in SUBSET S : Cardinality(s) <= k => g[s] = Rest(g, s)
           G == {k \in Nat : \E g : Sums(k, g)}
<1>0. \A s \in SUBSET S : IsFiniteSet(s) /\ Cardinality(s) \in Nat /\ Cardinality(s) <= Cardinality(S)
                          /\ (Cardinality(s) = 0 <=> s = {})
    BY FS_Subset, FS_CardinalityType, FS_EmptySet
<1>1. 0 \in G
  <2> DEFINE g == [s \in SUBSET S |-> 0]
  <2>1. Sums(0, g)
      BY <1>0
  <2> QED
      BY <2>1
<1>2. ASSUME NEW k \in G PROVE k + 1 \in G
  <2>1. PICK g : Sums(k, g)
      BY <1>2
  <2>2. k \in Nat
      BY <1>2
  <2> DEFINE h == [s \in SUBSET S |-> IF Cardinality(s) <= k THEN g[s] ELSE Rest(g, s)]
  <2>3. ASSUME NEW s \in SUBSET S, Cardinality(s) <= k + 1 PROVE h[s] = Rest(h, s)
    <3>1. CASE s = {}
        BY <1>0, <2>1, <2>2, <3>1
    <3>2. CASE s # {}
      <4>1. OneOf(s) \in s
          BY <3>2 DEF OneOf
      <4> DEFINE r == s \ {OneOf(s)}
      <4>2. r \in SUBSET S /\ Cardinality(r) = Cardinality(s) - 1
          BY <1>0, <2>3, <4>1, FS_RemoveElement
      <4>3. Cardinality(r) <= k /\ Cardinality(r) \in Nat
          BY <1>0, <2>2, <2>3, <4>2
      <4>4. h[r] = g[r]
          BY <4>2, <4>3
      <4>5. h[s] = Rest(g, s)
        <5>1. CASE Cardinality(s) <= k
            BY <2>1, <5>1
        <5>2. CASE ~(Cardinality(s) <= k)
            BY <5>2
        <5> QED
            BY <5>1, <5>2
      <4> QED
          BY <3>2, <4>4, <4>5
    <3> QED
        BY <3>1, <3>2
  <2>4. Sums(k + 1, h)
      BY <2>3
  <2> HIDE DEF Sums, h
  <2> QED
      BY <2>2, <2>4
<1>3. G \in SUBSET Nat
    OBVIOUS
<1> HIDE DEF G
<1>4. Nat \subseteq G
    BY <1>1, <1>2, <1>3, Induct
<1>5. PICK g : Sums(Cardinality(S), g)
  <2>1. Cardinality(S) \in Nat
      BY FS_CardinalityType
  <2>2. Cardinality(S) \in G
      BY <1>4, <2>1
  <2> QED
      BY <2>2 DEF G
<1> DEFINE h == [s \in SUBSET S |-> g[s]]
<1>6. \A s \in SUBSET S : h[s] = Rest(h, s)
  <2> SUFFICES ASSUME NEW s \in SUBSET S PROVE h[s] = Rest(h, s)
      OBVIOUS
  <2>1. g[s] = Rest(g, s)
      BY <1>0, <1>5
  <2>2. s \ {OneOf(s)} \in SUBSET S
      OBVIOUS
  <2> QED
      BY <2>1, <2>2
<1> HIDE DEF Rest
<1>7. h = [s \in SUBSET S |-> Rest(h, s)]
    BY <1>6
<1> QED
    BY <1>7 DEF IsSum, Rest

\* The sum of numbers is a number.
LEMMA SumTyped ==
    ASSUME NEW S, IsFiniteSet(S), NEW v, \A x \in S : v[x] \in Int, NEW g, IsSum(g, S, v)
    PROVE  g[S] \in Int
<1> DEFINE G == {k \in Nat : \A s \in SUBSET S : Cardinality(s) = k => g[s] \in Int}
<1>0. \A s \in SUBSET S : IsFiniteSet(s) /\ Cardinality(s) \in Nat /\ (Cardinality(s) = 0 <=> s = {})
    BY FS_Subset, FS_CardinalityType, FS_EmptySet
<1>1. \A s \in SUBSET S : g[s] = IF s = {} THEN 0 ELSE v[OneOf(s)] + g[s \ {OneOf(s)}]
    BY DEF IsSum
<1>2. 0 \in G
    BY <1>0, <1>1
<1>3. ASSUME NEW k \in G PROVE k + 1 \in G
  <2>1. SUFFICES ASSUME NEW s \in SUBSET S, Cardinality(s) = k + 1 PROVE g[s] \in Int
      BY <1>3
  <2>2. s # {} /\ k \in Nat
      BY <1>0, <1>3, <2>1
  <2>3. OneOf(s) \in s
      BY <2>2 DEF OneOf
  <2> DEFINE r == s \ {OneOf(s)}
  <2>4. r \in SUBSET S /\ Cardinality(r) = k
    <3>1. IsFiniteSet(s) /\ Cardinality(r) = Cardinality(s) - 1
        BY <1>0, <2>3, FS_RemoveElement
    <3> QED
        BY <2>1, <2>2, <3>1
  <2>5. g[r] \in Int /\ v[OneOf(s)] \in Int
      BY <1>3, <2>3, <2>4
  <2>6. g[s] = v[OneOf(s)] + g[r]
      BY <1>1, <2>2
  <2> QED
      BY <2>5, <2>6
<1>4. G \in SUBSET Nat
    OBVIOUS
<1> HIDE DEF G
<1>5. Nat \subseteq G
    BY <1>2, <1>3, <1>4, Induct
<1>6. S \in SUBSET S /\ Cardinality(S) \in Nat
    BY <1>0
<1> QED
    BY <1>5, <1>6 DEF G
=============================================================================
