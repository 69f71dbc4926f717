---------------------------- MODULE LeastNumber ----------------------------
(***************************************************************************)
(* Facts about sets of natural numbers that the proofs use wherever a      *)
(* definition picks the first slot, run or event with CHOOSE, and what     *)
(* recursion over an interval defines.                                     *)
(***************************************************************************)
EXTENDS Integers, FiniteSets, FiniteSetTheorems, WellFoundedInduction, TLAPS

\* A set of natural numbers that is not empty has a least element.
LEMMA Minimum ==
  ASSUME NEW T \in SUBSET Nat, T # {}
  PROVE  \E x \in T : \A y \in T : x <= y
<1>1. IsWellFoundedOn(OpToRel(<, Nat), Nat)
  BY NatLessThanWellFounded
<1>2. PICK x \in T : \A y \in T : ~ (<<y, x>> \in OpToRel(<, Nat))
  BY <1>1, WFMin
<1>3. \A y \in T : y < x => <<y, x>> \in OpToRel(<, Nat)
  BY DEF OpToRel
<1>4. \A y \in T : y \in Nat /\ x \in Nat
  OBVIOUS
<1>5. \A y \in T : ~ (y < x)
  BY <1>2, <1>3
<1>6. \A y \in T : x <= y
  BY <1>4, <1>5
<1> QED
  BY <1>6

\* A set of numbers below a bound that is not empty has a greatest element.
LEMMA Maximum ==
  ASSUME NEW b \in Nat, NEW T \in SUBSET (0 .. b), T # {}
  PROVE  \E x \in T : \A y \in T : y <= x
<1> DEFINE Over == {x \in 0 .. b : \A y \in T : y <= x}
<1>1. b \in Over /\ Over \in SUBSET Nat
  OBVIOUS
<1>2. PICK x \in Over : \A y \in Over : x <= y
  <2> HIDE DEF Over
  <2> QED
    BY <1>1, Minimum
<1>3. x \in 0 .. b /\ x \in Int /\ \A y \in T : y <= x /\ y \in 0 .. b
  BY <1>2
<1>4. x \in T
  <2> SUFFICES ASSUME x \notin T
               PROVE  FALSE
    OBVIOUS
  <2>1. \A y \in T : y <= x - 1
    BY <1>3
  <2>2. PICK y \in T : y <= x - 1 /\ y \in 0 .. b
    BY <1>3, <2>1
  <2>3. x - 1 \in 0 .. b
    BY <1>3, <2>2
  <2>4. x <= x - 1
    BY <1>2, <2>1, <2>3
  <2> QED
    BY <1>3, <2>4
<1> QED
  BY <1>3, <1>4

\* A finite set of numbers has an element of every rank.
LEMMA RankExists ==
  ASSUME NEW b \in Nat, NEW ps \in SUBSET (0 .. b),
         NEW i \in 1 .. Cardinality(ps)
  PROVE  \E q \in ps : Cardinality({r \in ps : r <= q}) = i
<1> DEFINE UpTo(k) == {r \in ps : r <= k}
           Reach == {k \in Nat : Cardinality(UpTo(k)) >= i}
<1>0. /\ i \in Int
      /\ \A r \in ps : r \in Int /\ 0 <= r /\ r <= b
  OBVIOUS
<1>1. IsFiniteSet(ps) /\ Cardinality(ps) \in Nat
  <2>1. IsFiniteSet(0 .. b)
    BY FS_Interval
  <2>2. IsFiniteSet(ps)
    BY <2>1, FS_Subset
  <2> QED
    BY <2>2, FS_CardinalityType
<1>2. \A k : IsFiniteSet(UpTo(k)) /\ Cardinality(UpTo(k)) \in Nat
  <2> SUFFICES ASSUME NEW k
               PROVE  IsFiniteSet(UpTo(k)) /\ Cardinality(UpTo(k)) \in Nat
    OBVIOUS
  <2>1. UpTo(k) \in SUBSET ps
    OBVIOUS
  <2>2. IsFiniteSet(UpTo(k))
    BY <1>1, <2>1, FS_Subset
  <2> QED
    BY <2>2, FS_CardinalityType
<1>3. b \in Reach
  <2>1. UpTo(b) = ps
    BY <1>0
  <2> QED
    BY <1>1, <2>1
<1>4. PICK k \in Reach : \A y \in Reach : k <= y
  <2>1. Reach \in SUBSET Nat /\ Reach # {}
    BY <1>3
  <2> HIDE DEF Reach
  <2> QED
    BY <2>1, Minimum
<1>5. k \in Nat /\ Cardinality(UpTo(k)) >= i
  BY <1>4
<1>6. k - 1 \in Nat => Cardinality(UpTo(k - 1)) < i
  <2> SUFFICES ASSUME k - 1 \in Nat, ~ (Cardinality(UpTo(k - 1)) < i)
               PROVE  FALSE
    OBVIOUS
  <2>1. Cardinality(UpTo(k - 1)) \in Nat
    BY <1>2
  <2>2. k - 1 \in Reach
    BY <1>0, <2>1
  <2>3. k <= k - 1
    BY <1>4, <2>2
  <2> QED
    BY <1>5, <2>3
<1>7. UpTo(k - 1) = {} \/ k - 1 \in Nat
  <2>1. k \in Nat
    BY <1>5
  <2>2. CASE k = 0
    <3>1. k - 1 = -1
      BY <2>2
    <3>2. \A r \in ps : ~ (r <= -1)
      BY <1>0
    <3> QED
      BY <3>1, <3>2
  <2>3. CASE k # 0
    BY <2>1, <2>3
  <2> QED
    BY <2>2, <2>3
<1>8. Cardinality(UpTo(k - 1)) < i
  <2>1. Cardinality({}) < i
    BY <1>1, FS_EmptySet
  <2> QED
    BY <1>6, <1>7, <2>1
<1>9. k \in ps
  <2> SUFFICES ASSUME k \notin ps
               PROVE  FALSE
    OBVIOUS
  <2>1. \A r \in ps : r <= k <=> r <= k - 1
    BY <1>0, <1>5
  <2>2. UpTo(k) = UpTo(k - 1)
    BY <2>1
  <2> HIDE DEF UpTo
  <2> QED
    BY <1>0, <1>5, <1>8, <2>2, <1>2
<1>10. Cardinality(UpTo(k)) = Cardinality(UpTo(k - 1)) + 1
  <2>0. \A r \in ps : r <= k <=> r <= k - 1 \/ r = k
    BY <1>0, <1>5
  <2>1. UpTo(k) = UpTo(k - 1) \cup {k} /\ k \notin UpTo(k - 1)
    <3>1. ~ (k <= k - 1) /\ k <= k
      BY <1>5
    <3> QED
      BY <1>9, <2>0, <3>1
  <2> HIDE DEF UpTo
  <2> QED
    BY <1>2, <2>1, FS_AddElement
<1>11. Cardinality(UpTo(k)) = i
  <2> HIDE DEF UpTo
  <2> QED
    BY <1>1, <1>2, <1>5, <1>8, <1>10
<1> QED
  BY <1>9, <1>11

\* The i-th of a set of numbers.
AtRank(ps, i) == CHOOSE q \in ps : Cardinality({r \in ps : r <= q}) = i

HasRank(ps, i, q) == q \in ps /\ Cardinality({r \in ps : r <= q}) = i

\* Every rank belongs to one element.
LEMMA RankIsOne ==
  ASSUME NEW b \in Nat, NEW ps \in SUBSET (0 .. b),
         NEW i \in 1 .. Cardinality(ps)
  PROVE  /\ HasRank(ps, i, AtRank(ps, i))
         /\ \A q : HasRank(ps, i, q) => q = AtRank(ps, i)
<1> DEFINE UpTo(q) == {r \in ps : r <= q}
<1>1. \E q \in ps : Cardinality({r \in ps : r <= q}) = i
  BY RankExists
<1>2. HasRank(ps, i, AtRank(ps, i))
  BY <1>1 DEF HasRank, AtRank
<1>3. IsFiniteSet(ps)
  <2>1. IsFiniteSet(0 .. b)
    <3>1. 0 \in Int /\ b \in Int
      OBVIOUS
    <3> QED
      BY <3>1, FS_Interval, Zenon
  <2> QED
    BY <2>1, FS_Subset
<1>4. ASSUME NEW p \in ps, NEW q \in ps, p < q, Cardinality(UpTo(p)) = i,
             Cardinality(UpTo(q)) = i
      PROVE  FALSE
  <2>1. \A r \in ps : r \in Int
    OBVIOUS
  <2>2. UpTo(p) \in SUBSET UpTo(q) /\ UpTo(q) \in SUBSET ps
    <3>1. \A r \in ps : r <= p => r <= q
      BY <1>4, <2>1
    <3> QED
      BY <3>1
  <2>3. q \in UpTo(q) /\ q \notin UpTo(p)
    BY <1>4, <2>1
  <2> DEFINE P == UpTo(p)
             Q == UpTo(q)
  <2>4. P \in SUBSET Q /\ Q \in SUBSET ps /\ P # Q /\ Cardinality(P) = Cardinality(Q)
    BY <1>4, <2>2, <2>3
  <2> HIDE DEF P, Q
  <2>5. IsFiniteSet(Q)
    BY <1>3, <2>4, FS_Subset
  <2> QED
    BY <2>4, <2>5, FS_Subset
<1>5. ASSUME NEW p \in ps, NEW q \in ps, Cardinality(UpTo(p)) = i,
             Cardinality(UpTo(q)) = i
      PROVE  p = q
  <2>1. p \in Int /\ q \in Int
    OBVIOUS
  <2>2. ~(p < q) /\ ~(q < p)
    BY <1>4, <1>5
  <2> QED
    BY <2>1, <2>2
<1> QED
  BY <1>2, <1>5 DEF HasRank

\* Moving a set of numbers moves its elements and keeps their ranks.
LEMMA RanksMove ==
  ASSUME NEW b \in Nat, NEW ps \in SUBSET (0 .. b), NEW d \in Int,
         NEW e \in Nat, NEW qs \in SUBSET (0 .. e), qs = {p + d : p \in ps}
  PROVE  /\ Cardinality(qs) = Cardinality(ps)
         /\ \A i \in 1 .. Cardinality(ps) : AtRank(qs, i) = AtRank(ps, i) + d
<1>0. \A r \in ps : r \in Int
  OBVIOUS
<1>1. IsFiniteSet(ps)
  <2>1. IsFiniteSet(0 .. b)
    <3>1. 0 \in Int /\ b \in Int
      OBVIOUS
    <3> QED
      BY <3>1, FS_Interval, Zenon
  <2> QED
    BY <2>1, FS_Subset
<1>2. ASSUME NEW S \in SUBSET ps
      PROVE  Cardinality({p + d : p \in S}) = Cardinality(S)
  <2> DEFINE T == {p + d : p \in S}
             f == [p \in S |-> p + d]
  <2>1. f \in [S -> T] /\ \A p \in S : f[p] = p + d
    OBVIOUS
  <2>2. \A p, q \in S : f[p] = f[q] => p = q
    BY <1>0, <2>1
  <2>3. \A t \in T : \E s \in S : f[s] = t
    BY <2>1
  <2>4. f \in Bijection(S, T)
    <3> HIDE DEF f, T
    <3> QED
      BY <2>1, <2>2, <2>3 DEF Bijection, Injection, Surjection, IsInjective
  <2> HIDE DEF f, T
  <2>5. ExistsBijection(S, T)
    BY <2>4 DEF ExistsBijection
  <2>6. IsFiniteSet(S)
    BY <1>1, FS_Subset
  <2>7. Cardinality(T) = Cardinality(S)
    BY <2>5, <2>6, FS_Bijection
  <2> QED
    BY <2>7 DEF T
<1>3. Cardinality(qs) = Cardinality(ps)
  BY <1>2
<1>4. ASSUME NEW i \in 1 .. Cardinality(ps)
      PROVE  AtRank(qs, i) = AtRank(ps, i) + d
  <2>1. PICK q : q = AtRank(ps, i)
    OBVIOUS
  <2>0. HasRank(ps, i, q)
    BY <2>1, RankIsOne, Zenon
  <2>2. q \in ps /\ Cardinality({r \in ps : r <= q}) = i
    BY <2>0 DEF HasRank
  <2>3. {r \in qs : r <= q + d} = {p + d : p \in {r \in ps : r <= q}}
    <3>1. \A r \in ps : r + d <= q + d <=> r <= q
      BY <1>0, <2>2
    <3> QED
      BY <3>1
  <2>4. Cardinality({r \in qs : r <= q + d}) = i
    <3> DEFINE S == {r \in ps : r <= q}
    <3>1. S \in SUBSET ps
      OBVIOUS
    <3>2. Cardinality({p + d : p \in S}) = Cardinality(S)
      BY <1>2, <3>1
    <3> QED
      BY <2>2, <2>3, <3>2
  <2>5. HasRank(qs, i, q + d)
    BY <2>2, <2>4 DEF HasRank
  <2>6. i \in 1 .. Cardinality(qs)
    BY <1>3
  <2> QED
    BY <2>1, <2>5, <2>6, RankIsOne
<1> QED
  BY <1>3, <1>4

\* Taking the greatest element away keeps the ranks of the others.
LEMMA RanksKept ==
  ASSUME NEW b \in Nat, NEW ps \in SUBSET (0 .. b), NEW m \in ps,
         \A p \in ps : p <= m
  PROVE  /\ Cardinality(ps) \in Nat \ {0}
         /\ Cardinality(ps \ {m}) = Cardinality(ps) - 1
         /\ \A i \in 1 .. Cardinality(ps) - 1 : AtRank(ps \ {m}, i) = AtRank(ps, i)
<1>0. \A r \in ps : r \in Int
  OBVIOUS
<1>1. IsFiniteSet(ps) /\ Cardinality(ps) \in Nat
  <2>1. IsFiniteSet(0 .. b)
    <3>1. 0 \in Int /\ b \in Int
      OBVIOUS
    <3> QED
      BY <3>1, FS_Interval, Zenon
  <2>2. IsFiniteSet(ps)
    BY <2>1, FS_Subset
  <2> QED
    BY <2>2, FS_CardinalityType
<1>2. Cardinality(ps) # 0
  BY <1>1, FS_EmptySet
<1>3. Cardinality(ps \ {m}) = Cardinality(ps) - 1
  BY <1>1, FS_RemoveElement
<1>4. ASSUME NEW i \in 1 .. Cardinality(ps) - 1
      PROVE  AtRank(ps \ {m}, i) = AtRank(ps, i)
  <2>1. PICK q : q = AtRank(ps, i)
    OBVIOUS
  <2>2. i \in 1 .. Cardinality(ps) /\ i # Cardinality(ps)
    BY <1>1
  <2>0. HasRank(ps, i, q)
    BY <2>1, <2>2, RankIsOne, Zenon
  <2>3. q \in ps /\ Cardinality({r \in ps : r <= q}) = i
    BY <2>0 DEF HasRank
  <2>4. q # m
    <3>1. {r \in ps : r <= m} = ps
      OBVIOUS
    <3> QED
      BY <2>2, <2>3, <3>1
  <2>5. {r \in ps \ {m} : r <= q} = {r \in ps : r <= q}
    <3>1. ~(m <= q)
      BY <1>0, <2>3, <2>4
    <3> QED
      BY <3>1
  <2>6. HasRank(ps \ {m}, i, q)
    BY <2>3, <2>4, <2>5 DEF HasRank
  <2>7. i \in 1 .. Cardinality(ps \ {m})
    BY <1>3
  <2>8. ps \ {m} \in SUBSET (0 .. b)
    OBVIOUS
  <2>9. q = AtRank(ps \ {m}, i)
    <3> DEFINE qs == ps \ {m}
    <3>1. qs \in SUBSET (0 .. b) /\ i \in 1 .. Cardinality(qs) /\ HasRank(qs, i, q)
      BY <2>6, <2>7, <2>8
    <3> HIDE DEF qs
    <3>2. q = AtRank(qs, i)
      BY <3>1, RankIsOne
    <3> QED
      BY <3>2 DEF qs
  <2> QED
    BY <2>1, <2>9
<1> QED
  BY <1>1, <1>2, <1>3, <1>4

\* What holds at the start and passes from each step to the next holds at every
\* step.
LEMMA StepsStay ==
  ASSUME NEW N \in Nat, NEW S, NEW f, f[0] \in S,
         \A k \in 1 .. N : f[k - 1] \in S => f[k] \in S
  PROVE  \A k \in 0 .. N : f[k] \in S
<1> DEFINE Bad == {k \in 0 .. N : f[k] \notin S}
<1> SUFFICES ASSUME Bad # {}
             PROVE  FALSE
  OBVIOUS
<1>1. PICK x \in Bad : \A y \in Bad : x <= y
  <2>1. Bad \in SUBSET Nat
    OBVIOUS
  <2> HIDE DEF Bad
  <2> QED
    BY <2>1, Minimum
<1>2. x \in 0 .. N /\ f[x] \notin S /\ x \in Int
  OBVIOUS
<1>3. x # 0
  BY <1>2
<1>4. x \in 1 .. N /\ x - 1 \in 0 .. N /\ ~(x <= x - 1)
  BY <1>2, <1>3
<1>5. x - 1 \notin Bad
  BY <1>1, <1>4
<1>6. f[x - 1] \in S
  BY <1>4, <1>5
<1> QED
  BY <1>2, <1>4, <1>6

\* A function is defined by its first value and a step from each value to the
\* next.
HasRun(N, S, a, g) ==
  \E f \in [0 .. N -> S] : f[0] = a /\ \A k \in 1 .. N : f[k] = g[k][f[k - 1]]

LEMMA RecursionDefines ==
  ASSUME NEW N \in Nat, NEW S, NEW a \in S, NEW g \in [1 .. N -> [S -> S]]
  PROVE  HasRun(N, S, a, g)
<1> DEFINE Runs(f, n) == f[0] = a /\ \A k \in 1 .. n : f[k] = g[k][f[k - 1]]
           Bad == {n \in 0 .. N : ~ \E f \in [0 .. n -> S] : Runs(f, n)}
<1> SUFFICES ASSUME Bad # {}
             PROVE  FALSE
  <2>1. N \in 0 .. N
    OBVIOUS
  <2>2. N \notin Bad => \E f \in [0 .. N -> S] : Runs(f, N)
    BY <2>1
  <2> HIDE DEF Bad
  <2> QED
    BY <2>2 DEF Runs, HasRun
<1>1. PICK x \in Bad : \A y \in Bad : x <= y
  <2>1. Bad \in SUBSET Nat
    OBVIOUS
  <2> HIDE DEF Bad
  <2> QED
    BY <2>1, Minimum
<1>2. x \in 0 .. N /\ x \in Int /\ ~ \E f \in [0 .. x -> S] : Runs(f, x)
  OBVIOUS
<1>3. x # 0
  <2> SUFFICES ASSUME x = 0
               PROVE  \E f \in [0 .. 0 -> S] : Runs(f, 0)
    BY <1>2
  <2> DEFINE f == [k \in 0 .. 0 |-> a]
  <2>1. f \in [0 .. 0 -> S] /\ f[0] = a
    OBVIOUS
  <2>2. Runs(f, 0)
    BY <2>1
  <2> QED
    BY <2>1, <2>2
<1>4. x - 1 \in 0 .. N /\ ~(x <= x - 1) /\ x \in 1 .. N
  BY <1>2, <1>3
<1>5. x - 1 \notin Bad
  BY <1>1, <1>4
<1>6. PICK f \in [0 .. x - 1 -> S] : Runs(f, x - 1)
  BY <1>4, <1>5
<1> DEFINE h == [k \in 0 .. x |-> IF k = x THEN g[x][f[x - 1]] ELSE f[k]]
<1>7. f[x - 1] \in S /\ g[x] \in [S -> S]
  BY <1>2, <1>4
<1>8. g[x][f[x - 1]] \in S
  BY <1>7
<1>9. \A k \in 0 .. x : k = x \/ k \in 0 .. x - 1
  BY <1>2
<1>10. h \in [0 .. x -> S] /\ h[x] = g[x][f[x - 1]] /\ \A k \in 0 .. x - 1 : h[k] = f[k]
  BY <1>2, <1>8, <1>9
<1>11. Runs(h, x)
  <2>1. h[0] = a
    BY <1>4, <1>6, <1>10
  <2>2. ASSUME NEW k \in 1 .. x
        PROVE  h[k] = g[k][h[k - 1]]
    <3>1. k - 1 \in 0 .. x - 1 /\ (k = x \/ k \in 1 .. x - 1)
      BY <1>2
    <3>2. h[k - 1] = f[k - 1]
      BY <1>10, <3>1
    <3>3. CASE k = x
      BY <1>10, <3>2, <3>3
    <3>4. CASE k \in 1 .. x - 1
      <4>1. h[k] = f[k] /\ f[k] = g[k][f[k - 1]]
        BY <1>6, <1>10, <3>4
      <4> QED
        BY <3>2, <4>1
    <3> QED
      BY <3>1, <3>3, <3>4
  <2> HIDE DEF h
  <2> QED
    BY <2>1, <2>2
<1> QED
  BY <1>2, <1>10, <1>11

\* What holds of 0 and passes from each number to the next holds of every
\* number of an interval.
LEMMA EveryStep ==
  ASSUME NEW N \in Nat, NEW P, 0 \in P, \A k \in 1 .. N : k - 1 \in P => k \in P
  PROVE  \A k \in 0 .. N : k \in P
<1> DEFINE f == [k \in 0 .. N |-> k]
<1>1. f[0] \in P /\ \A k \in 0 .. N : f[k] = k
  OBVIOUS
<1>2. \A k \in 1 .. N : k \in 0 .. N /\ k - 1 \in 0 .. N
  OBVIOUS
<1>3. \A k \in 1 .. N : f[k - 1] \in P => f[k] \in P
  BY <1>1, <1>2
<1> HIDE DEF f
<1>4. \A k \in 0 .. N : f[k] \in P
  BY <1>1, <1>3, StepsStay
<1> QED
  BY <1>1, <1>4
=============================================================================
