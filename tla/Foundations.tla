---------------------------- MODULE Foundations ----------------------------
(***************************************************************************)
(* What the proofs about data rest on: induction over numbers and over     *)
(* finite sets, as facts about sets; recursion over an interval, as a fact *)
(* about functions; division; and the order of a finite set.               *)
(***************************************************************************)
EXTENDS Ordering, FiniteSetTheorems, FunctionTheorems, WellFoundedInduction, TLAPS

-----------------------------------------------------------------------------
(* Induction and recursion                                                  *)

\* A set of numbers that is not empty has a least one: the intervals up to its members are finite sets,
\* and inclusion among these is well founded.
LEMMA LeastNat ==
    ASSUME NEW T \in SUBSET Nat, T # {}
    PROVE  \E m \in T : \A k \in T : m <= k
<1>1. IsWellFoundedOn(StrictSubsetOrdering(Nat), FiniteSubsetsOf(Nat))
    BY FS_StrictSubsetOrderingWellFounded
<1> DEFINE F == {0 .. k : k \in T}
<1>2. F \subseteq FiniteSubsetsOf(Nat)
    <2>1. \A k \in T : IsFiniteSet(0 .. k) /\ 0 .. k \subseteq Nat
        BY FS_Interval
    <2>2. QED
        BY <2>1 DEF FiniteSubsetsOf
<1>3. F # {}
    OBVIOUS
<1>4. PICK X \in F : \A Y \in F : ~ (<<Y, X>> \in StrictSubsetOrdering(Nat))
    <2> HIDE DEF F
    <2> QED
        BY <1>1, <1>2, <1>3, WFMin
<1>5. PICK m \in T : X = 0 .. m
    OBVIOUS
<1>6. ASSUME NEW k \in T, ~(m <= k) PROVE FALSE
    <2>1. 0 .. k \in F
        OBVIOUS
    <2>2. 0 .. k \subseteq 0 .. m
        BY <1>6
    <2>3. m \notin 0 .. k /\ m \in 0 .. m
        BY <1>6
    <2>4. <<0 .. k, 0 .. m>> \in StrictSubsetOrdering(Nat)
        BY <2>2, <2>3 DEF StrictSubsetOrdering
    <2>5. QED
        BY <2>1, <2>4, <1>4, <1>5
<1>7. QED
    BY <1>6

\* Induction over the naturals.
LEMMA NatInd ==
    ASSUME NEW S, 0 \in S, \A n \in Nat : n \in S => n + 1 \in S
    PROVE  Nat \subseteq S
<1>1. SUFFICES ASSUME NEW n \in Nat, n \notin S PROVE FALSE
    OBVIOUS
<1> DEFINE T == {k \in Nat : k \notin S}
<1>2. T \in SUBSET Nat /\ T # {}
    BY <1>1
<1>3. PICK m \in T : \A k \in T : m <= k
    BY <1>2, LeastNat
<1>4. m # 0
    OBVIOUS
<1>5. m - 1 \in Nat /\ m - 1 \in S
    BY <1>3, <1>4
<1>6. (m - 1) + 1 \in S
    BY <1>5
<1>7. QED
    BY <1>6

\* Induction over the subsets of a finite set.
LEMMA FiniteInd ==
    ASSUME NEW A, IsFiniteSet(A), NEW F, {} \in F,
           \A B \in SUBSET A, x \in A : B \in F => B \cup {x} \in F
    PROVE  A \in F
<1>1. IsWellFoundedOn(StrictSubsetOrdering(A), SUBSET A)
    BY FS_StrictSubsetOrderingWellFounded, FS_FiniteSubsetsOfFinite
<1> DEFINE T == {B \in SUBSET A : B \notin F}
<1>2. SUFFICES ASSUME A \notin F PROVE FALSE
    OBVIOUS
<1>3. T \subseteq SUBSET A /\ T # {}
    BY <1>2
<1>4. PICK X \in T : \A Y \in T : ~ (<<Y, X>> \in StrictSubsetOrdering(A))
    <2> HIDE DEF T
    <2> QED
        BY <1>1, <1>3, WFMin
<1>5. PICK x \in X : TRUE
    OBVIOUS
<1>6. X \ {x} \notin T
    <2>1. <<X \ {x}, X>> \in StrictSubsetOrdering(A)
        BY DEF StrictSubsetOrdering
    <2>2. QED
        BY <2>1, <1>4
<1>7. X \ {x} \in F /\ x \in A
    BY <1>6
<1>8. (X \ {x}) \cup {x} \in F
    BY <1>7
<1>9. (X \ {x}) \cup {x} = X
    OBVIOUS
<1>10. QED
    BY <1>8, <1>9

\* A function on an interval may be defined from its value at a smaller number ...
Earlier(from) == \A i \in DOMAIN from : from[i] < i

Follows(f, n, V, base, Step, From) ==
    f \in [0 .. n -> V] /\ f[0] = base /\ \A i \in 1 .. n : f[i] = Step[i][f[From[i]]]

LEMMA RecursionFrom ==
    ASSUME NEW n \in Nat, NEW V, NEW base \in V, NEW Step \in [1 .. n -> [V -> V]],
           NEW From \in [1 .. n -> Nat], Earlier(From)
    PROVE  \E f : Follows(f, n, V, base, Step, From)
<1> DEFINE Defined(m, f) == f[0] = base /\ \A i \in 1 .. m : f[i] = Step[i][f[From[i]]]
           Exists(m) == \E f \in [0 .. m -> V] : Defined(m, f)
           S == {m \in Nat : m <= n => Exists(m)}
<1>0. From \in [1 .. n -> Nat] /\ \A i \in 1 .. n : From[i] < i
    BY DEF Earlier
<1>1. 0 \in S
    <2>1. [i \in 0 .. 0 |-> base] \in [0 .. 0 -> V] /\ Defined(0, [i \in 0 .. 0 |-> base])
        OBVIOUS
    <2>2. QED
        BY <2>1
<1>2. ASSUME NEW m \in Nat, m \in S PROVE m + 1 \in S
    <2>1. SUFFICES ASSUME m + 1 <= n PROVE Exists(m + 1)
        <3> HIDE DEF Exists
        <3> QED
            OBVIOUS
    <2>2. PICK f \in [0 .. m -> V] : Defined(m, f)
        BY <1>2, <2>1
    <2>3. PICK v \in V : v = Step[m + 1][f[From[m + 1]]]
        <3>1. m + 1 \in 1 .. n
            BY <2>1
        <3>2. From[m + 1] \in 0 .. m
            BY <1>0, <3>1
        <3>3. f[From[m + 1]] \in V
            BY <3>2
        <3>4. QED
            BY <3>1, <3>3
    <2>4. PICK g : g = [i \in 0 .. m + 1 |-> IF i = m + 1 THEN v ELSE f[i]]
        OBVIOUS
    <2>5. g \in [0 .. m + 1 -> V] /\ g[m + 1] = v /\ \A i \in 0 .. m : g[i] = f[i]
        BY <2>4
    <2>6. g[0] = base
        BY <2>2, <2>5
    <2>7. ASSUME NEW i \in 1 .. m + 1 PROVE g[i] = Step[i][g[From[i]]]
        <3>1. From[i] \in 0 .. m /\ g[From[i]] = f[From[i]]
            <4>1. i \in 1 .. n
                BY <2>1
            <4>2. From[i] \in Nat /\ From[i] < i
                BY <1>0, <4>1
            <4>3. From[i] \in 0 .. m
                BY <4>2
            <4>4. QED
                BY <2>5, <4>3
        <3>2. CASE i = m + 1
            BY <2>3, <2>5, <3>1, <3>2
        <3>3. CASE i # m + 1
            <4>1. i \in 1 .. m /\ i \in 0 .. m
                BY <3>3
            <4>2. QED
                BY <2>2, <2>5, <3>1, <4>1
        <3>4. QED
            BY <3>2, <3>3
    <2>8. QED
        BY <2>5, <2>6, <2>7
<1>3. Nat \subseteq S
    <2> HIDE DEF S
    <2> QED
        BY <1>1, <1>2, NatInd
<1>4. n \in S
    BY <1>3
<1>5. QED
    BY <1>4 DEF Follows

\* ... such as the one before.
Climbs(f, n, V, base, Step) ==
    f \in [0 .. n -> V] /\ f[0] = base /\ \A i \in 1 .. n : f[i] = Step[i][f[i - 1]]

LEMMA Recursion ==
    ASSUME NEW n \in Nat, NEW V, NEW base \in V, NEW Step \in [1 .. n -> [V -> V]]
    PROVE  \E f : Climbs(f, n, V, base, Step)
<1>1. PICK From : From = [i \in 1 .. n |-> i - 1]
    OBVIOUS
<1>2. From \in [1 .. n -> Nat] /\ Earlier(From) /\ \A i \in 1 .. n : From[i] = i - 1
    BY <1>1 DEF Earlier
<1>3. PICK f : Follows(f, n, V, base, Step, From)
    BY <1>2, RecursionFrom
<1>4. \A i \in 1 .. n : f[i] = Step[i][f[i - 1]]
    BY <1>2, <1>3 DEF Follows
<1>5. QED
    BY <1>3, <1>4 DEF Follows, Climbs

-----------------------------------------------------------------------------
(* Division                                                                 *)

\* A number is a multiple of a length and a rest ...
LEMMA Quotient ==
    ASSUME NEW L \in Nat \ {0}, NEW i \in Int
    PROVE  /\ i \div L \in Int /\ i % L \in 0 .. L - 1 /\ i = L * (i \div L) + (i % L)
           /\ i < 0 => i \div L < 0
BY SMT

LEMMA QuotientIsNat ==
    ASSUME NEW L \in Nat \ {0}, NEW i \in Nat
    PROVE  i \div L \in Nat
BY SMT

\* ... in one way.
LEMMA QuotientAndRest ==
    ASSUME NEW L \in Nat \ {0}, NEW q \in Nat, NEW r \in 0 .. L - 1, NEW i \in Nat, i = L * q + r
    PROVE  i \div L = q /\ i % L = r
BY SMT

LEMMA Monotonic ==
    ASSUME NEW a \in Nat, NEW b \in Nat, NEW c \in Nat, a <= b
    PROVE  c * a <= c * b
BY SMT

LEMMA QuotientIsLess ==
    ASSUME NEW L \in Nat, L > 1, NEW i \in Nat \ {0}
    PROVE  i \div L \in Nat /\ i \div L < i
BY SMT

-----------------------------------------------------------------------------
(* Orders                                                                   *)

\* What is before a member is fewer than what is before a later one.
LEMMA RankGrows ==
    ASSUME NEW S, IsFiniteSet(S), NEW before, IsTotalOrder(S, before), NEW x \in S, NEW y \in S, <<x, y>> \in before
    PROVE  Rank(x, S, before) < Rank(y, S, before)
<1> DEFINE Before(z) == {w \in S : <<w, z>> \in before}
<1>1. Before(x) \subseteq Before(y)
    BY DEF IsTotalOrder
<1>2. x \in Before(y) /\ x \notin Before(x)
    BY DEF IsTotalOrder
<1>3. IsFiniteSet(Before(y))
    <2>1. Before(y) \subseteq S
        OBVIOUS
    <2>2. QED
        BY <2>1, FS_Subset
<1>4. QED
    <2> HIDE DEF Before
    <2>1. Cardinality(Before(x)) < Cardinality(Before(y))
        BY <1>1, <1>2, <1>3, FS_Subset, FS_CardinalityType
    <2>2. QED
        BY <2>1 DEF Rank, Before

LEMMA RankIsBelow ==
    ASSUME NEW S, IsFiniteSet(S), NEW before, IsTotalOrder(S, before), NEW x \in S
    PROVE  Rank(x, S, before) \in 0 .. Cardinality(S) - 1
<1> DEFINE Before == {w \in S : <<w, x>> \in before}
<1>1. Before \subseteq S /\ Before # S
    BY DEF IsTotalOrder
<1>2. QED
    <2> HIDE DEF Before
    <2>1. Cardinality(Before) < Cardinality(S) /\ Cardinality(Before) \in Nat /\ Cardinality(S) \in Nat
        BY <1>1, FS_Subset, FS_CardinalityType
    <2>2. QED
        BY <2>1 DEF Rank, Before

\* Every number below the size is the rank of a member.
LEMMA EveryRank ==
    ASSUME NEW S, IsFiniteSet(S), NEW before, IsTotalOrder(S, before), NEW k \in 1 .. Cardinality(S)
    PROVE  \E x \in S : Rank(x, S, before) = k - 1
<1>1. PICK n : n = Cardinality(S)
    OBVIOUS
<1>2. n \in Nat
    BY <1>1, FS_CardinalityType
<1>3. PICK f : f = [x \in S |-> Rank(x, S, before)]
    OBVIOUS
<1>4. f \in [S -> 0 .. n - 1]
    BY <1>1, <1>3, RankIsBelow
<1>5. ASSUME NEW x \in S, NEW y \in S, x # y PROVE f[x] # f[y]
    <2>1. <<x, y>> \in before \/ <<y, x>> \in before
        BY <1>5 DEF IsTotalOrder
    <2>2. Rank(x, S, before) < Rank(y, S, before) \/ Rank(y, S, before) < Rank(x, S, before)
        BY <2>1, RankGrows
    <2>3. Rank(x, S, before) \in Nat /\ Rank(y, S, before) \in Nat
        BY <1>1, <1>2, RankIsBelow
    <2>4. QED
        BY <1>3, <2>2, <2>3
<1>6. f \in Injection(S, 0 .. n - 1)
    BY <1>4, <1>5 DEF Injection, IsInjective
<1>7. IsFiniteSet(0 .. n - 1) /\ Cardinality(0 .. n - 1) = n
    <2>1. Cardinality(0 .. n - 1) = IF 0 > n - 1 THEN 0 ELSE (n - 1) - 0 + 1
        BY <1>2, FS_Interval
    <2>2. QED
        BY <1>2, <2>1, FS_Interval
<1>8. f \in Surjection(S, 0 .. n - 1)
    BY <1>1, <1>6, <1>7, FS_Injection
<1>9. QED
    BY <1>1, <1>2, <1>3, <1>8 DEF Surjection

Enumerates(o, n, S, before) ==
    /\ n \in Nat /\ o \in [1 .. n -> S]
    /\ \A k, l \in 1 .. n : k < l => <<o[k], o[l]>> \in before
    /\ \A x \in S : \E k \in 1 .. n : o[k] = x

\* The ranks name the members one by one, in order ...
LEMMA InOrderSorts ==
    ASSUME NEW S, IsFiniteSet(S), NEW before, IsTotalOrder(S, before),
           NEW o, o = InOrder(S, before), NEW n, n = Cardinality(S)
    PROVE  Enumerates(o, n, S, before)
<1>1. n \in Nat
    BY FS_CardinalityType
<1>2. ASSUME NEW k \in 1 .. n PROVE o[k] \in S /\ Rank(o[k], S, before) = k - 1
    <2>1. \E x \in S : Rank(x, S, before) = k - 1
        BY EveryRank
    <2>2. o[k] = CHOOSE x \in S : Rank(x, S, before) = k - 1
        BY DEF InOrder
    <2>3. QED
        BY <2>1, <2>2
<1>3. o \in [1 .. n -> S]
    BY <1>2 DEF InOrder
<1>4. ASSUME NEW k \in 1 .. n, NEW l \in 1 .. n, k < l PROVE <<o[k], o[l]>> \in before
    <2>1. /\ o[k] \in S /\ o[l] \in S
          /\ Rank(o[k], S, before) = k - 1 /\ Rank(o[l], S, before) = l - 1
        BY <1>2
    <2>2. o[k] # o[l]
        BY <1>4, <2>1
    <2>3. CASE <<o[l], o[k]>> \in before
        <3>1. Rank(o[l], S, before) < Rank(o[k], S, before)
            BY <2>1, <2>3, RankGrows
        <3>2. QED
            BY <1>4, <2>1, <3>1
    <2>4. QED
        BY <2>1, <2>2, <2>3 DEF IsTotalOrder
<1>5. ASSUME NEW x \in S PROVE \E k \in 1 .. n : o[k] = x
    <2>1. PICK r : r = Rank(x, S, before)
        OBVIOUS
    <2>2. r \in 0 .. n - 1
        BY <2>1, RankIsBelow
    <2>3. r + 1 \in 1 .. n /\ (r + 1) - 1 = r
        BY <1>1, <2>2
    <2>4. Rank(o[r + 1], S, before) = r /\ o[r + 1] \in S
        BY <1>2, <2>3
    <2>5. CASE <<x, o[r + 1]>> \in before \/ <<o[r + 1], x>> \in before
        <3>1. Rank(x, S, before) < Rank(o[r + 1], S, before) \/ Rank(o[r + 1], S, before) < Rank(x, S, before)
            BY <2>4, <2>5, RankGrows
        <3>2. QED
            BY <2>1, <2>2, <2>4, <3>1
    <2>6. CASE o[r + 1] = x
        BY <2>3, <2>6
    <2>7. QED
        BY <2>4, <2>5, <2>6 DEF IsTotalOrder
<1>6. QED
    BY <1>1, <1>3, <1>4, <1>5 DEF Enumerates

\* ... and in whatever way a set is put in order, a member has its rank for its place.
LEMMA PlaceIsRank ==
    ASSUME NEW S, IsFiniteSet(S), NEW before, IsTotalOrder(S, before),
           NEW n, NEW o, Enumerates(o, n, S, before), NEW k \in 1 .. n
    PROVE  Rank(o[k], S, before) = k - 1
<1> USE DEF Enumerates
<1> DEFINE Before == {y \in S : <<y, o[k]>> \in before}
<1>1. PICK f : f = [i \in 1 .. k - 1 |-> o[i]]
    OBVIOUS
<1>2. \A i \in 1 .. k - 1 : i \in 1 .. n /\ i < k
    OBVIOUS
<1>3. \A i \in 1 .. k - 1 : f[i] = o[i] /\ o[i] \in Before
    BY <1>1, <1>2
<1>4. f \in [1 .. k - 1 -> Before]
    <2> HIDE DEF Before
    <2> QED
        BY <1>1, <1>3
<1>5. ASSUME NEW i \in 1 .. k - 1, NEW j \in 1 .. k - 1, i # j PROVE f[i] # f[j]
    <2>1. i < j \/ j < i
        BY <1>5
    <2>2. <<o[i], o[j]>> \in before \/ <<o[j], o[i]>> \in before
        BY <1>2, <2>1
    <2>3. o[i] # o[j]
        BY <1>2, <2>2 DEF IsTotalOrder
    <2>4. QED
        BY <1>3, <2>3
<1>6. ASSUME NEW y \in Before PROVE \E i \in 1 .. k - 1 : f[i] = y
    <2>1. PICK i \in 1 .. n : o[i] = y
        OBVIOUS
    <2>2. ~(k < i)
        <3>1. SUFFICES ASSUME k < i PROVE FALSE
            OBVIOUS
        <3>2. <<o[k], y>> \in before /\ <<y, o[k]>> \in before /\ o[k] \in S /\ y \in S
            BY <2>1, <3>1
        <3>3. QED
            BY <3>2 DEF IsTotalOrder
    <2>3. i # k
        BY <2>1 DEF IsTotalOrder
    <2>4. i \in 1 .. k - 1
        BY <2>2, <2>3
    <2>5. QED
        BY <1>3, <2>1, <2>4
<1>7. f \in Bijection(1 .. k - 1, Before)
    <2> HIDE DEF Before
    <2> QED
        BY <1>4, <1>5, <1>6 DEF Bijection, Injection, Surjection, IsInjective
<1>8. Cardinality(Before) = Cardinality(1 .. k - 1) /\ IsFiniteSet(1 .. k - 1)
    <2> HIDE DEF Before
    <2>1. ExistsBijection(1 .. k - 1, Before)
        BY <1>7 DEF ExistsBijection
    <2>2. IsFiniteSet(1 .. k - 1)
        BY FS_Interval
    <2>3. QED
        BY <2>1, <2>2, FS_Bijection
<1>9. Cardinality(1 .. k - 1) = k - 1
    <2>1. Cardinality(1 .. k - 1) = IF 1 > k - 1 THEN 0 ELSE (k - 1) - 1 + 1
        BY FS_Interval
    <2>2. QED
        BY <2>1
<1>10. QED
    BY <1>8, <1>9 DEF Rank

LEMMA EnumerationIsComplete ==
    ASSUME NEW S, IsFiniteSet(S), NEW before, IsTotalOrder(S, before),
           NEW n, NEW o, Enumerates(o, n, S, before)
    PROVE  n = Cardinality(S)
<1> USE DEF Enumerates
<1>1. ASSUME NEW i \in 1 .. n, NEW j \in 1 .. n, i # j PROVE o[i] # o[j]
    <2>1. i < j \/ j < i
        BY <1>1
    <2>2. <<o[i], o[j]>> \in before \/ <<o[j], o[i]>> \in before
        BY <2>1
    <2>3. QED
        BY <2>2 DEF IsTotalOrder
<1>2. o \in Bijection(1 .. n, S)
    BY <1>1 DEF Bijection, Injection, Surjection, IsInjective
<1>3. IsFiniteSet(1 .. n) /\ Cardinality(1 .. n) = n
    <2>1. Cardinality(1 .. n) = IF 1 > n THEN 0 ELSE n - 1 + 1
        BY FS_Interval
    <2>2. QED
        BY <2>1, FS_Interval
<1>4. Cardinality(S) = Cardinality(1 .. n)
    BY <1>2, <1>3, FS_Bijection DEF ExistsBijection
<1>5. QED
    BY <1>3, <1>4

\* A set can be put in order in one way only.
LEMMA OneOrder ==
    ASSUME NEW S, IsFiniteSet(S), NEW before, IsTotalOrder(S, before),
           NEW n, NEW o, Enumerates(o, n, S, before), NEW m, NEW p, Enumerates(p, m, S, before)
    PROVE  o = p
<1>1. n = m
    <2>1. n = Cardinality(S)
        BY EnumerationIsComplete
    <2>2. m = Cardinality(S)
        BY EnumerationIsComplete
    <2>3. QED
        BY <2>1, <2>2
<1>2. ASSUME NEW k \in 1 .. n PROVE o[k] = p[k]
    <2>1. Rank(o[k], S, before) = k - 1
        BY PlaceIsRank
    <2>2. Rank(p[k], S, before) = k - 1
        BY <1>1, PlaceIsRank
    <2>3. o[k] \in S /\ p[k] \in S
        BY <1>1 DEF Enumerates
    <2>4. CASE <<o[k], p[k]>> \in before \/ <<p[k], o[k]>> \in before
        <3>1. k - 1 < k - 1
            BY <2>1, <2>2, <2>3, <2>4, RankGrows
        <3>2. QED
            BY <3>1
    <2>5. QED
        BY <2>3, <2>4 DEF IsTotalOrder
<1>3. QED
    BY <1>1, <1>2 DEF Enumerates
=============================================================================
