------------------------- MODULE CredentialsProofs --------------------------
(***************************************************************************)
(* Theorems about Credentials, Signatures and Circuits: what a verifier    *)
(* calls verified, for all keys, documents and statements.                 *)
(***************************************************************************)
EXTENDS Credentials, Signatures, Circuits, Foundations

-----------------------------------------------------------------------------
(* The text of a key                                                        *)

\* The recursive functions of Base58 exist and have the types that one expects.
LEMMA ValuesOfDigits ==
    ASSUME NEW digits \in Seq(Nat), NEW base \in Nat
    PROVE  /\ ValuesOf(digits, base) \in [0 .. Len(digits) -> Nat]
           /\ ValuesOf(digits, base)[0] = 0
           /\ \A k \in 1 .. Len(digits) :
                  ValuesOf(digits, base)[k] = base * ValuesOf(digits, base)[k - 1] + digits[k]
<1> DEFINE n == Len(digits)
           Step == [k \in 1 .. n |-> [x \in Nat |-> base * x + digits[k]]]
           Values(f) == [k \in 0 .. Len(digits) |-> IF k = 0 THEN 0 ELSE base * f[k - 1] + digits[k]]
           v == CHOOSE f : f = Values(f)
<1>1. n \in Nat /\ \A k \in 1 .. n : digits[k] \in Nat
    OBVIOUS
<1>2. \A k \in 1 .. n, x \in Nat : base * x + digits[k] \in Nat
    BY <1>1
<1>3. Step \in [1 .. n -> [Nat -> Nat]] /\ \A k \in 1 .. n, x \in Nat : Step[k][x] = base * x + digits[k]
    BY <1>2
<1>4. PICK g \in [0 .. n -> Nat] : g[0] = 0 /\ \A k \in 1 .. n : g[k] = Step[k][g[k - 1]]
    <2>1. PICK V, zero, F : V = Nat /\ zero = 0 /\ F = Step
        OBVIOUS
    <2>2. n \in Nat /\ zero \in V /\ F \in [1 .. n -> [V -> V]]
        BY <1>1, <1>3, <2>1
    <2> HIDE DEF n, Step
    <2>3. \E g : Climbs(g, n, V, zero, F)
        BY <2>2, Recursion
    <2>4. QED
        BY <2>1, <2>3 DEF Climbs
<1>5. \A k \in 1 .. n : g[k] = base * g[k - 1] + digits[k]
    <2> HIDE DEF n, Step
    <2>1. \A k \in 1 .. n : k - 1 \in 0 .. n
        BY <1>1
    <2>2. QED
        BY <1>3, <1>4, <2>1
<1>6. g = Values(g)
    <2>1. ASSUME NEW k \in 0 .. n PROVE g[k] = IF k = 0 THEN 0 ELSE base * g[k - 1] + digits[k]
        <3>1. CASE k = 0
            BY <1>4, <3>1
        <3>2. CASE k # 0
            <4>1. k \in 1 .. n
                BY <1>1, <3>2
            <4>2. QED
                BY <1>5, <3>2, <4>1
        <3>3. QED
            BY <3>1, <3>2
    <2>2. QED
        BY <1>4, <2>1
<1>7. v = Values(v)
    BY <1>6
<1>8. ValuesOf(digits, base) = v
    BY DEF ValuesOf
<1> HIDE DEF v
<1>9. v[0] = 0 /\ \A k \in 1 .. n : v[k] = base * v[k - 1] + digits[k]
    <2>1. \A k \in 0 .. n : v[k] = IF k = 0 THEN 0 ELSE base * v[k - 1] + digits[k]
        BY <1>7
    <2>2. 0 \in 0 .. n /\ \A k \in 1 .. n : k \in 0 .. n /\ k # 0
        BY <1>1
    <2>3. QED
        BY <2>1, <2>2
<1>10. DOMAIN v = 0 .. n /\ v = [k \in 0 .. n |-> v[k]]
    BY <1>7
<1>11. ASSUME NEW T, T = {k \in 0 .. n : v[k] \notin Nat}, T # {} PROVE FALSE
    <2>1. T \in SUBSET Nat
        BY <1>1, <1>11
    <2>2. PICK m \in T : \A k \in T : m <= k
        BY <1>11, <2>1, LeastNat
    <2>3. m # 0
        BY <1>9, <1>11
    <2>4. m \in 1 .. n /\ m - 1 \in 0 .. n /\ m - 1 \notin T
        BY <1>1, <1>11, <2>1, <2>2, <2>3
    <2>5. v[m - 1] \in Nat
        BY <1>11, <2>4
    <2>6. v[m] \in Nat
        BY <1>2, <1>9, <2>4, <2>5
    <2>7. QED
        BY <1>11, <2>2, <2>6
<1>12. v \in [0 .. n -> Nat]
    BY <1>10, <1>11
<1>13. QED
    BY <1>8, <1>9, <1>12

LEMMA DigitsUpToNumber ==
    ASSUME NEW n \in Nat, NEW base \in Nat, base > 1
    PROVE  /\ DigitsUpTo(n, base) \in [0 .. n -> Seq(0 .. base - 1)]
           /\ DigitsUpTo(n, base)[0] = <<>>
           /\ \A k \in 1 .. n : DigitsUpTo(n, base)[k] = Append(DigitsUpTo(n, base)[k \div base], k % base)
<1> DEFINE D == 0 .. base - 1
           Step == [k \in 1 .. n |-> [s \in Seq(D) |-> Append(s, k % base)]]
           From == [k \in 1 .. n |-> k \div base]
           Digits(f) == [k \in 0 .. n |-> IF k = 0 THEN <<>> ELSE Append(f[k \div base], k % base)]
           d == CHOOSE f : f = Digits(f)
<1>1. \A k \in 1 .. n : k \div base \in Nat /\ k \div base < k /\ k % base \in D
    <2>1. SUFFICES ASSUME NEW k \in 1 .. n PROVE k \div base \in Nat /\ k \div base < k /\ k % base \in D
        OBVIOUS
    <2>2. base \in Nat \ {0} /\ k \in Nat \ {0} /\ k \in Int
        OBVIOUS
    <2>3. k % base \in D
        BY <2>2, Quotient
    <2>4. k \div base \in Nat /\ k \div base < k
        BY <2>2, QuotientIsLess
    <2>5. QED
        BY <2>3, <2>4
<1>2. \A k \in 1 .. n, s \in Seq(D) : Append(s, k % base) \in Seq(D)
    BY <1>1
<1>3. /\ Step \in [1 .. n -> [Seq(D) -> Seq(D)]]
      /\ \A k \in 1 .. n, s \in Seq(D) : Step[k][s] = Append(s, k % base)
    BY <1>2
<1>4. From \in [1 .. n -> Nat] /\ Earlier(From) /\ \A k \in 1 .. n : From[k] = k \div base
    BY <1>1 DEF Earlier
<1>5. PICK g : Follows(g, n, Seq(D), <<>>, Step, From)
    <2>1. PICK V, none, F, P : V = Seq(D) /\ none = <<>> /\ F = Step /\ P = From
        OBVIOUS
    <2>2. none \in V /\ F \in [1 .. n -> [V -> V]] /\ P \in [1 .. n -> Nat] /\ Earlier(P)
        <3>1. none \in V
            BY <2>1
        <3> HIDE DEF Step, From, D
        <3>2. QED
            BY <1>3, <1>4, <2>1, <3>1
    <2> HIDE DEF Step, From, D
    <2>3. \E g : Follows(g, n, V, none, F, P)
        BY <2>2, RecursionFrom
    <2>4. QED
        BY <2>1, <2>3
<1>6. g \in [0 .. n -> Seq(D)] /\ g[0] = <<>> /\ \A k \in 1 .. n : g[k] = Append(g[k \div base], k % base)
    <2> HIDE DEF Step, From, D
    <2>1. g \in [0 .. n -> Seq(D)] /\ g[0] = <<>> /\ \A k \in 1 .. n : g[k] = Step[k][g[From[k]]]
        BY <1>5 DEF Follows
    <2>2. ASSUME NEW k \in 1 .. n PROVE g[k] = Append(g[k \div base], k % base)
        <3>1. k \div base \in 0 .. n /\ From[k] = k \div base
            BY <1>1, <1>4
        <3>2. g[k \div base] \in Seq(D)
            BY <2>1, <3>1
        <3>3. QED
            BY <1>3, <2>1, <3>1, <3>2
    <2>3. QED
        BY <2>1, <2>2
<1>7. g = Digits(g)
    <2>1. ASSUME NEW k \in 0 .. n PROVE g[k] = IF k = 0 THEN <<>> ELSE Append(g[k \div base], k % base)
        <3>1. CASE k = 0
            BY <1>6, <3>1
        <3>2. CASE k # 0
            <4>1. k \in 1 .. n
                BY <3>2
            <4>2. QED
                BY <1>6, <3>2, <4>1
        <3>3. QED
            BY <3>1, <3>2
    <2>2. QED
        BY <1>6, <2>1
<1>8. d = Digits(d)
    BY <1>7
<1>9. DigitsUpTo(n, base) = d
    BY DEF DigitsUpTo
<1> HIDE DEF d
<1>10. d[0] = <<>> /\ \A k \in 1 .. n : d[k] = Append(d[k \div base], k % base)
    <2>1. \A k \in 0 .. n : d[k] = IF k = 0 THEN <<>> ELSE Append(d[k \div base], k % base)
        BY <1>8
    <2>2. 0 \in 0 .. n /\ \A k \in 1 .. n : k \in 0 .. n /\ k # 0
        OBVIOUS
    <2>3. QED
        BY <2>1, <2>2
<1>11. DOMAIN d = 0 .. n /\ d = [k \in 0 .. n |-> d[k]]
    BY <1>8
<1>12. ASSUME NEW T, T = {k \in 0 .. n : d[k] \notin Seq(D)}, T # {} PROVE FALSE
    <2>1. T \in SUBSET Nat
        BY <1>12
    <2>2. PICK m \in T : \A k \in T : m <= k
        BY <1>12, <2>1, LeastNat
    <2>3. m # 0
        <3>1. <<>> \in Seq(D)
            OBVIOUS
        <3>2. QED
            BY <1>10, <1>12, <3>1
    <2>4. m \in 1 .. n
        BY <1>12, <2>1, <2>2, <2>3
    <2>5. m \div base \in 0 .. n /\ m \div base \notin T
        <3>1. m \div base \in Nat /\ m \div base < m
            BY <1>1, <2>4
        <3>2. QED
            BY <2>2, <2>4, <3>1
    <2>6. d[m \div base] \in Seq(D)
        BY <1>12, <2>5
    <2>7. d[m] \in Seq(D)
        BY <1>2, <1>10, <2>4, <2>6
    <2>8. QED
        BY <1>12, <2>2, <2>7
<1>13. d \in [0 .. n -> Seq(D)]
    BY <1>11, <1>12
<1>14. QED
    BY <1>9, <1>10, <1>13

LEMMA ProductIsPositive ==
    ASSUME NEW a \in Nat, a > 1, NEW b \in Nat
    PROVE  a * b \in Nat /\ (b # 0 => a * b # 0)
BY SMT

LEMMA SubSeqGrows ==
    ASSUME NEW S, NEW s \in Seq(S), NEW k \in 1 .. Len(s)
    PROVE  Append(SubSeq(s, 1, k - 1), s[k]) = SubSeq(s, 1, k)
OBVIOUS

\* A longer list of digits has the values of its beginning.
LEMMA ValueOfLonger ==
    ASSUME NEW s \in Seq(Nat), NEW x \in Nat, NEW base \in Nat
    PROVE  ValueOf(Append(s, x), base) = base * ValueOf(s, base) + x
<1>1. PICK n, t : n = Len(s) /\ t = Append(s, x)
    OBVIOUS
<1>2. n \in Nat /\ t \in Seq(Nat) /\ Len(t) = n + 1 /\ t[n + 1] = x /\ \A k \in 1 .. n : t[k] = s[k]
    BY <1>1
<1>3. PICK v, w : v = ValuesOf(s, base) /\ w = ValuesOf(t, base)
    OBVIOUS
<1>4. v \in [0 .. n -> Nat] /\ v[0] = 0 /\ \A k \in 1 .. n : v[k] = base * v[k - 1] + s[k]
    BY <1>1, <1>3, ValuesOfDigits
<1>5. w \in [0 .. n + 1 -> Nat] /\ w[0] = 0 /\ \A k \in 1 .. n + 1 : w[k] = base * w[k - 1] + t[k]
    BY <1>2, <1>3, ValuesOfDigits
<1>6. \A k \in 0 .. n : v[k] = w[k]
    <2>0. PICK T : T = {k \in 0 .. n : v[k] # w[k]}
        OBVIOUS
    <2> SUFFICES ASSUME T # {} PROVE FALSE
        BY <2>0
    <2>1. T \in SUBSET Nat
        BY <1>2, <2>0
    <2>2. PICK m \in T : \A k \in T : m <= k
        BY <2>1, LeastNat
    <2>3. m # 0
        BY <1>4, <1>5, <2>0
    <2>4. m \in 1 .. n /\ m \in 1 .. n + 1 /\ m - 1 \in 0 .. n /\ m - 1 \notin T
        BY <1>2, <2>0, <2>1, <2>2, <2>3
    <2>5. v[m - 1] = w[m - 1]
        BY <2>0, <2>4
    <2>6. v[m] = base * v[m - 1] + s[m] /\ w[m] = base * w[m - 1] + s[m]
        BY <1>2, <1>4, <1>5, <2>4
    <2>7. QED
        BY <2>0, <2>2, <2>5, <2>6
<1>7. v[n] = w[n] /\ n \in 0 .. n
    BY <1>2, <1>6
<1>8. w[n + 1] = base * w[n] + x
    <2>1. n + 1 \in 1 .. n + 1 /\ (n + 1) - 1 = n
        BY <1>2
    <2>2. QED
        BY <1>2, <1>5, <2>1
<1>9. ValueOf(t, base) = w[n + 1] /\ ValueOf(s, base) = v[n]
    BY <1>1, <1>2, <1>3 DEF ValueOf
<1>10. QED
    BY <1>1, <1>7, <1>8, <1>9

\* The digits of a number are those of its quotient and the rest.
LEMMA DigitsOfLarger ==
    ASSUME NEW base \in Nat, base > 1, NEW n \in Nat \ {0}
    PROVE  /\ DigitsOf(n, base) = Append(DigitsOf(n \div base, base), n % base)
           /\ n \div base \in Nat /\ n \div base < n /\ n % base \in 0 .. base - 1
           /\ n = base * (n \div base) + (n % base)
<1>1. PICK q : q = n \div base
    OBVIOUS
<1>2. q \in Nat /\ q < n /\ n % base \in 0 .. base - 1 /\ n = base * q + (n % base)
    <2>1. base \in Nat \ {0} /\ n \in Int
        OBVIOUS
    <2>2. n % base \in 0 .. base - 1 /\ n = base * q + (n % base)
        BY <1>1, <2>1, Quotient
    <2>3. q \in Nat /\ q < n
        BY <1>1, QuotientIsLess
    <2>4. QED
        BY <2>2, <2>3
<1>3. PICK d, e : d = DigitsUpTo(n, base) /\ e = DigitsUpTo(q, base)
    OBVIOUS
<1>4. /\ d[0] = <<>> /\ \A k \in 1 .. n : d[k] = Append(d[k \div base], k % base)
      /\ e[0] = <<>> /\ \A k \in 1 .. q : e[k] = Append(e[k \div base], k % base)
    BY <1>2, <1>3, DigitsUpToNumber
<1>5. \A k \in 0 .. q : d[k] = e[k]
    <2>0. PICK T : T = {k \in 0 .. q : d[k] # e[k]}
        OBVIOUS
    <2> SUFFICES ASSUME T # {} PROVE FALSE
        BY <2>0
    <2>1. T \in SUBSET Nat
        BY <1>2, <2>0
    <2>2. PICK m \in T : \A k \in T : m <= k
        BY <2>1, LeastNat
    <2>3. m # 0
        BY <1>4, <2>0
    <2>4. m \in 1 .. q /\ m \in 1 .. n /\ m \in Nat \ {0}
        BY <1>2, <2>0, <2>1, <2>2, <2>3
    <2>5. m \div base \in Nat /\ m \div base < m
        BY <2>4, QuotientIsLess
    <2>6. m \div base \in 0 .. q /\ m \div base \notin T
        BY <1>2, <2>2, <2>4, <2>5
    <2>7. d[m \div base] = e[m \div base]
        BY <2>0, <2>6
    <2>8. QED
        BY <1>4, <2>0, <2>2, <2>4, <2>7
<1>6. d[q] = e[q]
    BY <1>2, <1>5
<1>7. d[n] = Append(d[q], n % base)
    <2>1. n \in 1 .. n
        OBVIOUS
    <2>2. d[n] = Append(d[n \div base], n % base)
        BY <1>4, <2>1
    <2>3. QED
        BY <1>1, <2>2
<1>8. QED
    BY <1>1, <1>2, <1>3, <1>6, <1>7 DEF DigitsOf

LEMMA DigitsOfZero == ASSUME NEW base \in Nat, base > 1 PROVE DigitsOf(0, base) = <<>>
BY DigitsUpToNumber DEF DigitsOf

\* They write the number, and the first of them is not zero.
LEMMA DigitsWriteTheNumber ==
    ASSUME NEW base \in Nat, base > 1, NEW n \in Nat
    PROVE  /\ DigitsOf(n, base) \in Seq(0 .. base - 1)
           /\ ValueOf(DigitsOf(n, base), base) = n
           /\ n # 0 => Len(DigitsOf(n, base)) > 0 /\ DigitsOf(n, base)[1] # 0
<1> DEFINE D == 0 .. base - 1
           Right(k) == /\ DigitsOf(k, base) \in Seq(D)
                       /\ ValueOf(DigitsOf(k, base), base) = k
                       /\ k # 0 => Len(DigitsOf(k, base)) > 0 /\ DigitsOf(k, base)[1] # 0
           T == {k \in Nat : ~Right(k)}
<1>1. Right(0)
    <2>1. DigitsOf(0, base) = <<>>
        BY DigitsOfZero
    <2>2. <<>> \in Seq(D) /\ <<>> \in Seq(Nat) /\ Len(<<>>) = 0
        OBVIOUS
    <2>3. ValueOf(<<>>, base) = 0
        BY <2>2, ValuesOfDigits DEF ValueOf
    <2>4. QED
        BY <2>1, <2>2, <2>3
<1>2. ASSUME NEW m \in Nat \ {0}, \A k \in Nat : k < m => Right(k) PROVE Right(m)
    <2>1. PICK q, r, s : q = m \div base /\ r = m % base /\ s = DigitsOf(q, base)
        OBVIOUS
    <2>2. /\ DigitsOf(m, base) = Append(s, r)
          /\ q \in Nat /\ q < m /\ r \in D /\ m = base * q + r
        BY <2>1, DigitsOfLarger
    <2>3. Right(q)
        BY <1>2, <2>2
    <2>4. s \in Seq(D) /\ ValueOf(s, base) = q /\ (q # 0 => Len(s) > 0 /\ s[1] # 0)
        BY <2>1, <2>3
    <2>5. s \in Seq(Nat) /\ r \in Nat
        BY <2>2, <2>4
    <2>6. Append(s, r) \in Seq(D) /\ Len(Append(s, r)) = Len(s) + 1 /\ Len(s) \in Nat
        BY <2>2, <2>4
    <2>7. ValueOf(Append(s, r), base) = m
        BY <2>2, <2>4, <2>5, ValueOfLonger
    <2>8. Append(s, r)[1] # 0
        <3>1. CASE q = 0
            <4>1. r = m /\ s = <<>>
                BY <2>1, <2>2, <3>1, DigitsOfZero
            <4>2. QED
                BY <4>1
        <3>2. CASE q # 0
            BY <2>4, <2>6, <3>2
        <3>3. QED
            BY <3>1, <3>2
    <2> HIDE DEF D
    <2>9. QED
        BY <2>2, <2>6, <2>7, <2>8
<1>3. T = {}
    <2> HIDE DEF Right
    <2>1. SUFFICES ASSUME T # {} PROVE FALSE
        OBVIOUS
    <2>2. T \in SUBSET Nat
        OBVIOUS
    <2>3. PICK m \in T : \A k \in T : m <= k
        BY <2>1, <2>2, LeastNat
    <2>4. m # 0 /\ \A k \in Nat : k < m => Right(k)
        BY <1>1, <2>3
    <2>5. QED
        BY <1>2, <2>3, <2>4
<1>4. Right(n)
    <2> HIDE DEF Right
    <2> QED
        BY <1>3
<1>5. QED
    BY <1>4

\* A list of digits that does not begin with zero is that of the number it writes.
LEMMA NumberHasTheDigits ==
    ASSUME NEW base \in Nat, base > 1, NEW s \in Seq(0 .. base - 1), Len(s) > 0, s[1] # 0
    PROVE  DigitsOf(ValueOf(s, base), base) = s /\ ValueOf(s, base) \in Nat \ {0}
<1>1. PICK n, v : n = Len(s) /\ v = ValuesOf(s, base)
    OBVIOUS
<1>2. n \in Nat /\ s \in Seq(Nat) /\ \A k \in 1 .. n : s[k] \in 0 .. base - 1
    BY <1>1
<1>3. v \in [0 .. n -> Nat] /\ v[0] = 0 /\ \A k \in 1 .. n : v[k] = base * v[k - 1] + s[k]
    BY <1>1, <1>2, ValuesOfDigits
<1> DEFINE Good(k) == DigitsOf(v[k], base) = SubSeq(s, 1, k) /\ (k # 0 => v[k] # 0)
<1>4. Good(0)
    <2>1. DigitsOf(0, base) = <<>>
        BY DigitsOfZero
    <2>2. SubSeq(s, 1, 0) = <<>>
        OBVIOUS
    <2>3. QED
        BY <1>3, <2>1, <2>2
<1>5. ASSUME NEW k \in 1 .. n, Good(k - 1) PROVE Good(k)
    <2>1. k - 1 \in 0 .. n /\ k \in 0 .. n
        BY <1>2
    <2>2. PICK q, r : q = v[k - 1] /\ r = s[k]
        OBVIOUS
    <2>3. q \in Nat /\ r \in 0 .. base - 1 /\ v[k] = base * q + r /\ v[k] \in Nat
        BY <1>2, <1>3, <2>1, <2>2
    <2>4. v[k] \div base = q /\ v[k] % base = r
        <3>1. base \in Nat \ {0}
            OBVIOUS
        <3>2. QED
            BY <2>3, <3>1, QuotientAndRest
    <2>5. v[k] # 0
        <3>1. CASE k = 1
            BY <1>3, <2>2, <2>3, <3>1
        <3>2. CASE k # 1
            <4>1. q # 0
                BY <1>5, <2>2, <3>2
            <4>2. base * q # 0
                BY <2>3, <4>1, ProductIsPositive
            <4>3. QED
                BY <2>3, <4>2, ProductIsPositive
        <3>3. QED
            BY <3>1, <3>2
    <2>6. DigitsOf(v[k], base) = Append(DigitsOf(q, base), r)
        BY <2>3, <2>4, <2>5, DigitsOfLarger
    <2>7. Append(SubSeq(s, 1, k - 1), s[k]) = SubSeq(s, 1, k)
        BY <1>1, <1>2, SubSeqGrows
    <2>8. QED
        BY <1>5, <2>2, <2>5, <2>6, <2>7
<1>6. \A k \in 0 .. n : Good(k)
    <2> HIDE DEF Good
    <2>0. PICK T : T = {k \in 0 .. n : ~Good(k)}
        OBVIOUS
    <2> SUFFICES ASSUME T # {} PROVE FALSE
        BY <2>0
    <2>1. T \in SUBSET Nat
        BY <1>2, <2>0
    <2>2. PICK m \in T : \A k \in T : m <= k
        BY <2>1, LeastNat
    <2>3. m # 0
        BY <1>4, <2>0
    <2>4. m \in 1 .. n /\ m - 1 \in 0 .. n /\ m - 1 \notin T
        BY <1>2, <2>0, <2>1, <2>2, <2>3
    <2>5. Good(m - 1)
        BY <2>0, <2>4
    <2>6. QED
        BY <1>5, <2>0, <2>2, <2>4, <2>5
<1>7. n \in 0 .. n /\ n # 0
    BY <1>1, <1>2
<1>8. SubSeq(s, 1, n) = s
    BY <1>1
<1>9. ValueOf(s, base) = v[n] /\ v[n] \in Nat
    BY <1>1, <1>2, <1>3, <1>7 DEF ValueOf
<1>10. DigitsOf(v[n], base) = SubSeq(s, 1, n) /\ v[n] # 0
    BY <1>6, <1>7
<1>11. QED
    BY <1>8, <1>9, <1>10

LEMMA NoLeadingZeros ==
    ASSUME NEW s \in Seq(Nat), Len(s) > 0, s[1] # 0
    PROVE  Zeros(LeadingZeros(s)) = <<>>
<1>1. PICK zeros : zeros = {n \in 0 .. Len(s) : \A i \in 1 .. n : s[i] = 0}
    OBVIOUS
<1>2. zeros = {0}
    <2>1. 0 \in zeros
        BY <1>1
    <2>2. ASSUME NEW n \in zeros PROVE n = 0
        BY <1>1
    <2>3. QED
        BY <2>1, <2>2
<1>3. LeadingZeros(s) = CHOOSE n \in zeros : \A m \in zeros : m <= n
    BY <1>1 DEF LeadingZeros
<1>4. LeadingZeros(s) = 0
    BY <1>2, <1>3
<1>5. QED
    BY <1>4 DEF Zeros

LEMMA NothingBefore == ASSUME NEW S, NEW s \in Seq(S) PROVE <<>> \o s = s
OBVIOUS

\* What begins with another byte than zero is found again in its text.
LEMMA RoundTrip ==
    ASSUME NEW bytes \in Seq(0 .. Byte - 1), Len(bytes) > 0, bytes[1] # 0
    PROVE  decodeBase58(encodeBase58(bytes)) = bytes
<1>1. Byte \in Nat /\ Byte > 1 /\ Base \in Nat /\ Base > 1
    BY CredentialsAssumption
<1>2. PICK n, text : n = ValueOf(bytes, Byte) /\ text = DigitsOf(n, Base)
    OBVIOUS
<1>3. n \in Nat \ {0} /\ DigitsOf(n, Byte) = bytes
    BY <1>1, <1>2, NumberHasTheDigits
<1>4. text \in Seq(0 .. Base - 1) /\ ValueOf(text, Base) = n /\ Len(text) > 0 /\ text[1] # 0
    BY <1>1, <1>2, <1>3, DigitsWriteTheNumber
<1>5. bytes \in Seq(Nat) /\ text \in Seq(Nat)
    BY <1>1, <1>4
<1>6. Zeros(LeadingZeros(bytes)) = <<>> /\ Zeros(LeadingZeros(text)) = <<>>
    BY <1>4, <1>5, NoLeadingZeros
<1>7. encodeBase58(bytes) = text
    <2>1. <<>> \o text = text
        BY <1>4, NothingBefore
    <2>2. QED
        BY <1>2, <1>6, <2>1 DEF encodeBase58
<1>8. decodeBase58(text) = <<>> \o DigitsOf(n, Byte)
    BY <1>3, <1>4, <1>6 DEF decodeBase58
<1>9. QED
    BY <1>3, <1>7, <1>8, NothingBefore

LEMMA AfterThePrefix ==
    ASSUME NEW S, NEW p \in Seq(S), NEW k \in Seq(S)
    PROVE  /\ IsPrefix(p, p \o k)
           /\ SubSeq(p \o k, Len(p) + 1, Len(p) + Len(k)) = k
<1>1. p \o k \in Seq(S) /\ Len(p \o k) = Len(p) + Len(k) /\ Len(p) \in Nat /\ Len(k) \in Nat
    OBVIOUS
<1>2. SubSeq(p, 1, Len(p)) = SubSeq(p \o k, 1, Len(p))
    OBVIOUS
<1>3. IsPrefix(p, p \o k)
    BY <1>1, <1>2 DEF IsPrefix
<1>4. SubSeq(p \o k, Len(p) + 1, Len(p) + Len(k)) = k
    OBVIOUS
<1>5. QED
    BY <1>3, <1>4

\* What resolveDidKey and extractEd25519PublicKey read out of the did:key that generateDIDKeyPair
\* made of a key is that key: encodeBase58 and decodeBase58 lose no byte, in any two bases.
THEOREM DIDSaysTheKey ==
    ASSUME NEW key \in PublicKeys
    PROVE  PublicKeyOf(DIDKeyOf(key)) = key
<1>1. PICK bytes : bytes = MulticodecPrefix \o key
    OBVIOUS
<1>2. key \in Seq(0 .. Byte - 1) /\ MulticodecPrefix \in Seq(0 .. Byte - 1) /\ MulticodecPrefix # <<>>
      /\ MulticodecPrefix[1] # 0
    BY CredentialsAssumption
<1>3. bytes \in Seq(0 .. Byte - 1) /\ Len(bytes) > 0 /\ bytes[1] # 0
    BY <1>1, <1>2
<1>4. decodeBase58(DIDKeyOf(key)) = bytes
    BY <1>1, <1>3, RoundTrip DEF DIDKeyOf
<1>5. KeyLength = Len(key)
    <2>1. (CHOOSE k \in PublicKeys : TRUE) \in PublicKeys
        OBVIOUS
    <2>2. QED
        BY <2>1, CredentialsAssumption DEF KeyLength
<1>6. IsPrefix(MulticodecPrefix, bytes)
      /\ SubSeq(bytes, Len(MulticodecPrefix) + 1, Len(MulticodecPrefix) + Len(key)) = key
    BY <1>1, <1>2, AfterThePrefix
<1>7. QED
    BY <1>4, <1>5, <1>6 DEF PublicKeyOf

-----------------------------------------------------------------------------
(* Verdicts on credentials                                                  *)

Payloads == [iss : {DIDKeyOf(k) : k \in PublicKeys}, exp : Nat]

Tokens == [payload : Payloads, signer : PublicKeys \cup {Missing}, over : Payloads]

Calls == [pc : {"library", "native", "answered"}, token : Tokens, verified : BOOLEAN, at : Nat]

\* A token as it was issued: the signature, if any, is its issuer's and over its payload.
AsIssued(t) == t.over = t.payload /\ t.signer \in {Missing, PublicKeyOf(t.payload.iss)}

\* The signature of a token that arrives is that of one which was issued.
Signature(t) == \E a \in issued : a.signer = t.signer /\ a.over = t.over

FitsItsPayload(t) == t.signer # Missing /\ t.over = t.payload

InTime(c) == \/ c.token.payload.exp = 0
             \/ c.at < c.token.payload.exp + ClockSkew
             \/ c.at <= c.token.payload.exp

TooLate(c) == c.token.payload.exp # 0 /\ c.token.payload.exp < c.at

Answer(c) == c.pc = "answered" => IF c.verified THEN FitsItsPayload(c.token) /\ InTime(c)
                                                ELSE FitsItsPayload(c.token) => TooLate(c)

\* A verdict is about the token alone, and what has been issued is never taken back.
CredentialInv ==
    /\ clock \in Nat
    /\ issued \subseteq Tokens /\ \A t \in issued : AsIssued(t)
    /\ verifying \in [Verifications -> Calls \cup {Missing}]
    /\ \A v \in Verifications : verifying[v] # Missing =>
          Signature(verifying[v].token) /\ Answer(verifying[v])

\* Of a token that arrived, the key of the issuer made the signature if it fits the payload.
LEMMA FittingIsTheIssuers ==
    ASSUME CredentialInv, NEW t \in Tokens, Signature(t)
    PROVE  verifyEdDSASignature(t) <=> FitsItsPayload(t)
<1>1. PICK a \in issued : a.signer = t.signer /\ a.over = t.over
    BY DEF Signature
<1>2. AsIssued(a)
    BY DEF CredentialInv
<1>3. QED
    BY <1>1, <1>2 DEF AsIssued, FitsItsPayload, verifyEdDSASignature

LEMMA IssuedStays ==
    ASSUME CredentialInv, NEW payload \in Payloads, NEW key \in PublicKeys, NEW signed \in BOOLEAN,
           payload.iss = DIDKeyOf(key), issued' = issued \cup {Token(key, payload, signed)},
           UNCHANGED <<clock, verifying>>
    PROVE  CredentialInv'
<1>1. PICK t : t = Token(key, payload, signed)
    OBVIOUS
<1>2. t \in Tokens /\ AsIssued(t)
    <2>1. PublicKeyOf(payload.iss) = key
        BY DIDSaysTheKey
    <2>2. t.payload = payload /\ t.over = payload /\ t.signer \in {key, Missing} /\ t \in Tokens
        BY <1>1 DEF Token, Tokens
    <2>3. QED
        BY <2>1, <2>2 DEF AsIssued
<1>3. issued' \subseteq Tokens /\ \A u \in issued' : AsIssued(u)
    BY <1>1, <1>2 DEF CredentialInv
<1>4. ASSUME NEW v \in Verifications
      PROVE  (verifying[v] # Missing => Signature(verifying[v].token) /\ Answer(verifying[v]))'
    BY DEF CredentialInv, Signature, Answer, InTime, TooLate, FitsItsPayload
<1>5. QED
    BY <1>3, <1>4 DEF CredentialInv, Signature, Answer, InTime, TooLate, FitsItsPayload, AsIssued

\* One call changes, to what is said of calls.
LEMMA CallChanges ==
    ASSUME CredentialInv, NEW v \in Verifications, NEW c \in Calls \cup {Missing},
           c # Missing => Signature(c.token) /\ Answer(c),
           verifying' = [verifying EXCEPT ![v] = c], UNCHANGED <<clock, issued>>
    PROVE  CredentialInv'
<1>1. verifying' \in [Verifications -> Calls \cup {Missing}]
    BY DEF CredentialInv
<1>2. ASSUME NEW w \in Verifications, verifying'[w] # Missing
      PROVE  Signature(verifying'[w].token) /\ Answer(verifying'[w])
    BY <1>2 DEF CredentialInv
<1>3. QED
    BY <1>1, <1>2 DEF CredentialInv, Signature, Answer, InTime, TooLate, FitsItsPayload, AsIssued

LEMMA PresentedIsMixed ==
    ASSUME CredentialInv, NEW t \in Presented
    PROVE  t \in Tokens /\ Signature(t)
<1>1. CASE t \in issued
    BY <1>1 DEF CredentialInv, Signature
<1>2. CASE t \notin issued
    <2>1. PICK a \in issued, b \in issued : t = [a EXCEPT !.payload = b.payload]
        BY <1>2 DEF Presented
    <2>2. a \in Tokens /\ b \in Tokens
        BY DEF CredentialInv
    <2>3. t \in Tokens /\ t.signer = a.signer /\ t.over = a.over
        BY <2>1, <2>2 DEF Tokens
    <2>4. QED
        BY <2>3 DEF Signature
<1>3. QED
    BY <1>1, <1>2

LEMMA CredentialSteps == CredentialInv /\ [CredentialNext]_credentialVars => CredentialInv'
<1> SUFFICES ASSUME CredentialInv, [CredentialNext]_credentialVars PROVE CredentialInv'
    OBVIOUS
<1> USE CredentialsAssumption
<1>1. ASSUME NEW k \in PublicKeys, NEW date \in Lifetimes, NEW seconds \in Lifetimes, issueVC(k, date, seconds)
      PROVE  CredentialInv'
    <2>1. PICK p : p = [iss |-> DIDKeyOf(k), exp |-> ExpiryOf(date, seconds)]
        OBVIOUS
    <2>2. p \in Payloads /\ p.iss = DIDKeyOf(k)
        <3>1. ExpiryOf(date, seconds) \in Nat
            BY DEF CredentialInv, ExpiryOf
        <3>2. QED
            BY <2>1, <3>1 DEF Payloads
    <2>3. QED
        BY <1>1, <2>1, <2>2, IssuedStays DEF issueVC
<1>2. ASSUME NEW k \in PublicKeys, createFallbackVC(k)
      PROVE  CredentialInv'
    <2>1. PICK p : p = [iss |-> DIDKeyOf(k), exp |-> 0]
        OBVIOUS
    <2>2. p \in Payloads /\ p.iss = DIDKeyOf(k)
        BY <2>1 DEF Payloads
    <2>3. QED
        BY <1>2, <2>1, <2>2, IssuedStays DEF createFallbackVC
<1>3. ASSUME NEW v \in Verifications, NEW t \in Presented, present(v, t)
      PROVE  CredentialInv'
    <2>1. PICK c : c = [pc |-> "library", token |-> t, verified |-> FALSE, at |-> clock]
        OBVIOUS
    <2>2. t \in Tokens /\ Signature(t)
        BY PresentedIsMixed
    <2>3. c \in Calls /\ Signature(c.token) /\ Answer(c)
        BY <2>1, <2>2 DEF Calls, Answer, CredentialInv
    <2>4. QED
        BY <1>3, <2>1, <2>3, CallChanges DEF present
<1>4. ASSUME NEW v \in Verifications, verifyVC(v)
      PROVE  CredentialInv'
    <2>1. PICK c : c = verifying[v]
        OBVIOUS
    <2>2. c # Missing /\ c \in Calls /\ Signature(c.token) /\ c.token \in Tokens
        BY <1>4, <2>1 DEF verifyVC, CredentialInv, Calls
    <2>3. PICK works \in BOOLEAN :
              verifying' = [verifying EXCEPT ![v] =
                 IF works /\ LibraryAccepts(c.token)
                 THEN [c EXCEPT !.pc = "answered", !.verified = TRUE, !.at = clock]
                 ELSE [c EXCEPT !.pc = "native"]]
        BY <1>4, <2>1 DEF verifyVC
    <2>4. PICK d : /\ d = IF works /\ LibraryAccepts(c.token)
                          THEN [c EXCEPT !.pc = "answered", !.verified = TRUE, !.at = clock]
                          ELSE [c EXCEPT !.pc = "native"]
                   /\ verifying' = [verifying EXCEPT ![v] = d]
        BY <2>3
    <2>5. CASE works /\ LibraryAccepts(c.token)
        <3>1. d = [c EXCEPT !.pc = "answered", !.verified = TRUE, !.at = clock]
            BY <2>4, <2>5
        <3>2. /\ d \in Calls /\ d.token = c.token /\ d.verified = TRUE /\ d.at = clock
              /\ clock \in Nat /\ c.token.payload.exp \in Nat
            <4>1. clock \in Nat
                BY DEF CredentialInv
            <4>2. c.token.payload.exp \in Nat
                BY <2>2 DEF Tokens, Payloads
            <4>3. QED
                BY <2>2, <3>1, <4>1, <4>2 DEF Calls
        <3>3. FitsItsPayload(d.token)
            BY <2>2, <2>5, <3>2, FittingIsTheIssuers DEF LibraryAccepts
        <3>4. InTime(d)
            BY <2>5, <3>2 DEF LibraryAccepts, InTime
        <3>5. QED
            BY <1>4, <2>2, <2>4, <3>2, <3>3, <3>4, CallChanges DEF verifyVC, Answer
    <2>6. CASE ~(works /\ LibraryAccepts(c.token))
        <3>1. d = [c EXCEPT !.pc = "native"]
            BY <2>4, <2>6
        <3>2. d \in Calls /\ d.token = c.token /\ d.pc = "native"
            BY <2>2, <3>1 DEF Calls
        <3>3. QED
            BY <1>4, <2>2, <2>4, <3>2, CallChanges DEF verifyVC, Answer
    <2>7. QED
        BY <2>5, <2>6
<1>5. ASSUME NEW v \in Verifications, verifyVCNative(v)
      PROVE  CredentialInv'
    <2>1. PICK c : c = verifying[v]
        OBVIOUS
    <2>2. c # Missing /\ c \in Calls /\ Signature(c.token) /\ c.token \in Tokens
        BY <1>5, <2>1 DEF verifyVCNative, CredentialInv, Calls
    <2>3. PICK d : d = [c EXCEPT !.pc = "answered", !.verified = NativelyVerified(c.token), !.at = clock]
        OBVIOUS
    <2>4. NativelyVerified(c.token) \in BOOLEAN /\ clock \in Nat /\ c.token.payload.exp \in Nat
        BY <2>2 DEF NativelyVerified, verifyEdDSASignature, CredentialInv, Tokens, Payloads
    <2>5. d \in Calls /\ d.token = c.token /\ d.verified = NativelyVerified(c.token) /\ d.at = clock
        BY <2>2, <2>3, <2>4 DEF Calls
    <2>6. NativelyVerified(c.token) <=>
              (c.token.payload.exp = 0 \/ c.token.payload.exp >= clock) /\ FitsItsPayload(c.token)
        BY <2>2, FittingIsTheIssuers DEF NativelyVerified
    <2>7. Answer(d)
        BY <2>4, <2>5, <2>6 DEF Answer, InTime, TooLate
    <2>8. QED
        BY <1>5, <2>1, <2>2, <2>3, <2>5, <2>7, CallChanges DEF verifyVCNative
<1>6. ASSUME NEW v \in Verifications, extractClaims(v)
      PROVE  CredentialInv'
    BY <1>6, CallChanges DEF extractClaims
<1>7. ASSUME Second
      PROVE  CredentialInv'
    BY <1>7 DEF Second, CredentialInv, Signature, Answer, InTime, TooLate, FitsItsPayload, AsIssued
<1>8. ASSUME UNCHANGED credentialVars
      PROVE  CredentialInv'
    BY <1>8 DEF credentialVars, CredentialInv, Signature, Answer, InTime, TooLate, FitsItsPayload, AsIssued
<1>9. QED
    BY <1>1, <1>2, <1>3, <1>4, <1>5, <1>6, <1>7, <1>8 DEF CredentialNext

LEMMA CredentialsBegin == CredentialInit => CredentialInv
BY DEF CredentialInit, CredentialInv, Tokens

LEMMA RightVerdicts == CredentialInv => VerdictsAreRight
<1> SUFFICES ASSUME CredentialInv PROVE VerdictsAreRight
    OBVIOUS
<1>1. ASSUME NEW v \in Verifications, Decided(v)
      PROVE  /\ verifying[v] \in Calls /\ verifying[v].token \in Tokens
             /\ Signature(verifying[v].token) /\ Answer(verifying[v]) /\ verifying[v].pc = "answered"
    BY <1>1 DEF CredentialInv, Decided, Calls
<1>2. VerifiedIsGenuine
    <2> SUFFICES ASSUME NEW v \in Verifications, NEW c, c = verifying[v], Decided(v), c.verified
                 PROVE  /\ \E t \in issued : t.signer # Missing /\ t.payload = c.token.payload
                        /\ InTime(c)
        BY DEF VerifiedIsGenuine, InTime
    <2>1. FitsItsPayload(c.token) /\ InTime(c) /\ Signature(c.token)
        BY <1>1 DEF Answer
    <2>2. PICK a \in issued : a.signer = c.token.signer /\ a.over = c.token.over
        BY <2>1 DEF Signature
    <2>3. AsIssued(a)
        BY DEF CredentialInv
    <2>4. QED
        BY <2>1, <2>2, <2>3 DEF AsIssued, FitsItsPayload
<1>3. SignedVerifies
    <2> SUFFICES ASSUME NEW v \in Verifications, NEW c, c = verifying[v], Decided(v), ~c.verified
                 PROVE  c.token \notin issued \/ c.token.signer = Missing \/ TooLate(c)
        BY DEF SignedVerifies, TooLate
    <2>1. FitsItsPayload(c.token) => TooLate(c)
        BY <1>1 DEF Answer
    <2>2. c.token \in issued => c.token.over = c.token.payload
        BY DEF CredentialInv, AsIssued
    <2>3. QED
        BY <2>1, <2>2 DEF FitsItsPayload
<1>4. QED
    BY <1>2, <1>3 DEF VerdictsAreRight

\* A credential is called verified exactly for what was issued under its issuer's signature and in its
\* time: whichever of verifyVC's two ways answers, however long it took, and for every key, since the
\* text of a did:key can be read back.
THEOREM EveryVerdictIsRight == CredentialSpec => []VerdictsAreRight
<1>1. CredentialInit => CredentialInv
    BY CredentialsBegin
<1>2. CredentialInv /\ [CredentialNext]_credentialVars => CredentialInv'
    BY CredentialSteps
<1>3. CredentialInv => VerdictsAreRight
    BY RightVerdicts
<1>4. QED
    BY <1>1, <1>2, <1>3, PTL DEF CredentialSpec

-----------------------------------------------------------------------------
(* Signatures of documents                                                  *)

\* In the order of the names there are the same members.
LEMMA SortedIsTheSame ==
    ASSUME NEW members, NEW n \in Nat, DOMAIN members = 1 .. n,
           \A i \in 1 .. n : members[i].name \in Int, Different(members)
    PROVE  ToSet(Sorted(members)) = ToSet(members)
<1> DEFINE S == Names(members)
           before == {p \in S \X S : p[1] < p[2]}
           size == Cardinality(S)
<1>1. /\ \A i \in 1 .. n : members[i].name \in S
      /\ \A x \in S : x \in Int /\ \E i \in 1 .. n : members[i].name = x
    BY DEF Names
<1>2. IsFiniteSet(S)
    <2>1. PICK f : f = [i \in 1 .. n |-> members[i].name]
        OBVIOUS
    <2>2. f \in Surjection(1 .. n, S)
        <3> HIDE DEF S
        <3>1. f \in [1 .. n -> S]
            BY <1>1, <2>1
        <3>2. \A x \in S : \E i \in 1 .. n : f[i] = x
            BY <1>1, <2>1
        <3>3. QED
            BY <3>1, <3>2 DEF Surjection
    <2>3. IsFiniteSet(1 .. n)
        BY FS_Interval
    <2>4. QED
        BY <2>2, <2>3, FS_Surjection
<1>3. \A x, y \in S : <<x, y>> \in before <=> x < y
    OBVIOUS
<1>4. IsTotalOrder(S, before)
    <2> HIDE DEF S, before
    <2>1. \A x \in S : <<x, x>> \notin before
        BY <1>1, <1>3
    <2>2. ASSUME NEW x \in S, NEW y \in S PROVE x = y \/ <<x, y>> \in before \/ <<y, x>> \in before
        <3>1. x = y \/ x < y \/ y < x
            BY <1>1
        <3>2. QED
            BY <1>3, <3>1
    <2>3. \A x, y, z \in S : <<x, y>> \in before /\ <<y, z>> \in before => <<x, z>> \in before
        BY <1>1, <1>3
    <2>4. QED
        BY <2>1, <2>2, <2>3 DEF IsTotalOrder
<1>5. PICK names : names = InOrder(S, before)
    OBVIOUS
<1>6. Enumerates(names, size, S, before)
    <2> HIDE DEF S, before
    <2> QED
        BY <1>2, <1>4, <1>5, InOrderSorts
<1>7. Sorted(members) = [i \in DOMAIN names |-> Member(members, names[i])]
    BY <1>5 DEF Sorted
<1>8. ASSUME NEW i \in 1 .. n PROVE Member(members, members[i].name) = members[i]
    BY <1>8 DEF Member, Different
<1> HIDE DEF S, before, size
<1>9. /\ DOMAIN names = 1 .. size /\ \A k \in 1 .. size : names[k] \in S
      /\ \A x \in S : \E k \in 1 .. size : names[k] = x
    BY <1>6 DEF Enumerates
<1>10. ASSUME NEW m \in ToSet(Sorted(members)) PROVE m \in ToSet(members)
    <2>1. PICK k \in 1 .. size : m = Member(members, names[k])
        BY <1>7, <1>9 DEF ToSet
    <2>2. PICK i \in 1 .. n : members[i].name = names[k]
        BY <1>1, <1>9
    <2>3. m = members[i]
        BY <1>8, <2>1, <2>2
    <2>4. QED
        BY <2>3 DEF ToSet
<1>11. ASSUME NEW m \in ToSet(members) PROVE m \in ToSet(Sorted(members))
    <2>1. PICK i \in 1 .. n : m = members[i]
        BY DEF ToSet
    <2>2. PICK k \in 1 .. size : names[k] = members[i].name
        BY <1>1, <1>9
    <2>3. m = Member(members, names[k])
        BY <1>8, <2>1, <2>2
    <2>4. QED
        BY <1>7, <1>9, <2>3 DEF ToSet
<1>12. QED
    BY <1>10, <1>11

MemberType == [name : Int, value : Int, object : Seq(Leaf)]

LEMMA ObjectParts ==
    ASSUME NEW members, IsObject(members)
    PROVE  /\ Len(members) \in Nat /\ DOMAIN members = 1 .. Len(members) /\ Different(members)
           /\ \A m \in ToSet(members) : m \in MemberType /\ Different(m.object)
           /\ \A i \in 1 .. Len(members) : members[i] \in MemberType /\ members[i].name \in Int
           /\ ToSet(Sorted(members)) = ToSet(members)
<1>1. members \in Seq(MemberType) /\ Different(members) /\ \A i \in DOMAIN members : Different(members[i].object)
    BY DEF IsObject, MemberType
<1>2. Len(members) \in Nat /\ DOMAIN members = 1 .. Len(members)
    BY <1>1
<1>3. \A i \in 1 .. Len(members) : members[i] \in MemberType
    BY <1>1
<1>4. \A i \in 1 .. Len(members) : members[i].name \in Int
    BY <1>3 DEF MemberType
<1>5. \A m \in ToSet(members) : m \in MemberType /\ Different(m.object)
    BY <1>1, <1>2, <1>3 DEF ToSet
<1>6. ToSet(Sorted(members)) = ToSet(members)
    BY <1>1, <1>2, <1>4, SortedIsTheSame
<1>7. QED
    BY <1>1, <1>2, <1>3, <1>4, <1>5, <1>6

\* The canonical text tells the content, and nothing but its order is lost.
LEMMA CanonicalContent ==
    ASSUME NEW members, IsObject(members)
    PROVE  Content(canonicalize(members)) = Content(members)
<1> DEFINE Inner(m) == {<<n.name, n.value>> : n \in ToSet(m.object)}
           Row(m) == <<m.name, m.value, Inner(m)>>
           Canon(m) == [m EXCEPT !.object = Sorted(@)]
<1>1. ASSUME NEW m \in ToSet(members) PROVE Row(Canon(m)) = Row(m)
    <2>1. m \in MemberType /\ Different(m.object)
        BY ObjectParts
    <2>2. Canon(m).name = m.name /\ Canon(m).value = m.value /\ Canon(m).object = Sorted(m.object)
        BY <2>1 DEF MemberType
    <2>3. ToSet(Sorted(m.object)) = ToSet(m.object)
        <3>1. m.object \in Seq(Leaf)
            BY <2>1 DEF MemberType
        <3>2. /\ Len(m.object) \in Nat /\ DOMAIN m.object = 1 .. Len(m.object)
              /\ \A i \in 1 .. Len(m.object) : m.object[i] \in Leaf
            BY <3>1
        <3>3. \A i \in 1 .. Len(m.object) : m.object[i].name \in Int
            BY <3>2 DEF Leaf
        <3>4. QED
            BY <2>1, <3>2, <3>3, SortedIsTheSame
    <2>4. QED
        BY <2>2, <2>3
<1>2. ToSet(Sorted(members)) = ToSet(members)
    BY ObjectParts
<1>3. Content(members) = {Row(m) : m \in ToSet(members)}
    BY DEF Content
<1>4. Content(canonicalize(members)) = {Row(m) : m \in ToSet(canonicalize(members))}
    BY DEF Content
<1>5. ToSet(canonicalize(members)) = {Canon(m) : m \in ToSet(Sorted(members))}
    BY DEF canonicalize, ToSet
<1> HIDE DEF Row, Canon
<1>6. QED
    BY <1>1, <1>2, <1>3, <1>4, <1>5

\* The text with the names of the top level tells what is at the top.
LEMMA ListedContent ==
    ASSUME NEW members, IsObject(members)
    PROVE  TopContent(ListedNames(members)) = TopContent(members)
<1> DEFINE Row(m) == <<m.name, m.value>>
           sorted == Sorted(members)
<1>1. \A i \in DOMAIN sorted : sorted[i] \in MemberType
    BY ObjectParts DEF ToSet
<1>2. ToSet(sorted) = ToSet(members)
    BY ObjectParts
<1>3. PICK inside : ListedNames(members) = [i \in DOMAIN sorted |-> [sorted[i] EXCEPT !.object = inside[i]]]
    <2>1. PICK inside : inside = [i \in DOMAIN sorted |->
              SelectSeq(Sorted(sorted[i].object), LAMBDA m : m.name \in Names(members))]
        OBVIOUS
    <2>2. ListedNames(members) = [i \in DOMAIN sorted |-> [sorted[i] EXCEPT !.object = inside[i]]]
        BY <2>1 DEF ListedNames
    <2>3. QED
        BY <2>2
<1> HIDE DEF sorted
<1>4. \A i \in DOMAIN sorted : Row([sorted[i] EXCEPT !.object = inside[i]]) = Row(sorted[i])
    BY <1>1 DEF MemberType
<1>5. TopContent(members) = {Row(sorted[i]) : i \in DOMAIN sorted}
    BY <1>2 DEF TopContent, ToSet
<1>6. TopContent(ListedNames(members)) = {Row([sorted[i] EXCEPT !.object = inside[i]]) : i \in DOMAIN sorted}
    <2>1. ToSet(ListedNames(members)) = {[sorted[i] EXCEPT !.object = inside[i]] : i \in DOMAIN sorted}
        BY <1>3 DEF ToSet
    <2>2. QED
        BY <2>1 DEF TopContent
<1> HIDE DEF Row
<1>7. QED
    BY <1>4, <1>5, <1>6

\* An object keeps its shape when a store reverses it and when a value of it changes.
LEMMA SignedIsObject ==
    ASSUME NEW scheme, NEW draft, IsObject(draft), NEW key \in Int
    PROVE  IsObject(Signed(scheme, draft, key))
<1>1. CASE scheme = "ed25519"
    <2>1. PICK signed : signed = Signed(scheme, draft, key)
        OBVIOUS
    <2>2. signed = [i \in DOMAIN draft |-> IF draft[i].name = Issuer THEN [draft[i] EXCEPT !.value = key] ELSE draft[i]]
        BY <1>1, <2>1 DEF Signed
    <2>3. \A i \in DOMAIN draft : /\ signed[i] \in MemberType
                                 /\ signed[i].name = draft[i].name /\ signed[i].object = draft[i].object
        BY <2>2, ObjectParts DEF MemberType
    <2>4. DOMAIN signed = DOMAIN draft /\ DOMAIN draft = 1 .. Len(draft) /\ Len(draft) \in Nat
        BY <2>2, ObjectParts
    <2>5. signed \in Seq(MemberType)
        BY <2>2, <2>3, <2>4
    <2>6. QED
        BY <2>1, <2>3, <2>4, <2>5 DEF IsObject, Different, MemberType
<1>2. CASE scheme # "ed25519"
    BY <1>2 DEF Signed
<1>3. QED
    BY <1>1, <1>2

LEMMA ReverseKeepsDifferent ==
    ASSUME NEW T, NEW s \in Seq(T), Different(s)
    PROVE  Reverse(s) \in Seq(T) /\ Different(Reverse(s)) /\ Len(Reverse(s)) = Len(s)
<1>1. PICK n : n = Len(s)
    OBVIOUS
<1>2. n \in Nat /\ DOMAIN s = 1 .. n /\ \A i \in 1 .. n : s[i] \in T
    BY <1>1
<1>3. PICK r : r = Reverse(s)
    OBVIOUS
<1>4. r = [i \in 1 .. n |-> s[(n - i) + 1]]
    BY <1>1, <1>3 DEF Reverse
<1>5. \A i \in 1 .. n : (n - i) + 1 \in 1 .. n
    BY <1>2
<1>6. r \in Seq(T) /\ Len(r) = n /\ DOMAIN r = 1 .. n
    BY <1>2, <1>4, <1>5
<1>7. ASSUME NEW i \in 1 .. n, NEW j \in 1 .. n, r[i].name = r[j].name PROVE i = j
    <2>1. s[(n - i) + 1].name = s[(n - j) + 1].name
        BY <1>4, <1>7
    <2>2. (n - i) + 1 = (n - j) + 1
        BY <1>2, <1>5, <2>1 DEF Different
    <2>3. QED
        BY <1>2, <2>2
<1>8. QED
    BY <1>1, <1>3, <1>6, <1>7 DEF Different

LEMMA StoredIsObject == ASSUME NEW members, IsObject(members) PROVE IsObject(Stored(members))
<1>1. PICK r, s : r = Reverse(members) /\ s = Stored(members)
    OBVIOUS
<1>2. /\ members \in Seq(MemberType) /\ Different(members)
      /\ \A i \in DOMAIN members : Different(members[i].object)
    BY DEF IsObject, MemberType
<1>3. /\ r \in Seq(MemberType) /\ Different(r) /\ Len(r) = Len(members)
    BY <1>1, <1>2, ReverseKeepsDifferent
<1>4. PICK n : n = Len(members)
    OBVIOUS
<1>5. n \in Nat /\ DOMAIN members = 1 .. n /\ DOMAIN r = 1 .. n
    BY <1>2, <1>3, <1>4
<1>6. s = [i \in 1 .. n |-> [r[i] EXCEPT !.object = Reverse(@)]]
    BY <1>1, <1>5 DEF Stored
<1>7. ASSUME NEW i \in 1 .. n
      PROVE  s[i] \in MemberType /\ s[i].name = r[i].name /\ Different(s[i].object)
    <2>1. r[i] \in MemberType
        BY <1>3, <1>5
    <2>2. r[i] = members[(n - i) + 1] /\ (n - i) + 1 \in 1 .. n
        BY <1>1, <1>4, <1>5 DEF Reverse
    <2>3. Different(r[i].object) /\ r[i].object \in Seq(Leaf)
        BY <1>2, <1>5, <2>1, <2>2 DEF MemberType
    <2>4. Reverse(r[i].object) \in Seq(Leaf) /\ Different(Reverse(r[i].object))
        BY <2>3, ReverseKeepsDifferent
    <2>5. s[i] = [r[i] EXCEPT !.object = Reverse(r[i].object)]
        BY <1>6
    <2>6. s[i].object = Reverse(r[i].object)
        BY <2>1, <2>5 DEF MemberType
    <2>7. s[i] \in MemberType /\ s[i].name = r[i].name
        BY <2>1, <2>4, <2>5 DEF MemberType
    <2>8. QED
        BY <2>4, <2>6, <2>7
<1>8. DOMAIN s = 1 .. n /\ s \in Seq(MemberType)
    <2>1. DOMAIN s = 1 .. n
        BY <1>6
    <2>2. s \in [1 .. n -> MemberType]
        BY <1>6, <1>7, Zenon
    <2>3. QED
        BY <1>5, <2>1, <2>2
<1>9. Different(s)
    BY <1>3, <1>5, <1>7, <1>8 DEF Different
<1>10. IsObject(s)
    BY <1>7, <1>8, <1>9 DEF IsObject, MemberType
<1>11. QED
    BY <1>1, <1>10

LEMMA EditedIsObject ==
    ASSUME NEW members, IsObject(members), NEW i \in DOMAIN members
    PROVE  /\ IsObject([members EXCEPT ![i].value = EditValue])
           /\ \A j \in DOMAIN members[i].object : IsObject([members EXCEPT ![i].object[j].value = EditValue])
<1>1. /\ members \in Seq(MemberType) /\ Different(members)
      /\ \A k \in DOMAIN members : Different(members[k].object)
    BY DEF IsObject, MemberType
<1>2. PICK n : n = Len(members)
    OBVIOUS
<1>3. n \in Nat /\ DOMAIN members = 1 .. n /\ \A k \in 1 .. n : members[k] \in MemberType
    BY <1>1, <1>2
<1>4. ASSUME NEW m \in MemberType, m.name = members[i].name, Different(m.object)
      PROVE  IsObject([members EXCEPT ![i] = m])
    <2>1. PICK s : s = [members EXCEPT ![i] = m]
        OBVIOUS
    <2>2. s \in Seq(MemberType) /\ DOMAIN s = 1 .. n
        BY <1>1, <1>3, <2>1
    <2>3. \A k \in 1 .. n : s[k].name = members[k].name /\ Different(s[k].object)
        BY <1>1, <1>3, <1>4, <2>1
    <2>4. Different(s)
        BY <1>1, <1>3, <2>2, <2>3 DEF Different
    <2>5. IsObject(s)
        BY <2>2, <2>3, <2>4 DEF IsObject, MemberType
    <2>6. QED
        BY <2>1, <2>5
<1>5. IsObject([members EXCEPT ![i].value = EditValue])
    <2>1. PICK m : m = [members[i] EXCEPT !.value = EditValue]
        OBVIOUS
    <2>2. m \in MemberType /\ m.name = members[i].name /\ m.object = members[i].object
        BY <1>3, <2>1, SignaturesAssumption DEF MemberType
    <2>3. IsObject([members EXCEPT ![i] = m])
        BY <1>1, <1>4, <2>2
    <2>4. QED
        BY <2>1, <2>3
<1>6. ASSUME NEW j \in DOMAIN members[i].object
      PROVE  IsObject([members EXCEPT ![i].object[j].value = EditValue])
    <2>1. PICK object : object = [members[i].object EXCEPT ![j].value = EditValue]
        OBVIOUS
    <2>2. members[i].object \in Seq(Leaf) /\ Different(members[i].object)
        BY <1>1, <1>3 DEF MemberType
    <2>3. PICK leaf : leaf = [members[i].object[j] EXCEPT !.value = EditValue]
        OBVIOUS
    <2>4. leaf \in Leaf /\ leaf.name = members[i].object[j].name
        <3>1. members[i].object[j] \in Leaf
            BY <2>2
        <3>2. QED
            BY <2>3, <3>1, SignaturesAssumption DEF Leaf
    <2>5. object = [members[i].object EXCEPT ![j] = leaf]
        BY <2>1, <2>3
    <2>6. object \in Seq(Leaf)
        BY <2>2, <2>4, <2>5
    <2>7. Different(object)
        BY <2>2, <2>4, <2>5 DEF Different
    <2>8. PICK m : m = [members[i] EXCEPT !.object = object]
        OBVIOUS
    <2>9. m \in MemberType /\ m.name = members[i].name /\ m.object = object
        BY <1>3, <2>6, <2>8 DEF MemberType
    <2>10. IsObject([members EXCEPT ![i] = m])
        BY <1>4, <2>7, <2>9
    <2>11. QED
        BY <2>1, <2>8, <2>10
<1>7. QED
    BY <1>5, <1>6

(***************************************************************************)
(* The inductive invariant: what was signed and what it became are objects *)
(* of one shape, the signature is over the text of what was signed, and    *)
(* what was accepted had that text when it was verified, and has it still, *)
(* because nothing changes a copy after its verdict.                       *)
(***************************************************************************)
Objects == {m \in Seq(MemberType) : IsObject(m)}
Texts == {TextOf(scheme, m) : scheme \in Schemes, m \in Objects} \union {<<>>}

CopyType ==
    [scheme : Schemes \union {"none"}, key : Int, members : Objects, original : Objects, text : Texts,
     verdict : {"none", "accepted", "refused"}]

SignedText(c) ==
    /\ copy[c].scheme # "none" => copy[c].text = TextOf(copy[c].scheme, copy[c].original)
    /\ copy[c].verdict = "accepted" =>
           copy[c].scheme # "none" /\ copy[c].text = TextOf(copy[c].scheme, copy[c].members)

SignatureInv == copy \in [Copies -> CopyType] /\ \A c \in Copies : SignedText(c)

LEMMA ObjectsAreObjects == ASSUME NEW m, IsObject(m) PROVE m \in Objects
BY DEF Objects, IsObject, MemberType

\* An equal text is an equal content, as far as the scheme reads it.
LEMMA TextTellsContent == ASSUME SignatureInv PROVE AcceptedFitsItsText
<1> SUFFICES ASSUME NEW c \in Copies, copy[c].verdict = "accepted" PROVE FitsItsText(c)
    BY DEF AcceptedFitsItsText
<1>1. PICK now, then : now = copy[c].members /\ then = copy[c].original
    OBVIOUS
<1>2. copy[c] \in CopyType /\ SignedText(c)
    BY DEF SignatureInv
<1>3. copy[c].scheme \in Schemes /\ IsObject(now) /\ IsObject(then)
    BY <1>1, <1>2 DEF CopyType, SignedText, Objects
<1>4. TextOf(copy[c].scheme, now) = TextOf(copy[c].scheme, then)
    BY <1>1, <1>2 DEF SignedText
<1>5. CASE copy[c].scheme = "ed25519"
    <2>1. canonicalize(now) = canonicalize(then)
        BY <1>4, <1>5 DEF TextOf
    <2>2. Content(now) = Content(then)
        BY <1>3, <2>1, CanonicalContent
    <2>3. QED
        BY <1>1, <1>5, <2>2 DEF FitsItsText
<1>6. CASE copy[c].scheme = "jws"
    <2>1. ListedNames(now) = ListedNames(then)
        BY <1>4, <1>6 DEF TextOf
    <2>2. TopContent(now) = TopContent(then)
        BY <1>3, <2>1, ListedContent
    <2>3. QED
        BY <1>1, <1>6, <2>2 DEF FitsItsText
<1>7. CASE copy[c].scheme = "hmac"
    <2>1. now = then
        BY <1>4, <1>7 DEF TextOf
    <2>2. QED
        BY <1>1, <1>7, <2>1 DEF FitsItsText
<1>8. QED
    BY <1>3, <1>5, <1>6, <1>7 DEF Schemes

\* A copy that becomes another, with the invariant of that one.
LEMMA OneCopyChanges ==
    ASSUME SignatureInv, NEW c \in Copies, NEW new \in CopyType, copy' = [copy EXCEPT ![c] = new],
           new.scheme # "none" => new.text = TextOf(new.scheme, new.original),
           new.verdict = "accepted" => new.scheme # "none" /\ new.text = TextOf(new.scheme, new.members)
    PROVE  SignatureInv'
<1>1. copy' \in [Copies -> CopyType] /\ copy'[c] = new /\ \A d \in Copies : d # c => copy'[d] = copy[d]
    BY DEF SignatureInv
<1>2. ASSUME NEW d \in Copies PROVE SignedText(d)'
    <2>1. CASE d = c
        BY <1>1, <2>1 DEF SignedText
    <2>2. CASE d # c
        BY <1>1, <2>2 DEF SignatureInv, SignedText
    <2>3. QED
        BY <2>1, <2>2
<1>3. QED
    BY <1>1, <1>2 DEF SignatureInv

LEMMA NewMembers ==
    ASSUME SignatureInv, NEW c \in Copies, NEW members, IsObject(members), copy[c].verdict = "none",
           copy' = [copy EXCEPT ![c].members = members]
    PROVE  SignatureInv'
<1>1. PICK new : new = [copy[c] EXCEPT !.members = members]
    OBVIOUS
<1>2. copy[c] \in CopyType /\ SignedText(c)
    BY DEF SignatureInv
<1>3. /\ new \in CopyType /\ new.verdict = "none"
      /\ new.scheme = copy[c].scheme /\ new.text = copy[c].text /\ new.original = copy[c].original
    BY <1>1, <1>2, ObjectsAreObjects DEF CopyType
<1>4. copy' = [copy EXCEPT ![c] = new]
    BY <1>1
<1>5. QED
    BY <1>2, <1>3, <1>4, OneCopyChanges DEF SignedText

LEMMA DecidedRight ==
    ASSUME SignatureInv, NEW c \in Copies, NEW accepted \in BOOLEAN, Decide(c, accepted),
           accepted => copy[c].scheme # "none" /\ copy[c].text = TextOf(copy[c].scheme, copy[c].members)
    PROVE  SignatureInv'
<1>1. PICK verdict : verdict = IF accepted THEN "accepted" ELSE "refused"
    OBVIOUS
<1>2. PICK new : new = [copy[c] EXCEPT !.verdict = verdict]
    OBVIOUS
<1>3. copy[c] \in CopyType /\ SignedText(c)
    BY DEF SignatureInv
<1>4. /\ new \in CopyType /\ new.verdict = verdict /\ new.members = copy[c].members
      /\ new.scheme = copy[c].scheme /\ new.text = copy[c].text /\ new.original = copy[c].original
    BY <1>1, <1>2, <1>3 DEF CopyType
<1>5. copy' = [copy EXCEPT ![c] = new]
    BY <1>1, <1>2 DEF Decide
<1>6. QED
    BY <1>1, <1>3, <1>4, <1>5, OneCopyChanges DEF SignedText

LEMMA SignatureStep == ASSUME SignatureInv, [SignatureNext]_signatureVars PROVE SignatureInv'
<1>1. CASE DayPasses \/ UNCHANGED signatureVars
    BY <1>1 DEF DayPasses, signatureVars, SignatureInv, SignedText
<1>2. ASSUME NEW c \in Copies, NEW scheme \in Schemes, NEW draft \in Drafts, NEW key \in SigningKeys,
             signCredential(c, scheme, draft, key)
      PROVE  SignatureInv'
    <2>1. PICK members : members = Signed(scheme, draft, key)
        OBVIOUS
    <2>2. IsObject(members) /\ key \in Int
        BY <2>1, SignedIsObject, SignaturesAssumption
    <2>3. PICK text : text = TextOf(scheme, members)
        OBVIOUS
    <2>4. text \in Texts /\ members \in Objects
        BY <2>2, <2>3, ObjectsAreObjects DEF Texts
    <2>5. PICK new : new = [scheme |-> scheme, key |-> key, members |-> members, original |-> members,
                            text |-> text, verdict |-> "none"]
        OBVIOUS
    <2>6. new \in CopyType /\ new.verdict = "none" /\ new.scheme = scheme /\ new.text = text /\ new.original = members
        BY <2>2, <2>4, <2>5 DEF CopyType
    <2>7. copy' = [copy EXCEPT ![c] = new]
        BY <1>2, <2>1, <2>3, <2>5 DEF signCredential
    <2>8. QED
        BY <2>3, <2>6, <2>7, OneCopyChanges
<1>3. ASSUME NEW c \in Copies, StoreCopy(c) PROVE SignatureInv'
    <2>1. PICK members : members = Stored(copy[c].members)
        OBVIOUS
    <2>2. IsObject(copy[c].members)
        BY DEF SignatureInv, CopyType, Objects
    <2>3. IsObject(members)
        BY <2>1, <2>2, StoredIsObject
    <2>4. copy' = [copy EXCEPT ![c].members = members] /\ copy[c].verdict = "none"
        BY <1>3, <2>1 DEF StoreCopy
    <2>5. QED
        BY <2>3, <2>4, NewMembers
<1>4. ASSUME NEW c \in Copies, DifferentCopy(c) PROVE SignatureInv'
    <2>1. IsObject(copy[c].members) /\ copy[c].verdict = "none"
        BY <1>4 DEF SignatureInv, CopyType, Objects, DifferentCopy
    <2>2. PICK i \in DOMAIN copy[c].members :
              \/ copy' = [copy EXCEPT ![c].members[i].value = EditValue]
              \/ \E j \in DOMAIN copy[c].members[i].object :
                     copy' = [copy EXCEPT ![c].members[i].object[j].value = EditValue]
        BY <1>4 DEF DifferentCopy
    <2>3. CASE copy' = [copy EXCEPT ![c].members[i].value = EditValue]
        <3>1. PICK members : members = [copy[c].members EXCEPT ![i].value = EditValue]
            OBVIOUS
        <3>2. IsObject(members)
            BY <2>1, <2>2, <3>1, EditedIsObject
        <3>3. copy' = [copy EXCEPT ![c].members = members]
            BY <2>3, <3>1
        <3>4. QED
            BY <2>1, <3>2, <3>3, NewMembers
    <2>4. ASSUME NEW j \in DOMAIN copy[c].members[i].object,
                 copy' = [copy EXCEPT ![c].members[i].object[j].value = EditValue]
          PROVE  SignatureInv'
        <3>1. PICK members : members = [copy[c].members EXCEPT ![i].object[j].value = EditValue]
            OBVIOUS
        <3>2. IsObject(members)
            BY <2>1, <2>2, <3>1, EditedIsObject
        <3>3. copy' = [copy EXCEPT ![c].members = members]
            BY <2>4, <3>1
        <3>4. QED
            BY <2>1, <3>2, <3>3, NewMembers
    <2>5. QED
        BY <2>2, <2>3, <2>4
<1>5. ASSUME NEW c \in Copies, verifyCredentialEd25519(c) \/ verifyCredentialSignature(c) \/ verifyCredential(c)
      PROVE  SignatureInv'
    <2>1. copy[c].scheme # "none"
        BY <1>5 DEF verifyCredentialEd25519, verifyCredentialSignature, verifyCredential
    <2>2. ASSUME NEW key, Decide(c, SignatureFits(c, key)) PROVE SignatureInv'
        <3>1. PICK accepted \in BOOLEAN : accepted = SignatureFits(c, key)
            BY DEF SignatureFits
        <3>2. Decide(c, accepted)
            BY <2>2, <3>1
        <3>3. QED
            BY <2>1, <3>1, <3>2, DecidedRight DEF SignatureFits
    <2>3. ASSUME NEW key, Decide(c, ~Expired(copy[c].members) /\ SignatureFits(c, key)) PROVE SignatureInv'
        <3>1. PICK accepted \in BOOLEAN : accepted = (~Expired(copy[c].members) /\ SignatureFits(c, key))
            BY DEF SignatureFits
        <3>2. Decide(c, accepted)
            BY <2>3, <3>1
        <3>3. QED
            BY <2>1, <3>1, <3>2, DecidedRight DEF SignatureFits
    <2>4. QED
        BY <1>5, <2>2, <2>3 DEF verifyCredentialEd25519, verifyCredentialSignature, verifyCredential
<1>6. QED
    BY <1>1, <1>2, <1>3, <1>4, <1>5 DEF SignatureNext

\* What is accepted is what the text of its signer tells of what was signed, for every
\* credential, key and way between.
THEOREM SignedIsWhatIsAccepted == SignatureSpec => []AcceptedFitsItsText
<1>1. SignatureInit => SignatureInv
    <2>1. <<>> \in Objects
        BY DEF Objects, IsObject, Different, MemberType
    <2>2. NoCopy \in CopyType
        BY <2>1 DEF NoCopy, CopyType, Texts
    <2>3. NoCopy.scheme = "none" /\ NoCopy.verdict = "none"
        BY DEF NoCopy
    <2>4. QED
        BY <2>2, <2>3 DEF SignatureInit, SignatureInv, SignedText
<1>2. SignatureInv /\ [SignatureNext]_signatureVars => SignatureInv'
    BY SignatureStep
<1>3. SignatureInv => AcceptedFitsItsText
    BY TextTellsContent
<1>4. QED
    BY <1>1, <1>2, <1>3, PTL DEF SignatureSpec

-----------------------------------------------------------------------------
(* Proofs of circuits                                                       *)

Item == [key : Int, json : Int]

\* A list is put in the order of its keys, and none is lost.
Grows(s) == \A k, l \in DOMAIN s : k < l => s[k].key <= s[l].key

LEMMA SortsBeforeIt ==
    ASSUME NEW items, NEW x \in DOMAIN items, NEW y \in DOMAIN items
    PROVE  <<x, y>> \in SortsBefore(items) <=> \/ items[x].key < items[y].key
                                              \/ (items[x].key = items[y].key /\ x < y)
BY DEF SortsBefore

LEMMA SortedList ==
    ASSUME NEW items \in Seq(Item)
    PROVE  Sort(items) \in Seq(Item) /\ Grows(Sort(items))
<1> DEFINE S == DOMAIN items
           before == SortsBefore(items)
           n == Len(items)
<1>1. n \in Nat /\ S = 1 .. n /\ \A i \in S : items[i] \in Item
    OBVIOUS
<1>13. PICK key : key = [i \in S |-> items[i].key]
    OBVIOUS
<1>14. key \in [S -> Int] /\ \A i \in S : items[i].key = key[i]
    BY <1>1, <1>13 DEF Item
<1>2. IsFiniteSet(S) /\ Cardinality(S) = n
    <2>1. Cardinality(1 .. n) = IF 1 > n THEN 0 ELSE n - 1 + 1
        BY <1>1, FS_Interval
    <2>2. QED
        BY <1>1, <2>1, FS_Interval
<1>3. \A x, y \in S : <<x, y>> \in before <=> key[x] < key[y] \/ (key[x] = key[y] /\ x < y)
    <2>1. ASSUME NEW x \in S, NEW y \in S
          PROVE  <<x, y>> \in before <=> \/ items[x].key < items[y].key
                                        \/ (items[x].key = items[y].key /\ x < y)
        BY SortsBeforeIt
    <2>2. QED
        <3> HIDE DEF before, S
        <3>1. ASSUME NEW x \in S, NEW y \in S
              PROVE  <<x, y>> \in before <=> key[x] < key[y] \/ (key[x] = key[y] /\ x < y)
            <4>1. items[x].key = key[x] /\ items[y].key = key[y]
                BY <1>14
            <4>2. QED
                BY <2>1, <4>1
        <3>2. QED
            BY <3>1
<1>4. IsTotalOrder(S, before)
    <2> HIDE DEF before, S
    <2>0. \A x \in S : x \in Int /\ key[x] \in Int
        BY <1>1, <1>14
    <2>1. \A x \in S : <<x, x>> \notin before
        BY <2>0, <1>3
    <2>2. ASSUME NEW x \in S, NEW y \in S PROVE x = y \/ <<x, y>> \in before \/ <<y, x>> \in before
        <3>1. \/ x = y \/ key[x] < key[y] \/ key[y] < key[x]
              \/ (key[x] = key[y] /\ x < y) \/ (key[y] = key[x] /\ y < x)
            BY <2>0
        <3>2. QED
            BY <1>3, <3>1
    <2>3. \A x, y, z \in S : <<x, y>> \in before /\ <<y, z>> \in before => <<x, z>> \in before
        BY <2>0, <1>3
    <2>4. QED
        BY <2>1, <2>2, <2>3 DEF IsTotalOrder
<1>5. PICK o : o = InOrder(S, before)
    OBVIOUS
<1>6. Enumerates(o, n, S, before)
    <2> HIDE DEF before, S, n
    <2> QED
        BY <1>2, <1>4, <1>5, InOrderSorts
<1>7. Sort(items) = [i \in S |-> items[o[i]]]
    BY <1>5 DEF Sort
<1>8. \A i \in S : o[i] \in S
    BY <1>1, <1>6 DEF Enumerates
<1> HIDE DEF before, S, n
<1>9. Sort(items) \in [1 .. n -> Item]
    BY <1>1, <1>7, <1>8
<1>10. ASSUME NEW k \in S, NEW l \in S, k < l PROVE items[o[k]].key <= items[o[l]].key
    <2>1. <<o[k], o[l]>> \in before
        BY <1>1, <1>6, <1>10 DEF Enumerates
    <2>2. key[o[k]] <= key[o[l]]
        BY <1>3, <1>8, <1>14, <2>1
    <2>3. QED
        BY <1>8, <1>14, <2>2
<1>11. Grows(Sort(items))
    BY <1>7, <1>10 DEF Grows
<1>12. QED
    BY <1>1, <1>9, <1>11

\* Lists in order that have the same plain items are one list.
LEMMA OneSortedList ==
    ASSUME NEW s \in Seq(Item), NEW t \in Seq(Item), Grows(s), Grows(t), Plain(s), Plain(t), ToSet(s) = ToSet(t)
    PROVE  s = t
<1> DEFINE S == ToSet(s)
           before == {p \in S \X S : p[1].key < p[2].key}
           n == Len(s)
           m == Len(t)
<1>1. /\ n \in Nat /\ m \in Nat
      /\ DOMAIN s = 1 .. n /\ DOMAIN t = 1 .. m
      /\ s \in [1 .. n -> Item] /\ t \in [1 .. m -> Item]
    OBVIOUS
<1>2. /\ \A x \in S : x \in Item /\ x.key \in Int
      /\ \A x \in S : \E k \in 1 .. n : s[k] = x
      /\ \A x \in S : \E k \in 1 .. m : t[k] = x
      /\ \A k \in 1 .. n : s[k] \in S
      /\ \A k \in 1 .. m : t[k] \in S
    BY <1>1 DEF ToSet, Item
<1>3. \A x, y \in S : <<x, y>> \in before <=> x.key < y.key
    OBVIOUS
<1> HIDE DEF S, before, n, m
<1>4. s \in [1 .. n -> S] /\ t \in [1 .. m -> S]
    BY <1>1, <1>2
<1>5. IsFiniteSet(S)
    <2>1. s \in Surjection(1 .. n, S)
        BY <1>2, <1>4 DEF Surjection
    <2>2. IsFiniteSet(1 .. n)
        BY <1>1, FS_Interval
    <2>3. QED
        BY <2>1, <2>2, FS_Surjection
<1>6. ASSUME NEW x \in S, NEW y \in S, x # y PROVE x.key # y.key
    <2>1. PICK k \in 1 .. n : s[k] = x
        BY <1>2
    <2>2. PICK l \in 1 .. n : s[l] = y
        BY <1>2
    <2>3. QED
        BY <1>1, <1>6, <2>1, <2>2 DEF Plain
<1>7. IsTotalOrder(S, before)
    <2>1. \A x \in S : <<x, x>> \notin before
        BY <1>2, <1>3
    <2>2. ASSUME NEW x \in S, NEW y \in S PROVE x = y \/ <<x, y>> \in before \/ <<y, x>> \in before
        <3>1. x.key \in Int /\ y.key \in Int
            BY <1>2
        <3>2. x = y \/ x.key < y.key \/ y.key < x.key
            BY <1>6, <3>1
        <3>3. QED
            BY <1>3, <3>2
    <2>3. \A x, y, z \in S : <<x, y>> \in before /\ <<y, z>> \in before => <<x, z>> \in before
        BY <1>2, <1>3
    <2>4. QED
        BY <2>1, <2>2, <2>3 DEF IsTotalOrder
<1>8. ASSUME NEW k \in 1 .. n, NEW l \in 1 .. n, k < l PROVE <<s[k], s[l]>> \in before
    <2>1. s[k].key <= s[l].key /\ s[k].key # s[l].key
        BY <1>1, <1>8 DEF Grows, Plain
    <2>2. s[k] \in S /\ s[l] \in S
        BY <1>2
    <2>3. QED
        BY <1>2, <1>3, <2>1, <2>2
<1>9. ASSUME NEW k \in 1 .. m, NEW l \in 1 .. m, k < l PROVE <<t[k], t[l]>> \in before
    <2>1. t[k].key <= t[l].key /\ t[k].key # t[l].key
        BY <1>1, <1>9 DEF Grows, Plain
    <2>2. t[k] \in S /\ t[l] \in S
        BY <1>2
    <2>3. QED
        BY <1>2, <1>3, <2>1, <2>2
<1>10. Enumerates(s, n, S, before) /\ Enumerates(t, m, S, before)
    BY <1>1, <1>2, <1>4, <1>8, <1>9 DEF Enumerates
<1>11. QED
    BY <1>5, <1>7, <1>10, OneOrder

(***************************************************************************)
(* The inductive invariant: each generation has the shape of its circuit,  *)
(* and the last judgement is what the verifier of that circuit says of the *)
(* proof and of the public inputs, whoever made them.                      *)
(***************************************************************************)
ProofOf(type, c, text) == [type |-> type, commitment |-> c, validityProof |-> Hmac(c, text)]

ThresholdMade(g, c, x) ==
    /\ g.type = "threshold"
    /\ g.public = [threshold |-> <<x>>, commitment |-> c]
    /\ g.proof = ProofOf("threshold", c, <<x>>)

RangeMade(g, c, x, y) ==
    /\ g.type = "range"
    /\ g.public = [min |-> <<x>>, max |-> <<y>>, commitment |-> c]
    /\ g.proof = ProofOf("range", c, <<x, y>>)

SetMade(g, c, s) ==
    /\ g.type = "set_membership"
    /\ g.public = [setHash |-> s, commitment |-> c, setSize |-> Len(s)]
    /\ g.proof = ProofOf("set_membership", c, <<s>>)
    /\ s \in Seq(Item) /\ Grows(s)

Shaped(g) ==
    \/ \E c, x : ThresholdMade(g, c, x)
    \/ \E c, x, y : RangeMade(g, c, x, y)
    \/ \E c, s : SetMade(g, c, s)

Judged(j) ==
    /\ j.type \in CircuitTypes
    /\ j.accepted = verifyProof(j.type, j.proof, j.public)

CircuitInv ==
    /\ heldList \in Seq(Item)
    /\ \A g \in made : Shaped(g)
    /\ \A j \in judged : Judged(j)

LEMMA TwoSegments == ASSUME NEW x, NEW y PROVE <<x>> \o <<y>> = <<x, y>>
<1>1. <<x>> \in Seq({x, y}) /\ <<y>> \in Seq({x, y})
    OBVIOUS
<1>2. Len(<<x>> \o <<y>>) = 2 /\ (<<x>> \o <<y>>)[1] = x /\ (<<x>> \o <<y>>)[2] = y
    BY <1>1
<1>3. <<x>> \o <<y>> \in Seq({x, y})
    BY <1>1
<1>4. \A z \in Seq({x, y}) : Len(z) = 2 /\ z[1] = x /\ z[2] = y => z = <<x, y>>
    OBVIOUS
<1>5. QED
    BY <1>2, <1>3, <1>4

\* A generated proof holds the commitment and the text of its own public inputs.
LEMMA ProofIsOfItsPublic ==
    ASSUME NEW g, Shaped(g)
    PROVE  /\ g.type \in CircuitTypes
           /\ g.proof = ProofOf(g.type, g.public.commitment, StatementText(g.type, g.public))
           /\ g.type = "set_membership" => StatementText(g.type, g.public) # Undefined
<1>1. CASE \E c, x : ThresholdMade(g, c, x)
    <2>1. PICK c, x : ThresholdMade(g, c, x)
        BY <1>1
    <2>2. g.public.commitment = c /\ Field(g.public, "threshold") = <<x>>
        BY <2>1 DEF ThresholdMade, Field
    <2>3. StatementText(g.type, g.public) = <<x>>
        BY <2>1, <2>2 DEF ThresholdMade, StatementText
    <2>4. QED
        BY <2>1, <2>2, <2>3 DEF ThresholdMade, CircuitTypes
<1>2. CASE \E c, x, y : RangeMade(g, c, x, y)
    <2>1. PICK c, x, y : RangeMade(g, c, x, y)
        BY <1>2
    <2>2. g.public.commitment = c /\ Field(g.public, "min") = <<x>> /\ Field(g.public, "max") = <<y>>
        BY <2>1 DEF RangeMade, Field
    <2>3. StatementText(g.type, g.public) = <<x>> \o <<y>>
        BY <2>1, <2>2 DEF RangeMade, StatementText
    <2>4. StatementText(g.type, g.public) = <<x, y>>
        BY <2>3, TwoSegments
    <2>5. QED
        BY <2>1, <2>2, <2>4 DEF RangeMade, CircuitTypes
<1>3. CASE \E c, s : SetMade(g, c, s)
    <2>1. PICK c, s : SetMade(g, c, s)
        BY <1>3
    <2>2. g.public.commitment = c /\ "setHash" \in DOMAIN g.public /\ g.public.setHash = s
        BY <2>1 DEF SetMade
    <2>3. StatementText(g.type, g.public) = <<s>>
        BY <2>1, <2>2 DEF SetMade, StatementText
    <2>4. <<s>> # Undefined
        BY DEF Undefined
    <2>5. QED
        BY <2>1, <2>2, <2>3, <2>4 DEF SetMade, CircuitTypes
<1>4. QED
    BY <1>1, <1>2, <1>3 DEF Shaped

\* What a verifier reads of a proof and of public inputs.
LEMMA VerifierReads ==
    ASSUME NEW type \in CircuitTypes, NEW proof, NEW public
    PROVE  verifyProof(type, proof, public)
               <=> /\ Fits(type, proof, public)
                   /\ type = "set_membership" => "setHash" \in DOMAIN public
<1>1. CASE type = "threshold"
    BY <1>1 DEF verifyProof, verifyThresholdProof
<1>2. CASE type = "range"
    BY <1>2 DEF verifyProof, verifyRangeProof
<1>3. CASE type = "set_membership"
    BY <1>3 DEF verifyProof, verifySetMembershipProof
<1>4. QED
    BY <1>1, <1>2, <1>3 DEF CircuitTypes

\* A generated proof is accepted with its own statement and commitment only.
LEMMA VerifierIsExact ==
    ASSUME NEW type \in CircuitTypes, NEW g, Shaped(g), NEW public
    PROVE  verifyProof(type, g.proof, public) <=>
               /\ type = g.type
               /\ public.commitment = g.public.commitment
               /\ StatementText(type, public) = StatementText(g.type, g.public)
<1>1. PICK c, text : c = g.public.commitment /\ text = StatementText(g.type, g.public)
    OBVIOUS
<1>2. /\ g.proof.type = g.type /\ g.proof.commitment = c
      /\ g.proof.validityProof = Hmac(c, text)
    <2>1. g.proof = ProofOf(g.type, c, text)
        BY <1>1, ProofIsOfItsPublic
    <2>2. QED
        BY <2>1 DEF ProofOf
<1>3. \A u, v : Hmac(c, u) = Hmac(c, v) <=> u = v
    BY DEF Hmac
<1>4. Fits(type, g.proof, public)
          <=> type = g.type /\ public.commitment = c /\ text = StatementText(type, public)
    BY <1>2, <1>3 DEF Fits
<1>5. type = "set_membership" /\ type = g.type /\ text = StatementText(type, public)
          => "setHash" \in DOMAIN public
    BY <1>1, ProofIsOfItsPublic DEF StatementText
<1>6. verifyProof(type, g.proof, public)
          <=> type = g.type /\ public.commitment = c /\ text = StatementText(type, public)
    <2>1. verifyProof(type, g.proof, public)
              <=> /\ Fits(type, g.proof, public)
                  /\ type = "set_membership" => "setHash" \in DOMAIN public
        BY VerifierReads
    <2>2. QED
        BY <2>1, <1>4, <1>5
<1>7. QED
    BY <1>1, <1>6

\* With the invariant, a judgement of a generated proof is right.
LEMMA JudgementIsRight ==
    ASSUME CircuitInv
    PROVE  ProofsKeepTheirStatement
<1>1. ASSUME NEW j \in judged, NEW g \in made, j.proof = g.proof
      PROVE  j.accepted <=> /\ j.type = g.type
                            /\ j.public.commitment = g.public.commitment
                            /\ StatementText(j.type, j.public) = StatementText(g.type, g.public)
    <2>1. j.type \in CircuitTypes /\ j.accepted = verifyProof(j.type, j.proof, j.public)
        BY DEF CircuitInv, Judged
    <2>2. Shaped(g)
        BY DEF CircuitInv
    <2>3. j.accepted <=> verifyProof(j.type, g.proof, j.public)
        BY <1>1, <2>1
    <2>4. QED
        BY <2>1, <2>2, <2>3, VerifierIsExact
<1>2. ASSUME NEW g \in made, NEW h \in made, g.type = "set_membership", h.type = "set_membership",
             Plain(g.public.setHash), Plain(h.public.setHash), ToSet(g.public.setHash) = ToSet(h.public.setHash)
      PROVE  g.public.setHash = h.public.setHash
    <2>1. Shaped(g) /\ Shaped(h)
        BY DEF CircuitInv
    <2>2. PICK c, s : SetMade(g, c, s)
        BY <1>2, <2>1 DEF Shaped, ThresholdMade, RangeMade
    <2>3. PICK d, t : SetMade(h, d, t)
        BY <1>2, <2>1 DEF Shaped, ThresholdMade, RangeMade
    <2>4. g.public.setHash = s /\ h.public.setHash = t
        BY <2>2, <2>3 DEF SetMade
    <2>5. s \in Seq(Item) /\ Grows(s) /\ t \in Seq(Item) /\ Grows(t)
        BY <2>2, <2>3 DEF SetMade
    <2>6. s = t
        BY <1>2, <2>4, <2>5, OneSortedList
    <2>7. QED
        BY <2>4, <2>6
<1>3. QED
    BY <1>1, <1>2 DEF ProofsKeepTheirStatement

LEMMA CircuitStep == ASSUME CircuitInv, [CircuitNext]_circuitVars PROVE CircuitInv'
<1>1. ASSUME NEW g, Shaped(g), Keep(g), heldList' \in Seq(Item) PROVE CircuitInv'
    <2>1. made' = made \union {g} /\ judged' = {}
        BY <1>1 DEF Keep
    <2>2. \A j \in judged' : Judged(j)'
        BY <2>1 DEF CircuitInv, Judged
    <2>3. QED
        BY <1>1, <2>1, <2>2 DEF CircuitInv
<1>2. ASSUME NEW value \in Numbers, NEW threshold \in Numbers, generateThresholdProof(value, threshold)
      PROVE  CircuitInv'
    <2>1. PICK c, g : /\ c = commitmentOf(value)
                      /\ g = Generated("threshold", c, <<threshold>>, [threshold |-> <<threshold>>, commitment |-> c])
        OBVIOUS
    <2>2. ThresholdMade(g, c, threshold)
        BY <2>1 DEF ThresholdMade, Generated, ProofOf
    <2>3. Keep(g) /\ heldList' = heldList
        BY <1>2, <2>1 DEF generateThresholdProof
    <2>4. QED
        BY <1>1, <2>2, <2>3 DEF CircuitInv, Shaped
<1>3. ASSUME NEW value \in Numbers, NEW min \in Numbers, NEW max \in Numbers, generateRangeProof(value, min, max)
      PROVE  CircuitInv'
    <2>1. PICK c, g : /\ c = commitmentOf(value)
                      /\ g = Generated("range", c, <<min, max>>, [min |-> <<min>>, max |-> <<max>>, commitment |-> c])
        OBVIOUS
    <2>2. RangeMade(g, c, min, max)
        BY <2>1 DEF RangeMade, Generated, ProofOf
    <2>3. Keep(g) /\ heldList' = heldList
        BY <1>3, <2>1 DEF generateRangeProof
    <2>4. QED
        BY <1>1, <2>2, <2>3 DEF CircuitInv, Shaped
<1>4. ASSUME NEW item, generateSetMembershipProof(item) PROVE CircuitInv'
    <2>1. PICK c, s, g : /\ c = commitmentOfJson(item) /\ s = Sort(heldList)
                         /\ g = Generated("set_membership", c, <<s>>,
                                          [setHash |-> s, commitment |-> c, setSize |-> Len(s)])
        OBVIOUS
    <2>2. s \in Seq(Item) /\ Grows(s)
        BY <2>1, SortedList DEF CircuitInv
    <2>3. SetMade(g, c, s)
        BY <2>1, <2>2 DEF SetMade, Generated, ProofOf
    <2>4. Keep(g) /\ heldList' = s
        BY <1>4, <2>1 DEF generateSetMembershipProof
    <2>5. QED
        BY <1>1, <2>2, <2>3, <2>4 DEF Shaped
<1>5. CASE Reorder
    <2>1. heldList' \in Lists /\ made' = made /\ judged' = {}
        BY <1>5 DEF Reorder
    <2>2. QED
        BY <2>1, CircuitsAssumption DEF CircuitInv, Judged, Item
<1>6. CASE Tick \/ UNCHANGED circuitVars
    BY <1>6 DEF Tick, circuitVars, CircuitInv, Judged
<1>7. CASE Verify
    <2>1. PICK type \in CircuitTypes, public \in Publics : \E proof \in ProofsFor(type, public) :
              /\ judged' = {[type |-> type, proof |-> proof, public |-> public,
                             accepted |-> verifyProof(type, proof, public)]}
              /\ UNCHANGED <<time, heldList, made>>
        BY <1>7 DEF Verify
    <2>1a. PICK proof \in ProofsFor(type, public) :
              /\ judged' = {[type |-> type, proof |-> proof, public |-> public,
                             accepted |-> verifyProof(type, proof, public)]}
              /\ UNCHANGED <<time, heldList, made>>
        BY <2>1
    <2>2. PICK accepted : accepted = verifyProof(type, proof, public)
        OBVIOUS
    <2>3. PICK j : j = [type |-> type, proof |-> proof, public |-> public, accepted |-> accepted]
        OBVIOUS
    <2>4. judged' = {j} /\ made' = made /\ heldList' = heldList
        BY <2>1a, <2>2, <2>3
    <2>5. j.type = type /\ j.proof = proof /\ j.public = public /\ j.accepted = accepted
        BY <2>3
    <2>6. Judged(j)'
        BY <2>2, <2>4, <2>5 DEF Judged
    <2>7. QED
        BY <2>4, <2>6 DEF CircuitInv
<1>8. QED
    BY <1>2, <1>3, <1>4, <1>5, <1>6, <1>7 DEF CircuitNext

\* A generated proof keeps its statement, for every list, every statement, every order
\* of calls and whatever else is presented to the verifiers.
THEOREM GeneratedProofsKeepTheirStatement == CircuitSpec => []ProofsKeepTheirStatement
<1>1. CircuitInit => CircuitInv
    BY CircuitsAssumption DEF CircuitInit, CircuitInv, Item
<1>2. CircuitInv /\ [CircuitNext]_circuitVars => CircuitInv'
    BY CircuitStep
<1>3. CircuitInv => ProofsKeepTheirStatement
    BY JudgementIsRight
<1>4. QED
    BY <1>1, <1>2, <1>3, PTL DEF CircuitSpec

=============================================================================
