---------------------------- MODULE GcryptProofs ----------------------------
(***************************************************************************)
(* What the arrays of lib/bigint.js stand for, that the functions of it    *)
(* which an inverse uses compute what they should, that numbers go from    *)
(* libgcrypt to arrays and back unchanged, and that inverseMod_ answers    *)
(* with an inverse if and only if there is one: for every word size and    *)
(* for every call.                                                         *)
(***************************************************************************)
EXTENDS Gcrypt, NumberInduction, TLAPS, FiniteSetTheorems

-----------------------------------------------------------------------------
(* Functions that are defined by recursion on a number. *)

StepsOver(S) == [Nat -> [S -> S]]

Steps == StepsOver(Int)

\* f begins with s and goes on as h says, up to k.
Follows(f, s, h, k) == f[0] = s /\ \A i \in 1..k : f[i] = h[i][f[i - 1]]

\* There is such a function on every initial segment,
LEMMA FollowsUpTo ==
    ASSUME NEW n \in Nat, NEW S, NEW s \in S, NEW h \in StepsOver(S)
    PROVE  \E f \in [0..n -> S] : Follows(f, s, h, n)
<1>. DEFINE G == {k \in 0..n : \E f \in [0..k -> S] : Follows(f, s, h, k)}
<1>1. 0 \in G
  <2>1. /\ [i \in 0..0 |-> s] \in [0..0 -> S]
        /\ Follows([i \in 0..0 |-> s], s, h, 0)
    BY DEF Follows
  <2>2. \E f \in [0..0 -> S] : Follows(f, s, h, 0)
    BY <2>1
  <2> QED BY <2>2
<1>2. ASSUME NEW i \in 1..n, i - 1 \in G PROVE i \in G
  <2>1. PICK f \in [0..(i - 1) -> S] : Follows(f, s, h, i - 1)
    BY <1>2
  <2>. DEFINE g == [j \in 0..i |-> IF j = i THEN h[i][f[i - 1]] ELSE f[j]]
  <2>2. f[i - 1] \in S /\ h[i][f[i - 1]] \in S
    BY DEF StepsOver
  <2>3. g \in [0..i -> S]
    BY <2>2
  <2>4. g[0] = s
    BY <2>1 DEF Follows
  <2>5. ASSUME NEW j \in 1..i PROVE g[j] = h[j][g[j - 1]]
    <3>1. j - 1 \in 0..(i - 1) /\ g[j - 1] = f[j - 1]
      OBVIOUS
    <3>2. CASE j = i
      BY <3>1, <3>2
    <3>3. CASE j # i
      BY <2>1, <3>1, <3>3 DEF Follows
    <3> QED BY <3>2, <3>3
  <2>6. Follows(g, s, h, i)
    BY <2>4, <2>5 DEF Follows
  <2>. HIDE DEF g
  <2>7. \E x \in [0..i -> S] : Follows(x, s, h, i)
    BY <2>3, <2>6
  <2> QED BY <2>7
<1>. HIDE DEF G
<1>3. \A i \in 1..n : i - 1 \in G => i \in G
  BY <1>2
<1>4. 0..n \subseteq G
  BY <1>1, <1>3, UpTo
<1> QED BY <1>4 DEF G

\* and two of them agree.
LEMMA FollowsSame ==
    ASSUME NEW n \in Nat, NEW S, NEW s \in S, NEW h \in StepsOver(S),
           NEW f, NEW g, Follows(f, s, h, n), Follows(g, s, h, n)
    PROVE  f[n] = g[n]
<1>. DEFINE G == {i \in 0..n : f[i] = g[i]}
<1>1. 0 \in G
  BY DEF Follows
<1>2. ASSUME NEW i \in 1..n, i - 1 \in G PROVE i \in G
  BY <1>2 DEF Follows
<1>. HIDE DEF G
<1>3. \A i \in 1..n : i - 1 \in G => i \in G
  BY <1>2
<1>4. 0..n \subseteq G
  BY <1>1, <1>3, UpTo
<1> QED BY <1>4 DEF G

Unrolls(f, s, h) == f[0] = s /\ \A n \in Nat : f[n + 1] = h[n + 1][f[n]]

\* A recursion over all numbers defines a function.
LEMMA Recursion ==
    ASSUME NEW S, NEW s \in S, NEW h \in StepsOver(S)
    PROVE  \E f \in [Nat -> S] : Unrolls(f, s, h)
<1>. DEFINE Prefix(k) == CHOOSE f \in [0..k -> S] : Follows(f, s, h, k)
            p == [k \in Nat |-> Prefix(k)[k]]
<1>1. \A k \in Nat : Prefix(k) \in [0..k -> S] /\ Follows(Prefix(k), s, h, k)
  BY FollowsUpTo
<1>. HIDE DEF Prefix
<1>2. p \in [Nat -> S]
  BY <1>1
<1>3. p[0] = s
  BY <1>1 DEF Follows
<1>4. ASSUME NEW n \in Nat PROVE p[n + 1] = h[n + 1][p[n]]
  <2>0. Follows(Prefix(n + 1), s, h, n + 1)
    BY <1>1
  <2>1. Follows(Prefix(n + 1), s, h, n)
    BY <2>0 DEF Follows
  <2>2. Prefix(n)[n] = Prefix(n + 1)[n]
    BY <1>1, <2>1, FollowsSame
  <2>3. Prefix(n + 1)[n + 1] = h[n + 1][Prefix(n + 1)[(n + 1) - 1]]
    BY <1>1 DEF Follows
  <2> QED BY <2>2, <2>3
<1>. HIDE DEF p
<1>5. Unrolls(p, s, h)
  BY <1>3, <1>4 DEF Unrolls
<1> QED BY <1>2, <1>5

\* A function of the integers can be defined by recursion.
LEMMA IntRecursion ==
    ASSUME NEW h \in Steps
    PROVE  \E f \in [Nat -> Int] : f[0] = h[0][0] /\ \A n \in Nat : f[n + 1] = h[n + 1][f[n]]
<1>1. h[0][0] \in Int
  BY DEF Steps, StepsOver
<1>2. h \in StepsOver(Int)
  BY DEF Steps
<1>3. PICK S : S = Int
  OBVIOUS
<1>4. h \in StepsOver(S) /\ h[0][0] \in S
  BY <1>1, <1>2, <1>3
<1>5. PICK s \in S : s = h[0][0]
  BY <1>4
<1>6. \E f \in [Nat -> S] : Unrolls(f, s, h)
  BY <1>4, <1>5, Recursion
<1> QED BY <1>3, <1>5, <1>6 DEF Unrolls

-----------------------------------------------------------------------------
(* Powers. *)

\* power is what its recursion says.
LEMMA PowerDefined ==
    ASSUME NEW b \in Int
    PROVE  power(b, 0) = 1 /\ \A n \in Nat : power(b, n + 1) = b * power(b, n)
<1>. DEFINE h == [i \in Nat |-> [v \in Int |-> IF i = 0 THEN 1 ELSE b * v]]
            Right(p) == p = [k \in Nat |-> IF k = 0 THEN 1 ELSE b * p[k - 1]]
            P == CHOOSE p : Right(p)
<1>1. /\ h \in [Nat -> [Int -> Int]] /\ h[0][0] = 1
      /\ \A i \in Nat \ {0} : \A v \in Int : h[i][v] = b * v
  OBVIOUS
<1>0. h \in Steps
  BY <1>1 DEF Steps, StepsOver
<1>. HIDE DEF h
<1>2. PICK f \in [Nat -> Int] :
             f[0] = h[0][0] /\ \A n \in Nat : f[n + 1] = h[n + 1][f[n]]
  BY <1>0, IntRecursion
<1>3. \A k \in Nat : f[k] = IF k = 0 THEN 1 ELSE b * f[k - 1]
  <2>1. ASSUME NEW k \in Nat, k # 0 PROVE f[k] = b * f[k - 1]
    <3>1. k - 1 \in Nat /\ k = (k - 1) + 1
      BY <2>1
    <3>2. f[k] = h[k][f[k - 1]]
      BY <1>2, <3>1
    <3>3. f[k - 1] \in Int /\ k \in Nat \ {0}
      BY <2>1, <3>1
    <3> QED BY <1>1, <3>2, <3>3
  <2> QED BY <1>1, <1>2, <2>1
<1>4. Right(f)
  BY <1>3
<1>. HIDE DEF Right
<1>5. Right(P)
  BY <1>4
<1>6. \A n : power(b, n) = P[n]
  BY DEF power, Right
<1>. HIDE DEF P
<1>7. \A k \in Nat : P[k] = IF k = 0 THEN 1 ELSE b * P[k - 1]
  BY <1>5 DEF Right
<1>8. \A n \in Nat : P[n + 1] = b * P[n]
  <2>1. \A n \in Nat : n + 1 \in Nat /\ n + 1 # 0 /\ (n + 1) - 1 = n
    OBVIOUS
  <2> QED BY <1>7, <2>1
<1> QED BY <1>6, <1>7, <1>8

\* A power of a natural number is one, and positive if the base is.
LEMMA PowerNat ==
    ASSUME NEW b \in Nat, NEW n \in Nat
    PROVE  power(b, n) \in Nat /\ (b > 0 => power(b, n) > 0)
<1>. DEFINE G == {k \in 0..n : power(b, k) \in Nat /\ (b > 0 => power(b, k) > 0)}
<1>1. 0 \in G
  BY PowerDefined
<1>2. ASSUME NEW i \in 1..n, i - 1 \in G PROVE i \in G
  <2>1. power(b, i) = b * power(b, i - 1)
    <3>1. i - 1 \in Nat /\ (i - 1) + 1 = i
      OBVIOUS
    <3> QED BY <3>1, PowerDefined
  <2>2. power(b, i - 1) \in Nat
    BY <1>2
  <2>3. b * power(b, i - 1) \in Nat
    BY <2>2
  <2>4. ASSUME b > 0 PROVE b * power(b, i - 1) > 0
    <3>1. power(b, i - 1) > 0
      BY <1>2, <2>4
    <3> QED BY <2>2, <2>4, <3>1
  <2> QED BY <2>1, <2>3, <2>4
<1>. HIDE DEF G
<1>3. 0..n \subseteq G
  BY <1>1, <1>2, UpTo
<1> QED BY <1>3 DEF G

\* A power and the one before it.
LEMMA PowerNext ==
    ASSUME NEW b \in Nat, NEW n \in Nat, n > 0
    PROVE  n - 1 \in Nat /\ power(b, n) = b * power(b, n - 1)
<1>1. n - 1 \in Nat /\ (n - 1) + 1 = n
  OBVIOUS
<1> QED BY <1>1, PowerDefined

\* The first two powers.
LEMMA PowerOne ==
    ASSUME NEW b \in Nat
    PROVE  power(b, 0) = 1 /\ power(b, 1) = b
<1>1. power(b, 0 + 1) = b * power(b, 0) /\ power(b, 0) = 1
  BY PowerDefined
<1> QED BY <1>1

\* The exponents of a product add.
LEMMA PowerAdd ==
    ASSUME NEW b \in Nat, NEW m \in Nat, NEW n \in Nat
    PROVE  power(b, m + n) = power(b, m) * power(b, n)
<1>. DEFINE G == {k \in 0..n : power(b, m + k) = power(b, m) * power(b, k)}
<1>1. 0 \in G
  <2>1. power(b, m) \in Nat /\ power(b, 0) = 1 /\ m + 0 = m
    BY PowerNat, PowerDefined
  <2> QED BY <2>1
<1>2. ASSUME NEW i \in 1..n, i - 1 \in G PROVE i \in G
  <2>1. power(b, m + (i - 1)) = power(b, m) * power(b, i - 1)
    BY <1>2
  <2>2. power(b, i) = b * power(b, i - 1)
    BY PowerNext
  <2>3. power(b, m + i) = b * power(b, m + (i - 1))
    <3>1. m + i \in Nat /\ m + i > 0 /\ (m + i) - 1 = m + (i - 1)
      OBVIOUS
    <3> QED BY <3>1, PowerNext
  <2>4. power(b, m) \in Nat /\ power(b, i - 1) \in Nat
    <3>1. i - 1 \in Nat
      OBVIOUS
    <3> QED BY <3>1, PowerNat
  <2>5. \A x, y \in Nat : b * (x * y) = x * (b * y)
    OBVIOUS
  <2> QED BY <2>1, <2>2, <2>3, <2>4, <2>5
<1>. HIDE DEF G
<1>3. 0..n \subseteq G
  BY <1>1, <1>2, UpTo
<1> QED BY <1>3 DEF G

\* A power grows with its exponent,
LEMMA PowerMono ==
    ASSUME NEW b \in Nat, b > 0, NEW m \in Nat, NEW n \in Nat, m <= n
    PROVE  power(b, m) <= power(b, n)
<1>1. n - m \in Nat /\ n = m + (n - m)
  OBVIOUS
<1>2. power(b, n) = power(b, m) * power(b, n - m)
  BY <1>1, PowerAdd
<1>3. power(b, m) \in Nat /\ power(b, n - m) \in Nat /\ power(b, n - m) > 0
  BY <1>1, PowerNat
<1>4. \A x, y \in Nat : y > 0 => x <= x * y
  OBVIOUS
<1> QED BY <1>2, <1>3, <1>4

\* is above its exponent
LEMMA PowerAbove ==
    ASSUME NEW b \in Nat, b >= 2, NEW n \in Nat
    PROVE  n < power(b, n)
<1>. DEFINE G == {k \in 0..n : k < power(b, k)}
<1>1. 0 \in G
  BY PowerDefined
<1>2. ASSUME NEW i \in 1..n, i - 1 \in G PROVE i \in G
  <2>1. i - 1 < power(b, i - 1) /\ power(b, i) = b * power(b, i - 1)
    BY <1>2, PowerNext
  <2>2. power(b, i - 1) \in Nat
    BY PowerNat, PowerNext
  <2>3. \A x \in Nat : 2 * x <= b * x
    OBVIOUS
  <2> QED BY <2>1, <2>2, <2>3
<1>. HIDE DEF G
<1>3. 0..n \subseteq G
  BY <1>1, <1>2, UpTo
<1> QED BY <1>3 DEF G

\* and grows with its base.
LEMMA PowerBase ==
    ASSUME NEW a \in Nat, NEW b \in Nat, a <= b, NEW n \in Nat
    PROVE  power(a, n) <= power(b, n)
<1>. DEFINE G == {k \in 0..n : power(a, k) <= power(b, k)}
<1>1. 0 \in G
  BY PowerDefined
<1>2. ASSUME NEW i \in 1..n, i - 1 \in G PROVE i \in G
  <2>1. /\ power(a, i - 1) <= power(b, i - 1)
        /\ power(a, i) = a * power(a, i - 1) /\ power(b, i) = b * power(b, i - 1)
    BY <1>2, PowerNext
  <2>2. power(a, i - 1) \in Nat /\ power(b, i - 1) \in Nat
    <3>1. i - 1 \in Nat
      OBVIOUS
    <3> QED BY <3>1, PowerNat
  <2>3. \A x, y \in Nat : x <= y => a * x <= a * y /\ a * y <= b * y
    OBVIOUS
  <2>4. a * power(a, i - 1) <= a * power(b, i - 1) /\ a * power(b, i - 1) <= b * power(b, i - 1)
    BY <2>1, <2>2, <2>3
  <2> QED BY <2>1, <2>2, <2>4
<1>. HIDE DEF G
<1>3. 0..n \subseteq G
  BY <1>1, <1>2, UpTo
<1> QED BY <1>3 DEF G

\* The exponents of a power of a power multiply.
LEMMA PowerPower ==
    ASSUME NEW b \in Nat, NEW m \in Nat, NEW n \in Nat
    PROVE  power(power(b, m), n) = power(b, m * n)
<1>. DEFINE c == power(b, m)
            G == {k \in 0..n : power(c, k) = power(b, m * k)}
<1>0. c \in Nat
  BY PowerNat
<1>. HIDE DEF c
<1>1. 0 \in G
  BY <1>0, PowerOne
<1>2. ASSUME NEW i \in 1..n, i - 1 \in G PROVE i \in G
  <2>1. power(c, i - 1) = power(b, m * (i - 1)) /\ power(c, i) = c * power(c, i - 1)
    BY <1>0, <1>2, PowerNext
  <2>2. m * i = m + m * (i - 1) /\ m * (i - 1) \in Nat
    OBVIOUS
  <2>3. power(b, m + m * (i - 1)) = power(b, m) * power(b, m * (i - 1))
    BY <2>2, PowerAdd
  <2> QED BY <2>1, <2>2, <2>3 DEF c
<1>. HIDE DEF G
<1>3. 0..n \subseteq G
  BY <1>1, <1>2, UpTo
<1> QED BY <1>3 DEF G, c

\* What the assumption on bpe and base makes of the radix.
LEMMA RadixFacts ==
    /\ radix \in Nat /\ radix >= 4 /\ mask = radix - 1 /\ mask \in Nat
    /\ radix = 2 * (radix \div 2) /\ radix \div 2 \in Nat /\ radix \div 2 >= 2
    /\ power(2, 1) = 2 /\ power(2, bpe - 1) = radix \div 2
    /\ base \in Nat /\ base >= 2 /\ base < radix
<1>1. bpe \in Nat /\ bpe > 0 /\ radix \in Nat /\ base \in 2..(radix - 1)
  BY BigIntAssumption, PowerNat DEF radix, mask
<1>2. bpe - 1 \in Nat /\ radix = 2 * power(2, bpe - 1)
  BY <1>1, PowerNext DEF radix
<1>3. power(2, bpe - 1) \in Nat /\ radix \div 2 = power(2, bpe - 1)
  BY <1>2, PowerNat
<1> QED BY <1>1, <1>2, <1>3, PowerOne DEF mask

\* What an element at the place k counts for.
LEMMA PlaceFacts ==
    ASSUME NEW k \in Nat
    PROVE  power(radix, k) \in Nat /\ power(radix, k) \in Int /\ power(radix, k) > 0
<1>1. radix \in Nat /\ radix > 0
  BY RadixFacts
<1> QED BY <1>1, PowerNat

-----------------------------------------------------------------------------
(* What an array stands for. *)

\* Arrays of n elements, and the columns a sum is made of.
Num(n) == [0..(n - 1) -> 0..mask]
Columns(n) == [0..(n - 1) -> Int]

\* The k lowest columns of f.
sum(f, k) ==
    LET s[j \in Nat] == IF j = 0 THEN 0 ELSE s[j - 1] + At(f, j - 1) * power(radix, j - 1)
    IN s[k]

\* A column, and the columns beyond the last.
LEMMA AtFacts ==
    ASSUME NEW n \in Nat, NEW f \in Columns(n), NEW i \in Nat
    PROVE  /\ At(f, i) \in Int
           /\ i < n => At(f, i) = f[i]
           /\ i >= n => At(f, i) = 0
BY DEF At, Columns

\* An array is a list of columns.
LEMMA NumFacts ==
    ASSUME NEW n \in Nat, NEW x \in Num(n), NEW i \in Nat
    PROVE  /\ x \in Columns(n)
           /\ At(x, i) \in 0..mask
           /\ i < n => At(x, i) = x[i]
           /\ i >= n => At(x, i) = 0
<1>1. 0..mask \subseteq Int /\ 0 \in 0..mask
  BY RadixFacts
<1> QED BY <1>1 DEF At, Columns, Num

\* sum is what its recursion says.
LEMMA SumDefined ==
    ASSUME NEW n \in Nat, NEW f \in Columns(n)
    PROVE  /\ sum(f, 0) = 0
           /\ \A k \in Nat : /\ sum(f, k) \in Int
                             /\ sum(f, k + 1) = sum(f, k) + At(f, k) * power(radix, k)
<1>. DEFINE h == [i \in Nat |-> [v \in Int |->
                    IF i = 0 THEN 0 ELSE v + At(f, i - 1) * power(radix, i - 1)]]
            Right(p) == p = [j \in Nat |-> IF j = 0 THEN 0
                                           ELSE p[j - 1] + At(f, j - 1) * power(radix, j - 1)]
            P == CHOOSE p : Right(p)
<1>1. \A i \in Nat : At(f, i) \in Int /\ power(radix, i) \in Int
  <2>1. \A i \in Nat : At(f, i) \in Int
    BY AtFacts
  <2> QED BY <2>1, PlaceFacts
<1>2. \A i \in Nat : At(f, i) * power(radix, i) \in Int
  BY <1>1
<1>3. \A i \in Nat \ {0} : i - 1 \in Nat /\ At(f, i - 1) * power(radix, i - 1) \in Int
  BY <1>2
<1>4. h \in Steps /\ h[0][0] = 0
  BY <1>3 DEF Steps, StepsOver
<1>5. \A i \in Nat \ {0} : \A v \in Int : h[i][v] = v + At(f, i - 1) * power(radix, i - 1)
  OBVIOUS
<1>. HIDE DEF h
<1>6. PICK s \in [Nat -> Int] : s[0] = h[0][0] /\ \A k \in Nat : s[k + 1] = h[k + 1][s[k]]
  BY <1>4, IntRecursion
<1>7. \A k \in Nat : s[k + 1] = s[k] + At(f, k) * power(radix, k)
  <2>1. ASSUME NEW k \in Nat PROVE s[k + 1] = s[k] + At(f, k) * power(radix, k)
    <3>1. k + 1 \in Nat \ {0} /\ (k + 1) - 1 = k /\ s[k] \in Int
      OBVIOUS
    <3> QED BY <1>5, <1>6, <3>1
  <2> QED BY <2>1
<1>8. Right(s)
  <2>1. ASSUME NEW j \in Nat, j # 0
        PROVE  s[j] = s[j - 1] + At(f, j - 1) * power(radix, j - 1)
    <3>1. j - 1 \in Nat /\ (j - 1) + 1 = j
      BY <2>1
    <3> QED BY <1>7, <3>1
  <2> QED BY <1>4, <1>6, <2>1
<1>. HIDE DEF Right
<1>9. Right(P)
  BY <1>8
<1>10. \A k : sum(f, k) = P[k]
  BY DEF sum, Right
<1>. HIDE DEF P
<1>11. /\ P[0] = 0
       /\ \A k \in Nat : P[k + 1] = P[k] + At(f, k) * power(radix, k)
  <2>1. \A j \in Nat : P[j] = IF j = 0 THEN 0 ELSE P[j - 1] + At(f, j - 1) * power(radix, j - 1)
    BY <1>9 DEF Right
  <2>2. \A k \in Nat : k + 1 \in Nat /\ k + 1 # 0 /\ (k + 1) - 1 = k
    OBVIOUS
  <2> QED BY <2>1, <2>2
<1>12. ASSUME NEW k \in Nat PROVE P[k] \in Int
  <2>. DEFINE G == {i \in 0..k : P[i] \in Int}
  <2>1. 0 \in G
    BY <1>11
  <2>2. ASSUME NEW i \in 1..k, i - 1 \in G PROVE i \in G
    <3>1. P[i - 1] \in Int /\ i - 1 \in Nat /\ (i - 1) + 1 = i
      BY <2>2
    <3> QED BY <1>2, <1>11, <3>1
  <2>. HIDE DEF G
  <2>3. 0..k \subseteq G
    BY <2>1, <2>2, UpTo
  <2> QED BY <2>3 DEF G
<1> QED BY <1>10, <1>11, <1>12

\* A sum and the one before it.
LEMMA SumNext ==
    ASSUME NEW n \in Nat, NEW f \in Columns(n), NEW k \in Nat, k > 0
    PROVE  /\ k - 1 \in Nat
           /\ sum(f, k) = sum(f, k - 1) + At(f, k - 1) * power(radix, k - 1)
<1>1. k - 1 \in Nat /\ (k - 1) + 1 = k
  OBVIOUS
<1> QED BY <1>1, SumDefined

\* Sums are linear in their columns.
LEMMA SumLinear ==
    ASSUME NEW n \in Nat, NEW s \in Columns(n), NEW m \in Nat, NEW f \in Columns(m),
           NEW l \in Nat, NEW g \in Columns(l), NEW c \in Int, NEW k \in Nat,
           \A i \in 0..(k - 1) : At(s, i) = At(f, i) + c * At(g, i)
    PROVE  sum(s, k) = sum(f, k) + c * sum(g, k)
<1>. DEFINE G == {i \in 0..k : sum(s, i) = sum(f, i) + c * sum(g, i)}
<1>1. 0 \in G
  BY SumDefined
<1>2. ASSUME NEW i \in 1..k, i - 1 \in G PROVE i \in G
  <2>. DEFINE p == power(radix, i - 1)
              a == At(f, i - 1)
              b == At(g, i - 1)
  <2>1. i - 1 \in Nat /\ i \in Nat /\ i > 0 /\ i - 1 \in 0..(k - 1)
    OBVIOUS
  <2>2. p \in Int /\ a \in Int /\ b \in Int
    <3>1. p \in Int
      BY <2>1, PlaceFacts
    <3>2. a \in Int
      BY <2>1, AtFacts
    <3>3. b \in Int
      BY <2>1, AtFacts
    <3> QED BY <3>1, <3>2, <3>3
  <2>3. sum(f, i - 1) \in Int /\ sum(g, i - 1) \in Int
    BY <2>1, SumDefined
  <2>4. /\ sum(s, i) = sum(s, i - 1) + At(s, i - 1) * p
        /\ sum(f, i) = sum(f, i - 1) + a * p
        /\ sum(g, i) = sum(g, i - 1) + b * p
    BY <2>1, SumNext
  <2>5. At(s, i - 1) = a + c * b
    BY <2>1
  <2>6. sum(s, i - 1) = sum(f, i - 1) + c * sum(g, i - 1)
    BY <1>2
  <2>. HIDE DEF p, a, b
  <2>7. \A x, y \in Int : (x + c * y) + (a + c * b) * p = (x + a * p) + c * (y + b * p)
    BY <2>2
  <2>8. sum(s, i) = sum(f, i) + c * sum(g, i)
    BY <2>3, <2>4, <2>5, <2>6, <2>7
  <2> QED BY <2>8
<1>. HIDE DEF G
<1>3. 0..k \subseteq G
  BY <1>1, <1>2, UpTo
<1> QED BY <1>3 DEF G

\* Sums of the same columns are the same.
LEMMA SumSame ==
    ASSUME NEW n \in Nat, NEW f \in Columns(n), NEW m \in Nat, NEW g \in Columns(m), NEW k \in Nat,
           \A i \in 0..(k - 1) : At(f, i) = At(g, i)
    PROVE  sum(f, k) = sum(g, k)
<1>1. \A i \in 0..(k - 1) : At(f, i) = At(g, i) + 0 * At(g, i)
  BY AtFacts
<1>2. sum(f, k) = sum(g, k) + 0 * sum(g, k) /\ sum(g, k) \in Int
  BY <1>1, SumLinear, SumDefined
<1> QED BY <1>2

\* Columns of zeros add nothing.
LEMMA SumStops ==
    ASSUME NEW n \in Nat, NEW f \in Columns(n), NEW m \in Nat, NEW k \in Nat, m <= k,
           \A i \in m..(k - 1) : At(f, i) = 0
    PROVE  sum(f, k) = sum(f, m)
<1>. DEFINE G == {j \in 0..(k - m) : sum(f, m + j) = sum(f, m)}
<1>1. 0 \in G
  BY SumDefined
<1>2. ASSUME NEW j \in 1..(k - m), j - 1 \in G PROVE j \in G
  <2>1. /\ m + j \in Nat /\ m + j > 0 /\ (m + j) - 1 = m + (j - 1)
        /\ m + (j - 1) \in m..(k - 1) /\ m + (j - 1) \in Nat
    OBVIOUS
  <2>2. sum(f, m + j) = sum(f, m + (j - 1)) + At(f, m + (j - 1)) * power(radix, m + (j - 1))
    BY <2>1, SumNext
  <2>3. At(f, m + (j - 1)) = 0
    BY <2>1
  <2>4. sum(f, m + (j - 1)) = sum(f, m)
    BY <1>2
  <2>5. power(radix, m + (j - 1)) \in Int /\ sum(f, m) \in Int
    BY <2>1, PlaceFacts, SumDefined
  <2> QED BY <2>2, <2>3, <2>4, <2>5
<1>. HIDE DEF G
<1>3. k - m \in Nat
  OBVIOUS
<1>4. 0..(k - m) \subseteq G
  BY <1>1, <1>2, <1>3, UpTo
<1>5. sum(f, m + (k - m)) = sum(f, m)
  BY <1>3, <1>4 DEF G
<1>6. m + (k - m) = k
  OBVIOUS
<1> QED BY <1>5, <1>6

\* k elements stand for less than radix to the power of k.
LEMMA SumBounds ==
    ASSUME NEW n \in Nat, NEW x \in Num(n), NEW k \in Nat
    PROVE  sum(x, k) \in Nat /\ sum(x, k) < power(radix, k)
<1>. DEFINE G == {i \in 0..k : sum(x, i) \in Nat /\ sum(x, i) < power(radix, i)}
<1>1. 0 \in G
  BY NumFacts, SumDefined, PowerDefined, RadixFacts
<1>2. ASSUME NEW i \in 1..k, i - 1 \in G PROVE i \in G
  <2>. DEFINE p == power(radix, i - 1)
              a == At(x, i - 1)
              s == sum(x, i - 1)
  <2>1. i - 1 \in Nat /\ i \in Nat /\ i > 0
    OBVIOUS
  <2>2. a \in 0..mask /\ p \in Nat /\ s \in Nat /\ s < p
    BY <1>2, <2>1, PlaceFacts, NumFacts
  <2>3. sum(x, i) = s + a * p /\ power(radix, i) = radix * p
    BY <2>1, NumFacts, SumNext, PowerNext, RadixFacts
  <2>. HIDE DEF p, a, s
  <2>4. a \in Nat /\ a <= radix - 1 /\ radix \in Nat
    BY <2>2, RadixFacts
  <2>5. a * p <= (radix - 1) * p /\ a * p \in Nat
    BY <2>2, <2>4
  <2>6. (radix - 1) * p + p = radix * p
    BY <2>2, <2>4
  <2>7. s + a * p < radix * p
    BY <2>2, <2>4, <2>5, <2>6
  <2> QED BY <2>2, <2>3, <2>5, <2>7
<1>. HIDE DEF G
<1>3. 0..k \subseteq G
  BY <1>1, <1>2, UpTo
<1> QED BY <1>3 DEF G

\* An array is the function it is made of.
LEMMA ArrayIs ==
    ASSUME NEW f
    PROVE  Array(f) = f
BY DEF Array

\* The size of an array is the number of its elements.
LEMMA NumSize ==
    ASSUME NEW n \in Nat, NEW x \in Columns(n)
    PROVE  DOMAIN x = 0..(n - 1) /\ Size(x) = n
<1>1. Cardinality(0..(n - 1)) = IF 0 > n - 1 THEN 0 ELSE (n - 1) - 0 + 1
  BY FS_Interval
<1> QED BY <1>1 DEF Columns, Size

\* Horner's rule, from the highest element.
LEMMA ValueTails ==
    ASSUME NEW n \in Nat, NEW x \in Num(n)
    PROVE  \E t \in [0..n -> Int] :
              /\ t[n] = 0 /\ t[0] = Value(x)
              /\ \A i \in 0..(n - 1) : t[i] = x[i] + radix * t[i + 1]
<1>. DEFINE h == [j \in Nat |-> [v \in Int |-> IF j = 0 THEN 0 ELSE At(x, n - j) + radix * v]]
            Right(p) == p = [i \in 0..n |-> IF i = n THEN 0 ELSE x[i] + radix * p[i + 1]]
            P == CHOOSE p : Right(p)
<1>1. radix \in Int /\ 0..mask \subseteq Int
  BY RadixFacts
<1>2. \A i \in 0..(n - 1) : x[i] \in Int /\ At(x, i) = x[i]
  BY <1>1 DEF Num, At
<1>3. \A i : At(x, i) \in Int
  BY <1>1 DEF Num, At
<1>4. h \in Steps /\ h[0][0] = 0
  BY <1>1, <1>3 DEF Steps, StepsOver
<1>5. \A j \in Nat \ {0} : \A v \in Int : h[j][v] = At(x, n - j) + radix * v
  OBVIOUS
<1>. HIDE DEF h
<1>6. PICK s \in [Nat -> Int] : s[0] = h[0][0] /\ \A k \in Nat : s[k + 1] = h[k + 1][s[k]]
  BY <1>4, IntRecursion
<1>. DEFINE t == [i \in 0..n |-> s[n - i]]
<1>7. t \in [0..n -> Int] /\ t[n] = 0
  BY <1>4, <1>6
<1>8. ASSUME NEW i \in 0..(n - 1) PROVE t[i] = x[i] + radix * t[i + 1]
  <2>1. /\ n - i \in Nat \ {0} /\ n - (i + 1) \in Nat /\ (n - (i + 1)) + 1 = n - i
        /\ n - (n - i) = i /\ i \in 0..n /\ i + 1 \in 0..n
    OBVIOUS
  <2>2. s[n - i] = h[n - i][s[n - (i + 1)]] /\ s[n - (i + 1)] \in Int
    BY <1>6, <2>1
  <2>3. s[n - i] = At(x, i) + radix * s[n - (i + 1)]
    BY <1>5, <2>1, <2>2
  <2> QED BY <1>2, <2>1, <2>3
<1>. HIDE DEF t
<1>9. Right(t)
  <2>1. \A i \in 0..n : i = n \/ i \in 0..(n - 1)
    OBVIOUS
  <2>2. \A i \in 0..n : t[i] = IF i = n THEN 0 ELSE x[i] + radix * t[i + 1]
    BY <1>7, <1>8, <2>1
  <2> QED BY <1>7, <2>2
<1>. HIDE DEF Right
<1>10. Right(P)
  BY <1>9
<1>11. Size(x) = n
  BY NumSize, NumFacts
<1>12. Value(x) = P[0]
  BY <1>11 DEF Value, Right
<1>. HIDE DEF P
<1>13. \A i \in 0..n : P[i] = IF i = n THEN 0 ELSE x[i] + radix * P[i + 1]
  BY <1>10 DEF Right
<1>14. \A i \in 0..n : P[i] = t[i]
  <2>. DEFINE G == {j \in 0..n : P[n - j] = t[n - j]}
  <2>1. 0 \in G
    BY <1>7, <1>13
  <2>2. ASSUME NEW j \in 1..n, j - 1 \in G PROVE j \in G
    <3>1. n - j \in 0..(n - 1) /\ (n - j) + 1 = n - (j - 1)
      OBVIOUS
    <3>2. P[n - (j - 1)] = t[n - (j - 1)]
      BY <2>2
    <3> QED BY <1>8, <1>13, <3>1, <3>2
  <2>. HIDE DEF G
  <2>3. 0..n \subseteq G
    BY <2>1, <2>2, UpTo
  <2>4. ASSUME NEW i \in 0..n PROVE P[i] = t[i]
    <3>1. n - i \in 0..n /\ n - (n - i) = i
      OBVIOUS
    <3> QED BY <2>3, <3>1 DEF G
  <2> QED BY <2>4
<1>15. t[0] = Value(x)
  BY <1>12, <1>14
<1> QED BY <1>7, <1>8, <1>15

\* The value of an array is the sum of its columns.
LEMMA ValueSum ==
    ASSUME NEW n \in Nat, NEW x \in Num(n)
    PROVE  Value(x) = sum(x, n)
<1>1. PICK t \in [0..n -> Int] :
             /\ t[n] = 0 /\ t[0] = Value(x)
             /\ \A i \in 0..(n - 1) : t[i] = x[i] + radix * t[i + 1]
  BY ValueTails
<1>. DEFINE G == {i \in 0..n : sum(x, i) + power(radix, i) * t[i] = t[0]}
<1>2. x \in Columns(n) /\ radix \in Int
  BY NumFacts, RadixFacts
<1>3. 0 \in G
  <2>1. sum(x, 0) = 0 /\ power(radix, 0) = 1 /\ t[0] \in Int
    BY <1>1, <1>2, SumDefined, PowerDefined
  <2> QED BY <2>1
<1>4. ASSUME NEW i \in 1..n, i - 1 \in G PROVE i \in G
  <2>. DEFINE p == power(radix, i - 1)
              a == x[i - 1]
              s == sum(x, i - 1)
  <2>1. i \in Nat /\ i > 0 /\ i - 1 \in Nat /\ i - 1 \in 0..(n - 1) /\ (i - 1) + 1 = i /\ i \in 0..n
    OBVIOUS
  <2>2. sum(x, i) = s + a * p
    <3>1. At(x, i - 1) = a
      BY <2>1, NumFacts
    <3> QED BY <1>2, <2>1, <3>1, SumNext
  <2>3. power(radix, i) = radix * p
    BY <2>1, PowerNext, RadixFacts
  <2>4. p \in Int /\ s \in Int /\ t[i] \in Int
    BY <1>1, <1>2, <2>1, PlaceFacts, SumDefined
  <2>5. a \in Int
    BY <2>1, NumFacts, AtFacts
  <2>6. s + p * t[i - 1] = t[0]
    BY <1>4
  <2>7. t[i - 1] = a + radix * t[i]
    BY <1>1, <2>1
  <2>. HIDE DEF p, a, s
  <2>8. (s + a * p) + (radix * p) * t[i] = s + p * (a + radix * t[i])
    BY <1>2, <2>4, <2>5
  <2> QED BY <2>2, <2>3, <2>6, <2>7, <2>8
<1>. HIDE DEF G
<1>5. 0..n \subseteq G
  BY <1>3, <1>4, UpTo
<1>6. sum(x, n) + power(radix, n) * 0 = t[0]
  BY <1>1, <1>5 DEF G
<1>7. sum(x, n) \in Int /\ power(radix, n) \in Int
  BY <1>2, SumDefined, PlaceFacts
<1> QED BY <1>1, <1>6, <1>7

\* An array of n elements is less than the radix to the power n.
LEMMA ValueBounds ==
    ASSUME NEW n \in Nat, NEW x \in Num(n)
    PROVE  Value(x) \in Nat /\ Value(x) < power(radix, n)
BY ValueSum, SumBounds

\* Zeros on top do not change a value.
LEMMA SameValue ==
    ASSUME NEW n \in Nat, NEW x \in Num(n), NEW k \in Nat, NEW y \in Num(k), n <= k,
           \A i \in 0..(k - 1) : At(y, i) = At(x, i)
    PROVE  Value(y) = Value(x)
<1>1. x \in Columns(n) /\ y \in Columns(k)
  BY NumFacts
<1>2. sum(y, k) = sum(x, k)
  BY <1>1, SumSame
<1>3. \A i \in n..(k - 1) : At(x, i) = 0
  BY NumFacts
<1>4. sum(x, k) = sum(x, n)
  BY <1>1, <1>3, SumStops
<1> QED BY <1>2, <1>4, ValueSum

\* copy_ keeps the elements that fit.
LEMMA CopyFacts ==
    ASSUME NEW n \in Nat, NEW x \in Num(n), NEW k \in Nat
    PROVE  /\ copy(k, x) \in Num(k)
           /\ \A i \in 0..(k - 1) : At(copy(k, x), i) = At(x, i) /\ copy(k, x)[i] = At(x, i)
           /\ Value(copy(k, x)) = sum(x, k)
<1>1. copy(k, x) = [i \in 0..(k - 1) |-> At(x, i)]
  BY ArrayIs DEF copy
<1>2. copy(k, x) \in Num(k)
  <2>1. \A i \in 0..(k - 1) : At(x, i) \in 0..mask
    BY NumFacts
  <2> QED BY <1>1, <2>1 DEF Num
<1>3. \A i \in 0..(k - 1) : At(copy(k, x), i) = At(x, i) /\ copy(k, x)[i] = At(x, i)
  BY <1>1 DEF At
<1>4. copy(k, x) \in Columns(k) /\ x \in Columns(n)
  BY <1>2, NumFacts
<1>5. sum(copy(k, x), k) = sum(x, k)
  BY <1>3, <1>4, SumSame
<1> QED BY <1>2, <1>3, <1>5, ValueSum

\* A copy that leaves out zeros only.
LEMMA CopyWhole ==
    ASSUME NEW n \in Nat, NEW x \in Num(n), NEW k \in Nat,
           \A i \in k..(n - 1) : x[i] = 0
    PROVE  copy(k, x) \in Num(k) /\ Value(copy(k, x)) = Value(x)
<1>1. x \in Columns(n)
  BY NumFacts
<1>2. \A i \in Nat : i >= k => At(x, i) = 0
  <2>1. ASSUME NEW i \in Nat, i >= k PROVE At(x, i) = 0
    <3>1. CASE i < n
      BY <2>1, <3>1, NumFacts
    <3>2. CASE i >= n
      BY <3>2, NumFacts
    <3> QED BY <3>1, <3>2
  <2> QED BY <2>1
<1>3. CASE k <= n
  <2>1. \A i \in k..(n - 1) : At(x, i) = 0
    BY <1>2
  <2>2. sum(x, n) = sum(x, k)
    BY <1>1, <1>3, <2>1, SumStops
  <2> QED BY <2>2, CopyFacts, ValueSum
<1>4. CASE n <= k
  <2>1. \A i \in n..(k - 1) : At(x, i) = 0
    BY NumFacts
  <2>2. sum(x, k) = sum(x, n)
    BY <1>1, <1>4, <2>1, SumStops
  <2> QED BY <2>2, CopyFacts, ValueSum
<1> QED BY <1>3, <1>4

\* What is above the place k is a multiple of what that place counts for.
LEMMA SumSplit ==
    ASSUME NEW n \in Nat, NEW x \in Num(n), NEW k \in Nat, k <= n
    PROVE  \E q \in Nat : sum(x, n) = sum(x, k) + q * power(radix, k)
<1>. DEFINE R == power(radix, k)
            G == {j \in 0..(n - k) : \E q \in Nat : sum(x, k + j) = sum(x, k) + q * R}
<1>1. x \in Columns(n) /\ R \in Nat /\ sum(x, k) \in Int /\ radix \in Nat
  BY NumFacts, PlaceFacts, SumDefined, RadixFacts
<1>2. 0 \in G
  <2>1. sum(x, k + 0) = sum(x, k) + 0 * R
    BY <1>1
  <2> QED BY <2>1
<1>3. ASSUME NEW j \in 1..(n - k), j - 1 \in G PROVE j \in G
  <2>1. PICK q \in Nat : sum(x, k + (j - 1)) = sum(x, k) + q * R
    BY <1>3
  <2>2. /\ k + j \in Nat /\ k + j > 0 /\ (k + j) - 1 = k + (j - 1) /\ k + (j - 1) \in Nat
        /\ j - 1 \in Nat
    OBVIOUS
  <2>. DEFINE a == At(x, k + (j - 1))
              p == power(radix, j - 1)
  <2>3. a \in Nat /\ p \in Nat
    BY <2>2, NumFacts, PlaceFacts, RadixFacts
  <2>4. power(radix, k + (j - 1)) = R * p
    BY <1>1, <2>2, PowerAdd
  <2>5. sum(x, k + j) = (sum(x, k) + q * R) + a * (R * p)
    BY <1>1, <2>1, <2>2, <2>4, SumNext
  <2>. HIDE DEF a, p, R
  <2>6. q + a * p \in Nat /\ (sum(x, k) + q * R) + a * (R * p) = sum(x, k) + (q + a * p) * R
    BY <1>1, <2>3
  <2>7. \E r \in Nat : sum(x, k + j) = sum(x, k) + r * R
    BY <2>5, <2>6
  <2> QED BY <2>7
<1>. HIDE DEF G
<1>4. n - k \in Nat
  OBVIOUS
<1>5. 0..(n - k) \subseteq G
  BY <1>2, <1>3, <1>4, UpTo
<1>6. k + (n - k) = n /\ n - k \in G
  BY <1>4, <1>5
<1> QED BY <1>6 DEF G

\* Multiples of w that are less than w apart are the same.
LEMMA Congruent ==
    ASSUME NEW a \in Int, NEW b \in Int, NEW q \in Int, NEW w \in Nat,
           a = b + q * w, a - b < w, b - a < w
    PROVE  a = b
<1>1. CASE q = 0
  BY <1>1
<1>2. CASE q >= 1
  <2>1. q * w >= w
    BY <1>2
  <2> QED BY <2>1
<1>3. CASE q <= -1
  <2>1. q * w <= -w
    BY <1>3
  <2> QED BY <2>1
<1> QED BY <1>1, <1>2, <1>3

\* A copy to k elements of a number that fits in them.
LEMMA CopyFits ==
    ASSUME NEW n \in Nat, NEW x \in Num(n), NEW k \in Nat, Value(x) < power(radix, k)
    PROVE  copy(k, x) \in Num(k) /\ Value(copy(k, x)) = Value(x)
<1>1. CASE n <= k
  <2>1. \A i \in k..(n - 1) : x[i] = 0
    BY <1>1
  <2> QED BY <2>1, CopyWhole
<1>2. CASE k <= n
  <2>1. PICK q \in Nat : sum(x, n) = sum(x, k) + q * power(radix, k)
    BY <1>2, SumSplit
  <2>2. /\ sum(x, k) \in Nat /\ sum(x, k) < power(radix, k) /\ power(radix, k) \in Nat
        /\ sum(x, n) \in Nat /\ sum(x, n) < power(radix, k)
    BY SumBounds, PlaceFacts, ValueSum
  <2>3. sum(x, n) = sum(x, k)
    <3>1. sum(x, n) - sum(x, k) < power(radix, k) /\ sum(x, k) - sum(x, n) < power(radix, k)
      BY <2>2
    <3> QED BY <2>1, <2>2, <3>1, Congruent
  <2> QED BY <2>3, CopyFacts, ValueSum
<1> QED BY <1>1, <1>2

\* copyInt_ of a single element.
LEMMA CopyIntFacts ==
    ASSUME NEW k \in Nat, k > 0, NEW v \in 0..mask
    PROVE  copyInt(k, v) \in Num(k) /\ Value(copyInt(k, v)) = v
<1>. DEFINE Right(c) == c = [i \in 0..(k - 1) |-> IF i = 0 THEN v ELSE c[i - 1] \div radix]
            c0 == CHOOSE c : Right(c)
            one == [i \in 0..(k - 1) |-> IF i = 0 THEN v ELSE 0]
<1>1. radix \in Nat /\ radix > 0 /\ v \in Nat /\ v < radix /\ 0 \in 0..mask
  BY RadixFacts
<1>2. v \div radix = 0 /\ 0 \div radix = 0 /\ v % radix = v /\ 0 % radix = 0
  BY <1>1
<1>3. Right(one)
  BY <1>2
<1>4. one \in Num(k)
  BY <1>1 DEF Num
<1>5. \A i \in 0..(k - 1) : one[i] = IF i = 0 THEN v ELSE 0
  OBVIOUS
<1>. HIDE DEF Right, one
<1>6. Right(c0)
  BY <1>3
<1>. HIDE DEF c0
<1>7. \A i \in 0..(k - 1) : c0[i] = IF i = 0 THEN v ELSE c0[i - 1] \div radix
  BY <1>6 DEF Right
<1>8. \A i \in 0..(k - 1) : c0[i] = one[i]
  <2>. DEFINE G == {i \in 0..(k - 1) : c0[i] = one[i]}
  <2>1. 0 \in G
    BY <1>5, <1>7
  <2>2. ASSUME NEW i \in 1..(k - 1), i - 1 \in G PROVE i \in G
    <3>1. c0[i] = c0[i - 1] \div radix /\ c0[i - 1] = one[i - 1]
      BY <1>7, <2>2
    <3>2. one[i - 1] \div radix = 0 /\ one[i] = 0
      BY <1>2, <1>5
    <3> QED BY <3>1, <3>2
  <2>. HIDE DEF G
  <2>3. 0..(k - 1) \subseteq G
    <3>1. k - 1 \in Nat
      OBVIOUS
    <3> QED BY <2>1, <2>2, <3>1, UpTo
  <2> QED BY <2>3 DEF G
<1>9. copyInt(k, v) = [i \in 0..(k - 1) |-> c0[i] % radix]
  BY ArrayIs DEF copyInt, c0, Right
<1>10. copyInt(k, v) = one
  <2>1. \A i \in 0..(k - 1) : c0[i] % radix = one[i]
    BY <1>2, <1>5, <1>8
  <2> QED BY <1>9, <2>1 DEF one
<1>11. Value(one) = v
  <2>1. one \in Columns(k) /\ At(one, 0) = v
    BY <1>4, <1>5, NumFacts
  <2>2. \A i \in 1..(k - 1) : At(one, i) = 0
    BY <1>4, <1>5, NumFacts
  <2>3. sum(one, k) = sum(one, 1)
    BY <2>1, <2>2, SumStops
  <2>4. sum(one, 0 + 1) = sum(one, 0) + At(one, 0) * power(radix, 0) /\ sum(one, 0) = 0
    BY <2>1, SumDefined
  <2>5. power(radix, 0) = 1
    BY <1>1, PowerOne
  <2> QED BY <1>1, <1>4, <2>1, <2>3, <2>4, <2>5, ValueSum
<1> QED BY <1>4, <1>10, <1>11

\* The elements in use.
LEMMA DigitsFacts ==
    ASSUME NEW n \in Nat, NEW x \in Num(n)
    PROVE  /\ Digits(x) \in 0..n
           /\ \A i \in Digits(x)..(n - 1) : x[i] = 0
           /\ Digits(x) > 0 => x[Digits(x) - 1] # 0
           /\ Value(x) = sum(x, Digits(x))
           /\ Value(x) < power(radix, Digits(x))
           /\ Digits(x) > 0 => Value(x) >= power(radix, Digits(x) - 1)
           /\ Digits(x) = 0 <=> Value(x) = 0
<1>. DEFINE Top(k) == (\A i \in k..(n - 1) : x[i] = 0) /\ (k > 0 => x[k - 1] # 0)
            S == {k \in 0..n : \A i \in k..(n - 1) : x[i] = 0}
            d == Digits(x)
<1>1. Size(x) = n
  BY NumFacts, NumSize
<1>2. n \in S /\ S \in SUBSET Nat
  OBVIOUS
<1>3. PICK k \in S : \A j \in S : k <= j
  BY <1>2, LeastExists
<1>4. Top(k)
  <2>1. \A i \in k..(n - 1) : x[i] = 0
    OBVIOUS
  <2>2. ASSUME k > 0, x[k - 1] = 0 PROVE FALSE
    <3>1. k - 1 \in 0..n /\ \A i \in (k - 1)..(n - 1) : i = k - 1 \/ i \in k..(n - 1)
      BY <2>2
    <3>2. k - 1 \in S
      BY <2>1, <2>2, <3>1
    <3> QED BY <1>3, <3>2
  <2> QED BY <2>1, <2>2
<1>5. \E j \in 0..n : Top(j)
  BY <1>4
<1>6. Digits(x) = CHOOSE j \in 0..n : Top(j)
  BY <1>1 DEF Digits
<1>. HIDE DEF Top
<1>7. d \in 0..n /\ Top(d)
  BY <1>5, <1>6
<1>. HIDE DEF d
<1>8. (\A i \in d..(n - 1) : x[i] = 0) /\ (d > 0 => x[d - 1] # 0)
  BY <1>7 DEF Top
<1>9. x \in Columns(n) /\ d \in Nat /\ d <= n
  BY <1>7, NumFacts
<1>10. Value(x) = sum(x, d)
  <2>1. \A i \in d..(n - 1) : At(x, i) = 0
    BY <1>8, <1>9, NumFacts
  <2> QED BY <1>9, <2>1, SumStops, ValueSum
<1>11. sum(x, d) < power(radix, d)
  BY <1>9, SumBounds
<1>12. ASSUME d > 0 PROVE sum(x, d) >= power(radix, d - 1)
  <2>1. d - 1 \in Nat /\ d - 1 < n
    BY <1>9, <1>12
  <2>2. sum(x, d) = sum(x, d - 1) + At(x, d - 1) * power(radix, d - 1)
    BY <1>9, <1>12, SumNext
  <2>3. At(x, d - 1) \in Nat /\ At(x, d - 1) > 0
    BY <1>8, <1>12, <2>1, NumFacts, RadixFacts
  <2>4. sum(x, d - 1) \in Nat /\ power(radix, d - 1) \in Nat
    BY <2>1, SumBounds, PlaceFacts
  <2>5. \A a, p \in Nat : a > 0 => a * p >= p
    OBVIOUS
  <2>6. At(x, d - 1) * power(radix, d - 1) >= power(radix, d - 1)
    BY <2>3, <2>4, <2>5
  <2> QED BY <2>2, <2>3, <2>4, <2>6
<1>13. d = 0 <=> sum(x, d) = 0
  <2>1. CASE d = 0
    BY <1>9, <2>1, SumDefined
  <2>2. CASE d > 0
    <3>1. power(radix, d - 1) > 0 /\ power(radix, d - 1) \in Nat /\ sum(x, d) \in Nat
      BY <1>9, <2>2, PlaceFacts, SumBounds
    <3> QED BY <1>12, <2>2, <3>1
  <2> QED BY <1>9, <2>1, <2>2
<1> QED BY <1>7, <1>8, <1>10, <1>11, <1>12, <1>13 DEF d

\* trim keeps the value.
LEMMA TrimFacts ==
    ASSUME NEW n \in Nat, NEW x \in Num(n), NEW k \in Nat
    PROVE  /\ Digits(x) + k \in Nat /\ trim(x, k) \in Num(Digits(x) + k)
           /\ Value(trim(x, k)) = Value(x)
<1>1. Digits(x) \in Nat /\ Digits(x) + k \in Nat
  BY DigitsFacts
<1>2. \A i \in (Digits(x) + k)..(n - 1) : x[i] = 0
  BY <1>1, DigitsFacts
<1> QED BY <1>1, <1>2, CopyWhole DEF trim

\* greater compares the values.
THEOREM GreaterRight ==
    ASSUME NEW n \in Nat, NEW x \in Num(n), NEW m \in Nat, NEW y \in Num(m)
    PROVE  greater(x, y) <=> Value(x) > Value(y)
<1>. DEFINE w == IF n >= m THEN n ELSE m
            Agree(i, k) == \A j \in i..(k - 1) : At(x, j) = At(y, j)
            More(k) == \E i \in 0..(k - 1) : At(x, i) > At(y, i) /\ Agree(i + 1, k)
            Less(k) == \E i \in 0..(k - 1) : At(y, i) > At(x, i) /\ Agree(i + 1, k)
            G == {k \in 0..w : \/ More(k) /\ sum(x, k) > sum(y, k) /\ ~Less(k)
                               \/ Less(k) /\ sum(x, k) < sum(y, k) /\ ~More(k)
                               \/ Agree(0, k) /\ sum(x, k) = sum(y, k) /\ ~More(k) /\ ~Less(k)}
<1>0. w \in Nat /\ n <= w /\ m <= w
  OBVIOUS
<1>1. x \in Columns(n) /\ y \in Columns(m)
  BY NumFacts
<1>2. 0 \in G
  <2>1. sum(x, 0) = 0 /\ sum(y, 0) = 0
    BY <1>1, SumDefined
  <2> QED BY <1>0, <2>1
<1>3. ASSUME NEW k \in 1..w, k - 1 \in G PROVE k \in G
  <2>. DEFINE l == k - 1
              a == At(x, l)
              b == At(y, l)
              p == power(radix, l)
              s == sum(x, l)
              t == sum(y, l)
  <2>1. k \in Nat /\ k > 0 /\ l \in Nat /\ k = l + 1 /\ k \in 0..w
    OBVIOUS
  <2>2. sum(x, k) = s + a * p /\ sum(y, k) = t + b * p
    BY <1>1, <2>1, SumNext
  <2>3. s \in Nat /\ t \in Nat /\ s < p /\ t < p /\ p \in Nat
    BY <2>1, SumBounds, PlaceFacts
  <2>4. a \in Int /\ b \in Int
    <3>1. a \in Int
      BY <1>1, <2>1, AtFacts
    <3>2. b \in Int
      BY <1>1, <2>1, AtFacts
    <3> QED BY <3>1, <3>2
  <2>. HIDE DEF w, p, s, t
  <2>5. \A i : Agree(i, k) <=> Agree(i, l) /\ (l \in i..l => a = b)
    <3>1. \A i : \A j \in i..(k - 1) : j \in i..(l - 1) \/ (j = l /\ l \in i..l)
      BY <2>1
    <3>2. \A i : (i..(l - 1)) \subseteq (i..(k - 1)) /\ (l \in i..l => l \in i..(k - 1))
      BY <2>1
    <3> QED BY <3>1, <3>2
  <2>6. CASE a > b
    <3>1. a >= b + 1 /\ a * p >= (b + 1) * p /\ (b + 1) * p = b * p + p
      BY <2>3, <2>4, <2>6
    <3>2. sum(x, k) > sum(y, k)
      BY <2>2, <2>3, <2>4, <3>1
    <3>3. More(k)
      <4>1. l \in 0..(k - 1) /\ At(x, l) > At(y, l) /\ Agree(l + 1, k)
        BY <2>1, <2>6
      <4> QED BY <4>1
    <3>4. ~Less(k)
      <4>1. ASSUME NEW i \in 0..(k - 1), At(y, i) > At(x, i), Agree(i + 1, k) PROVE FALSE
        <5>1. CASE i = l
          BY <2>4, <2>6, <4>1, <5>1
        <5>2. CASE i < l
          <6>1. l \in (i + 1)..(k - 1)
            BY <2>1, <5>2
          <6>2. At(x, l) = At(y, l)
            BY <4>1, <6>1
          <6> QED BY <2>4, <2>6, <6>2
        <5> QED BY <2>1, <5>1, <5>2
      <4> QED BY <4>1
    <3> QED BY <2>1, <3>2, <3>3, <3>4
  <2>7. CASE a < b
    <3>1. b >= a + 1 /\ b * p >= (a + 1) * p /\ (a + 1) * p = a * p + p
      BY <2>3, <2>4, <2>7
    <3>2. sum(x, k) < sum(y, k)
      BY <2>2, <2>3, <2>4, <3>1
    <3>3. Less(k)
      <4>1. l \in 0..(k - 1) /\ At(y, l) > At(x, l) /\ Agree(l + 1, k)
        BY <2>1, <2>7
      <4> QED BY <4>1
    <3>4. ~More(k)
      <4>1. ASSUME NEW i \in 0..(k - 1), At(x, i) > At(y, i), Agree(i + 1, k) PROVE FALSE
        <5>1. CASE i = l
          BY <2>4, <2>7, <4>1, <5>1
        <5>2. CASE i < l
          <6>1. l \in (i + 1)..(k - 1)
            BY <2>1, <5>2
          <6>2. At(x, l) = At(y, l)
            BY <4>1, <6>1
          <6> QED BY <2>4, <2>7, <6>2
        <5> QED BY <2>1, <5>1, <5>2
      <4> QED BY <4>1
    <3> QED BY <2>1, <3>2, <3>3, <3>4
  <2>8. CASE a = b
    <3>1. sum(x, k) = s + a * p /\ sum(y, k) = t + a * p /\ a * p \in Int
      BY <2>2, <2>3, <2>4, <2>8
    <3>2. \A i \in 0..(k - 1) : Agree(i, k) <=> Agree(i, l)
      BY <2>5, <2>8
    <3>3. Agree(0, k) <=> Agree(0, l)
      BY <2>5, <2>8
    <3>4. More(k) <=> More(l)
      <4>1. ASSUME More(k) PROVE More(l)
        <5>1. PICK i \in 0..(k - 1) : At(x, i) > At(y, i) /\ Agree(i + 1, k)
          BY <4>1
        <5>2. i # l
          BY <2>4, <2>8, <5>1
        <5>3. i \in 0..(l - 1) /\ Agree(i + 1, l)
          BY <2>1, <2>5, <5>1, <5>2
        <5> QED BY <5>1, <5>3
      <4>2. ASSUME More(l) PROVE More(k)
        <5>1. PICK i \in 0..(l - 1) : At(x, i) > At(y, i) /\ Agree(i + 1, l)
          BY <4>2
        <5>2. i \in 0..(k - 1) /\ Agree(i + 1, k)
          BY <2>1, <2>5, <2>8, <5>1
        <5> QED BY <5>1, <5>2
      <4> QED BY <4>1, <4>2
    <3>5. Less(k) <=> Less(l)
      <4>1. ASSUME Less(k) PROVE Less(l)
        <5>1. PICK i \in 0..(k - 1) : At(y, i) > At(x, i) /\ Agree(i + 1, k)
          BY <4>1
        <5>2. i # l
          BY <2>4, <2>8, <5>1
        <5>3. i \in 0..(l - 1) /\ Agree(i + 1, l)
          BY <2>1, <2>5, <5>1, <5>2
        <5> QED BY <5>1, <5>3
      <4>2. ASSUME Less(l) PROVE Less(k)
        <5>1. PICK i \in 0..(l - 1) : At(y, i) > At(x, i) /\ Agree(i + 1, l)
          BY <4>2
        <5>2. i \in 0..(k - 1) /\ Agree(i + 1, k)
          BY <2>1, <2>5, <2>8, <5>1
        <5> QED BY <5>1, <5>2
      <4> QED BY <4>1, <4>2
    <3>. HIDE DEF More, Less, Agree, a
    <3>6. \/ More(l) /\ s > t /\ ~Less(l)
          \/ Less(l) /\ s < t /\ ~More(l)
          \/ Agree(0, l) /\ s = t /\ ~More(l) /\ ~Less(l)
      BY <1>3 DEF s, t
    <3>7. (s > t <=> sum(x, k) > sum(y, k)) /\ (s < t <=> sum(x, k) < sum(y, k))
          /\ (s = t <=> sum(x, k) = sum(y, k))
      BY <2>3, <3>1
    <3> QED BY <2>1, <3>3, <3>4, <3>5, <3>6, <3>7
  <2> QED BY <2>4, <2>6, <2>7, <2>8
<1>. HIDE DEF G
<1>4. 0..w \subseteq G
  BY <1>0, <1>2, <1>3, UpTo
<1>5. w \in G
  BY <1>0, <1>4
<1>6. sum(x, w) = Value(x) /\ sum(y, w) = Value(y)
  <2>1. (\A i \in n..(w - 1) : At(x, i) = 0) /\ (\A i \in m..(w - 1) : At(y, i) = 0)
    BY <1>0, NumFacts
  <2>2. sum(x, w) = sum(x, n)
    BY <1>0, <1>1, <2>1, SumStops
  <2>3. sum(y, w) = sum(y, m)
    BY <1>0, <1>1, <2>1, SumStops
  <2> QED BY <2>2, <2>3, ValueSum
<1>7. Value(x) \in Nat /\ Value(y) \in Nat
  BY ValueBounds
<1>8. More(w) <=> Value(x) > Value(y)
  <2>. HIDE DEF More, Less, Agree, w
  <2>1. \/ More(w) /\ Value(x) > Value(y)
        \/ Value(x) < Value(y) /\ ~More(w)
        \/ Value(x) = Value(y) /\ ~More(w)
    BY <1>5, <1>6 DEF G
  <2> QED BY <1>7, <2>1
<1>9. DOMAIN x \cup DOMAIN y = 0..(w - 1)
  <2>1. DOMAIN x = 0..(n - 1) /\ DOMAIN y = 0..(m - 1)
    BY DEF Num
  <2> QED BY <2>1
<1>10. greater(x, y) <=> More(w)
  <2>1. ASSUME greater(x, y) PROVE More(w)
    <3>1. PICK i \in 0..(w - 1) :
                 At(x, i) > At(y, i) /\ \A j \in 0..(w - 1) : j > i => At(x, j) = At(y, j)
      BY <1>9, <2>1 DEF greater
    <3>2. Agree(i + 1, w)
      BY <1>0, <3>1
    <3> QED BY <3>1, <3>2
  <2>2. ASSUME More(w) PROVE greater(x, y)
    <3>1. PICK i \in 0..(w - 1) : At(x, i) > At(y, i) /\ Agree(i + 1, w)
      BY <2>2
    <3>2. \A j \in 0..(w - 1) : j > i => At(x, j) = At(y, j)
      BY <1>0, <3>1
    <3> QED BY <1>9, <3>1, <3>2 DEF greater
  <2> QED BY <2>1, <2>2
<1> QED BY <1>8, <1>10

-----------------------------------------------------------------------------
(* Two's complement. *)

\* Half of what n elements can hold.
range(n) == (radix \div 2) * power(radix, n - 1)

\* Half of what an array of n elements can stand for.
LEMMA RangeFacts ==
    ASSUME NEW n \in Nat, n > 0
    PROVE  range(n) \in Nat /\ range(n) > 0 /\ power(radix, n) = 2 * range(n)
<1>. DEFINE h == radix \div 2
            p == power(radix, n - 1)
<1>1. h \in Nat /\ h > 0 /\ radix = 2 * h
  BY RadixFacts
<1>2. p \in Nat /\ p > 0 /\ power(radix, n) = radix * p
  BY PowerNext, PlaceFacts, RadixFacts
<1>. HIDE DEF h, p
<1>3. h * p \in Nat /\ h * p > 0 /\ (2 * h) * p = 2 * (h * p)
  BY <1>1, <1>2
<1> QED BY <1>1, <1>2, <1>3 DEF range, h, p

\* negative looks at the highest bit of the highest element.
LEMMA NegativeRight ==
    ASSUME NEW n \in Nat, n > 0, NEW x \in Num(n)
    PROVE  negative(x) <=> Value(x) >= range(n)
<1>. DEFINE h == radix \div 2
            p == power(radix, n - 1)
            a == At(x, n - 1)
            s == sum(x, n - 1)
<1>1. h \in Nat /\ radix = 2 * h /\ n - 1 \in Nat /\ p \in Nat /\ p > 0
  BY RadixFacts, PlaceFacts
<1>2. a \in Nat /\ a = x[n - 1]
  BY <1>1, NumFacts, RadixFacts
<1>3. s \in Nat /\ s < p
  BY <1>1, SumBounds
<1>4. Value(x) = s + a * p
  BY NumFacts, ValueSum, SumNext
<1>5. Size(x) = n
  BY NumFacts, NumSize
<1>6. negative(x) <=> a >= h
  BY <1>2, <1>5 DEF negative
<1>7. range(n) = h * p
  BY DEF range
<1>. HIDE DEF h, p, a, s
<1>8. CASE a >= h
  <2>1. a * p >= h * p
    BY <1>1, <1>2, <1>8
  <2> QED BY <1>1, <1>2, <1>3, <1>4, <1>6, <1>7, <1>8, <2>1
<1>9. CASE a < h
  <2>1. a + 1 <= h /\ (a + 1) * p <= h * p /\ (a + 1) * p = a * p + p
    BY <1>1, <1>2, <1>9
  <2> QED BY <1>1, <1>2, <1>3, <1>4, <1>6, <1>7, <1>9, <2>1
<1> QED BY <1>1, <1>2, <1>8, <1>9

\* The two values of an array.
LEMMA SignedFacts ==
    ASSUME NEW n \in Nat, n > 0, NEW x \in Num(n)
    PROVE  /\ Signed(x) \in Int /\ -range(n) <= Signed(x) /\ Signed(x) < range(n)
           /\ Signed(x) = Value(x) \/ Signed(x) = Value(x) - power(radix, n)
           /\ negative(x) <=> Signed(x) < 0
           /\ Value(x) < range(n) <=> Signed(x) = Value(x)
<1>1. Size(x) = n
  BY NumFacts, NumSize
<1>2. Value(x) \in Nat /\ Value(x) < power(radix, n)
  BY ValueBounds
<1>3. range(n) \in Nat /\ range(n) > 0 /\ power(radix, n) = 2 * range(n)
  BY RangeFacts
<1>4. negative(x) <=> Value(x) >= range(n)
  BY NegativeRight
<1>5. Signed(x) = IF Value(x) >= range(n) THEN Value(x) - 2 * range(n) ELSE Value(x)
  BY <1>1, <1>3, <1>4 DEF Signed
<1> QED BY <1>2, <1>3, <1>4, <1>5

\* A number within range that the array stands for modulo what it can hold.
LEMMA SignedIs ==
    ASSUME NEW n \in Nat, n > 0, NEW x \in Num(n), NEW v \in Int, NEW q \in Int,
           Value(x) = v + q * power(radix, n), -range(n) <= v, v < range(n)
    PROVE  Signed(x) = v
<1>. DEFINE w == power(radix, n)
<1>1. range(n) \in Nat /\ w = 2 * range(n) /\ w \in Nat
  BY RangeFacts
<1>2. /\ Signed(x) \in Int /\ -range(n) <= Signed(x) /\ Signed(x) < range(n)
      /\ Signed(x) = Value(x) \/ Signed(x) = Value(x) - w
  BY SignedFacts
<1>. HIDE DEF w
<1>3. Value(x) = v + q * w
  BY DEF w
<1>4. Signed(x) - v < w /\ v - Signed(x) < w
  BY <1>1, <1>2
<1>5. \E r \in Int : Signed(x) = v + r * w
  <2>1. CASE Signed(x) = Value(x)
    BY <1>3, <2>1
  <2>2. CASE Signed(x) = Value(x) - w
    <3>1. q - 1 \in Int /\ (v + q * w) - w = v + (q - 1) * w
      BY <1>1
    <3>2. Signed(x) = v + (q - 1) * w
      BY <1>3, <2>2, <3>1
    <3> QED BY <3>1, <3>2
  <2> QED BY <1>2, <2>1, <2>2
<1> QED BY <1>1, <1>2, <1>4, <1>5, Congruent

\* A value is known if it is known up to what an array cannot hold.
LEMMA ValueIs ==
    ASSUME NEW n \in Nat, NEW x \in Num(n), NEW v \in Nat, NEW q \in Int,
           Value(x) = v + q * power(radix, n), v < power(radix, n)
    PROVE  Value(x) = v
<1>1. Value(x) \in Nat /\ Value(x) < power(radix, n) /\ power(radix, n) \in Nat
  BY ValueBounds, PlaceFacts
<1>2. Value(x) - v < power(radix, n) /\ v - Value(x) < power(radix, n)
  BY <1>1
<1> QED BY <1>1, <1>2, Congruent

-----------------------------------------------------------------------------
(* Sums: the carry. *)

\* What a column may be for its carry to fit the 32 bits of a shift.
Narrow(n) == {f \in Columns(n) : \A i \in 0..(n - 1) :
                -(radix * radix - radix) <= f[i] /\ f[i] <= radix * radix - radix}

\* Of a number that fits the word, High and Low are quotient and remainder.
LEMMA HighLow ==
    ASSUME NEW c \in Int, -(radix * radix) <= c, c <= radix * radix
    PROVE  /\ Low(c) \in 0..mask /\ High(c) \in Int
           /\ -radix <= High(c) /\ High(c) <= radix
           /\ c = Low(c) + High(c) * radix
<1>. DEFINE r == radix
            s == r * r
<1>1. r \in Nat /\ r >= 4 /\ mask = r - 1
  BY RadixFacts
<1>2. s \in Nat /\ s > 0 /\ -s <= c /\ c <= s
  BY <1>1
<1>3. Word = 4 * s
  BY <1>1 DEF Word
<1>4. Word \div 2 = 2 * s
  BY <1>2, <1>3
<1>5. (c + Word \div 2) % Word = c + Word \div 2
  <2>. HIDE DEF s
  <2>1. c + 2 * s \in Nat /\ c + 2 * s < 4 * s
    BY <1>2
  <2>2. (c + 2 * s) % (4 * s) = c + 2 * s
    BY <1>2, <2>1
  <2> QED BY <1>3, <1>4, <2>2
<1>6. High(c) = c \div r
  <2>. HIDE DEF s
  <2>1. (c + 2 * s) - 2 * s = c
    BY <1>2
  <2> QED BY <1>4, <1>5, <2>1 DEF High
<1>7. c % r \in 0..(r - 1) /\ c \div r \in Int /\ c = (c % r) + (c \div r) * r
  BY <1>1
<1>8. -r <= c \div r /\ c \div r <= r
  <2>. DEFINE q == c \div r
              l == c % r
  <2>. HIDE DEF q, l
  <2>1. q \in Int /\ l \in 0..(r - 1) /\ c = l + q * r
    BY <1>7 DEF q, l
  <2>2. ASSUME q >= r + 1 PROVE FALSE
    <3>1. q * r >= (r + 1) * r /\ (r + 1) * r = s + r
      BY <1>1, <2>1, <2>2
    <3> QED BY <1>1, <1>2, <2>1, <3>1
  <2>3. ASSUME q <= -r - 1 PROVE FALSE
    <3>1. q * r <= (-r - 1) * r /\ (-r - 1) * r = -s - r
      BY <1>1, <2>1, <2>3
    <3> QED BY <1>1, <1>2, <2>1, <3>1
  <2> QED BY <1>1, <2>1, <2>2, <2>3 DEF q
<1> QED BY <1>1, <1>6, <1>7, <1>8 DEF Low

\* What comes out stands for the columns, but for what is carried out of it.
THEOREM RippleRight ==
    ASSUME NEW n \in Nat, NEW f \in Narrow(n)
    PROVE  /\ Ripple(f) \in Num(n)
           /\ \E q \in Int : Value(Ripple(f)) = sum(f, n) + q * power(radix, n)
<1>. DEFINE Right(c) == c = [i \in DOMAIN f |-> IF i = 0 THEN 0 ELSE High(f[i - 1] + c[i - 1])]
            carry == CHOOSE c : Right(c)
            h == [j \in Nat |-> [v \in Int |-> IF j = 0 \/ j > n THEN 0 ELSE High(f[j - 1] + v)]]
            res == [i \in DOMAIN f |-> Low(f[i] + carry[i])]
            Small(v) == v \in Int /\ -radix <= v /\ v <= radix
<1>1. f \in Columns(n) /\ DOMAIN f = 0..(n - 1)
  BY DEF Narrow, Columns
<1>2. Ripple(f) = res
  BY ArrayIs DEF Ripple
<1>3. radix \in Nat /\ radix >= 4 /\ radix * radix \in Nat
  BY RadixFacts
<1>4. ASSUME NEW i \in 0..(n - 1), NEW v, Small(v)
      PROVE  /\ Low(f[i] + v) \in 0..mask /\ Small(High(f[i] + v))
             /\ f[i] + v = Low(f[i] + v) + High(f[i] + v) * radix
  <2>1. f[i] \in Int /\ -(radix * radix - radix) <= f[i] /\ f[i] <= radix * radix - radix
    BY <1>1 DEF Narrow, Columns
  <2>2. f[i] + v \in Int /\ -(radix * radix) <= f[i] + v /\ f[i] + v <= radix * radix
    BY <1>3, <1>4, <2>1
  <2> QED BY <2>2, HighLow
<1>5. radix # 0 /\ radix \in Int
  BY <1>3
<1>6. \A v \in Int : High(v) \in Int
  <2>1. Word \in Nat /\ Word > 0
    <3>1. radix * radix > 0
      BY <1>3
    <3>2. 4 * radix * radix = 4 * (radix * radix)
      BY <1>3
    <3> QED BY <1>3, <3>1, <3>2 DEF Word
  <2>2. Word \div 2 \in Int
    BY <2>1
  <2>3. \A v \in Int : ((v + Word \div 2) % Word) - Word \div 2 \in Int
    BY <2>1, <2>2
  <2>4. \A w \in Int : w \div radix \in Int
    BY <1>3
  <2> QED BY <2>3, <2>4 DEF High
<1>7. h \in Steps /\ h[0][0] = 0
  <2>1. ASSUME NEW j \in Nat, NEW v \in Int, j # 0, ~(j > n) PROVE High(f[j - 1] + v) \in Int
    <3>1. f[j - 1] \in Int
      BY <1>1, <2>1 DEF Columns
    <3> QED BY <1>6, <3>1
  <2> QED BY <2>1 DEF Steps, StepsOver
<1>8. \A j \in 1..n : \A v \in Int : h[j][v] = High(f[j - 1] + v)
  OBVIOUS
<1>. HIDE DEF h
<1>9. PICK s \in [Nat -> Int] : s[0] = h[0][0] /\ \A k \in Nat : s[k + 1] = h[k + 1][s[k]]
  BY <1>7, IntRecursion
<1>10. \A j \in 1..n : s[j] = High(f[j - 1] + s[j - 1])
  <2>1. ASSUME NEW j \in 1..n PROVE s[j] = High(f[j - 1] + s[j - 1])
    <3>1. j - 1 \in Nat /\ (j - 1) + 1 = j /\ s[j - 1] \in Int
      OBVIOUS
    <3>2. s[j] = h[j][s[j - 1]]
      BY <1>9, <3>1
    <3> QED BY <1>8, <3>1, <3>2
  <2> QED BY <2>1
<1>11. Right([i \in 0..(n - 1) |-> s[i]])
  <2>. DEFINE c == [i \in 0..(n - 1) |-> s[i]]
  <2>1. \A i \in 0..(n - 1) : i = 0 \/ (i \in 1..n /\ i - 1 \in 0..(n - 1))
    OBVIOUS
  <2>2. \A i \in 0..(n - 1) : s[i] = IF i = 0 THEN 0 ELSE High(f[i - 1] + c[i - 1])
    BY <1>7, <1>9, <1>10, <2>1
  <2> QED BY <1>1, <2>2
<1>. HIDE DEF Right
<1>12. Right(carry)
  BY <1>11
<1>. HIDE DEF carry
<1>13. \A i \in 0..(n - 1) : carry[i] = IF i = 0 THEN 0 ELSE High(f[i - 1] + carry[i - 1])
  BY <1>1, <1>12 DEF Right
<1>14. \A i \in 0..(n - 1) : carry[i] = s[i]
  <2>. DEFINE G == {i \in Nat : i <= n - 1 => carry[i] = s[i]}
  <2>1. 0 \in G
    BY <1>7, <1>9, <1>13
  <2>2. ASSUME NEW i \in 1..n, i - 1 \in G PROVE i \in G
    <3>1. CASE i <= n - 1
      <4>1. carry[i - 1] = s[i - 1] /\ i \in 0..(n - 1) /\ i # 0
        BY <2>2, <3>1
      <4> QED BY <1>10, <1>13, <4>1
    <3>2. CASE ~(i <= n - 1)
      BY <3>2
    <3> QED BY <3>1, <3>2
  <2>. HIDE DEF G
  <2>3. 0..n \subseteq G
    BY <2>1, <2>2, UpTo
  <2> QED BY <2>3 DEF G
<1>15. \A i \in 0..n : Small(s[i])
  <2>. DEFINE G == {i \in 0..n : Small(s[i])}
  <2>1. 0 \in G
    BY <1>3, <1>7, <1>9
  <2>2. ASSUME NEW i \in 1..n, i - 1 \in G PROVE i \in G
    <3>1. i - 1 \in 0..(n - 1) /\ Small(s[i - 1])
      BY <2>2
    <3>2. Small(High(f[i - 1] + s[i - 1]))
      BY <1>4, <3>1
    <3> QED BY <1>10, <3>2
  <2>. HIDE DEF G
  <2>3. 0..n \subseteq G
    BY <2>1, <2>2, UpTo
  <2> QED BY <2>3 DEF G
<1>. HIDE DEF Small
<1>16. \A i \in 0..(n - 1) : /\ res[i] \in 0..mask
                             /\ f[i] + s[i] = res[i] + s[i + 1] * radix
  <2>1. ASSUME NEW i \in 0..(n - 1)
        PROVE  res[i] \in 0..mask /\ f[i] + s[i] = res[i] + s[i + 1] * radix
    <3>1. res[i] = Low(f[i] + s[i])
      BY <1>1, <1>14
    <3>2. i \in 0..n /\ i + 1 \in 1..n /\ (i + 1) - 1 = i
      OBVIOUS
    <3>3. s[i + 1] = High(f[i] + s[i])
      BY <1>10, <3>2
    <3>4. Small(s[i])
      BY <1>15, <3>2
    <3> QED BY <1>4, <3>1, <3>3, <3>4
  <2> QED BY <2>1
<1>17. res \in Num(n)
  <2>1. \A i \in 0..(n - 1) : Low(f[i] + carry[i]) \in 0..mask
    BY <1>1, <1>16
  <2> QED BY <1>1, <2>1 DEF Num
<1>. HIDE DEF res
<1>18. \A k \in 0..n : sum(res, k) = sum(f, k) + (-s[k]) * power(radix, k)
  <2>. DEFINE G == {k \in 0..n : sum(res, k) = sum(f, k) + (-s[k]) * power(radix, k)}
  <2>0. res \in Columns(n)
    BY <1>17, NumFacts
  <2>1. 0 \in G
    <3>1. sum(res, 0) = 0 /\ sum(f, 0) = 0 /\ s[0] = 0 /\ power(radix, 0) \in Int
      BY <1>1, <1>7, <1>9, <2>0, SumDefined, PlaceFacts
    <3>2. sum(res, 0) = sum(f, 0) + (-s[0]) * power(radix, 0)
      BY <3>1
    <3> QED BY <3>2
  <2>2. ASSUME NEW k \in 1..n, k - 1 \in G PROVE k \in G
    <3>. DEFINE p == power(radix, k - 1)
                a == At(res, k - 1)
                b == At(f, k - 1)
                u == s[k - 1]
                w == s[k]
                x == sum(f, k - 1)
    <3>1. k - 1 \in Nat /\ k > 0 /\ k \in Nat /\ k - 1 \in 0..(n - 1) /\ (k - 1) + 1 = k
      OBVIOUS
    <3>2. sum(res, k) = sum(res, k - 1) + a * p /\ sum(f, k) = x + b * p
      BY <1>1, <2>0, <3>1, SumNext
    <3>3. power(radix, k) = radix * p
      BY <3>1, PowerNext, RadixFacts
    <3>4. a = res[k - 1] /\ b = f[k - 1]
      BY <1>1, <2>0, <3>1, AtFacts
    <3>5. b + u = a + w * radix
      BY <1>16, <3>1, <3>4
    <3>6. p \in Int
      BY <3>1, PlaceFacts
    <3>7. a \in Int
      BY <2>0, <3>1, AtFacts
    <3>8. b \in Int
      BY <1>1, <3>1, AtFacts
    <3>9. u \in Int /\ w \in Int
      BY <1>9, <3>1
    <3>10. x \in Int
      BY <1>1, <3>1, SumDefined
    <3>11. sum(res, k - 1) = x + (-u) * p
      BY <2>2
    <3>. HIDE DEF p, a, b, u, w, x
    <3>12. a = b + u - w * radix
      BY <1>5, <3>5, <3>7, <3>8, <3>9
    <3>13. (x + (-u) * p) + (b + u - w * radix) * p = (x + b * p) + (-w) * (radix * p)
      BY <1>5, <3>6, <3>8, <3>9, <3>10
    <3>14. sum(res, k) = sum(f, k) + (-w) * power(radix, k)
      BY <3>2, <3>3, <3>11, <3>12, <3>13
    <3> QED BY <3>14 DEF w
  <2>. HIDE DEF G
  <2>3. 0..n \subseteq G
    BY <2>1, <2>2, UpTo
  <2> QED BY <2>3 DEF G
<1>19. -s[n] \in Int /\ sum(res, n) = sum(f, n) + (-s[n]) * power(radix, n)
  BY <1>9, <1>18
<1>20. Value(res) = sum(f, n) + (-s[n]) * power(radix, n)
  BY <1>17, <1>19, ValueSum
<1> QED BY <1>2, <1>17, <1>19, <1>20

-----------------------------------------------------------------------------
(* Sums: adding, subtracting, multiplying by an element, halving. *)

\* add_ and sub_ of a number that is not longer.
LEMMA LinearRight ==
    ASSUME NEW n \in Nat, NEW x \in Num(n), NEW k \in Nat, NEW y \in Num(k), k <= n,
           NEW c \in {1, -1}
    PROVE  /\ linCombShift(x, y, c, 0) \in Num(n)
           /\ \E q \in Int : Value(linCombShift(x, y, c, 0))
                               = Value(x) + c * Value(y) + q * power(radix, n)
<1>. DEFINE f == [i \in DOMAIN x |-> x[i] + c * At(y, i - 0)]
<1>1. DOMAIN x = 0..(n - 1) /\ x \in Columns(n) /\ y \in Columns(k)
  BY NumFacts, NumSize
<1>2. \A i \in 0..(n - 1) : i \in Nat /\ i - 0 = i /\ i < n
  OBVIOUS
<1>3. \A i \in 0..(n - 1) : x[i] \in 0..mask /\ At(x, i) = x[i] /\ At(y, i) \in 0..mask
  BY <1>2, NumFacts
<1>4. \A i \in 0..(n - 1) : f[i] = At(x, i) + c * At(y, i) /\ f[i] \in Int
  <2>1. \A a \in 0..mask : a \in Int
    BY RadixFacts
  <2>2. c \in Int
    OBVIOUS
  <2> QED BY <1>1, <1>2, <1>3, <2>1, <2>2
<1>5. f \in Columns(n)
  <2>1. DOMAIN f = 0..(n - 1) /\ f = [i \in 0..(n - 1) |-> f[i]]
    BY <1>1
  <2>. HIDE DEF f
  <2> QED BY <1>4, <2>1 DEF Columns
<1>. HIDE DEF f
<1>6. f \in Narrow(n)
  <2>1. radix \in Nat /\ radix >= 4 /\ mask = radix - 1
    BY RadixFacts
  <2>2. 4 * radix <= radix * radix
    BY <2>1
  <2>3. ASSUME NEW i \in 0..(n - 1)
        PROVE  -(radix * radix - radix) <= f[i] /\ f[i] <= radix * radix - radix
    <3>. DEFINE a == At(x, i)
                b == At(y, i)
                s == radix * radix
    <3>1. a \in 0..mask /\ b \in 0..mask /\ f[i] = a + c * b
      BY <1>3, <1>4
    <3>2. s \in Nat /\ 4 * radix <= s
      BY <2>1, <2>2
    <3>. HIDE DEF a, b, s
    <3>3. f[i] = a + b \/ f[i] = a - b
      BY <2>1, <3>1
    <3>4. -(s - radix) <= f[i] /\ f[i] <= s - radix
      BY <2>1, <3>1, <3>2, <3>3
    <3> QED BY <3>4 DEF s
  <2> QED BY <1>5, <2>3 DEF Narrow
<1>7. \A i \in 0..(n - 1) : At(f, i) = At(x, i) + c * At(y, i)
  BY <1>2, <1>4, <1>5, AtFacts
<1>8. sum(f, n) = sum(x, n) + c * sum(y, n)
  <2>1. c \in Int
    OBVIOUS
  <2> QED BY <1>1, <1>5, <1>7, <2>1, SumLinear
<1>9. sum(y, n) = Value(y) /\ sum(x, n) = Value(x)
  <2>1. \A i \in k..(n - 1) : At(y, i) = 0
    BY NumFacts
  <2>2. sum(y, n) = sum(y, k)
    BY <1>1, <2>1, SumStops
  <2>3. sum(y, k) = Value(y)
    BY ValueSum
  <2> QED BY <2>2, <2>3, ValueSum
<1>10. linCombShift(x, y, c, 0) = Ripple(f)
  BY DEF linCombShift, f
<1> QED BY <1>6, <1>8, <1>9, <1>10, RippleRight

\* What they make of numbers in two's complement, if it is within range.
LEMMA LinearSigned ==
    ASSUME NEW n \in Nat, n > 0, NEW x \in Num(n), NEW k \in Nat, NEW y \in Num(k), k <= n,
           NEW c \in {1, -1}, NEW a \in Int, NEW b \in Int, NEW p \in Int, NEW q \in Int,
           Value(x) = a + p * power(radix, n), Value(y) = b + q * power(radix, n),
           -range(n) <= a + c * b, a + c * b < range(n)
    PROVE  /\ linCombShift(x, y, c, 0) \in Num(n)
           /\ Signed(linCombShift(x, y, c, 0)) = a + c * b
<1>. DEFINE z == linCombShift(x, y, c, 0)
            w == power(radix, n)
<1>1. z \in Num(n) /\ \E r \in Int : Value(z) = Value(x) + c * Value(y) + r * w
  BY LinearRight
<1>2. PICK r \in Int : Value(z) = Value(x) + c * Value(y) + r * w
  BY <1>1
<1>3. w \in Int
  BY PlaceFacts
<1>. HIDE DEF z, w
<1>4. Value(x) = a + p * w /\ Value(y) = b + q * w
  BY DEF w
<1>5. Value(z) = (a + c * b) + (p + c * q + r) * w
  <2>1. CASE c = 1
    <3>1. (a + p * w) + (b + q * w) + r * w = (a + b) + (p + q + r) * w
      BY <1>3
    <3>2. c * b = b /\ c * q = q /\ c * Value(y) = b + q * w
      BY <1>3, <1>4, <2>1
    <3> QED BY <1>2, <1>4, <3>1, <3>2
  <2>2. CASE c = -1
    <3>1. (a + p * w) + (-b - q * w) + r * w = (a + (-b)) + (p + (-q) + r) * w
      BY <1>3
    <3>2. c * b = -b /\ c * q = -q /\ c * Value(y) = -b - q * w
      BY <1>3, <1>4, <2>2
    <3> QED BY <1>2, <1>4, <3>1, <3>2
  <2> QED BY <2>1, <2>2
<1>6. p + c * q + r \in Int /\ a + c * b \in Int
  OBVIOUS
<1>7. Signed(z) = a + c * b
  BY <1>1, <1>5, <1>6, SignedIs DEF w
<1> QED BY <1>1, <1>7 DEF z

\* A number and what it stands for in two's complement.
LEMMA SignedQuotient ==
    ASSUME NEW n \in Nat, n > 0, NEW x \in Num(n)
    PROVE  \E q \in Int : Value(x) = Signed(x) + q * power(radix, n)
<1>. DEFINE w == power(radix, n)
<1>1. w \in Int /\ Signed(x) \in Int /\ (Signed(x) = Value(x) \/ Signed(x) = Value(x) - w)
      /\ Value(x) \in Int
  BY PlaceFacts, SignedFacts, ValueBounds
<1>. HIDE DEF w
<1>2. CASE Signed(x) = Value(x)
  <2>1. 0 \in Int /\ Value(x) = Signed(x) + 0 * w
    BY <1>1, <1>2
  <2> QED BY <2>1 DEF w
<1>3. CASE Signed(x) = Value(x) - w
  <2>1. 1 \in Int /\ Value(x) = Signed(x) + 1 * w
    BY <1>1, <1>3
  <2> QED BY <2>1 DEF w
<1> QED BY <1>1, <1>2, <1>3

\* add_ in two's complement, if the sum fits,
LEMMA AddSigned ==
    ASSUME NEW n \in Nat, n > 0, NEW x \in Num(n), NEW k \in Nat, NEW y \in Num(k), k <= n,
           -range(n) <= Signed(x) + Value(y), Signed(x) + Value(y) < range(n)
    PROVE  add_(x, y) \in Num(n) /\ Signed(add_(x, y)) = Signed(x) + Value(y)
<1>1. PICK p \in Int : Value(x) = Signed(x) + p * power(radix, n)
  BY SignedQuotient
<1>2. PICK c \in {1, -1} : c = 1
  OBVIOUS
<1>3. PICK q \in Int : q = 0
  OBVIOUS
<1>4. Signed(x) \in Int /\ Value(y) \in Int /\ power(radix, n) \in Int
  BY SignedFacts, ValueBounds, PlaceFacts
<1>5. Value(y) = Value(y) + q * power(radix, n)
  BY <1>3, <1>4
<1>6. Signed(x) + c * Value(y) = Signed(x) + Value(y)
  BY <1>2, <1>4
<1>7. linCombShift(x, y, c, 0) \in Num(n)
      /\ Signed(linCombShift(x, y, c, 0)) = Signed(x) + c * Value(y)
  BY <1>1, <1>4, <1>5, <1>6, LinearSigned
<1> QED BY <1>2, <1>6, <1>7 DEF add_

\* and sub_, if the difference does.
LEMMA SubSigned ==
    ASSUME NEW n \in Nat, n > 0, NEW x \in Num(n), NEW k \in Nat, NEW y \in Num(k), k <= n,
           -range(n) <= Signed(x) - Value(y), Signed(x) - Value(y) < range(n)
    PROVE  sub_(x, y) \in Num(n) /\ Signed(sub_(x, y)) = Signed(x) - Value(y)
<1>1. PICK p \in Int : Value(x) = Signed(x) + p * power(radix, n)
  BY SignedQuotient
<1>2. PICK c \in {1, -1} : c = -1
  OBVIOUS
<1>3. PICK q \in Int : q = 0
  OBVIOUS
<1>4. Signed(x) \in Int /\ Value(y) \in Int /\ power(radix, n) \in Int
  BY SignedFacts, ValueBounds, PlaceFacts
<1>5. Value(y) = Value(y) + q * power(radix, n)
  BY <1>3, <1>4
<1>6. Signed(x) + c * Value(y) = Signed(x) - Value(y)
  BY <1>2, <1>4
<1>7. linCombShift(x, y, c, 0) \in Num(n)
      /\ Signed(linCombShift(x, y, c, 0)) = Signed(x) + c * Value(y)
  BY <1>1, <1>4, <1>5, <1>6, LinearSigned
<1> QED BY <1>2, <1>6, <1>7 DEF sub_

\* Of two numbers of one size, both in two's complement.
LEMMA SubBoth ==
    ASSUME NEW n \in Nat, n > 0, NEW x \in Num(n), NEW y \in Num(n),
           -range(n) <= Signed(x) - Signed(y), Signed(x) - Signed(y) < range(n)
    PROVE  sub_(x, y) \in Num(n) /\ Signed(sub_(x, y)) = Signed(x) - Signed(y)
<1>1. PICK p \in Int : Value(x) = Signed(x) + p * power(radix, n)
  BY SignedQuotient
<1>2. PICK c \in {1, -1} : c = -1
  OBVIOUS
<1>3. PICK q \in Int : Value(y) = Signed(y) + q * power(radix, n)
  BY SignedQuotient
<1>4. Signed(x) \in Int /\ Signed(y) \in Int
  BY SignedFacts
<1>6. Signed(x) + c * Signed(y) = Signed(x) - Signed(y)
  BY <1>2, <1>4
<1>7. linCombShift(x, y, c, 0) \in Num(n)
      /\ Signed(linCombShift(x, y, c, 0)) = Signed(x) + c * Signed(y)
  BY <1>1, <1>3, <1>4, <1>6, LinearSigned
<1> QED BY <1>2, <1>6, <1>7 DEF sub_

\* rightShift_ by one bit, for which the lowest bit is lost.
LEMMA ShiftRight ==
    ASSUME NEW n \in Nat, n > 0, NEW x \in Num(n)
    PROVE  /\ rightShift(x, 1) \in Num(n)
           /\ rightShift(x, 1)[n - 1] < radix \div 2
           /\ x[0] % 2 \in {0, 1}
           /\ 2 * Value(rightShift(x, 1)) = Value(x) - (x[0] % 2)
<1>. DEFINE h == radix \div 2
            y == rightShift(x, 1)
            bit == [i \in Nat |-> At(x, i) % 2]
<1>1. h \in Nat /\ h >= 2 /\ radix = 2 * h /\ mask = 2 * h - 1
      /\ power(2, 1) = 2 /\ power(2, bpe - 1) = h
  BY RadixFacts
<1>2. DOMAIN x = 0..(n - 1) /\ x \in Columns(n)
  BY NumFacts, NumSize
<1>3. \A i \in Nat : At(x, i) \in 0..mask /\ bit[i] \in {0, 1}
  <2>1. \A a \in 0..mask : a % 2 \in {0, 1}
    BY <1>1
  <2> QED BY <2>1, NumFacts
<1>4. y = [i \in 0..(n - 1) |-> x[i] \div 2 + Low(At(x, i + 1) * h)]
  BY <1>1, <1>2, ArrayIs DEF rightShift
<1>5. \A a \in 0..mask : Low(a * h) = h * (a % 2)
  <2>1. ASSUME NEW a \in 0..mask PROVE Low(a * h) = h * (a % 2)
    <3>. DEFINE q == a \div 2
                b == a % 2
    <3>1. a \in Nat /\ q \in Nat /\ b \in {0, 1} /\ a = 2 * q + b
      BY <1>1
    <3>. HIDE DEF q, b, h
    <3>2. a * h = b * h + (2 * h) * q
      BY <1>1, <3>1
    <3>3. b * h \in 0..(2 * h - 1)
      BY <1>1, <3>1
    <3>. DEFINE w == b * h
                m == 2 * h
    <3>4. w \in Nat /\ m \in Nat /\ w < m /\ m > 0
      BY <1>1, <3>3
    <3>. HIDE DEF w, m
    <3>5. (w + m * q) % m = w
      BY <3>1, <3>4
    <3>6. w = h * b
      BY <1>1, <3>1 DEF w
    <3> QED BY <1>1, <3>2, <3>5, <3>6 DEF Low, w, m, b
  <2> QED BY <2>1
<1>6. \A i \in 0..(n - 1) :
          /\ y[i] = At(x, i) \div 2 + h * bit[i + 1]
          /\ i + 1 \in Nat
  <2>1. ASSUME NEW i \in 0..(n - 1)
        PROVE  y[i] = At(x, i) \div 2 + h * bit[i + 1] /\ i + 1 \in Nat
    <3>1. i + 1 \in Nat /\ i \in Nat /\ i < n
      OBVIOUS
    <3>2. Low(At(x, i + 1) * h) = h * bit[i + 1]
      BY <1>3, <1>5, <3>1
    <3>3. x[i] = At(x, i)
      BY <3>1, NumFacts
    <3> QED BY <1>4, <3>1, <3>2, <3>3
  <2> QED BY <2>1
<1>7. bit[0] = x[0] % 2 /\ bit[n] = 0
  <2>1. 0 \in Nat /\ 0 < n /\ At(x, 0) = x[0] /\ At(x, n) = 0
    BY NumFacts
  <2> QED BY <2>1
<1>8. DOMAIN y = 0..(n - 1) /\ y = [i \in 0..(n - 1) |-> y[i]]
  BY <1>4
<1>. HIDE DEF bit, y
<1>9. \A i \in 0..(n - 1) :
         y[i] \in 0..mask /\ 2 * y[i] = At(x, i) - bit[i] + radix * bit[i + 1]
         /\ (bit[i + 1] = 0 => y[i] < h)
  <2>1. ASSUME NEW i \in 0..(n - 1)
        PROVE  y[i] \in 0..mask /\ 2 * y[i] = At(x, i) - bit[i] + radix * bit[i + 1]
               /\ (bit[i + 1] = 0 => y[i] < h)
    <3>. DEFINE a == At(x, i)
    <3>1. a \in 0..mask /\ bit[i + 1] \in {0, 1} /\ bit[i] = a % 2
          /\ y[i] = a \div 2 + h * bit[i + 1]
      BY <1>3, <1>6 DEF bit
    <3>. HIDE DEF a, h
    <3>2. CASE bit[i + 1] = 0
      BY <1>1, <3>1, <3>2 DEF a
    <3>3. CASE bit[i + 1] = 1
      BY <1>1, <3>1, <3>3 DEF a
    <3> QED BY <3>1, <3>2, <3>3
  <2> QED BY <2>1
<1>10. y \in Num(n)
  BY <1>8, <1>9 DEF Num
<1>11. \A k \in 0..n : 2 * sum(y, k) = sum(x, k) - bit[0] + bit[k] * power(radix, k)
  <2>. DEFINE G == {k \in 0..n : 2 * sum(y, k) = sum(x, k) - bit[0] + bit[k] * power(radix, k)}
  <2>0. y \in Columns(n)
    BY <1>10, NumFacts
  <2>1. 0 \in G
    <3>4. sum(y, 0) = 0
      BY <2>0, SumDefined
    <3>5. sum(x, 0) = 0 /\ power(radix, 0) = 1
      BY <1>2, SumDefined, PowerOne, RadixFacts
    <3>6. bit[0] \in Int
      BY <1>3
    <3>1. sum(y, 0) = 0 /\ sum(x, 0) = 0 /\ power(radix, 0) = 1 /\ bit[0] \in Int
      BY <3>4, <3>5, <3>6
    <3>2. 2 * 0 = 0 - bit[0] + bit[0] * 1
      BY <3>1
    <3>3. 0 \in 0..n
      OBVIOUS
    <3> QED BY <3>1, <3>2, <3>3
  <2>2. ASSUME NEW k \in 1..n, k - 1 \in G PROVE k \in G
    <3>. DEFINE p == power(radix, k - 1)
                a == At(x, k - 1)
                b == At(y, k - 1)
                s == sum(x, k - 1)
                t == sum(y, k - 1)
    <3>1. k - 1 \in Nat /\ k > 0 /\ k \in Nat /\ k - 1 \in 0..(n - 1) /\ (k - 1) + 1 = k
          /\ k - 1 < n
      OBVIOUS
    <3>2. sum(x, k) = s + a * p
      BY <1>2, <3>1, SumNext
    <3>3. sum(y, k) = t + b * p
      BY <2>0, <3>1, SumNext
    <3>4. power(radix, k) = radix * p /\ radix \in Nat
      BY <3>1, PowerNext, RadixFacts
    <3>5. b = y[k - 1]
      BY <1>10, <3>1, NumFacts
    <3>6. 2 * b = a - bit[k - 1] + radix * bit[k]
      BY <1>9, <3>1, <3>5
    <3>7. p \in Int
      BY <3>1, PlaceFacts
    <3>8. a \in Int
      BY <1>2, <3>1, AtFacts
    <3>9. b \in Int
      BY <2>0, <3>1, AtFacts
    <3>10. s \in Int
      BY <1>2, <3>1, SumDefined
    <3>11. t \in Int
      BY <2>0, <3>1, SumDefined
    <3>12. bit[k] \in Int /\ bit[k - 1] \in Int /\ bit[0] \in Int
      BY <1>3, <3>1
    <3>13. 2 * t = s - bit[0] + bit[k - 1] * p
      BY <2>2
    <3>. DEFINE b0 == bit[0]
                b1 == bit[k - 1]
                b2 == bit[k]
    <3>. HIDE DEF p, a, b, s, t, b0, b1, b2
    <3>14. /\ b0 \in Int /\ b1 \in Int /\ b2 \in Int
           /\ 2 * b = a - b1 + radix * b2 /\ 2 * t = s - b0 + b1 * p
      BY <3>6, <3>12, <3>13 DEF b0, b1, b2
    <3>15. 2 * (t + b * p) = 2 * t + (2 * b) * p
      BY <3>7, <3>9, <3>11
    <3>16. (a - b1 + radix * b2) * p = a * p - b1 * p + b2 * (radix * p)
      BY <3>4, <3>7, <3>8, <3>14
    <3>17. 2 * (t + b * p) = (s + a * p) - b0 + b2 * (radix * p)
      <4>. DEFINE u == a * p
                  v == b1 * p
                  w == b2 * (radix * p)
      <4>1. u \in Int /\ v \in Int /\ w \in Int
        BY <3>4, <3>7, <3>8, <3>14
      <4>2. 2 * (t + b * p) = (s - b0 + v) + (u - v + w)
        BY <3>14, <3>15, <3>16
      <4>. HIDE DEF u, v, w
      <4>3. (s - b0 + v) + (u - v + w) = (s + u) - b0 + w
        BY <3>10, <3>14, <4>1
      <4> QED BY <4>2, <4>3 DEF u, w
    <3>18. 2 * sum(y, k) = sum(x, k) - b0 + b2 * power(radix, k)
      BY <3>2, <3>3, <3>4, <3>17
    <3> QED BY <3>18 DEF b0, b2
  <2>. HIDE DEF G
  <2>3. 0..n \subseteq G
    BY <2>1, <2>2, UpTo
  <2> QED BY <2>3 DEF G
<1>12. 2 * Value(y) = Value(x) - bit[0]
  <2>1. 2 * sum(y, n) = sum(x, n) - bit[0] + bit[n] * power(radix, n)
    BY <1>11
  <2>4. sum(x, n) \in Int /\ power(radix, n) \in Int
    BY <1>2, SumDefined, PlaceFacts
  <2>2. sum(x, n) \in Int /\ power(radix, n) \in Int /\ bit[0] \in Int
    BY <1>3, <2>4
  <2>3. 2 * sum(y, n) = sum(x, n) - bit[0]
    BY <1>7, <2>1, <2>2
  <2> QED BY <1>10, <2>3, ValueSum
<1>13. y[n - 1] < h
  <2>1. n - 1 \in 0..(n - 1) /\ (n - 1) + 1 = n
    OBVIOUS
  <2> QED BY <1>7, <1>9, <2>1
<1>14. bit[0] \in {0, 1}
  BY <1>3
<1>15. x[0] % 2 \in {0, 1} /\ 2 * Value(y) = Value(x) - (x[0] % 2)
  BY <1>7, <1>12, <1>14, Zenon
<1> QED BY <1>10, <1>13, <1>15, Zenon DEF y, h

\* halve_: half of the number in two's complement, rounded down.
THEOREM HalveRight ==
    ASSUME NEW n \in Nat, n > 0, NEW x \in Num(n)
    PROVE  /\ halve(x) \in Num(n)
           /\ x[0] % 2 \in {0, 1}
           /\ 2 * Signed(halve(x)) = Signed(x) - (x[0] % 2)
<1>. DEFINE h == radix \div 2
            y == rightShift(x, 1)
            z == halve(x)
            p == power(radix, n - 1)
            b == x[0] % 2
<1>1. /\ y \in Num(n) /\ y[n - 1] < h /\ b \in {0, 1}
      /\ 2 * Value(y) = Value(x) - b
  BY ShiftRight, Zenon
<1>2. h \in Nat /\ radix = 2 * h /\ mask = 2 * h - 1 /\ n - 1 \in Nat /\ p \in Nat
  BY RadixFacts, PlaceFacts
<1>3. Size(x) = n /\ DOMAIN y = 0..(n - 1)
  BY <1>1, NumFacts, NumSize
<1>4. z = [y EXCEPT ![n - 1] = @ + (IF negative(x) THEN h ELSE 0)]
  BY <1>3 DEF halve
<1>. HIDE DEF y, z, h, p, b
<1>5. \A i \in 0..(n - 1) : y[i] \in 0..mask
  BY <1>1 DEF Num
<1>6. y[n - 1] \in 0..mask /\ n - 1 \in 0..(n - 1)
  BY <1>5
<1>7. y[n - 1] + (IF negative(x) THEN h ELSE 0) \in 0..mask
  BY <1>1, <1>2, <1>6
<1>8. z \in Num(n)
  BY <1>1, <1>3, <1>4, <1>7 DEF Num
<1>9. \A i \in 0..((n - 1) - 1) : At(z, i) = At(y, i)
  <2>1. \A i \in 0..((n - 1) - 1) : i \in 0..(n - 1) /\ i \in Nat /\ i < n /\ i # n - 1
    OBVIOUS
  <2>2. \A i \in 0..((n - 1) - 1) : z[i] = y[i]
    BY <1>3, <1>4, <2>1
  <2>3. \A i \in 0..((n - 1) - 1) : At(y, i) = y[i]
    BY <1>1, <2>1, NumFacts
  <2>4. \A i \in 0..((n - 1) - 1) : At(z, i) = z[i]
    BY <1>8, <2>1, NumFacts
  <2> QED BY <2>2, <2>3, <2>4
<1>10. y \in Columns(n) /\ z \in Columns(n)
  BY <1>1, <1>8, NumFacts
<1>11. sum(z, n - 1) = sum(y, n - 1)
  BY <1>2, <1>9, <1>10, SumSame
<1>12. At(y, n - 1) = y[n - 1] /\ At(z, n - 1) = z[n - 1]
  <2>1. n - 1 < n
    OBVIOUS
  <2>2. At(y, n - 1) = y[n - 1]
    BY <1>1, <1>2, <2>1, NumFacts
  <2>3. At(z, n - 1) = z[n - 1]
    BY <1>2, <1>8, <2>1, NumFacts
  <2> QED BY <2>2, <2>3
<1>13. Value(y) = sum(y, n - 1) + y[n - 1] * p /\ Value(z) = sum(y, n - 1) + z[n - 1] * p
  <2>1. Value(y) = sum(y, n - 1) + y[n - 1] * p
    BY <1>1, <1>10, <1>12, SumNext, ValueSum DEF p
  <2>2. Value(z) = sum(z, n - 1) + z[n - 1] * p
    BY <1>8, <1>10, <1>12, SumNext, ValueSum DEF p
  <2> QED BY <1>11, <2>1, <2>2
<1>14. range(n) = h * p /\ range(n) \in Nat /\ power(radix, n) = 2 * range(n)
  BY RangeFacts DEF range, h, p
<1>15. sum(y, n - 1) \in Int /\ Value(y) \in Nat /\ Value(x) \in Nat
  BY <1>1, <1>2, <1>10, SumDefined, ValueBounds
<1>16. CASE ~negative(x)
  <2>1. z[n - 1] = y[n - 1] + 0
    BY <1>3, <1>4, <1>6, <1>16
  <2>2. Value(z) = Value(y)
    BY <1>6, <1>13, <2>1
  <2>3. Signed(x) = Value(x) /\ Value(x) < range(n)
    BY <1>15, <1>14, <1>16, NegativeRight, SignedFacts
  <2>4. Value(z) < range(n)
    BY <1>1, <1>14, <1>15, <2>2, <2>3
  <2>5. Signed(z) = Value(z)
    BY <1>8, <2>4, SignedFacts
  <2>6. 2 * Signed(z) = Signed(x) - b
    BY <1>1, <2>2, <2>3, <2>5
  <2> QED BY <1>1, <1>8, <2>6, Zenon DEF z, b
<1>17. CASE negative(x)
  <2>1. z[n - 1] = y[n - 1] + h
    BY <1>3, <1>4, <1>6, <1>17
  <2>2. (y[n - 1] + h) * p = y[n - 1] * p + h * p /\ y[n - 1] * p \in Int
    <3>1. y[n - 1] \in Int
      BY <1>2, <1>6
    <3> QED BY <1>2, <3>1
  <2>3. Value(z) = Value(y) + range(n)
    BY <1>13, <1>14, <1>15, <2>1, <2>2
  <2>4. Signed(x) = Value(x) - 2 * range(n) /\ Signed(x) < 0
    <3>1. Value(x) >= range(n)
      BY <1>17, NegativeRight
    <3>2. ~(Value(x) < range(n)) /\ power(radix, n) # 0 /\ range(n) > 0
      BY <1>14, <1>15, <3>1, RangeFacts
    <3>3. Signed(x) # Value(x)
      BY <3>2, SignedFacts
    <3>4. Signed(x) = Value(x) - 2 * range(n)
      BY <1>14, <3>3, SignedFacts
    <3>5. Value(x) < 2 * range(n)
      BY <1>14, ValueBounds
    <3> QED BY <1>14, <1>15, <3>4, <3>5
  <2>5. Signed(z) = Value(z) - 2 * range(n)
    <3>1. ~(Value(z) < range(n))
      BY <1>14, <1>15, <2>3
    <3>2. Signed(z) # Value(z) /\ (Signed(z) = Value(z) \/ Signed(z) = Value(z) - power(radix, n))
      BY <1>8, <3>1, SignedFacts
    <3> QED BY <1>14, <3>2
  <2>6. 2 * Signed(z) = Signed(x) - b
    BY <1>1, <1>14, <1>15, <2>3, <2>4, <2>5
  <2> QED BY <1>1, <1>8, <2>6, Zenon DEF z, b
<1> QED BY <1>16, <1>17

\* The lowest element says whether a number is even.
LEMMA EvenRight ==
    ASSUME NEW n \in Nat, n > 0, NEW x \in Num(n)
    PROVE  /\ IsEven(x) <=> Value(x) % 2 = 0
           /\ IsEven(x) <=> Signed(x) % 2 = 0
<1>1. x[0] % 2 \in {0, 1} /\ 2 * Value(rightShift(x, 1)) = Value(x) - (x[0] % 2)
      /\ rightShift(x, 1) \in Num(n)
  BY ShiftRight
<1>2. 2 * Signed(halve(x)) = Signed(x) - (x[0] % 2) /\ halve(x) \in Num(n)
  BY HalveRight
<1>3. Value(rightShift(x, 1)) \in Int /\ Value(x) \in Int
  BY <1>1, ValueBounds
<1>4. Signed(halve(x)) \in Int /\ Signed(x) \in Int
  BY <1>2, SignedFacts
<1>5. \A v, w \in Int : \A c \in {0, 1} : 2 * w = v - c => v % 2 = c
  OBVIOUS
<1>6. Value(x) % 2 = x[0] % 2
  BY <1>1, <1>3, <1>5, Zenon
<1>7. Signed(x) % 2 = x[0] % 2
  BY <1>1, <1>2, <1>4, <1>5, Zenon
<1> QED BY <1>6, <1>7 DEF IsEven

-----------------------------------------------------------------------------
(* Conversions: division. *)

\* A quotient and its remainder are the only ones,
LEMMA DivUnique ==
    ASSUME NEW a \in Int, NEW m \in Nat, m > 0, NEW q \in Int, NEW r \in Int,
           a = m * q + r, 0 <= r, r < m
    PROVE  a \div m = q /\ a % m = r
<1>1. (r + m * q) % m = r /\ (r + m * q) \div m = q
  OBVIOUS
<1>2. a = r + m * q
  OBVIOUS
<1> QED BY <1>1, <1>2

\* and there is one.
LEMMA DivMod ==
    ASSUME NEW a \in Int, NEW m \in Nat, m > 0
    PROVE  a \div m \in Int /\ a % m \in 0..(m - 1) /\ a = m * (a \div m) + (a % m)
<1>1. a \div m \in Int /\ a % m \in 0..(m - 1)
  OBVIOUS
<1>2. a = (a % m) + (a \div m) * m
  OBVIOUS
<1>. DEFINE q == a \div m
            r == a % m
<1>. HIDE DEF q, r
<1>3. q \in Int /\ r \in 0..(m - 1) /\ a = r + q * m
  BY <1>1, <1>2 DEF q, r
<1>4. a = m * q + r
  BY <1>3
<1> QED BY <1>3, <1>4 DEF q, r

\* Digits one by one.
LEMMA DivPower ==
    ASSUME NEW v \in Nat, NEW b \in Nat, b >= 2, NEW k \in Nat
    PROVE  /\ v \div power(b, 0) = v
           /\ v \div power(b, k) \in Nat
           /\ v \div power(b, k + 1) = (v \div power(b, k)) \div b
           /\ v \div power(b, k) = 0 <=> v < power(b, k)
<1>. DEFINE p == power(b, k)
            q == v \div p
            c == q \div b
            r == v % p
            s == q % b
<1>1. power(b, 0) = 1 /\ v \div 1 = v
  BY PowerOne
<1>2. p \in Nat /\ p > 0 /\ power(b, k + 1) = b * p
  BY PowerNat, PowerDefined
<1>3. q \in Int /\ r \in 0..(p - 1) /\ v = p * q + r
  <2>. HIDE DEF p
  <2>1. v \in Int
    OBVIOUS
  <2> QED BY <1>2, <2>1, DivMod
<1>. HIDE DEF p, q, r
<1>4. q \in Nat
  <2>1. ASSUME q <= -1 PROVE FALSE
    <3>1. p * q <= -p
      BY <1>2, <1>3, <2>1
    <3> QED BY <1>2, <1>3, <3>1
  <2> QED BY <1>3, <2>1
<1>5. c \in Int /\ s \in 0..(b - 1) /\ q = b * c + s
  BY <1>4, DivMod
<1>. HIDE DEF c, s
<1>6. q = 0 <=> v < p
  <2>1. CASE q = 0
    BY <1>2, <1>3, <2>1
  <2>2. CASE q >= 1
    <3>1. p * q >= p
      BY <1>2, <1>3, <2>2
    <3> QED BY <1>2, <1>3, <2>2, <3>1
  <2> QED BY <1>4, <2>1, <2>2
<1>7. v \div (b * p) = c
  <2>. DEFINE m == b * p
              t == p * s + r
  <2>1. m \in Nat /\ m > 0
    BY <1>2
  <2>2. v = m * c + t
    <3>1. p * (b * c + s) = (b * p) * c + p * s
      BY <1>2, <1>5
    <3> QED BY <1>2, <1>3, <1>5, <3>1
  <2>3. t \in Int /\ 0 <= t /\ t < m
    <3>1. p * s \in Nat /\ p * s <= p * (b - 1) /\ p * (b - 1) = b * p - p
      BY <1>2, <1>5
    <3> QED BY <1>2, <1>3, <3>1
  <2>. HIDE DEF m, t
  <2>4. v \div m = c
    BY <1>5, <2>1, <2>2, <2>3, DivUnique
  <2> QED BY <2>4 DEF m
<1> QED BY <1>1, <1>2, <1>4, <1>6, <1>7 DEF p, q, c

\* divInt_ and modInt.
THEOREM DivIntRight ==
    ASSUME NEW n \in Nat, NEW x \in Num(n), NEW c \in 1..mask
    PROVE  /\ divInt(x, c) \in Num(n)
           /\ Value(divInt(x, c)) = Value(x) \div c
           /\ modInt(x, c) = Value(x) % c
<1>. DEFINE Right(r) ==
              r = [i \in 0..n |-> IF i = n THEN 0 ELSE (r[i + 1] * radix + x[i]) % c]
            rem == CHOOSE r : Right(r)
            h == [j \in Nat |-> [v \in Int |->
                     IF j = 0 \/ j > n THEN 0 ELSE (v * radix + At(x, n - j)) % c]]
<1>1. radix \in Nat /\ radix > 0 /\ c \in Nat /\ c > 0 /\ c < radix /\ mask = radix - 1
  BY RadixFacts
<1>2. \A i \in Nat : At(x, i) \in 0..mask
  BY NumFacts
<1>3. \A i \in 0..(n - 1) : At(x, i) = x[i] /\ x[i] \in 0..mask
  BY DEF Num, At
<1>4. h \in Steps /\ h[0][0] = 0
  <2>1. ASSUME NEW j \in Nat, NEW v \in Int, ~(j = 0 \/ j > n)
        PROVE  (v * radix + At(x, n - j)) % c \in Int
    <3>1. n - j \in Nat
      BY <2>1
    <3>2. At(x, n - j) \in Int
      BY <1>1, <1>2, <3>1
    <3>3. v * radix + At(x, n - j) \in Int
      BY <1>1, <3>2
    <3> QED BY <1>1, <3>3
  <2> QED BY <2>1 DEF Steps, StepsOver
<1>5. \A j \in 1..n : \A v \in Int : h[j][v] = (v * radix + At(x, n - j)) % c
  OBVIOUS
<1>. HIDE DEF h
<1>6. PICK s \in [Nat -> Int] : s[0] = h[0][0] /\ \A k \in Nat : s[k + 1] = h[k + 1][s[k]]
  BY <1>4, IntRecursion
<1>. DEFINE f == [i \in 0..n |-> s[n - i]]
<1>7. f \in [0..n -> Int] /\ f[n] = 0
  BY <1>4, <1>6
<1>8. ASSUME NEW i \in 0..(n - 1) PROVE f[i] = (f[i + 1] * radix + x[i]) % c
  <2>1. /\ n - i \in 1..n /\ n - (i + 1) \in Nat /\ (n - (i + 1)) + 1 = n - i
        /\ n - (n - i) = i /\ i \in 0..n /\ i + 1 \in 0..n
    OBVIOUS
  <2>2. s[n - i] = h[n - i][s[n - (i + 1)]] /\ s[n - (i + 1)] \in Int
    BY <1>6, <2>1
  <2>3. s[n - i] = (s[n - (i + 1)] * radix + At(x, i)) % c
    BY <1>5, <2>1, <2>2
  <2> QED BY <1>3, <2>1, <2>3
<1>. HIDE DEF f
<1>9. Right(f)
  <2>1. \A i \in 0..n : i = n \/ i \in 0..(n - 1)
    OBVIOUS
  <2>2. \A i \in 0..n : f[i] = IF i = n THEN 0 ELSE (f[i + 1] * radix + x[i]) % c
    BY <1>7, <1>8, <2>1
  <2> QED BY <1>7, <2>2
<1>. HIDE DEF Right
<1>10. Right(rem)
  BY <1>9
<1>11. Size(x) = n /\ DOMAIN x = 0..(n - 1)
  BY NumSize, NumFacts
<1>12. RemainderFrom(x, c) = rem
  BY <1>11 DEF RemainderFrom, Right
<1>. HIDE DEF rem
<1>13. \A i \in 0..n : rem[i] = IF i = n THEN 0 ELSE (rem[i + 1] * radix + x[i]) % c
  BY <1>10 DEF Right
<1>14. \A j \in 0..n : rem[n - j] \in 0..(c - 1)
  <2>. DEFINE G == {j \in 0..n : rem[n - j] \in 0..(c - 1)}
  <2>1. 0 \in G
    BY <1>1, <1>13
  <2>2. ASSUME NEW j \in 1..n, j - 1 \in G PROVE j \in G
    <3>1. n - j \in 0..(n - 1) /\ (n - j) + 1 = n - (j - 1) /\ j \in 0..n
      OBVIOUS
    <3>2. rem[n - (j - 1)] \in Int /\ x[n - j] \in Int
      BY <1>1, <1>3, <2>2, <3>1
    <3>3. rem[n - j] = (rem[n - (j - 1)] * radix + x[n - j]) % c
      BY <1>13, <3>1
    <3>4. rem[n - (j - 1)] * radix + x[n - j] \in Int
      BY <1>1, <3>2
    <3>5. rem[n - j] \in 0..(c - 1)
      BY <1>1, <3>3, <3>4
    <3> QED BY <3>1, <3>5
  <2>. HIDE DEF G
  <2>3. 0..n \subseteq G
    BY <2>1, <2>2, UpTo
  <2> QED BY <2>3 DEF G
<1>. DEFINE Dividend(i) == rem[i + 1] * radix + x[i]
            y == divInt(x, c)
<1>15. \A i \in 0..(n - 1) :
          /\ rem[i] \in 0..(c - 1) /\ y[i] \in 0..mask
          /\ c * y[i] + rem[i] = rem[i + 1] * radix + x[i]
  <2>1. ASSUME NEW i \in 0..(n - 1)
        PROVE  /\ rem[i] \in 0..(c - 1) /\ y[i] \in 0..mask
               /\ c * y[i] + rem[i] = rem[i + 1] * radix + x[i]
    <3>. DEFINE r == rem[i + 1]
                w == r * radix + x[i]
                q == w \div c
    <3>1. n - i \in 0..n /\ n - (i + 1) \in 0..n /\ n - (n - i) = i /\ n - (n - (i + 1)) = i + 1
      OBVIOUS
    <3>2. rem[i] \in 0..(c - 1) /\ r \in 0..(c - 1)
      BY <1>14, <3>1
    <3>3. y = [k \in 0..(n - 1) |-> (rem[k + 1] * radix + x[k]) \div c]
      BY <1>11, <1>12, ArrayIs DEF divInt
    <3>4. y[i] = q
      BY <3>3
    <3>5. rem[i] = w % c
      BY <1>13
    <3>6. x[i] \in 0..mask
      BY <1>3
    <3>. DEFINE rr == r * radix
    <3>7. rr \in Nat /\ rr <= c * radix - radix
      <4>1. r * radix <= (c - 1) * radix /\ (c - 1) * radix = c * radix - radix /\ r * radix >= 0
        BY <1>1, <3>2
      <4>2. r * radix \in Int
        BY <1>1, <3>2
      <4> QED BY <4>1, <4>2
    <3>8. w = rr + x[i]
      OBVIOUS
    <3>. HIDE DEF rr, w
    <3>9. w \in Nat /\ w < c * radix
      BY <1>1, <3>6, <3>7, <3>8
    <3>. DEFINE e == w % c
                cq == c * q
                cr == c * radix
    <3>10. q \in Int /\ e \in 0..(c - 1) /\ w = cq + e
      BY <1>1, <3>9, DivMod
    <3>15. cq \in Int /\ cr \in Int /\ w < cr /\ (q <= -1 => cq <= -c) /\ (q >= radix => cq >= cr)
      <4>. HIDE DEF q
      <4>1. cq \in Int /\ cr \in Int /\ w < cr
        BY <1>1, <3>9, <3>10
      <4>2. q <= -1 => cq <= -c
        BY <1>1, <3>10
      <4>3. q >= radix => cq >= cr
        BY <1>1, <3>10
      <4> QED BY <4>1, <4>2, <4>3
    <3>. HIDE DEF q, e, cq, cr
    <3>11. q >= 0
      BY <1>1, <3>9, <3>10, <3>15
    <3>12. q < radix
      BY <1>1, <3>9, <3>10, <3>15
    <3>13. q \in 0..mask
      BY <1>1, <3>10, <3>11, <3>12
    <3>14. c * y[i] + rem[i] = w
      BY <3>4, <3>5, <3>10 DEF cq, e
    <3> QED BY <3>2, <3>4, <3>13, <3>14 DEF w
  <2> QED BY <2>1
<1>16. y \in Num(n)
  <2>1. y = [k \in 0..(n - 1) |-> (rem[k + 1] * radix + x[k]) \div c]
    BY <1>11, <1>12, ArrayIs DEF divInt
  <2>2. \A k \in 0..(n - 1) : (rem[k + 1] * radix + x[k]) \div c \in 0..mask
    BY <1>15, <2>1
  <2>. HIDE DEF y
  <2> QED BY <2>1, <2>2 DEF Num
<1>. HIDE DEF y
<1>17. PICK t \in [0..n -> Int] :
               /\ t[n] = 0 /\ t[0] = Value(x)
               /\ \A i \in 0..(n - 1) : t[i] = x[i] + radix * t[i + 1]
  BY ValueTails
<1>18. PICK u \in [0..n -> Int] :
               /\ u[n] = 0 /\ u[0] = Value(y)
               /\ \A i \in 0..(n - 1) : u[i] = y[i] + radix * u[i + 1]
  BY <1>16, ValueTails
<1>19. \A j \in 0..n : t[n - j] = c * u[n - j] + rem[n - j]
  <2>. DEFINE G == {j \in 0..n : t[n - j] = c * u[n - j] + rem[n - j]}
  <2>1. 0 \in G
    <3>1. t[n - 0] = 0 /\ u[n - 0] = 0 /\ rem[n - 0] = 0 /\ 0 \in 0..n
      BY <1>13, <1>17, <1>18
    <3> QED BY <1>1, <3>1
  <2>2. ASSUME NEW j \in 1..n, j - 1 \in G PROVE j \in G
    <3>. DEFINE i == n - j
                t1 == t[i + 1]
                u1 == u[i + 1]
                r1 == rem[i + 1]
    <3>1. i \in 0..(n - 1) /\ i + 1 = n - (j - 1) /\ j \in 0..n /\ j - 1 \in 0..n
          /\ i + 1 \in 0..n
      OBVIOUS
    <3>2. t1 = c * u1 + r1
      BY <2>2, <3>1
    <3>3. t[i] = x[i] + radix * t1 /\ u[i] = y[i] + radix * u1
      BY <1>17, <1>18, <3>1
    <3>4. c * y[i] + rem[i] = r1 * radix + x[i]
      BY <1>15, <3>1
    <3>15. (\A a \in 0..mask : a \in Int) /\ (\A a \in 0..(c - 1) : a \in Int)
      BY <1>1
    <3>5. y[i] \in Int
      BY <1>15, <3>1, <3>15, Zenon
    <3>6. rem[i] \in Int
      BY <1>15, <3>1, <3>15, Zenon
    <3>7. r1 \in Int
      BY <1>14, <3>1, <3>15, Zenon
    <3>8. x[i] \in Int
      BY <1>1, <1>3, <3>1
    <3>9. u1 \in Int
      BY <1>18, <3>1
    <3>. DEFINE yi == y[i]
                ri == rem[i]
                xi == x[i]
    <3>10. /\ yi \in Int /\ ri \in Int /\ r1 \in Int /\ xi \in Int /\ u1 \in Int
           /\ c * yi + ri = r1 * radix + xi
      BY <3>4, <3>5, <3>6, <3>7, <3>8, <3>9
    <3>. HIDE DEF yi, ri, xi, u1, r1, t1, i
    <3>11. radix * (c * u1 + r1) = c * (radix * u1) + r1 * radix
      BY <1>1, <3>10
    <3>12. c * (yi + radix * u1) = c * yi + c * (radix * u1)
      BY <1>1, <3>10
    <3>13. xi + radix * (c * u1 + r1) = c * (yi + radix * u1) + ri
      <4>. DEFINE a == c * (radix * u1)
                  b == r1 * radix
                  d == c * yi
      <4>1. a \in Int /\ b \in Int /\ d \in Int
        BY <1>1, <3>10
      <4>2. d + ri = b + xi /\ radix * (c * u1 + r1) = a + b /\ c * (yi + radix * u1) = d + a
        BY <3>10, <3>11, <3>12
      <4>. HIDE DEF a, b, d
      <4>3. xi + (a + b) = (d + a) + ri
        BY <3>10, <4>1, <4>2
      <4> QED BY <4>2, <4>3
    <3>14. t[i] = c * u[i] + rem[i]
      BY <3>2, <3>3, <3>13 DEF xi, yi, ri
    <3> QED BY <3>1, <3>14 DEF i
  <2>. HIDE DEF G
  <2>3. 0..n \subseteq G
    BY <2>1, <2>2, UpTo
  <2> QED BY <2>3 DEF G
<1>20. n - n = 0 /\ n \in 0..n
  OBVIOUS
<1>21. t[0] = c * u[0] + rem[0] /\ rem[0] \in 0..(c - 1)
  BY <1>14, <1>19, <1>20
<1>22. Value(x) \in Int /\ Value(y) \in Int
  BY <1>16, ValueBounds
<1>23. Value(x) = c * Value(y) + rem[0] /\ rem[0] \in Int /\ 0 <= rem[0] /\ rem[0] < c
  BY <1>1, <1>17, <1>18, <1>21
<1>24. Value(x) \div c = Value(y) /\ Value(x) % c = rem[0]
  BY <1>1, <1>22, <1>23, DivUnique
<1>25. modInt(x, c) = rem[0]
  BY <1>12 DEF modInt
<1> QED BY <1>16, <1>24, <1>25 DEF y

-----------------------------------------------------------------------------
(* Conversions: reading. *)

\* multInt_, up to what the array cannot hold,
LEMMA MultIntRight ==
    ASSUME NEW n \in Nat, NEW x \in Num(n), NEW c \in 0..mask
    PROVE  /\ multInt(x, c) \in Num(n)
           /\ \E q \in Int : Value(multInt(x, c)) = c * Value(x) + q * power(radix, n)
<1>. DEFINE f == [i \in DOMAIN x |-> x[i] * c]
            z == [i \in 0..(n - 1) |-> 0]
<1>1. radix \in Nat /\ radix >= 4 /\ mask = radix - 1 /\ c \in Nat /\ c <= radix - 1
  BY RadixFacts
<1>2. DOMAIN x = 0..(n - 1) /\ x \in Columns(n)
  BY NumFacts, NumSize
<1>3. \A i \in 0..(n - 1) : x[i] \in Nat /\ x[i] <= radix - 1 /\ x[i] = At(x, i)
  BY <1>1 DEF Num, At
<1>4. f \in Columns(n) /\ z \in Columns(n)
  <2>1. \A i \in 0..(n - 1) : x[i] * c \in Int
    BY <1>1, <1>3
  <2> QED BY <1>2, <2>1 DEF Columns
<1>5. f \in Narrow(n)
  <2>1. ASSUME NEW i \in 0..(n - 1)
        PROVE  -(radix * radix - radix) <= f[i] /\ f[i] <= radix * radix - radix
    <3>. DEFINE a == x[i]
                b == a * c
                s == radix * radix
                t == (radix - 1) * c
    <3>1. f[i] = b /\ a \in Nat /\ a <= radix - 1
      BY <1>2, <1>3
    <3>. HIDE DEF a
    <3>2. b \in Int /\ 0 <= b /\ b <= t
      BY <1>1, <3>1
    <3>3. t <= (radix - 1) * (radix - 1) /\ t \in Int
      BY <1>1
    <3>4. (radix - 1) * (radix - 1) = s - radix - radix + 1 /\ s \in Int /\ s >= 4 * radix
      BY <1>1
    <3>. HIDE DEF b, s, t
    <3>5. -(s - radix) <= b /\ b <= s - radix
      BY <1>1, <3>2, <3>3, <3>4
    <3> QED BY <3>1, <3>5 DEF s
  <2> QED BY <1>4, <2>1 DEF Narrow
<1>6. \A i \in 0..(n - 1) : At(f, i) = At(z, i) + c * At(x, i)
  <2>1. ASSUME NEW i \in 0..(n - 1) PROVE At(f, i) = At(z, i) + c * At(x, i)
    <3>1. At(f, i) = x[i] * c /\ At(z, i) = 0
      BY <1>2 DEF At
    <3>2. x[i] * c = 0 + c * x[i]
      BY <1>1, <1>3
    <3> QED BY <1>3, <3>1, <3>2
  <2> QED BY <2>1
<1>7. sum(z, n) = 0
  <2>1. \A i \in 0..(n - 1) : At(z, i) = 0
    BY DEF At
  <2>. HIDE DEF z
  <2>2. PICK m \in Nat : m = 0
    OBVIOUS
  <2>3. sum(z, n) = sum(z, m)
    BY <1>4, <2>1, <2>2, SumStops
  <2> QED BY <1>4, <2>2, <2>3, SumDefined
<1>. HIDE DEF f, z
<1>8. sum(f, n) = sum(z, n) + c * sum(x, n)
  BY <1>1, <1>2, <1>4, <1>6, SumLinear
<1>9. sum(f, n) = c * Value(x)
  <2>1. sum(x, n) \in Int
    BY <1>2, SumDefined
  <2> QED BY <1>1, <1>7, <1>8, <2>1, ValueSum
<1>10. multInt(x, c) = Ripple(f)
  BY DEF multInt, f
<1> QED BY <1>5, <1>9, <1>10, RippleRight

\* and addInt_.
LEMMA AddIntRight ==
    ASSUME NEW n \in Nat, n > 0, NEW x \in Num(n), NEW d \in 0..mask
    PROVE  /\ addInt(x, d) \in Num(n)
           /\ \E q \in Int : Value(addInt(x, d)) = Value(x) + d + q * power(radix, n)
<1>. DEFINE f == [x EXCEPT ![0] = @ + d]
            g == [i \in 0..0 |-> d]
<1>1. radix \in Nat /\ radix >= 4 /\ mask = radix - 1 /\ d \in Nat /\ d <= radix - 1
  BY RadixFacts
<1>2. DOMAIN x = 0..(n - 1) /\ x \in Columns(n) /\ 0 \in 0..(n - 1)
  BY NumFacts, NumSize
<1>3. \A i \in 0..(n - 1) : x[i] \in Nat /\ x[i] <= radix - 1 /\ x[i] = At(x, i)
  BY <1>1 DEF Num, At
<1>4. \A i \in 0..(n - 1) : f[i] = IF i = 0 THEN x[i] + d ELSE x[i]
  BY <1>2
<1>5. f \in Columns(n) /\ DOMAIN f = 0..(n - 1)
  <2>1. x[0] + d \in Int
    BY <1>1, <1>2, <1>3
  <2> QED BY <1>2, <2>1 DEF Columns
<1>6. PICK m \in Nat : m = 1
  OBVIOUS
<1>7. g \in Columns(m)
  BY <1>1, <1>6 DEF Columns
<1>8. \A i \in Nat : At(g, i) = IF i = 0 THEN d ELSE 0
  BY DEF At
<1>. HIDE DEF f, g
<1>9. f \in Narrow(n)
  <2>1. radix * radix >= 4 * radix /\ radix * radix \in Int
    BY <1>1
  <2>2. ASSUME NEW i \in 0..(n - 1)
        PROVE  -(radix * radix - radix) <= f[i] /\ f[i] <= radix * radix - radix
    <3>1. f[i] \in Nat /\ f[i] <= (radix - 1) + (radix - 1)
      BY <1>1, <1>3, <1>4
    <3> QED BY <1>1, <2>1, <3>1
  <2> QED BY <1>5, <2>2 DEF Narrow
<1>10. PICK c \in Int : c = 1
  OBVIOUS
<1>11. \A i \in 0..(n - 1) : At(f, i) = At(x, i) + c * At(g, i)
  <2>1. ASSUME NEW i \in 0..(n - 1) PROVE At(f, i) = At(x, i) + c * At(g, i)
    <3>1. At(f, i) = f[i] /\ x[i] = At(x, i) /\ x[i] \in Nat
      BY <1>3, <1>5 DEF At
    <3>2. At(g, i) = IF i = 0 THEN d ELSE 0
      BY <1>8
    <3> QED BY <1>1, <1>4, <1>10, <3>1, <3>2
  <2> QED BY <2>1
<1>12. sum(f, n) = sum(x, n) + c * sum(g, n)
  BY <1>2, <1>5, <1>7, <1>11, SumLinear
<1>13. sum(g, n) = d
  <2>1. \A i \in m..(n - 1) : At(g, i) = 0
    BY <1>6, <1>8
  <2>2. m <= n
    BY <1>6
  <2>3. sum(g, n) = sum(g, m)
    BY <1>7, <2>1, <2>2, SumStops
  <2>4. sum(g, 0) = 0 /\ \A k \in Nat : sum(g, k + 1) = sum(g, k) + At(g, k) * power(radix, k)
    BY <1>7, SumDefined
  <2>5. sum(g, 0 + 1) = sum(g, 0) + At(g, 0) * power(radix, 0)
    BY <2>4
  <2>6. power(radix, 0) = 1 /\ At(g, 0) = d
    BY <1>1, <1>8, PowerOne
  <2> QED BY <1>1, <1>6, <2>3, <2>4, <2>5, <2>6
<1>14. sum(f, n) = Value(x) + d
  BY <1>1, <1>10, <1>12, <1>13, ValueSum
<1>15. addInt(x, d) = Ripple(f)
  BY DEF addInt, f
<1> QED BY <1>9, <1>14, <1>15, RippleRight

\* One more digit.
LEMMA DigitStep ==
    ASSUME NEW n \in Nat, n > 0, NEW x \in Num(n), NEW c \in 0..mask, NEW d \in 0..mask,
           Value(x) * c + d < power(radix, n)
    PROVE  /\ addInt(multInt(x, c), d) \in Num(n)
           /\ Value(addInt(multInt(x, c), d)) = Value(x) * c + d
<1>. DEFINE y == multInt(x, c)
            z == addInt(y, d)
            v == c * Value(x)
<1>1. Value(x) \in Nat /\ c \in Nat /\ d \in Nat /\ power(radix, n) \in Nat
  BY ValueBounds, RadixFacts, PlaceFacts
<1>2. v \in Nat /\ v = Value(x) * c
  BY <1>1
<1>3. y \in Num(n) /\ \E q \in Int : Value(y) = v + q * power(radix, n)
  BY MultIntRight
<1>. HIDE DEF y, v
<1>4. Value(y) = v
  <2>1. v < power(radix, n)
    BY <1>1, <1>2
  <2> QED BY <1>2, <1>3, <2>1, ValueIs
<1>5. z \in Num(n) /\ \E q \in Int : Value(z) = Value(y) + d + q * power(radix, n)
  BY <1>3, AddIntRight
<1>. HIDE DEF z
<1>6. v + d \in Nat /\ v + d < power(radix, n)
  BY <1>1, <1>2
<1>7. Value(z) = v + d
  BY <1>4, <1>5, <1>6, ValueIs
<1> QED BY <1>2, <1>5, <1>7 DEF z, y

\* The number that digits stand for, from the highest digit on.
Read(len, str, t) ==
    /\ str \in [1..len -> 0..(base - 1)]
    /\ t \in [0..len -> Int] /\ t[0] = 0
    /\ \A i \in 1..len : t[i] = t[i - 1] * base + str[i]

\* What has been read is less than the power of the base,
LEMMA ReadBounds ==
    ASSUME NEW len \in Nat, NEW str, NEW t, Read(len, str, t)
    PROVE  \A i \in 0..len : t[i] \in Nat /\ t[i] < power(base, i)
<1>. DEFINE G == {i \in 0..len : t[i] \in Nat /\ t[i] < power(base, i)}
<1>1. base \in Nat /\ base >= 2
  BY RadixFacts
<1>2. 0 \in G
  <2>1. power(base, 0) = 1
    BY <1>1, PowerOne
  <2> QED BY <2>1 DEF Read
<1>3. ASSUME NEW i \in 1..len, i - 1 \in G PROVE i \in G
  <2>. DEFINE p == power(base, i - 1)
              u == t[i - 1]
              d == str[i]
  <2>1. u \in Nat /\ u < p /\ i - 1 \in Nat
    BY <1>3
  <2>2. p \in Nat /\ power(base, i) = base * p
    BY <1>1, <2>1, PowerNat, PowerNext
  <2>3. d \in 0..(base - 1) /\ t[i] = u * base + d
    BY DEF Read
  <2>. HIDE DEF u, p, d
  <2>4. u + 1 <= p /\ (u + 1) * base <= p * base /\ (u + 1) * base = u * base + base
        /\ p * base = base * p /\ u * base \in Nat
    BY <1>1, <2>1, <2>2
  <2>5. t[i] \in Nat /\ t[i] < power(base, i)
    BY <1>1, <2>2, <2>3, <2>4
  <2> QED BY <2>5
<1>. HIDE DEF G
<1>4. 0..len \subseteq G
  BY <1>2, <1>3, UpTo
<1> QED BY <1>4 DEF G

\* all of the string is read,
LEMMA ReadLen ==
    ASSUME NEW len \in Nat, NEW str, NEW t, Read(len, str, t)
    PROVE  Len(str) = len
<1>. DEFINE D == 0..(base - 1)
<1>1. str \in [1..len -> D]
  BY DEF Read
<1>. HIDE DEF D
<1>2. str \in Seq(D)
  BY <1>1
<1>3. DOMAIN str = 1..len
  BY <1>1
<1> QED BY <1>2, <1>3

\* and gcry_mpi_scan gives the last of it.
LEMMA ScanRight ==
    ASSUME NEW len \in Nat, NEW str, NEW t, Read(len, str, t)
    PROVE  Scan(str) = t[len]
<1>. DEFINE Right(u) == u = [i \in 0..len |-> IF i = 0 THEN 0 ELSE u[i - 1] * base + str[i]]
            up == CHOOSE u : Right(u)
<1>1. Right(t)
  <2>1. \A i \in 0..len : i = 0 \/ i \in 1..len
    OBVIOUS
  <2>2. \A i \in 0..len : t[i] = IF i = 0 THEN 0 ELSE t[i - 1] * base + str[i]
    BY <2>1 DEF Read
  <2> QED BY <2>2 DEF Read
<1>2. Scan(str) = up[len]
  BY ReadLen DEF Scan
<1>. HIDE DEF Right
<1>3. Right(up)
  BY <1>1
<1>. HIDE DEF up
<1>4. \A i \in 0..len : up[i] = IF i = 0 THEN 0 ELSE up[i - 1] * base + str[i]
  BY <1>3 DEF Right
<1>5. \A i \in 0..len : up[i] = t[i]
  <2>. DEFINE G == {i \in 0..len : up[i] = t[i]}
  <2>1. 0 \in G
    BY <1>4 DEF Read
  <2>2. ASSUME NEW i \in 1..len, i - 1 \in G PROVE i \in G
    <3>1. up[i] = up[i - 1] * base + str[i] /\ up[i - 1] = t[i - 1]
      BY <1>4, <2>2
    <3>2. t[i] = t[i - 1] * base + str[i]
      BY DEF Read
    <3> QED BY <3>1, <3>2
  <2>. HIDE DEF G
  <2>3. 0..len \subseteq G
    BY <2>1, <2>2, UpTo
  <2> QED BY <2>3 DEF G
<1> QED BY <1>2, <1>5

\* The array str2bigInt reads into is long enough for every number with so
\* many digits, and one element of it is to spare.
LEMMA SizeEnough ==
    ASSUME NEW len \in Nat
    PROVE  \E s \in Nat : /\ (base * len + bpe - 1) \div bpe + 1 = s + 1
                          /\ power(base, len) <= power(radix, s)
<1>. DEFINE m == base * len
            s == (m + bpe - 1) \div bpe
            r == (m + bpe - 1) % bpe
<1>1. base \in Nat /\ base >= 2 /\ bpe \in Nat /\ bpe > 0
  BY RadixFacts, BigIntAssumption
<1>2. m \in Nat
  BY <1>1
<1>. HIDE DEF m
<1>3. m + bpe - 1 \in Int /\ m + bpe - 1 >= 0
  BY <1>1, <1>2
<1>4. s \in Int /\ r \in 0..(bpe - 1) /\ m + bpe - 1 = bpe * s + r
  BY <1>1, <1>3, DivMod
<1>. HIDE DEF s, r
<1>. DEFINE w == bpe * s
<1>5. w \in Int /\ (s <= -1 => w <= -bpe)
  <2>1. w \in Int
    BY <1>1, <1>4
  <2>2. s <= -1 => w <= -bpe
    BY <1>1, <1>4
  <2> QED BY <2>1, <2>2
<1>6. m + bpe - 1 = w + r
  BY <1>4
<1>. HIDE DEF w
<1>7. s \in Nat /\ m <= w
  BY <1>1, <1>2, <1>4, <1>5, <1>6
<1>8. w \in Nat /\ m <= w
  BY <1>2, <1>5, <1>7
<1>9. PICK two \in Nat : two = 2
  OBVIOUS
<1>10. power(two, m) <= power(two, w)
  BY <1>2, <1>8, <1>9, PowerMono
<1>11. power(power(two, bpe), s) = power(two, w)
  BY <1>1, <1>7, <1>9, PowerPower DEF w
<1>12. power(power(two, base), len) = power(two, m)
  BY <1>1, <1>9, PowerPower DEF m
<1>13. power(two, base) \in Nat /\ base <= power(two, base)
  <2>1. power(two, base) \in Nat
    BY <1>1, <1>9, PowerNat
  <2>2. base < power(two, base)
    BY <1>1, <1>9, PowerAbove
  <2> QED BY <1>1, <2>1, <2>2
<1>14. power(base, len) <= power(power(two, base), len)
  BY <1>1, <1>13, PowerBase
<1>15. power(two, bpe) = radix
  BY <1>9 DEF radix
<1>16. power(base, len) <= power(radix, s)
  <2>1. power(two, m) <= power(radix, s)
    BY <1>10, <1>11, <1>15
  <2>2. power(base, len) <= power(two, m)
    BY <1>12, <1>14
  <2>3. power(base, len) \in Nat /\ power(two, m) \in Nat
    <3>1. power(base, len) \in Nat
      BY <1>1, PowerNat
    <3>2. power(two, m) \in Nat
      BY <1>2, <1>9, PowerNat
    <3> QED BY <3>1, <3>2
  <2>4. power(radix, s) \in Nat
    BY <1>7, PlaceFacts
  <2> QED BY <2>1, <2>2, <2>3, <2>4
<1> QED BY <1>7, <1>16 DEF s, m

\* str2bigInt reads the number that the digits stand for.
LEMMA ReadRight ==
    ASSUME NEW len \in Nat, NEW str, NEW t, Read(len, str, t)
    PROVE  \E n \in Nat : /\ n > 0 /\ str2bigInt(str) \in Num(n)
                          /\ Value(str2bigInt(str)) = t[len] /\ t[len] < power(radix, n - 1)
<1>1. PICK s \in Nat : /\ (base * len + bpe - 1) \div bpe + 1 = s + 1
                       /\ power(base, len) <= power(radix, s)
  BY SizeEnough
<1>. DEFINE size == s + 1
            zero == copyInt(size, 0)
            Right(r) == r = [i \in 0..len |->
                                IF i = 0 THEN zero ELSE addInt(multInt(r[i - 1], base), str[i])]
            read == CHOOSE r : Right(r)
            S == Num(size)
            h == [j \in Nat |-> [x \in S |->
                     IF j \in 1..len THEN addInt(multInt(x, base), str[j]) ELSE x]]
<1>2. size \in Nat /\ size > 0 /\ radix \in Nat /\ base \in Nat /\ base \in 0..mask
      /\ 0 \in 0..mask
  BY RadixFacts
<1>3. \A i \in 1..len : str[i] \in 0..mask /\ t[i] = t[i - 1] * base + str[i]
  <2>1. 0..(base - 1) \subseteq 0..mask
    BY RadixFacts
  <2> QED BY <2>1 DEF Read
<1>4. zero \in S /\ Value(zero) = 0
  <2>1. PICK z \in 0..mask : z = 0
    BY <1>2
  <2> QED BY <1>2, <2>1, CopyIntFacts
<1>. HIDE DEF zero, size
<1>5. \A x \in S : \A j \in 1..len : addInt(multInt(x, base), str[j]) \in S
  <2>1. ASSUME NEW x \in S, NEW j \in 1..len PROVE addInt(multInt(x, base), str[j]) \in S
    <3>1. multInt(x, base) \in S
      BY <1>2, MultIntRight
    <3> QED BY <1>2, <1>3, <3>1, AddIntRight
  <2> QED BY <2>1
<1>. HIDE DEF S
<1>6. h \in StepsOver(S)
  BY <1>5 DEF StepsOver
<1>7. \A j \in 1..len : \A x \in S : h[j][x] = addInt(multInt(x, base), str[j])
  OBVIOUS
<1>. HIDE DEF h
<1>8. PICK f \in [Nat -> S] : Unrolls(f, zero, h)
  BY <1>4, <1>6, Recursion
<1>9. f[0] = zero /\ \A i \in Nat : f[i + 1] = h[i + 1][f[i]]
  BY <1>8 DEF Unrolls
<1>10. \A i \in 1..len : f[i] = addInt(multInt(f[i - 1], base), str[i])
  <2>1. ASSUME NEW i \in 1..len PROVE f[i] = addInt(multInt(f[i - 1], base), str[i])
    <3>1. i - 1 \in Nat /\ (i - 1) + 1 = i
      OBVIOUS
    <3>2. f[i] = h[i][f[i - 1]]
      BY <1>9, <3>1
    <3>3. f[i - 1] \in S
      BY <3>1
    <3> QED BY <1>7, <3>2, <3>3
  <2> QED BY <2>1
<1>11. Right([i \in 0..len |-> f[i]])
  <2>. DEFINE c == [i \in 0..len |-> f[i]]
  <2>1. \A i \in 0..len : i = 0 \/ (i \in 1..len /\ i - 1 \in 0..len)
    OBVIOUS
  <2>2. \A i \in 0..len :
           f[i] = IF i = 0 THEN zero ELSE addInt(multInt(c[i - 1], base), str[i])
    BY <1>9, <1>10, <2>1
  <2> QED BY <2>2
<1>12. Len(str) = len
  BY ReadLen
<1>13. str2bigInt(str) = trim(read[len], 1)
  BY <1>1, <1>12 DEF str2bigInt, zero, size
<1>. HIDE DEF Right
<1>14. Right(read)
  BY <1>11
<1>. HIDE DEF read
<1>15. \A i \in 0..len :
          read[i] = IF i = 0 THEN zero ELSE addInt(multInt(read[i - 1], base), str[i])
  BY <1>14 DEF Right
<1>16. \A i \in 0..len : t[i] \in Nat /\ t[i] < power(radix, size)
  <2>1. ASSUME NEW i \in 0..len PROVE t[i] \in Nat /\ t[i] < power(radix, size)
    <3>1. t[i] \in Nat /\ t[i] < power(base, i)
      BY ReadBounds
    <3>2. power(base, i) <= power(base, len) /\ power(base, i) \in Nat /\ power(base, len) \in Nat
      <4>1. i \in Nat /\ i <= len /\ base > 0
        BY RadixFacts
      <4>2. power(base, i) \in Nat
        BY <1>2, <4>1, PowerNat
      <4>3. power(base, len) \in Nat
        BY <1>2, PowerNat
      <4>4. power(base, i) <= power(base, len)
        BY <1>2, <4>1, PowerMono
      <4> QED BY <4>2, <4>3, <4>4
    <3>3. power(radix, s) <= power(radix, size)
      <4>1. s <= size /\ radix > 0
        BY RadixFacts DEF size
      <4> QED BY <1>2, <4>1, PowerMono
    <3>4. power(radix, s) \in Nat
      BY PlaceFacts
    <3>5. power(radix, size) \in Nat
      BY <1>2, PlaceFacts
    <3> QED BY <1>1, <3>1, <3>2, <3>3, <3>4, <3>5
  <2> QED BY <2>1
<1>17. \A i \in 0..len : read[i] \in S /\ Value(read[i]) = t[i]
  <2>. DEFINE G == {i \in 0..len : read[i] \in S /\ Value(read[i]) = t[i]}
  <2>1. 0 \in G
    <3>1. t[0] = 0
      BY DEF Read
    <3> QED BY <1>4, <1>15, <3>1
  <2>2. ASSUME NEW i \in 1..len, i - 1 \in G PROVE i \in G
    <3>. DEFINE y == read[i - 1]
                d == str[i]
    <3>1. y \in Num(size) /\ Value(y) = t[i - 1]
      BY <2>2 DEF S
    <3>2. d \in 0..mask /\ Value(y) * base + d = t[i]
      BY <1>3, <3>1
    <3>3. i \in 0..len /\ i # 0
      OBVIOUS
    <3>4. read[i] = addInt(multInt(y, base), d)
      BY <1>15, <3>3
    <3>. HIDE DEF y, d
    <3>5. Value(y) * base + d < power(radix, size)
      BY <1>16, <3>2, <3>3
    <3>6. addInt(multInt(y, base), d) \in Num(size)
          /\ Value(addInt(multInt(y, base), d)) = Value(y) * base + d
      BY <1>2, <3>1, <3>2, <3>5, DigitStep
    <3>7. read[i] \in S /\ Value(read[i]) = t[i]
      BY <3>2, <3>4, <3>6 DEF S
    <3> QED BY <3>3, <3>7
  <2>. HIDE DEF G
  <2>3. 0..len \subseteq G
    BY <2>1, <2>2, UpTo
  <2> QED BY <2>3 DEF G
<1>. DEFINE y == read[len]
<1>18. y \in Num(size) /\ Value(y) = t[len]
  BY <1>17 DEF S
<1>. HIDE DEF y
<1>19. PICK one \in Nat : one = 1
  OBVIOUS
<1>20. Digits(y) \in Nat
  BY <1>2, <1>18, DigitsFacts
<1>21. Digits(y) + one \in Nat /\ trim(y, one) \in Num(Digits(y) + one)
       /\ Value(trim(y, one)) = Value(y)
  BY <1>2, <1>18, TrimFacts
<1>22. Value(y) < power(radix, Digits(y))
  BY <1>2, <1>18, DigitsFacts
<1>. DEFINE n == Digits(y) + one
<1>23. n \in Nat /\ n > 0 /\ n - 1 = Digits(y)
  BY <1>19, <1>20
<1>24. str2bigInt(str) \in Num(n) /\ Value(str2bigInt(str)) = t[len]
       /\ t[len] < power(radix, n - 1)
  BY <1>13, <1>18, <1>19, <1>21, <1>22, <1>23 DEF y
<1> QED BY <1>23, <1>24

-----------------------------------------------------------------------------
(* Conversions: writing. *)

\* The digits of v, if there are enough of them.
LEMMA DigitsOf ==
    ASSUME NEW v \in Nat, NEW len \in Nat, v < power(base, len), NEW str,
           str = [i \in 1..len |-> (v \div power(base, len - i)) % base]
    PROVE  \E t : Read(len, str, t) /\ t[len] = v
<1>. DEFINE t == [i \in 0..len |-> v \div power(base, len - i)]
<1>1. base \in Nat /\ base >= 2
  BY RadixFacts
<1>2. \A i \in 0..len : len - i \in Nat /\ v \div power(base, len - i) \in Nat
  <2>1. ASSUME NEW i \in 0..len PROVE len - i \in Nat /\ v \div power(base, len - i) \in Nat
    <3>1. len - i \in Nat
      OBVIOUS
    <3> QED BY <1>1, <3>1, DivPower
  <2> QED BY <2>1
<1>3. t \in [0..len -> Int]
  BY <1>2
<1>4. t[0] = 0
  <2>1. v \div power(base, len) = 0
    BY <1>1, DivPower
  <2>2. len - 0 = len /\ 0 \in 0..len
    OBVIOUS
  <2> QED BY <2>1, <2>2
<1>5. t[len] = v
  <2>1. v \div power(base, 0) = v
    <3>1. PICK k \in Nat : k = 0
      OBVIOUS
    <3> QED BY <1>1, <3>1, DivPower
  <2>2. len - len = 0 /\ len \in 0..len
    OBVIOUS
  <2> QED BY <2>1, <2>2
<1>6. \A i \in 1..len : str[i] \in 0..(base - 1) /\ t[i] = t[i - 1] * base + str[i]
  <2>1. ASSUME NEW i \in 1..len
        PROVE  str[i] \in 0..(base - 1) /\ t[i] = t[i - 1] * base + str[i]
    <3>. DEFINE a == v \div power(base, len - i)
    <3>1. len - i \in Nat /\ (len - i) + 1 = len - (i - 1) /\ i \in 0..len /\ i - 1 \in 0..len
      OBVIOUS
    <3>2. v \div power(base, (len - i) + 1) = a \div base
      BY <1>1, <3>1, DivPower
    <3>3. a \in Nat
      BY <1>2, <3>1
    <3>4. t[i] = a /\ t[i - 1] = a \div base /\ str[i] = a % base
      BY <3>1, <3>2
    <3>. HIDE DEF a
    <3>5. a \div base \in Int /\ a % base \in 0..(base - 1) /\ a = base * (a \div base) + (a % base)
      BY <1>1, <3>3, DivMod
    <3>. DEFINE q == a \div base
                r == a % base
    <3>. HIDE DEF q, r
    <3>6. q \in Int /\ r \in 0..(base - 1) /\ a = base * q + r
      BY <3>5 DEF q, r
    <3>7. a = q * base + r
      BY <1>1, <3>6
    <3> QED BY <3>4, <3>6, <3>7 DEF q, r
  <2> QED BY <2>1
<1>7. str \in [1..len -> 0..(base - 1)]
  <2>1. DOMAIN str = 1..len /\ str = [i \in 1..len |-> str[i]]
    OBVIOUS
  <2> QED BY <1>6, <2>1
<1>. HIDE DEF t
<1>8. Read(len, str, t)
  BY <1>3, <1>4, <1>6, <1>7 DEF Read
<1> QED BY <1>5, <1>8

\* gcry_mpi_print writes the digits of the number.
LEMMA PrintRight ==
    ASSUME NEW v \in Nat
    PROVE  \E len \in Nat : \E t : Read(len, Print_(v), t) /\ t[len] = v
<1>. DEFINE Fits(k) == v < power(base, k) /\ (k > 1 => v >= power(base, k - 1))
            S == {k \in 1..(v + 1) : v < power(base, k)}
            len == CHOOSE k \in 1..(v + 1) : Fits(k)
<1>1. base \in Nat /\ base >= 2
  BY RadixFacts
<1>2. v + 1 \in S
  <2>1. v + 1 \in Nat /\ v + 1 < power(base, v + 1)
    <3>1. v + 1 \in Nat
      OBVIOUS
    <3> QED BY <1>1, <3>1, PowerAbove
  <2>2. power(base, v + 1) \in Nat
    BY <1>1, <2>1, PowerNat
  <2> QED BY <2>1, <2>2
<1>3. PICK k \in S : \A j \in S : k <= j
  <2>1. S \in SUBSET Nat /\ S # {}
    BY <1>2
  <2>. HIDE DEF S
  <2> QED BY <2>1, LeastExists
<1>4. Fits(k)
  <2>1. ASSUME k > 1 PROVE v >= power(base, k - 1)
    <3>1. k - 1 \in 1..(v + 1) /\ ~(k <= k - 1) /\ k - 1 \in Nat
      BY <2>1
    <3>2. k - 1 \notin S
      BY <1>3, <3>1
    <3>3. power(base, k - 1) \in Nat
      BY <1>1, <3>1, PowerNat
    <3> QED BY <3>1, <3>2, <3>3
  <2> QED BY <2>1
<1>5. k \in 1..(v + 1)
  OBVIOUS
<1>6. Print_(v) = [i \in 1..len |-> (v \div power(base, len - i)) % base]
  BY DEF Print_
<1>. HIDE DEF Fits
<1>7. len \in 1..(v + 1) /\ Fits(len)
  BY <1>4, <1>5
<1>. HIDE DEF len
<1>8. len \in Nat /\ v < power(base, len)
  BY <1>7 DEF Fits
<1>9. \E t : Read(len, Print_(v), t) /\ t[len] = v
  BY <1>6, <1>8, DigitsOf
<1> QED BY <1>8, <1>9

\* A number goes from libgcrypt to an array unchanged.
THEOREM MpiToArray ==
    ASSUME NEW v \in Nat
    PROVE  \E n \in Nat : /\ n > 0 /\ mpi2bigint(v) \in Num(n)
                          /\ Value(mpi2bigint(v)) = v /\ v < power(radix, n - 1)
<1>1. PICK len \in Nat : \E t : Read(len, Print_(v), t) /\ t[len] = v
  BY PrintRight
<1>2. PICK t : Read(len, Print_(v), t) /\ t[len] = v
  BY <1>1
<1> QED BY <1>2, ReadRight DEF mpi2bigint

\* bigInt2str writes the digits of the number.
LEMMA WriteRight ==
    ASSUME NEW n \in Nat, NEW x \in Num(n)
    PROVE  \E len \in Nat : \E t : Read(len, bigInt2str(x), t) /\ t[len] = Value(x)
<1>. DEFINE Right(r) == r = [k \in Nat |-> IF k = 0 THEN x ELSE divInt(r[k - 1], base)]
            rest == CHOOSE r : Right(r)
            S == Num(n)
            h == [j \in Nat |-> [y \in S |-> divInt(y, base)]]
            v == Value(x)
<1>1. base \in Nat /\ base >= 2 /\ base \in 1..mask /\ bpe \in Nat /\ bpe > 0
  BY RadixFacts, BigIntAssumption
<1>2. \A y \in S : divInt(y, base) \in S /\ Value(divInt(y, base)) = Value(y) \div base
                   /\ modInt(y, base) = Value(y) % base
  BY <1>1, DivIntRight
<1>3. x \in S
  OBVIOUS
<1>. HIDE DEF S
<1>4. h \in StepsOver(S)
  BY <1>2 DEF StepsOver
<1>5. \A j \in Nat : \A y \in S : h[j][y] = divInt(y, base)
  OBVIOUS
<1>. HIDE DEF h
<1>6. PICK f \in [Nat -> S] : Unrolls(f, x, h)
  BY <1>3, <1>4, Recursion
<1>7. f[0] = x /\ \A i \in Nat : f[i + 1] = divInt(f[i], base)
  <2>1. f[0] = x /\ \A i \in Nat : f[i + 1] = h[i + 1][f[i]]
    BY <1>6 DEF Unrolls
  <2>2. \A i \in Nat : f[i] \in S /\ i + 1 \in Nat
    BY <1>6
  <2> QED BY <1>5, <2>1, <2>2
<1>8. Right(f)
  <2>1. \A k \in Nat : k = 0 \/ (k - 1 \in Nat /\ (k - 1) + 1 = k)
    OBVIOUS
  <2>2. \A k \in Nat : f[k] = IF k = 0 THEN x ELSE divInt(f[k - 1], base)
    BY <1>7, <2>1
  <2> QED BY <1>6, <2>2
<1>9. Size(x) = n
  BY NumFacts, NumSize
<1>. DEFINE Ends(k) == Digits(rest[k]) = 0 /\ \A j \in 0..(k - 1) : Digits(rest[j]) > 0
            len == CHOOSE k \in 0..(bpe * n) : Ends(k)
<1>10. bigInt2str(x) = IF len = 0 THEN <<0>>
                       ELSE [i \in 1..len |-> modInt(rest[len - i], base)]
  BY <1>9 DEF bigInt2str
<1>. HIDE DEF Right
<1>11. Right(rest)
  BY <1>8
<1>. HIDE DEF rest
<1>12. \A k \in Nat : rest[k] = IF k = 0 THEN x ELSE divInt(rest[k - 1], base)
  BY <1>11 DEF Right
<1>13. v \in Nat /\ v < power(radix, n)
  BY ValueBounds
<1>14. \A k \in Nat : rest[k] \in S /\ Value(rest[k]) = v \div power(base, k)
  <2>1. ASSUME NEW l \in Nat PROVE rest[l] \in S /\ Value(rest[l]) = v \div power(base, l)
    <3>. DEFINE G == {k \in Nat : rest[k] \in S /\ Value(rest[k]) = v \div power(base, k)}
    <3>1. 0 \in G
      <4>1. PICK z \in Nat : z = 0
        OBVIOUS
      <4>2. v \div power(base, 0) = v
        BY <1>1, <1>13, <4>1, DivPower
      <4>3. rest[0] = x
        BY <1>12
      <4> QED BY <1>3, <4>2, <4>3
    <3>2. ASSUME NEW k \in 1..l, k - 1 \in G PROVE k \in G
      <4>1. k - 1 \in Nat /\ (k - 1) + 1 = k /\ k \in Nat /\ k # 0
        OBVIOUS
      <4>2. rest[k] = divInt(rest[k - 1], base)
        BY <1>12, <4>1
      <4>3. rest[k - 1] \in S /\ Value(rest[k - 1]) = v \div power(base, k - 1)
        BY <3>2
      <4>4. v \div power(base, (k - 1) + 1) = (v \div power(base, k - 1)) \div base
        BY <1>1, <1>13, <4>1, DivPower
      <4>5. rest[k] \in S /\ Value(rest[k]) = v \div power(base, k)
        BY <1>2, <4>1, <4>2, <4>3, <4>4
      <4> QED BY <4>1, <4>5
    <3>. HIDE DEF G
    <3>3. 0..l \subseteq G
      BY <3>1, <3>2, UpTo
    <3> QED BY <3>3 DEF G
  <2> QED BY <2>1
<1>15. \A k \in Nat : /\ Digits(rest[k]) \in Nat
                      /\ Digits(rest[k]) = 0 <=> v < power(base, k)
  <2>1. ASSUME NEW k \in Nat
        PROVE  Digits(rest[k]) \in Nat /\ (Digits(rest[k]) = 0 <=> v < power(base, k))
    <3>1. rest[k] \in Num(n)
      BY <1>14 DEF S
    <3>2. Digits(rest[k]) \in 0..n /\ (Digits(rest[k]) = 0 <=> Value(rest[k]) = 0)
      BY <3>1, DigitsFacts
    <3>3. v \div power(base, k) = 0 <=> v < power(base, k)
      BY <1>1, <1>13, DivPower
    <3> QED BY <1>14, <3>2, <3>3
  <2> QED BY <2>1
<1>. HIDE DEF v
<1>16. v < power(base, bpe * n) /\ bpe * n \in Nat
  <2>1. PICK two \in Nat : two = 2
    OBVIOUS
  <2>2. power(power(two, bpe), n) = power(two, bpe * n) /\ bpe * n \in Nat
    BY <1>1, <2>1, PowerPower
  <2>3. power(two, bpe * n) <= power(base, bpe * n)
    BY <1>1, <2>1, <2>2, PowerBase
  <2>4. power(two, bpe) = radix
    BY <2>1 DEF radix
  <2>5. power(base, bpe * n) \in Nat
    BY <1>1, <2>2, PowerNat
  <2>6. power(radix, n) \in Nat
    BY PlaceFacts
  <2> QED BY <1>13, <2>2, <2>3, <2>4, <2>5, <2>6
<1>17. \E k \in 0..(bpe * n) : Ends(k)
  <2>. DEFINE T == {k \in 0..(bpe * n) : v < power(base, k)}
  <2>1. T \in SUBSET Nat /\ T # {}
    <3>1. bpe * n \in T
      BY <1>16
    <3> QED BY <3>1
  <2>2. PICK k \in T : \A j \in T : k <= j
    <3>. HIDE DEF T
    <3> QED BY <2>1, LeastExists
  <2>3. ASSUME NEW j \in 0..(k - 1) PROVE Digits(rest[j]) > 0
    <3>1. j \in 0..(bpe * n) /\ j \in Nat /\ ~(k <= j)
      BY <1>16
    <3>2. j \notin T
      BY <2>2, <3>1
    <3>3. ~(v < power(base, j))
      BY <3>1, <3>2
    <3> QED BY <1>15, <3>1, <3>3
  <2>4. k \in 0..(bpe * n) /\ k \in Nat /\ v < power(base, k)
    OBVIOUS
  <2>5. Digits(rest[k]) = 0
    BY <1>15, <2>4
  <2>6. Ends(k)
    BY <2>3, <2>5
  <2> QED BY <2>4, <2>6
<1>. HIDE DEF Ends
<1>18. len \in 0..(bpe * n) /\ Ends(len)
  BY <1>17
<1>. HIDE DEF len
<1>19. len \in Nat /\ v < power(base, len)
  <2>1. len \in Nat
    BY <1>18
  <2>2. Digits(rest[len]) = 0
    BY <1>18 DEF Ends
  <2> QED BY <1>15, <2>1, <2>2
<1>20. CASE len = 0
  <2>1. v = 0
    <3>1. power(base, 0) = 1
      BY <1>1, PowerOne
    <3> QED BY <1>13, <1>19, <1>20, <3>1
  <2>. DEFINE str == bigInt2str(x)
              t == [i \in 0..1 |-> 0]
  <2>2. str = <<0>>
    BY <1>10, <1>20
  <2>3. str \in [1..1 -> 0..(base - 1)]
    BY <1>1, <2>2
  <2>4. str[1] = 0 /\ t[0] = 0 /\ t[1] = 0 /\ t \in [0..1 -> Int]
    BY <2>2
  <2>. HIDE DEF str, t
  <2>5. \A i \in 1..1 : t[i] = t[i - 1] * base + str[i]
    <3>1. 0 = 0 * base + 0
      BY <1>1
    <3>2. \A i \in 1..1 : i = 1 /\ i - 1 = 0
      OBVIOUS
    <3> QED BY <2>4, <3>1, <3>2
  <2>6. Read(1, str, t) /\ t[1] = v
    BY <2>1, <2>3, <2>4, <2>5 DEF Read
  <2>7. 1 \in Nat
    OBVIOUS
  <2> QED BY <2>6, <2>7 DEF str, v
<1>21. CASE len # 0
  <2>. DEFINE str == bigInt2str(x)
  <2>1. str = [i \in 1..len |-> modInt(rest[len - i], base)]
    BY <1>10, <1>21
  <2>2. \A i \in 1..len : modInt(rest[len - i], base) = (v \div power(base, len - i)) % base
    <3>1. ASSUME NEW i \in 1..len
          PROVE  modInt(rest[len - i], base) = (v \div power(base, len - i)) % base
      <4>1. len - i \in Nat
        BY <1>19
      <4>2. rest[len - i] \in S /\ Value(rest[len - i]) = v \div power(base, len - i)
        BY <1>14, <4>1
      <4> QED BY <1>2, <4>2
    <3> QED BY <3>1
  <2>3. str = [i \in 1..len |-> (v \div power(base, len - i)) % base]
    BY <2>1, <2>2
  <2>. HIDE DEF str
  <2>4. \E t : Read(len, str, t) /\ t[len] = v
    BY <1>13, <1>19, <2>3, DigitsOf
  <2> QED BY <1>19, <2>4 DEF str, v
<1> QED BY <1>20, <1>21

\* A number goes from an array to libgcrypt unchanged.
THEOREM ArrayToMpi ==
    ASSUME NEW n \in Nat, NEW x \in Num(n)
    PROVE  bigint2mpi(x) = Value(x)
<1>1. PICK len \in Nat : \E t : Read(len, bigInt2str(x), t) /\ t[len] = Value(x)
  BY WriteRight
<1>2. PICK t : Read(len, bigInt2str(x), t) /\ t[len] = Value(x)
  BY <1>1
<1> QED BY <1>2, ScanRight DEF bigint2mpi

\* A number that library_gcrypt.js takes from libgcrypt and gives back is
\* the same: str2bigInt and bigInt2str undo what gcry_mpi_print and
\* gcry_mpi_scan do.
THEOREM RoundTrip ==
    ASSUME NEW v \in Nat
    PROVE  bigint2mpi(mpi2bigint(v)) = v
<1>. DEFINE x == mpi2bigint(v)
<1>1. PICK n \in Nat : x \in Num(n) /\ Value(x) = v
  BY MpiToArray
<1>. HIDE DEF x
<1>2. bigint2mpi(x) = v
  BY <1>1, ArrayToMpi
<1> QED BY <1>2 DEF x

-----------------------------------------------------------------------------
(* The inverse: what an iteration does to the numbers. *)

Divides(d, a) == \E k \in Int : a = k * d

\* A factor of the number w is at most t times the count of halvings and one,
\* or, while w is even, twice that.
Within(a, w, t, s) ==
    /\ -(2 * (t * (1 + s))) <= a /\ a <= 2 * (t * (1 + s))
    /\ w % 2 = 1 => -(t * (1 + s)) <= a /\ a <= t * (1 + s)

\* u is a combination of the two arguments, with factors a and b.
Row(x, m, u, a, b) == u \in Nat /\ a \in Int /\ b \in Int /\ u = a * x + b * m

Scaled(x, m, u, a, b, s) == Within(a, u, m, s) /\ Within(b, u, x + m, s)

\* s is a number of halvings for which the two numbers are small enough.
Halved(x, m, u, v, a, b, c, d, s) ==
    /\ s < radix * radix - 1
    /\ (u * v) * power(2, s) <= x * m
    /\ Scaled(x, m, u, a, b, s) /\ Scaled(x, m, v, c, d, s)

Pair(x, m, u, v, a, b, c, d) ==
    /\ Row(x, m, u, a, b) /\ Row(x, m, v, c, d)
    /\ u + v <= x + m
    /\ \A e \in Nat : Divides(e, u) /\ Divides(e, v) => Divides(e, x) /\ Divides(e, m)
    /\ \E s \in Nat : Halved(x, m, u, v, a, b, c, d, s)

\* The two numbers may change places.
LEMMA PairSwaps ==
    ASSUME NEW x \in Nat, NEW m \in Nat, NEW u, NEW v, NEW a, NEW b, NEW c, NEW d,
           Pair(x, m, u, v, a, b, c, d)
    PROVE  Pair(x, m, v, u, c, d, a, b)
<1>1. u \in Nat /\ v \in Nat /\ u + v = v + u /\ u * v = v * u
  BY DEF Pair, Row
<1>2. PICK s \in Nat : Halved(x, m, u, v, a, b, c, d, s)
  BY DEF Pair
<1>3. Halved(x, m, v, u, c, d, a, b, s)
  BY <1>1, <1>2 DEF Halved
<1>4. \E r \in Nat : Halved(x, m, v, u, c, d, a, b, r)
  BY <1>3
<1>5. v + u <= x + m
  BY <1>1 DEF Pair
<1> QED BY <1>4, <1>5 DEF Pair

\* Half of a factor, or of what it is after t or less has been added to it.
LEMMA WithinHalf ==
    ASSUME NEW a \in Int, NEW w \in Nat, NEW t \in Nat, NEW s \in Nat, Within(a, w, t, s),
           NEW y \in Int, -t <= y, y <= t, NEW h \in Int, 2 * h = a + y, NEW z \in Nat
    PROVE  /\ Within(h, z, t, s + 1)
           /\ z % 2 = 0 => Within(h, z, t, s)
<1>. DEFINE k == t * (1 + s)
            l == t * (1 + (s + 1))
<1>1. k \in Nat /\ l = k + t /\ k >= t
  <2>1. t * (1 + s) = t + t * s /\ t * s \in Nat /\ t * (1 + (s + 1)) = t + t * s + t
    OBVIOUS
  <2> QED BY <2>1
<1>2. -(2 * k) <= a /\ a <= 2 * k
  BY DEF Within
<1>. HIDE DEF k, l
<1>3. -l <= h /\ h <= l /\ -(2 * l) <= h /\ h <= 2 * l /\ -(2 * k) <= h /\ h <= 2 * k
  BY <1>1, <1>2
<1>4. -(2 * l) <= h /\ h <= 2 * l /\ (z % 2 = 1 => -l <= h /\ h <= l)
  BY <1>3
<1>5. z % 2 = 0 => -(2 * k) <= h /\ h <= 2 * k /\ (z % 2 = 1 => -k <= h /\ h <= k)
  BY <1>3
<1> QED BY <1>4, <1>5 DEF Within, k, l

\* A factor that stays.
LEMMA WithinMore ==
    ASSUME NEW a \in Int, NEW w \in Nat, NEW t \in Nat, NEW s \in Nat, Within(a, w, t, s)
    PROVE  Within(a, w, t, s + 1)
<1>. DEFINE k == t * (1 + s)
            l == t * (1 + (s + 1))
<1>1. k \in Nat /\ l = k + t
  <2>1. t * (1 + s) = t + t * s /\ t * s \in Nat /\ t * (1 + (s + 1)) = t + t * s + t
    OBVIOUS
  <2> QED BY <2>1
<1>2. -(2 * k) <= a /\ a <= 2 * k /\ (w % 2 = 1 => -k <= a /\ a <= k)
  BY DEF Within
<1>. HIDE DEF k, l
<1>3. -(2 * l) <= a /\ a <= 2 * l /\ (w % 2 = 1 => -l <= a /\ a <= l)
  BY <1>1, <1>2
<1> QED BY <1>3 DEF Within, l

\* The difference of two factors of odd numbers.
LEMMA WithinLess ==
    ASSUME NEW a \in Int, NEW w \in Nat, w % 2 = 1, NEW c \in Int, NEW z \in Nat, z % 2 = 1,
           NEW t \in Nat, NEW s \in Nat, Within(a, w, t, s), Within(c, z, t, s),
           NEW y \in Nat, y % 2 = 0
    PROVE  Within(a - c, y, t, s)
<1>. DEFINE k == t * (1 + s)
<1>1. k \in Nat
  OBVIOUS
<1>2. -k <= a /\ a <= k /\ -k <= c /\ c <= k
  BY DEF Within
<1>. HIDE DEF k
<1>3. -(2 * k) <= a - c /\ a - c <= 2 * k /\ (y % 2 = 1 => -k <= a - c /\ a - c <= k)
  BY <1>1, <1>2
<1> QED BY <1>3 DEF Within, k

\* Bounds of the factors, for arrays that are wide enough.
LEMMA WithinRange ==
    ASSUME NEW a \in Int, NEW w \in Nat, NEW t \in Nat, NEW s \in Nat, Within(a, w, t, s),
           s < radix * radix - 1, NEW r \in Nat, 2 * (t * (radix * radix)) <= r
    PROVE  -r <= a /\ a <= r /\ -r <= a - t /\ a + t <= r
<1>. DEFINE k == t * (1 + s)
            q == radix * radix
            p == t * q
<1>1. q \in Nat /\ 1 + s <= q - 1
  BY RadixFacts
<1>2. k \in Nat /\ -(2 * k) <= a /\ a <= 2 * k
  BY DEF Within
<1>3. k <= p - t /\ p \in Int
  <2>. HIDE DEF q
  <2>1. t * (1 + s) <= t * (q - 1) /\ t * (q - 1) = t * q - t /\ t * q \in Int
    BY <1>1
  <2> QED BY <2>1
<1>4. 2 * p <= r
  OBVIOUS
<1>. HIDE DEF k, q, p
<1> QED BY <1>2, <1>3, <1>4

\* One of two numbers is halved, with its factors.
LEMMA PairHalf ==
    ASSUME NEW x \in Nat, NEW m \in Nat, NEW u \in Nat, NEW v \in Nat,
           NEW a \in Int, NEW b \in Int, NEW c \in Int, NEW d \in Int,
           Pair(x, m, u, v, a, b, c, d), v > 0,
           NEW l \in 1..(radix * radix - 1), x * m < power(2, l),
           NEW h \in Nat, 2 * h = u,
           NEW f \in Int, NEW g \in Int,
           \/ 2 * f = a /\ 2 * g = b
           \/ 2 * f = a + m /\ 2 * g = b - x
    PROVE  Pair(x, m, h, v, f, g, c, d)
<1>1. u = a * x + b * m /\ u + v <= x + m
  BY DEF Pair, Row
<1>2. h = f * x + g * m
  <2>1. a * x \in Int /\ b * m \in Int /\ f * x \in Int /\ g * m \in Int
    OBVIOUS
  <2>2. CASE 2 * f = a /\ 2 * g = b
    <3>1. (2 * f) * x = 2 * (f * x) /\ (2 * g) * m = 2 * (g * m)
      OBVIOUS
    <3> QED BY <1>1, <2>1, <2>2, <3>1
  <2>3. CASE 2 * f = a + m /\ 2 * g = b - x
    <3>1. (2 * f) * x = 2 * (f * x) /\ (2 * g) * m = 2 * (g * m)
      OBVIOUS
    <3>2. (a + m) * x = a * x + m * x /\ (b - x) * m = b * m - m * x /\ m * x \in Int
      OBVIOUS
    <3> QED BY <1>1, <2>1, <2>3, <3>1, <3>2
  <2> QED BY <2>2, <2>3
<1>3. h + v <= x + m
  BY <1>1
<1>4. ASSUME NEW e \in Nat, Divides(e, h), Divides(e, v)
      PROVE  Divides(e, x) /\ Divides(e, m)
  <2>1. PICK k \in Int : h = k * e
    BY <1>4 DEF Divides
  <2>2. 2 * k \in Int /\ u = (2 * k) * e
    BY <2>1
  <2>3. Divides(e, u)
    BY <2>2 DEF Divides
  <2> QED BY <1>4, <2>3 DEF Pair
<1>5. PICK s \in Nat : Halved(x, m, u, v, a, b, c, d, s)
  BY DEF Pair
<1>6. /\ Within(a, u, m, s) /\ Within(b, u, x + m, s)
      /\ Within(c, v, m, s) /\ Within(d, v, x + m, s)
      /\ s < radix * radix - 1 /\ (u * v) * power(2, s) <= x * m
  BY <1>5 DEF Halved, Scaled
<1>7. x + m \in Nat /\ s + 1 \in Nat
  OBVIOUS
<1>8. /\ Within(f, h, m, s + 1) /\ (h % 2 = 0 => Within(f, h, m, s))
      /\ Within(g, h, x + m, s + 1) /\ (h % 2 = 0 => Within(g, h, x + m, s))
  <2>1. PICK y \in Int : 2 * f = a + y /\ -m <= y /\ y <= m
    <3>1. 2 * f = a + 0 \/ 2 * f = a + m
      OBVIOUS
    <3>2. 0 \in Int /\ -m <= 0 /\ 0 <= m /\ m \in Int /\ -m <= m
      OBVIOUS
    <3> QED BY <3>1, <3>2
  <2>2. PICK z \in Int : 2 * g = b + z /\ -(x + m) <= z /\ z <= x + m
    <3>1. 2 * g = b + 0 \/ 2 * g = b + (-x)
      OBVIOUS
    <3>2. 0 \in Int /\ -(x + m) <= 0 /\ 0 <= x + m /\ -x \in Int /\ -(x + m) <= -x /\ -x <= x + m
      OBVIOUS
    <3> QED BY <3>1, <3>2
  <2>3. Within(f, h, m, s + 1) /\ (h % 2 = 0 => Within(f, h, m, s))
    BY <1>6, <2>1, WithinHalf
  <2>4. Within(g, h, x + m, s + 1) /\ (h % 2 = 0 => Within(g, h, x + m, s))
    <3>1. PICK t : t = x + m
      OBVIOUS
    <3>2. t \in Nat /\ -t <= z /\ z <= t
      BY <2>2, <3>1
    <3>3. /\ Within(b, u, t, s) /\ b \in Int /\ u \in Nat /\ g \in Int /\ h \in Nat
          /\ 2 * g = b + z
      BY <1>6, <1>7, <2>2, <3>1
    <3>4. Within(g, h, t, s + 1) /\ (h % 2 = 0 => Within(g, h, t, s))
      BY <2>2, <3>2, <3>3, WithinHalf
    <3> QED BY <3>1, <3>4
  <2> QED BY <2>3, <2>4
<1>9. \E r \in Nat : Halved(x, m, h, v, f, g, c, d, r)
  <2>1. CASE u = 0
    <3>1. h = 0 /\ h % 2 = 0 /\ h * v = u * v
      BY <2>1
    <3>2. Halved(x, m, h, v, f, g, c, d, s)
      BY <1>6, <1>8, <3>1 DEF Halved, Scaled
    <3> QED BY <3>2
  <2>2. CASE u > 0
    <3>1. Within(c, v, m, s + 1) /\ Within(d, v, x + m, s + 1)
      BY <1>6, <1>7, WithinMore
    <3>. DEFINE p == power(2, s)
                q == power(2, s + 1)
    <3>2. PICK two \in Nat : two = 2
      OBVIOUS
    <3>3. p \in Nat /\ p > 0 /\ q = 2 * p
      <4>3. power(two, s) \in Nat /\ (two > 0 => power(two, s) > 0)
        BY PowerNat
      <4>1. power(two, s) \in Nat /\ power(two, s) > 0
        BY <3>2, <4>3
      <4>2. power(two, s + 1) = two * power(two, s)
        BY <3>2, PowerDefined
      <4> QED BY <3>2, <4>1, <4>2
    <3>. HIDE DEF p, q
    <3>4. (h * v) * q <= x * m
      <4>1. (h * v) * (2 * p) = ((2 * h) * v) * p
        BY <3>3
      <4>2. (u * v) * p <= x * m
        BY <1>6 DEF p
      <4> QED BY <3>3, <4>1, <4>2
    <3>5. q <= x * m
      <4>1. h >= 1 /\ v >= 1
        BY <2>2
      <4>2. h * v >= 1 /\ h * v \in Nat
        BY <4>1
      <4>. DEFINE k == h * v
      <4>3. k >= 1 /\ k \in Nat
        BY <4>2
      <4>. HIDE DEF k
      <4>4. k * q >= q /\ k * q \in Int
        BY <3>3, <4>3
      <4>5. k * q <= x * m
        BY <3>4 DEF k
      <4>6. x * m \in Int /\ q \in Int
        BY <3>3
      <4> QED BY <4>4, <4>5, <4>6
    <3>6. s + 1 < radix * radix - 1
      <4>1. radix * radix \in Nat
        BY RadixFacts
      <4>2. ASSUME l <= s + 1 PROVE FALSE
        <5>1. l \in Nat
          BY <4>1
        <5>2. power(two, l) <= power(two, s + 1)
          BY <1>7, <3>2, <4>2, <5>1, PowerMono
        <5>3. power(two, l) \in Nat
          BY <3>2, <5>1, PowerNat
        <5>4. x * m < power(two, l) /\ power(two, s + 1) <= x * m /\ x * m \in Int
          BY <3>2, <3>5 DEF q
        <5>5. power(two, s + 1) \in Int
          BY <1>7, <3>2, PowerNat
        <5> QED BY <5>2, <5>3, <5>4, <5>5
      <4> QED BY <4>1, <4>2
    <3>7. Halved(x, m, h, v, f, g, c, d, s + 1)
      BY <1>8, <3>1, <3>4, <3>6 DEF Halved, Scaled, q
    <3> QED BY <1>7, <3>7
  <2> QED BY <2>1, <2>2
<1>10. Row(x, m, h, f, g) /\ Row(x, m, v, c, d)
  BY <1>2 DEF Pair, Row
<1> QED BY <1>3, <1>4, <1>9, <1>10 DEF Pair

\* The smaller of two odd numbers is subtracted from the other.
LEMMA PairLess ==
    ASSUME NEW x \in Nat, NEW m \in Nat, NEW u \in Nat, NEW v \in Nat,
           NEW a \in Int, NEW b \in Int, NEW c \in Int, NEW d \in Int,
           Pair(x, m, u, v, a, b, c, d), u % 2 = 1, v % 2 = 1, v <= u
    PROVE  Pair(x, m, u - v, v, a - c, b - d, c, d)
<1>1. u = a * x + b * m /\ v = c * x + d * m /\ u + v <= x + m
  BY DEF Pair, Row
<1>2. u - v \in Nat /\ (u - v) + v <= x + m /\ (u - v) % 2 = 0 /\ a - c \in Int /\ b - d \in Int
      /\ x + m \in Nat
  BY <1>1
<1>3. u - v = (a - c) * x + (b - d) * m
  <2>1. (a - c) * x = a * x - c * x /\ (b - d) * m = b * m - d * m
    OBVIOUS
  <2>2. a * x \in Int /\ b * m \in Int /\ c * x \in Int /\ d * m \in Int
    OBVIOUS
  <2> QED BY <1>1, <2>1, <2>2
<1>4. ASSUME NEW e \in Nat, Divides(e, u - v), Divides(e, v)
      PROVE  Divides(e, x) /\ Divides(e, m)
  <2>1. PICK k \in Int : u - v = k * e
    BY <1>4 DEF Divides
  <2>2. PICK l \in Int : v = l * e
    BY <1>4 DEF Divides
  <2>3. k + l \in Int /\ u = (k + l) * e
    <3>1. (k + l) * e = k * e + l * e
      OBVIOUS
    <3> QED BY <2>1, <2>2, <3>1
  <2>4. Divides(e, u)
    BY <2>3 DEF Divides
  <2> QED BY <1>4, <2>4 DEF Pair
<1>5. PICK s \in Nat : Halved(x, m, u, v, a, b, c, d, s)
  BY DEF Pair
<1>6. /\ Within(a, u, m, s) /\ Within(b, u, x + m, s)
      /\ Within(c, v, m, s) /\ Within(d, v, x + m, s)
      /\ s < radix * radix - 1 /\ (u * v) * power(2, s) <= x * m
  BY <1>5 DEF Halved, Scaled
<1>7. Within(a - c, u - v, m, s)
  BY <1>2, <1>6, WithinLess
<1>8. Within(b - d, u - v, x + m, s)
  BY <1>2, <1>6, WithinLess
<1>9. ((u - v) * v) * power(2, s) <= x * m
  <2>. DEFINE p == power(2, s)
              k == u * v
              l == (u - v) * v
  <2>1. PICK two \in Nat : two = 2
    OBVIOUS
  <2>2. p \in Nat
    BY <2>1, PowerNat
  <2>3. k \in Nat /\ l \in Nat /\ l <= k
    <3>1. (u - v) * v = u * v - v * v /\ v * v \in Nat
      OBVIOUS
    <3>2. (u - v) * v \in Nat
      BY <1>2
    <3> QED BY <3>1, <3>2
  <2>4. k * p <= x * m
    BY <1>6
  <2>. HIDE DEF p, k, l
  <2>5. l * p <= k * p /\ l * p \in Int /\ k * p \in Int /\ x * m \in Int
    BY <2>2, <2>3
  <2>6. l * p <= x * m
    BY <2>4, <2>5
  <2> QED BY <2>6 DEF l, p
<1>10. Halved(x, m, u - v, v, a - c, b - d, c, d, s)
  BY <1>6, <1>7, <1>8, <1>9 DEF Halved, Scaled
<1>11. \E r \in Nat : Halved(x, m, u - v, v, a - c, b - d, c, d, r)
  BY <1>10
<1>12. Row(x, m, u - v, a - c, b - d) /\ Row(x, m, v, c, d)
  BY <1>2, <1>3 DEF Pair, Row
<1> QED BY <1>2, <1>4, <1>11, <1>12 DEF Pair

\* The arguments of an inverse and the sizes of their arrays.
LEMMA ArgFacts ==
    ASSUME call \in Calls
    PROVE  /\ BaseOf(1) \in Nat /\ call.m \in Nat /\ call.m > 1
           /\ \E l \in 1..(radix * radix - 1) : BaseOf(1) * call.m < power(2, l)
           /\ Size(X) \in Nat /\ Size(X) - 2 \in Nat
           /\ X \in Num(Size(X)) /\ Value(X) = BaseOf(1)
           /\ Size(M) \in Nat /\ Size(M) > 0 /\ Size(M) <= Size(X)
           /\ M \in Num(Size(M)) /\ Value(M) = call.m
           /\ BaseOf(1) < power(radix, Size(X) - 2) /\ call.m < power(radix, Size(X) - 2)
<1>. DEFINE v == call.args[1][1]
            y == mpi2bigint(v)
<1>1. /\ call.args \in Seq(Nat \X Nat) /\ call.args # <<>>
      /\ call.m \in Nat /\ call.m > 1
      /\ \E l \in 1..(radix * radix - 1) : v * call.m < power(2, l)
  BY GcryptAssumption
<1>2. v \in Nat
  <2>1. call.args[1] \in Nat \X Nat
    BY <1>1
  <2> QED BY <2>1
<1>3. BaseOf(1) = v
  BY DEF BaseOf
<1>4. PICK n \in Nat : n > 0 /\ y \in Num(n) /\ Value(y) = v /\ v < power(radix, n - 1)
  BY <1>2, MpiToArray
<1>5. PICK k \in Nat : k > 0 /\ M \in Num(k) /\ Value(M) = call.m /\ call.m < power(radix, k - 1)
  BY <1>1, MpiToArray DEF M
<1>6. Size(y) = n /\ Size(M) = k
  <2>1. Size(y) = n
    BY <1>4, NumFacts, NumSize
  <2>2. Size(M) = k
    BY <1>5, NumFacts, NumSize
  <2> QED BY <2>1, <2>2
<1>. DEFINE s == 1 + (IF n > k THEN n ELSE k)
<1>7. X = copy(s, y)
  BY <1>6 DEF X, expand
<1>8. /\ s \in Nat /\ s - 2 \in Nat /\ n - 1 \in Nat /\ k - 1 \in Nat
      /\ n - 1 <= s - 2 /\ k - 1 <= s - 2 /\ k <= s /\ n - 1 <= s
  BY <1>4, <1>5
<1>. HIDE DEF s, y, v
<1>9. /\ power(radix, n - 1) <= power(radix, s - 2) /\ power(radix, n - 1) <= power(radix, s)
      /\ power(radix, k - 1) <= power(radix, s - 2)
  <2>1. radix \in Nat /\ radix > 0
    BY RadixFacts
  <2>2. power(radix, n - 1) <= power(radix, s - 2)
    BY <1>8, <2>1, PowerMono
  <2>3. power(radix, n - 1) <= power(radix, s)
    BY <1>8, <2>1, PowerMono
  <2>4. power(radix, k - 1) <= power(radix, s - 2)
    BY <1>8, <2>1, PowerMono
  <2> QED BY <2>2, <2>3, <2>4
<1>10. /\ power(radix, n - 1) \in Nat /\ power(radix, k - 1) \in Nat
       /\ power(radix, s - 2) \in Nat /\ power(radix, s) \in Nat
  <2>1. power(radix, n - 1) \in Nat
    BY <1>8, PlaceFacts
  <2>2. power(radix, k - 1) \in Nat
    BY <1>8, PlaceFacts
  <2>3. power(radix, s - 2) \in Nat
    BY <1>8, PlaceFacts
  <2>4. power(radix, s) \in Nat
    BY <1>8, PlaceFacts
  <2> QED BY <2>1, <2>2, <2>3, <2>4
<1>11. v < power(radix, s) /\ v < power(radix, s - 2) /\ call.m < power(radix, s - 2)
  <2>. DEFINE a == power(radix, n - 1)
              b == power(radix, k - 1)
              c == power(radix, s - 2)
              d == power(radix, s)
              w == call.m
  <2>1. v < a /\ w < b /\ a <= c /\ a <= d /\ b <= c
    BY <1>4, <1>5, <1>9
  <2>2. v \in Nat /\ w \in Nat /\ a \in Nat /\ b \in Nat /\ c \in Nat /\ d \in Nat
    BY <1>1, <1>2, <1>10
  <2>. HIDE DEF a, b, c, d, w
  <2>3. v < d /\ v < c /\ w < c
    BY <2>1, <2>2
  <2> QED BY <2>3 DEF c, d, w
<1>12. copy(s, y) \in Num(s) /\ Value(copy(s, y)) = v
  <2>1. Value(y) < power(radix, s)
    BY <1>4, <1>11
  <2> QED BY <1>4, <1>8, <2>1, CopyFits
<1>13. X \in Num(s) /\ Value(X) = v
  BY <1>7, <1>12
<1>14. Size(X) = s
  BY <1>8, <1>13, NumFacts, NumSize
<1>15. \E l \in 1..(radix * radix - 1) : BaseOf(1) * call.m < power(2, l)
  BY <1>1, <1>3
<1> QED BY <1>1, <1>2, <1>3, <1>5, <1>6, <1>8, <1>11, <1>13, <1>14, <1>15

\* The arrays of the loop hold every number that it can come to.
LEMMA WideFacts ==
    ASSUME call \in Calls
    PROVE  /\ Wide \in Nat /\ Wide > 0 /\ Size(X) <= Wide /\ Size(M) <= Wide
           /\ range(Wide) - 1 \in Nat
           /\ 2 * ((BaseOf(1) + call.m) * (radix * radix)) <= range(Wide) - 1
           /\ 2 * (call.m * (radix * radix)) <= range(Wide) - 1
           /\ BaseOf(1) + call.m <= range(Wide) - 1
           /\ call.m * (radix * radix) < power(radix, Size(X))
<1>. DEFINE s == Size(X)
            x == BaseOf(1)
            m == call.m
            q == power(radix, s - 2)
            p == power(radix, s)
            rr == radix * radix
            h == radix \div 2
<1>1. /\ x \in Nat /\ m \in Nat /\ m > 1 /\ s \in Nat /\ s - 2 \in Nat
      /\ x < q /\ m < q /\ Size(M) \in Nat /\ Size(M) <= s
  BY ArgFacts
<1>2. radix \in Nat /\ radix >= 4 /\ h \in Nat /\ h >= 2
  BY RadixFacts
<1>3. rr \in Nat /\ rr >= 16
  <2>1. radix * radix >= 4 * 4 /\ radix * radix \in Nat
    BY <1>2
  <2> QED BY <2>1
<1>4. q \in Nat /\ q > 0 /\ p \in Nat
  <2>1. q \in Nat /\ q > 0
    BY <1>1, PlaceFacts
  <2>2. p \in Nat
    BY <1>1, PlaceFacts
  <2> QED BY <2>1, <2>2
<1>5. p = q * rr
  <2>1. power(radix, (s - 2) + 1) = radix * q
    BY <1>1, <1>2, PowerDefined
  <2>2. (s - 2) + 1 \in Nat /\ ((s - 2) + 1) + 1 = s
    BY <1>1
  <2>3. power(radix, ((s - 2) + 1) + 1) = radix * power(radix, (s - 2) + 1)
    BY <1>2, <2>2, PowerDefined
  <2>4. radix * (radix * q) = q * rr
    BY <1>2, <1>4
  <2> QED BY <2>1, <2>2, <2>3, <2>4
<1>6. Wide = 1 + 2 * s /\ Wide \in Nat /\ Wide > 0 /\ Wide - 1 = s + s /\ s <= Wide
  BY <1>1 DEF Wide
<1>7. range(Wide) = h * (p * p)
  <2>1. power(radix, s + s) = p * p
    BY <1>1, <1>2, PowerAdd
  <2> QED BY <1>6, <2>1 DEF range
<1>. HIDE DEF s, x, m, q, p, rr, h
<1>8. p >= 16 /\ p >= q
  <2>1. q * rr >= 16 * q
    BY <1>3, <1>4
  <2> QED BY <1>4, <1>5, <2>1
<1>9. p * p >= 16 * p /\ p * p \in Nat
  BY <1>4, <1>8
<1>10. h * (p * p) >= 2 * (p * p) /\ h * (p * p) \in Nat
  <2>. DEFINE k == p * p
  <2>1. k \in Nat
    BY <1>9
  <2>. HIDE DEF k
  <2>2. h * k >= 2 * k /\ h * k \in Nat
    BY <1>2, <2>1
  <2> QED BY <2>2 DEF k
<1>11. (x + m) * rr <= (2 * q) * rr /\ (2 * q) * rr = 2 * (q * rr) /\ (x + m) * rr \in Nat
  <2>1. x + m <= 2 * q /\ x + m \in Nat /\ 2 * q \in Nat
    BY <1>1, <1>4
  <2> QED BY <1>3, <1>4, <2>1
<1>12. m * rr < q * rr /\ m * rr \in Nat
  <2>1. m + 1 <= q /\ (m + 1) * rr <= q * rr /\ (m + 1) * rr = m * rr + rr /\ m * rr \in Nat
    BY <1>1, <1>3, <1>4
  <2>2. q * rr \in Nat
    BY <1>3, <1>4
  <2> QED BY <1>3, <2>1, <2>2
<1>. DEFINE pp == p * p
            xr == (x + m) * rr
            mr == m * rr
            ra == range(Wide)
<1>13. /\ pp \in Nat /\ pp >= 16 * p /\ ra \in Nat /\ ra >= 2 * pp
       /\ xr \in Nat /\ xr <= 2 * p /\ mr \in Nat /\ mr < p
  <2>1. ra \in Nat /\ ra >= 2 * pp
    BY <1>7, <1>10
  <2>2. xr <= 2 * p /\ mr < p
    BY <1>5, <1>11, <1>12
  <2> QED BY <1>9, <1>11, <1>12, <2>1, <2>2
<1>. HIDE DEF pp, xr, mr, ra
<1>14. /\ ra - 1 \in Nat /\ 2 * xr <= ra - 1 /\ 2 * mr <= ra - 1 /\ x + m <= ra - 1
  BY <1>1, <1>4, <1>8, <1>13
<1> QED BY <1>1, <1>6, <1>13, <1>14 DEF xr, mr, ra, s, x, m, p, rr

\* Whether a product is even.
LEMMA ProductParity ==
    ASSUME NEW a \in Int, NEW b \in Int
    PROVE  (a * b) % 2 = (a % 2) * (b % 2) /\ a % 2 \in {0, 1} /\ b % 2 \in {0, 1}
<1>. DEFINE f == a \div 2
            g == b \div 2
            c == a % 2
            d == b % 2
<1>1. f \in Int /\ c \in {0, 1} /\ a = 2 * f + c
  OBVIOUS
<1>2. g \in Int /\ d \in {0, 1} /\ b = 2 * g + d
  OBVIOUS
<1>. HIDE DEF f, g, c, d
<1>. DEFINE k == 2 * (f * g) + f * d + c * g
<1>3. a * b = 2 * k + c * d
  <2>1. (2 * f + c) * (2 * g + d) = 4 * (f * g) + 2 * (f * d) + 2 * (c * g) + c * d
    BY <1>1, <1>2
  <2>2. f * g \in Int /\ f * d \in Int /\ c * g \in Int /\ c * d \in Int
    BY <1>1, <1>2
  <2> QED BY <1>1, <1>2, <2>1, <2>2
<1>4. k \in Int /\ c * d \in {0, 1}
  BY <1>1, <1>2
<1>. HIDE DEF k
<1>. DEFINE e == c * d
<1>5. e \in {0, 1} /\ a * b = 2 * k + e
  BY <1>3, <1>4
<1>. HIDE DEF e
<1>6. (2 * k + e) % 2 = e
  BY <1>4, <1>5
<1> QED BY <1>1, <1>2, <1>5, <1>6 DEF e, c, d

\* An even combination of two numbers that are not both even: both factors
\* are even, or both become so.
LEMMA FactorParity ==
    ASSUME NEW x \in Nat, NEW m \in Nat, ~(x % 2 = 0 /\ m % 2 = 0),
           NEW a \in Int, NEW b \in Int, (a * x + b * m) % 2 = 0,
           ~(a % 2 = 0 /\ b % 2 = 0)
    PROVE  (a + m) % 2 = 0 /\ (b - x) % 2 = 0
<1>. DEFINE e == a * x
            f == b * m
<1>1. e % 2 = (a % 2) * (x % 2) /\ a % 2 \in {0, 1} /\ x % 2 \in {0, 1}
  BY ProductParity
<1>2. f % 2 = (b % 2) * (m % 2) /\ b % 2 \in {0, 1} /\ m % 2 \in {0, 1}
  BY ProductParity
<1>3. e \in Int /\ f \in Int /\ (e + f) % 2 = 0
  OBVIOUS
<1>. HIDE DEF e, f
<1>4. e % 2 = f % 2
  BY <1>3
<1>5. (a % 2) * (x % 2) = (b % 2) * (m % 2)
  BY <1>1, <1>2, <1>4
<1>. DEFINE ea == a % 2
            eb == b % 2
            ex == x % 2
            em == m % 2
<1>6. /\ ea \in {0, 1} /\ eb \in {0, 1} /\ ex \in {0, 1} /\ em \in {0, 1}
      /\ ea * ex = eb * em /\ ~(ex = 0 /\ em = 0) /\ ~(ea = 0 /\ eb = 0)
  BY <1>1, <1>2, <1>5
<1>. HIDE DEF ea, eb, ex, em
<1>7. ea = em /\ eb = ex
  <2>1. CASE ex = 0
    BY <1>6, <2>1
  <2>2. CASE ex = 1
    <3>1. ea = eb * em
      BY <1>6, <2>2
    <3>2. CASE em = 0
      BY <1>6, <2>2, <3>1, <3>2
    <3>3. CASE em = 1
      BY <1>6, <2>2, <3>1, <3>3
    <3> QED BY <1>6, <3>2, <3>3
  <2> QED BY <1>6, <2>1, <2>2
<1>8. a % 2 = m % 2 /\ b % 2 = x % 2
  BY <1>7 DEF ea, eb, ex, em
<1> QED BY <1>8

\* No number of the loop leaves its array.
LEMMA PairBounds ==
    ASSUME call \in Calls,
           NEW u \in Nat, NEW v \in Nat, NEW a \in Int, NEW b \in Int, NEW c \in Int, NEW d \in Int,
           Pair(BaseOf(1), call.m, u, v, a, b, c, d), NEW r, r = range(Wide) - 1
    PROVE  /\ r \in Nat /\ u <= r /\ v <= r
           /\ -r <= a /\ a <= r /\ a + call.m <= r
           /\ -r <= b /\ b <= r /\ -r <= b - BaseOf(1)
<1>. DEFINE x == BaseOf(1)
            m == call.m
<1>1. x \in Nat /\ m \in Nat
  BY ArgFacts
<1>2. /\ r \in Nat /\ x + m <= r
      /\ 2 * ((x + m) * (radix * radix)) <= r /\ 2 * (m * (radix * radix)) <= r
  BY WideFacts
<1>. HIDE DEF x, m
<1>3. Pair(x, m, u, v, a, b, c, d)
  BY DEF x, m
<1>4. PICK s \in Nat : Halved(x, m, u, v, a, b, c, d, s)
  BY <1>3 DEF Pair
<1>5. Within(a, u, m, s) /\ Within(b, u, x + m, s) /\ s < radix * radix - 1
  BY <1>4 DEF Halved, Scaled
<1>6. x + m \in Nat
  BY <1>1
<1>7. -r <= a /\ a <= r /\ a + m <= r
  BY <1>1, <1>2, <1>5, WithinRange
<1>8. -r <= b /\ b <= r /\ -r <= b - (x + m)
  BY <1>2, <1>5, <1>6, WithinRange
<1>9. u + v <= x + m
  BY <1>3 DEF Pair
<1> QED BY <1>1, <1>2, <1>7, <1>8, <1>9 DEF x, m

\* Half of a combination, by its two factors, is half of the combination.
LEMMA HalfRight ==
    ASSUME call \in Calls, ~(BaseOf(1) % 2 = 0 /\ call.m % 2 = 0),
           NEW a \in Num(Wide), NEW b \in Num(Wide), NEW r, r = range(Wide) - 1,
           -r <= Signed(a), Signed(a) + call.m <= r,
           Signed(b) <= r, -r <= Signed(b) - BaseOf(1),
           (Signed(a) * BaseOf(1) + Signed(b) * call.m) % 2 = 0
    PROVE  /\ Half(a, b)[1] \in Num(Wide) /\ Half(a, b)[2] \in Num(Wide)
           /\ \/ 2 * Signed(Half(a, b)[1]) = Signed(a) /\ 2 * Signed(Half(a, b)[2]) = Signed(b)
              \/ /\ 2 * Signed(Half(a, b)[1]) = Signed(a) + call.m
                 /\ 2 * Signed(Half(a, b)[2]) = Signed(b) - BaseOf(1)
<1>. DEFINE x == BaseOf(1)
            m == call.m
            f == Half(a, b)[1]
            g == Half(a, b)[2]
<1>1. /\ x \in Nat /\ m \in Nat /\ Size(X) \in Nat /\ X \in Num(Size(X)) /\ Value(X) = x
      /\ Size(M) \in Nat /\ M \in Num(Size(M)) /\ Value(M) = m
  BY ArgFacts
<1>2. Wide \in Nat /\ Wide > 0 /\ Size(X) <= Wide /\ Size(M) <= Wide /\ r \in Nat
  BY WideFacts
<1>3. range(Wide) = r + 1
  <2>1. range(Wide) \in Nat
    BY <1>2, RangeFacts
  <2> QED BY <2>1
<1>4. Signed(a) \in Int /\ Signed(b) \in Int
  <2>1. Signed(a) \in Int
    BY <1>2, SignedFacts
  <2>2. Signed(b) \in Int
    BY <1>2, SignedFacts
  <2> QED BY <2>1, <2>2
<1>5. IsEven(a) <=> Signed(a) % 2 = 0
  BY <1>2, EvenRight
<1>6. IsEven(b) <=> Signed(b) % 2 = 0
  BY <1>2, EvenRight
<1>. HIDE DEF x, m
<1>7. \A y \in Num(Wide) : Signed(y) % 2 = 0 =>
         halve(y) \in Num(Wide) /\ 2 * Signed(halve(y)) = Signed(y)
  <2>1. ASSUME NEW y \in Num(Wide), Signed(y) % 2 = 0
        PROVE  halve(y) \in Num(Wide) /\ 2 * Signed(halve(y)) = Signed(y)
    <3>1. halve(y) \in Num(Wide) /\ y[0] % 2 \in {0, 1}
          /\ 2 * Signed(halve(y)) = Signed(y) - (y[0] % 2)
      BY <1>2, HalveRight
    <3>2. IsEven(y) <=> Signed(y) % 2 = 0
      BY <1>2, EvenRight
    <3>3. y[0] % 2 = 0
      BY <2>1, <3>2 DEF IsEven
    <3>4. Signed(y) \in Int
      BY <1>2, SignedFacts
    <3>5. Signed(y) - 0 = Signed(y)
      BY <3>4
    <3> QED BY <3>1, <3>3, <3>5
  <2> QED BY <2>1
<1>8. CASE IsEven(a) /\ IsEven(b)
  <2>1. Half(a, b) = <<halve(a), halve(b)>>
    BY <1>8 DEF Half
  <2>2. f = halve(a) /\ g = halve(b)
    BY <2>1
  <2>3. halve(a) \in Num(Wide) /\ 2 * Signed(halve(a)) = Signed(a)
    BY <1>5, <1>7, <1>8
  <2>4. halve(b) \in Num(Wide) /\ 2 * Signed(halve(b)) = Signed(b)
    BY <1>6, <1>7, <1>8
  <2> QED BY <2>2, <2>3, <2>4
<1>9. CASE ~(IsEven(a) /\ IsEven(b))
  <2>1. Half(a, b) = <<halve(add_(a, M)), halve(sub_(b, X))>>
    BY <1>9 DEF Half
  <2>2. f = halve(add_(a, M)) /\ g = halve(sub_(b, X))
    BY <2>1
  <2>3. (Signed(a) + m) % 2 = 0 /\ (Signed(b) - x) % 2 = 0
    <3>1. ~(x % 2 = 0 /\ m % 2 = 0) /\ (Signed(a) * x + Signed(b) * m) % 2 = 0
      BY DEF x, m
    <3>2. PICK e \in Int, k \in Int : e = Signed(a) /\ k = Signed(b)
      BY <1>4
    <3>3. (e * x + k * m) % 2 = 0 /\ ~(e % 2 = 0 /\ k % 2 = 0)
      BY <1>5, <1>6, <1>9, <3>1, <3>2
    <3>4. x \in Nat /\ m \in Nat
      BY <1>1
    <3>5. (e + m) % 2 = 0 /\ (k - x) % 2 = 0
      BY <3>1, <3>2, <3>3, <3>4, FactorParity
    <3> QED BY <3>2, <3>5
  <2>4. add_(a, M) \in Num(Wide) /\ Signed(add_(a, M)) = Signed(a) + m
    <3>1. -range(Wide) <= Signed(a) + Value(M) /\ Signed(a) + Value(M) < range(Wide)
      BY <1>1, <1>2, <1>3, <1>4 DEF m
    <3> QED BY <1>1, <1>2, <3>1, AddSigned
  <2>5. sub_(b, X) \in Num(Wide) /\ Signed(sub_(b, X)) = Signed(b) - x
    <3>1. -range(Wide) <= Signed(b) - Value(X) /\ Signed(b) - Value(X) < range(Wide)
      BY <1>1, <1>2, <1>3, <1>4 DEF x
    <3> QED BY <1>1, <1>2, <3>1, SubSigned
  <2>6. f \in Num(Wide) /\ 2 * Signed(f) = Signed(a) + m
    BY <1>7, <2>2, <2>3, <2>4
  <2>7. g \in Num(Wide) /\ 2 * Signed(g) = Signed(b) - x
    BY <1>7, <2>2, <2>3, <2>5
  <2> QED BY <2>6, <2>7 DEF x, m
<1> QED BY <1>8, <1>9

\* Halving and subtracting of numbers that are not negative.
LEMMA HalveNat ==
    ASSUME NEW n \in Nat, n > 0, NEW y \in Num(n), Value(y) < range(n), Value(y) % 2 = 0
    PROVE  halve(y) \in Num(n) /\ 2 * Value(halve(y)) = Value(y)
<1>1. halve(y) \in Num(n) /\ y[0] % 2 \in {0, 1} /\ 2 * Signed(halve(y)) = Signed(y) - (y[0] % 2)
  BY HalveRight
<1>2. IsEven(y) <=> Value(y) % 2 = 0
  BY EvenRight
<1>3. y[0] % 2 = 0
  BY <1>2 DEF IsEven
<1>4. Signed(y) = Value(y) /\ Value(y) \in Nat
  BY SignedFacts, ValueBounds
<1>5. 2 * Signed(halve(y)) = Value(y)
  BY <1>1, <1>3, <1>4
<1>. DEFINE h == halve(y)
<1>6. h \in Num(n)
  BY <1>1
<1>. HIDE DEF h
<1>7. /\ Signed(h) \in Int
      /\ Signed(h) = Value(h) \/ Signed(h) = Value(h) - power(radix, n)
      /\ Value(h) < power(radix, n) /\ Value(h) \in Nat /\ power(radix, n) \in Int
  <2>1. Signed(h) \in Int /\ (Signed(h) = Value(h) \/ Signed(h) = Value(h) - power(radix, n))
    BY <1>6, SignedFacts
  <2>2. Value(h) < power(radix, n) /\ Value(h) \in Nat
    BY <1>6, ValueBounds
  <2> QED BY <2>1, <2>2, PlaceFacts
<1>8. Signed(h) = Value(h)
  BY <1>4, <1>5, <1>7 DEF h
<1> QED BY <1>1, <1>5, <1>8 DEF h

\* sub_ of numbers that are not negative, if the difference is not.
LEMMA SubNat ==
    ASSUME NEW n \in Nat, n > 0, NEW x \in Num(n), NEW y \in Num(n), Value(y) <= Value(x)
    PROVE  sub_(x, y) \in Num(n) /\ Value(sub_(x, y)) = Value(x) - Value(y)
<1>1. PICK c \in {1, -1} : c = -1
  OBVIOUS
<1>2. PICK k \in Nat : k = n
  OBVIOUS
<1>. DEFINE z == linCombShift(x, y, c, 0)
<1>3. z \in Num(n) /\ \E q \in Int : Value(z) = Value(x) + c * Value(y) + q * power(radix, n)
  <2>1. y \in Num(k) /\ k <= n
    BY <1>2
  <2> QED BY <2>1, LinearRight
<1>4. sub_(x, y) = z
  BY <1>1 DEF sub_
<1>. HIDE DEF z
<1>5. PICK q \in Int : Value(z) = Value(x) + c * Value(y) + q * power(radix, n)
  BY <1>3
<1>6. Value(x) \in Nat /\ Value(y) \in Nat /\ Value(x) < power(radix, n)
  <2>1. Value(x) \in Nat /\ Value(x) < power(radix, n)
    BY ValueBounds
  <2>2. Value(y) \in Nat
    BY ValueBounds
  <2> QED BY <2>1, <2>2
<1>7. power(radix, n) \in Int
  BY PlaceFacts
<1>. DEFINE w == Value(x) - Value(y)
<1>8. w \in Nat /\ w < power(radix, n) /\ Value(x) + c * Value(y) = w
  BY <1>1, <1>6, <1>7
<1>. HIDE DEF w
<1>9. Value(z) = w + q * power(radix, n)
  BY <1>5, <1>8
<1>10. Value(z) = w
  BY <1>3, <1>8, <1>9, ValueIs
<1> QED BY <1>3, <1>4, <1>10 DEF w

-----------------------------------------------------------------------------
(* The inverse: the answer. *)

\* What divides both numbers divides what is left of a product modulo one.
LEMMA NoInverse ==
    ASSUME NEW x \in Nat, NEW m \in Nat, m > 1, NEW e \in Nat, e >= 2,
           Divides(e, x), Divides(e, m)
    PROVE  \A i \in 0..(m - 1) : (i * x) % m # 1
<1>. SUFFICES ASSUME NEW i \in 0..(m - 1), (i * x) % m = 1 PROVE FALSE
  OBVIOUS
<1>1. PICK k \in Int : x = k * e
  BY DEF Divides
<1>2. PICK l \in Int : m = l * e
  BY DEF Divides
<1>. DEFINE p == i * x
            q == p \div m
<1>3. p \in Int /\ q \in Int /\ p = m * q + 1
  <2>1. p \in Int
    OBVIOUS
  <2>2. q \in Int /\ p = m * q + (p % m)
    BY <2>1, DivMod
  <2> QED BY <2>1, <2>2
<1>. HIDE DEF q
<1>. DEFINE j == i * k - l * q
<1>4. j * e = 1
  <2>1. i * (k * e) = (i * k) * e /\ (l * e) * q = (l * q) * e
    BY <1>3
  <2>2. i * (k * e) = (l * e) * q + 1
    BY <1>1, <1>2, <1>3
  <2>3. (i * k - l * q) * e = (i * k) * e - (l * q) * e
    BY <1>3
  <2>4. (i * k) * e \in Int /\ (l * q) * e \in Int
    BY <1>3
  <2> QED BY <2>1, <2>2, <2>3, <2>4
<1>5. j \in Int
  BY <1>3
<1>. HIDE DEF j
<1>6. CASE j >= 1
  <2>1. j * e >= e
    BY <1>5, <1>6
  <2> QED BY <1>4, <2>1
<1>7. CASE j <= 0
  <2>1. j * e <= 0
    BY <1>5, <1>7
  <2> QED BY <1>4, <2>1
<1> QED BY <1>5, <1>6, <1>7

\* w is c and a multiple of m.
Above(w, c, m) == \E k \in Nat : w = c + k * m

\* A factor that makes 1 of the first number is an inverse of it.
LEMMA InverseOf ==
    ASSUME NEW x \in Nat, NEW m \in Nat, m > 1, NEW v, v = 1, NEW c, NEW d, Row(x, m, v, c, d),
           NEW w \in Nat, Above(w, c, m)
    PROVE  (w * x) % m = 1 /\ \E i \in 0..(m - 1) : (i * x) % m = 1
<1>. PICK k \in Nat : w = c + k * m
  BY DEF Above
<1>. c \in Int /\ d \in Int /\ 1 = c * x + d * m
  BY DEF Row
<1>1. \A t \in Int : (m * t + 1) % m = 1
  <2>1. ASSUME NEW t \in Int PROVE (m * t + 1) % m = 1
    <3>. DEFINE a == m * t + 1
    <3>1. PICK r \in Int : r = 1
      OBVIOUS
    <3>2. a \in Int /\ a = m * t + r /\ 0 <= r /\ r < m
      BY <3>1
    <3>. HIDE DEF a
    <3>3. a % m = r
      BY <3>2, DivUnique
    <3> QED BY <3>1, <3>3 DEF a
  <2> QED BY <2>1
<1>2. w * x = m * (k * x - d) + 1 /\ k * x - d \in Int
  <2>1. (c + k * m) * x = c * x + (k * m) * x /\ (k * m) * x = m * (k * x)
    OBVIOUS
  <2>2. m * (k * x - d) = m * (k * x) - d * m /\ k * x - d \in Int
    OBVIOUS
  <2>3. c * x \in Int /\ d * m \in Int /\ m * (k * x) \in Int
    OBVIOUS
  <2> QED BY <2>1, <2>2, <2>3
<1>3. (w * x) % m = 1
  BY <1>1, <1>2
<1>. DEFINE q == w \div m
            i == w % m
            t == k * x - d
<1>4. q \in Int /\ i \in 0..(m - 1) /\ w = m * q + i
  <2>1. w \in Int
    OBVIOUS
  <2> QED BY <2>1, DivMod
<1>5. t \in Int /\ w * x = m * t + 1
  BY <1>2
<1>. HIDE DEF q, i, t
<1>6. i * x = m * (t - q * x) + 1
  <2>1. (m * q + i) * x = m * (q * x) + i * x /\ m * (t - q * x) = m * t - m * (q * x)
    BY <1>4, <1>5
  <2>2. m * (q * x) \in Int /\ i * x \in Int /\ m * t \in Int
    BY <1>4, <1>5
  <2> QED BY <1>4, <1>5, <2>1, <2>2
<1>7. t - q * x \in Int
  BY <1>4, <1>5
<1>8. (i * x) % m = 1
  BY <1>1, <1>6, <1>7
<1> QED BY <1>3, <1>4, <1>8

\* The modulus is added to a negative factor as often as it takes, which is
\* less often than radix^2 times, and the answer has room for the sum.
THEOREM NonNegativeRight ==
    ASSUME call \in Calls, NEW y \in Num(Wide),
           NEW b, b = call.m * (radix * radix - 1), -b <= Signed(y), Signed(y) <= b
    PROVE  /\ copy(Size(X), NonNegative(y)) \in Num(Size(X))
           /\ \E k \in Nat : Value(copy(Size(X), NonNegative(y))) = Signed(y) + k * call.m
<1>. DEFINE m == call.m
            rr == radix * radix
            S == Num(Wide)
            c == Signed(y)
            Right(u) == u = [k \in Nat |-> IF k = 0 THEN y ELSE add_(u[k - 1], M)]
            up == CHOOSE u : Right(u)
            h == [j \in Nat |-> [z \in S |-> add_(z, M)]]
            Stops(k) == ~negative(up[k]) /\ \A j \in 0..(k - 1) : negative(up[j])
            n == CHOOSE k \in 0..rr : Stops(k)
<1>1. /\ m \in Nat /\ m > 1 /\ Size(X) \in Nat /\ X \in Num(Size(X))
      /\ Size(M) \in Nat /\ M \in Num(Size(M)) /\ Value(M) = m
  BY ArgFacts
<1>2. /\ Wide \in Nat /\ Wide > 0 /\ Size(M) <= Wide
      /\ range(Wide) - 1 \in Nat /\ 2 * (m * rr) <= range(Wide) - 1
      /\ m * rr < power(radix, Size(X))
  BY WideFacts
<1>3. c \in Int /\ range(Wide) \in Nat
  <2>1. c \in Int
    BY <1>2, SignedFacts
  <2>2. range(Wide) \in Nat
    BY <1>2, RangeFacts
  <2> QED BY <2>1, <2>2
<1>4. rr \in Nat /\ rr >= 1
  <2>1. radix \in Nat /\ radix >= 4
    BY RadixFacts
  <2>2. radix * radix >= radix
    BY <2>1
  <2> QED BY <2>1, <2>2
<1>5. b = m * rr - m /\ m * rr \in Nat
  <2>. HIDE DEF rr
  <2>1. m * (rr - 1) = m * rr - m /\ m * rr \in Nat
    BY <1>1, <1>4
  <2>2. b = m * (rr - 1)
    BY DEF rr
  <2> QED BY <2>1, <2>2
<1>6. NonNegative(y) = up[n]
  BY DEF NonNegative
<1>. HIDE DEF m, rr, c
<1>7. \A z \in S : add_(z, M) \in S
  <2>1. PICK o \in {1, -1} : o = 1
    OBVIOUS
  <2>2. \A z \in S : linCombShift(z, M, o, 0) \in S
    BY <1>1, <1>2, LinearRight
  <2> QED BY <2>1, <2>2 DEF add_
<1>8. y \in S
  OBVIOUS
<1>. HIDE DEF S
<1>9. h \in StepsOver(S)
  BY <1>7 DEF StepsOver
<1>10. \A j \in Nat : \A z \in S : h[j][z] = add_(z, M)
  OBVIOUS
<1>. HIDE DEF h
<1>11. PICK f \in [Nat -> S] : Unrolls(f, y, h)
  BY <1>8, <1>9, Recursion
<1>12. f[0] = y /\ \A i \in Nat : f[i + 1] = add_(f[i], M)
  <2>1. f[0] = y /\ \A i \in Nat : f[i + 1] = h[i + 1][f[i]]
    BY <1>11 DEF Unrolls
  <2>2. \A i \in Nat : f[i] \in S /\ i + 1 \in Nat
    BY <1>11
  <2> QED BY <1>10, <2>1, <2>2
<1>13. Right(f)
  <2>1. \A k \in Nat : k = 0 \/ (k - 1 \in Nat /\ (k - 1) + 1 = k)
    OBVIOUS
  <2>2. \A k \in Nat : f[k] = IF k = 0 THEN y ELSE add_(f[k - 1], M)
    BY <1>12, <2>1
  <2> QED BY <1>11, <2>2
<1>. HIDE DEF Right, Stops
<1>14. Right(up)
  BY <1>13
<1>. HIDE DEF up
<1>15. \A k \in Nat : up[k] = IF k = 0 THEN y ELSE add_(up[k - 1], M)
  BY <1>14 DEF Right
<1>16. \A k \in 0..rr : up[k] \in S /\ Signed(up[k]) = c + k * m
  <2>. DEFINE G == {k \in 0..rr : up[k] \in S /\ Signed(up[k]) = c + k * m}
  <2>1. 0 \in G
    <3>1. up[0] = y /\ Signed(y) = c + 0 * m /\ 0 \in 0..rr
      BY <1>1, <1>3, <1>4, <1>15 DEF c
    <3> QED BY <1>8, <3>1
  <2>2. ASSUME NEW k \in 1..rr, k - 1 \in G PROVE k \in G
    <3>. DEFINE z == up[k - 1]
                p == (k - 1) * m
    <3>1. z \in Num(Wide) /\ Signed(z) = c + p
      BY <2>2 DEF S
    <3>2. up[k] = add_(z, M)
      BY <1>15
    <3>3. p \in Nat /\ k * m = p + m /\ p + m <= rr * m /\ rr * m = m * rr
      <4>1. k - 1 \in Nat /\ k - 1 <= rr - 1
        BY <1>4
      <4>2. (k - 1) * m \in Nat /\ k * m = (k - 1) * m + m
        BY <1>1, <4>1
      <4>3. k * m <= rr * m /\ rr * m = m * rr
        BY <1>1, <1>4
      <4> QED BY <4>2, <4>3
    <3>. HIDE DEF z, p
    <3>4. -range(Wide) <= Signed(z) + Value(M) /\ Signed(z) + Value(M) < range(Wide)
      BY <1>1, <1>2, <1>3, <1>5, <3>1, <3>3 DEF c
    <3>5. add_(z, M) \in Num(Wide) /\ Signed(add_(z, M)) = Signed(z) + Value(M)
      BY <1>1, <1>2, <3>1, <3>4, AddSigned
    <3>6. up[k] \in S /\ Signed(up[k]) = c + k * m
      BY <1>1, <1>3, <3>1, <3>2, <3>3, <3>5 DEF S
    <3>7. k \in 0..rr
      OBVIOUS
    <3> QED BY <3>6, <3>7
  <2>. HIDE DEF G
  <2>3. 0..rr \subseteq G
    BY <1>4, <2>1, <2>2, UpTo
  <2> QED BY <2>3 DEF G
<1>17. \A k \in 0..rr : negative(up[k]) <=> c + k * m < 0
  <2>1. ASSUME NEW k \in 0..rr PROVE negative(up[k]) <=> c + k * m < 0
    <3>1. up[k] \in Num(Wide) /\ Signed(up[k]) = c + k * m
      BY <1>16 DEF S
    <3>2. negative(up[k]) <=> Signed(up[k]) < 0
      BY <1>2, <3>1, SignedFacts
    <3> QED BY <3>1, <3>2
  <2> QED BY <2>1
<1>18. \E k \in 0..rr : Stops(k)
  <2>. DEFINE T == {k \in 0..rr : ~(c + k * m < 0)}
  <2>1. rr \in T
    <3>1. rr * m = m * rr
      BY <1>1, <1>4
    <3>2. ~(c + rr * m < 0)
      BY <1>1, <1>3, <1>5, <3>1 DEF c
    <3>3. rr \in 0..rr
      BY <1>4
    <3> QED BY <3>2, <3>3
  <2>2. T \in SUBSET Nat /\ T # {}
    BY <2>1
  <2>3. PICK k \in T : \A j \in T : k <= j
    <3>. HIDE DEF T
    <3> QED BY <2>2, LeastExists
  <2>4. k \in 0..rr /\ ~(c + k * m < 0)
    OBVIOUS
  <2>5. \A j \in 0..(k - 1) : negative(up[j])
    <3>1. ASSUME NEW j \in 0..(k - 1) PROVE negative(up[j])
      <4>1. j \in 0..rr /\ ~(k <= j)
        BY <1>4, <2>4
      <4>2. c + j * m < 0
        BY <2>3, <4>1
      <4> QED BY <1>17, <4>1, <4>2
    <3> QED BY <3>1
  <2>6. Stops(k)
    BY <1>17, <2>4, <2>5 DEF Stops
  <2> QED BY <2>4, <2>6
<1>19. n \in 0..rr /\ Stops(n)
  BY <1>18
<1>. HIDE DEF n
<1>20. ~negative(up[n]) /\ up[n] \in Num(Wide) /\ Signed(up[n]) = c + n * m
  BY <1>16, <1>19 DEF Stops, S
<1>21. n \in Nat /\ n * m \in Nat
  BY <1>1, <1>19
<1>22. c + n * m >= 0
  BY <1>3, <1>17, <1>19, <1>20, <1>21
<1>23. c + n * m < m * rr
  <2>1. CASE n = 0
    BY <1>1, <1>3, <1>5, <2>1 DEF c
  <2>2. CASE n > 0
    <3>1. n - 1 \in 0..(n - 1) /\ n - 1 \in 0..rr
      BY <1>4, <1>19, <1>21, <2>2
    <3>2. c + (n - 1) * m < 0
      BY <1>17, <1>19, <3>1 DEF Stops
    <3>3. (n - 1) * m = n * m - m
      BY <1>1, <1>21
    <3>4. m * rr >= m
      BY <1>1, <1>4
    <3> QED BY <1>1, <1>3, <1>5, <1>21, <3>2, <3>3, <3>4
  <2> QED BY <1>21, <2>1, <2>2
<1>24. Value(up[n]) = c + n * m
  <2>1. /\ negative(up[n]) <=> Value(up[n]) >= range(Wide)
        /\ Value(up[n]) < range(Wide) <=> Signed(up[n]) = Value(up[n])
    <3>1. negative(up[n]) <=> Value(up[n]) >= range(Wide)
      BY <1>2, <1>20, NegativeRight
    <3>2. Value(up[n]) < range(Wide) <=> Signed(up[n]) = Value(up[n])
      BY <1>2, <1>20, SignedFacts
    <3> QED BY <3>1, <3>2
  <2>2. Value(up[n]) \in Nat
    BY <1>2, <1>20, ValueBounds
  <2> QED BY <1>3, <1>20, <2>1, <2>2
<1>25. Value(up[n]) < power(radix, Size(X))
  <2>1. power(radix, Size(X)) \in Nat
    BY <1>1, PlaceFacts
  <2> QED BY <1>2, <1>3, <1>5, <1>21, <1>23, <1>24, <2>1
<1>26. copy(Size(X), up[n]) \in Num(Size(X)) /\ Value(copy(Size(X), up[n])) = Value(up[n])
  BY <1>1, <1>2, <1>20, <1>25, CopyFits
<1>27. \E k \in Nat : Value(copy(Size(X), NonNegative(y))) = c + k * m
  BY <1>6, <1>21, <1>24, <1>26
<1> QED BY <1>6, <1>26, <1>27 DEF c, m

-----------------------------------------------------------------------------
(* The inverse: the registers. *)

Registers == [u : Num(Wide), v : Num(Wide), A : Num(Wide), B : Num(Wide),
              C : Num(Wide), D : Num(Wide)]

PairOf(r) ==
    Pair(BaseOf(1), call.m, Value(r.u), Value(r.v),
         Signed(r.A), Signed(r.B), Signed(r.C), Signed(r.D))

\* Between two iterations.
Loop(r) ==
    /\ r \in Registers
    /\ ~(BaseOf(1) % 2 = 0 /\ call.m % 2 = 0)
    /\ PairOf(r)
    /\ Value(r.v) > 0
    /\ BaseOf(1) # 0 => Value(r.u) > 0

\* What the registers stand for.
LEMMA RegisterFacts ==
    ASSUME call \in Calls, NEW r \in Registers
    PROVE  /\ r.u \in Num(Wide) /\ r.v \in Num(Wide) /\ r.A \in Num(Wide)
           /\ r.B \in Num(Wide) /\ r.C \in Num(Wide) /\ r.D \in Num(Wide)
           /\ Value(r.u) \in Nat /\ Value(r.v) \in Nat
           /\ Signed(r.A) \in Int /\ Signed(r.B) \in Int
           /\ Signed(r.C) \in Int /\ Signed(r.D) \in Int
           /\ IsEven(r.u) <=> Value(r.u) % 2 = 0
           /\ IsEven(r.v) <=> Value(r.v) % 2 = 0
<1>1. /\ r.u \in Num(Wide) /\ r.v \in Num(Wide) /\ r.A \in Num(Wide)
      /\ r.B \in Num(Wide) /\ r.C \in Num(Wide) /\ r.D \in Num(Wide)
  BY DEF Registers
<1>2. Wide \in Nat /\ Wide > 0
  BY WideFacts
<1>3. \A y \in Num(Wide) : Value(y) \in Nat
  BY <1>2, ValueBounds
<1>4. \A y \in Num(Wide) : Signed(y) \in Int
  BY <1>2, SignedFacts
<1>5. \A y \in Num(Wide) : IsEven(y) <=> Value(y) % 2 = 0
  BY <1>2, EvenRight
<1>. HIDE DEF Registers
<1> QED BY <1>1, <1>3, <1>4, <1>5

\* The numbers that the loop starts with.
LEMMA LoopStart ==
    ASSUME call \in Calls, ~(IsEven(X) /\ IsEven(M)),
           NEW r, r = [u |-> copy(Wide, X), v |-> copy(Wide, M),
                       A |-> copyInt(Wide, 1), B |-> copyInt(Wide, 0),
                       C |-> copyInt(Wide, 0), D |-> copyInt(Wide, 1)]
    PROVE  Loop(r)
<1>. DEFINE x == BaseOf(1)
            m == call.m
<1>1. /\ x \in Nat /\ m \in Nat /\ m > 1
      /\ Size(X) \in Nat /\ X \in Num(Size(X)) /\ Value(X) = x
      /\ Size(M) \in Nat /\ M \in Num(Size(M)) /\ Value(M) = m
      /\ Size(M) > 0 /\ Size(X) > 0
  <2>1. Size(X) > 0
    BY ArgFacts
  <2> QED BY <2>1, ArgFacts
<1>2. /\ Wide \in Nat /\ Wide > 0 /\ Size(X) <= Wide /\ Size(M) <= Wide
      /\ range(Wide) - 1 \in Nat /\ x + m <= range(Wide) - 1
  BY WideFacts
<1>3. IsEven(X) <=> x % 2 = 0
  BY <1>1, EvenRight
<1>4. IsEven(M) <=> m % 2 = 0
  BY <1>1, EvenRight
<1>5. range(Wide) \in Nat /\ 1 < range(Wide)
  <2>1. range(Wide) \in Nat
    BY <1>2, RangeFacts
  <2> QED BY <1>1, <1>2, <2>1
<1>. HIDE DEF x, m
<1>6. copy(Wide, X) \in Num(Wide) /\ Value(copy(Wide, X)) = x
  <2>1. \A i \in Wide..(Size(X) - 1) : X[i] = 0
    BY <1>1, <1>2
  <2>2. copy(Wide, X) \in Num(Wide) /\ Value(copy(Wide, X)) = Value(X)
    BY <1>1, <1>2, <2>1, CopyWhole
  <2> QED BY <1>1, <2>2
<1>7. copy(Wide, M) \in Num(Wide) /\ Value(copy(Wide, M)) = m
  <2>1. \A i \in Wide..(Size(M) - 1) : M[i] = 0
    BY <1>1, <1>2
  <2>2. copy(Wide, M) \in Num(Wide) /\ Value(copy(Wide, M)) = Value(M)
    BY <1>1, <1>2, <2>1, CopyWhole
  <2> QED BY <1>1, <2>2
<1>8. \A w \in {0, 1} : copyInt(Wide, w) \in Num(Wide) /\ Signed(copyInt(Wide, w)) = w
  <2>1. ASSUME NEW w \in {0, 1}
        PROVE  copyInt(Wide, w) \in Num(Wide) /\ Signed(copyInt(Wide, w)) = w
    <3>1. w \in 0..mask
      BY RadixFacts
    <3>2. copyInt(Wide, w) \in Num(Wide) /\ Value(copyInt(Wide, w)) = w
      BY <1>2, <3>1, CopyIntFacts
    <3>3. Value(copyInt(Wide, w)) < range(Wide)
      BY <1>5, <3>2
    <3>4. Signed(copyInt(Wide, w)) = Value(copyInt(Wide, w))
      BY <1>2, <3>2, <3>3, SignedFacts
    <3> QED BY <3>2, <3>4
  <2> QED BY <2>1
<1>. DEFINE one == copyInt(Wide, 1)
            zero == copyInt(Wide, 0)
<1>9. one \in Num(Wide) /\ Signed(one) = 1 /\ zero \in Num(Wide) /\ Signed(zero) = 0
  <2>1. 0 \in {0, 1} /\ 1 \in {0, 1}
    OBVIOUS
  <2> QED BY <1>8, <2>1
<1>. HIDE DEF one, zero
<1>10. r = [u |-> copy(Wide, X), v |-> copy(Wide, M), A |-> one, B |-> zero, C |-> zero, D |-> one]
  BY DEF one, zero
<1>11. r \in Registers
  BY <1>6, <1>7, <1>9, <1>10 DEF Registers
<1>12. /\ Value(r.u) = x /\ Value(r.v) = m
       /\ Signed(r.A) = 1 /\ Signed(r.B) = 0 /\ Signed(r.C) = 0 /\ Signed(r.D) = 1
  BY <1>6, <1>7, <1>9, <1>10
<1>13. Row(x, m, x, 1, 0) /\ Row(x, m, m, 0, 1)
  BY <1>1 DEF Row
<1>14. Halved(x, m, x, m, 1, 0, 0, 1, 0)
  <2>1. 0 < radix * radix - 1
    <3>1. radix \in Nat /\ radix >= 4
      BY RadixFacts
    <3>2. radix * radix >= radix /\ radix * radix \in Nat
      BY <3>1
    <3> QED BY <3>1, <3>2
  <2>2. (x * m) * power(2, 0) <= x * m
    <3>1. PICK two \in Nat : two = 2
      OBVIOUS
    <3>2. power(two, 0) = 1
      BY PowerOne
    <3>3. x * m \in Nat /\ (x * m) * 1 = x * m
      BY <1>1
    <3> QED BY <3>1, <3>2, <3>3
  <2>3. \A t \in Nat : t * (1 + 0) = t
    OBVIOUS
  <2>4. \A t \in Nat : \A w : t >= 1 => Within(1, w, t, 0) /\ Within(0, w, t, 0)
    BY <2>3 DEF Within
  <2>5. m >= 1 /\ x + m >= 1 /\ x + m \in Nat
    BY <1>1
  <2> QED BY <1>1, <2>1, <2>2, <2>4, <2>5 DEF Halved, Scaled
<1>15. Pair(x, m, x, m, 1, 0, 0, 1)
  <2>1. x + m <= x + m
    BY <1>1
  <2>2. 0 \in Nat
    OBVIOUS
  <2> QED BY <1>13, <1>14, <2>1, <2>2 DEF Pair
<1>16. PairOf(r)
  BY <1>12, <1>15 DEF PairOf, x, m
<1>17. ~(x % 2 = 0 /\ m % 2 = 0) /\ m > 0 /\ (x # 0 => x > 0)
  BY <1>1, <1>3, <1>4
<1> QED BY <1>11, <1>12, <1>16, <1>17 DEF Loop, x, m

\* An iteration that halves u,
LEMMA LoopHalveU ==
    ASSUME call \in Calls, NEW r, Loop(r), IsEven(r.u),
           NEW z, z = [r EXCEPT !.u = halve(@), !.A = Half(r.A, r.B)[1], !.B = Half(r.A, r.B)[2]]
    PROVE  /\ Loop(z)
           /\ BaseOf(1) # 0 => Value(z.u) + Value(z.v) < Value(r.u) + Value(r.v)
<1>. DEFINE x == BaseOf(1)
            m == call.m
            u == Value(r.u)
            v == Value(r.v)
            h == halve(r.u)
            f == Half(r.A, r.B)[1]
            g == Half(r.A, r.B)[2]
            a == Signed(r.A)
            b == Signed(r.B)
            c == Signed(r.C)
            d == Signed(r.D)
<1>1. r \in Registers
  BY DEF Loop
<1>2. /\ r.u \in Num(Wide) /\ r.v \in Num(Wide) /\ r.A \in Num(Wide)
      /\ r.B \in Num(Wide) /\ r.C \in Num(Wide) /\ r.D \in Num(Wide)
  BY <1>1, RegisterFacts
<1>3. u \in Nat /\ v \in Nat /\ a \in Int /\ b \in Int /\ c \in Int /\ d \in Int /\ u % 2 = 0
  BY <1>1, RegisterFacts
<1>4. x \in Nat /\ m \in Nat /\ \E l \in 1..(radix * radix - 1) : x * m < power(2, l)
  BY ArgFacts
<1>5. Wide \in Nat /\ Wide > 0 /\ range(Wide) \in Nat
  <2>1. Wide \in Nat /\ Wide > 0
    BY WideFacts
  <2> QED BY <2>1, RangeFacts
<1>6. PICK q : q = range(Wide) - 1
  OBVIOUS
<1>7. Pair(x, m, u, v, a, b, c, d)
  BY DEF Loop, PairOf
<1>8. /\ q \in Nat /\ u <= q
      /\ -q <= a /\ a + m <= q /\ b <= q /\ -q <= b - x
  BY <1>3, <1>6, <1>7, PairBounds
<1>9. h \in Num(Wide) /\ 2 * Value(h) = u
  <2>1. u < range(Wide)
    BY <1>3, <1>5, <1>6, <1>8
  <2> QED BY <1>2, <1>3, <1>5, <2>1, HalveNat
<1>10. /\ f \in Num(Wide) /\ g \in Num(Wide)
       /\ \/ 2 * Signed(f) = a /\ 2 * Signed(g) = b
          \/ 2 * Signed(f) = a + m /\ 2 * Signed(g) = b - x
  <2>1. (a * x + b * m) % 2 = 0
    BY <1>3, <1>7 DEF Pair, Row
  <2>2. ~(x % 2 = 0 /\ m % 2 = 0)
    BY DEF Loop
  <2> QED BY <1>2, <1>6, <1>8, <2>1, <2>2, HalfRight
<1>11. z = [u |-> h, v |-> r.v, A |-> f, B |-> g, C |-> r.C, D |-> r.D]
  BY <1>1 DEF Registers
<1>12. z.u = h /\ z.v = r.v /\ z.A = f /\ z.B = g /\ z.C = r.C /\ z.D = r.D
  BY <1>1 DEF Registers
<1>. HIDE DEF h, f, g
<1>13. z \in Registers
  BY <1>2, <1>9, <1>10, <1>11 DEF Registers
<1>14. Value(h) \in Nat /\ Signed(f) \in Int /\ Signed(g) \in Int
  BY <1>13, <1>12, RegisterFacts
<1>15. v > 0 /\ (x # 0 => u > 0)
  BY DEF Loop
<1>16. Pair(x, m, Value(h), v, Signed(f), Signed(g), c, d)
  <2>1. PICK l \in 1..(radix * radix - 1) : x * m < power(2, l)
    BY <1>4
  <2>. HIDE DEF x, m, u, v, a, b, c, d
  <2> QED BY <1>3, <1>4, <1>7, <1>9, <1>10, <1>14, <1>15, <2>1, PairHalf
<1>17. PairOf(z)
  BY <1>12, <1>16 DEF PairOf
<1>18. x # 0 => Value(h) > 0 /\ Value(h) < u
  BY <1>3, <1>9, <1>14, <1>15
<1>19. Loop(z)
  <2>1. ~(x % 2 = 0 /\ m % 2 = 0)
    BY DEF Loop
  <2> QED BY <1>13, <1>12, <1>15, <1>17, <1>18, <2>1 DEF Loop
<1>20. x # 0 => Value(z.u) + Value(z.v) < u + v
  BY <1>3, <1>12, <1>14, <1>18
<1> QED BY <1>19, <1>20

\* one that halves v,
LEMMA LoopHalveV ==
    ASSUME call \in Calls, NEW r, Loop(r), ~IsEven(r.u), IsEven(r.v),
           NEW z, z = [r EXCEPT !.v = halve(@), !.C = Half(r.C, r.D)[1], !.D = Half(r.C, r.D)[2]]
    PROVE  Loop(z) /\ Value(z.u) + Value(z.v) < Value(r.u) + Value(r.v)
<1>. DEFINE x == BaseOf(1)
            m == call.m
            u == Value(r.u)
            v == Value(r.v)
            h == halve(r.v)
            f == Half(r.C, r.D)[1]
            g == Half(r.C, r.D)[2]
            a == Signed(r.A)
            b == Signed(r.B)
            c == Signed(r.C)
            d == Signed(r.D)
<1>1. r \in Registers
  BY DEF Loop
<1>2. /\ r.u \in Num(Wide) /\ r.v \in Num(Wide) /\ r.A \in Num(Wide)
      /\ r.B \in Num(Wide) /\ r.C \in Num(Wide) /\ r.D \in Num(Wide)
  BY <1>1, RegisterFacts
<1>3. /\ u \in Nat /\ v \in Nat /\ a \in Int /\ b \in Int /\ c \in Int /\ d \in Int
      /\ u % 2 # 0 /\ v % 2 = 0
  BY <1>1, RegisterFacts
<1>4. x \in Nat /\ m \in Nat /\ \E l \in 1..(radix * radix - 1) : x * m < power(2, l)
  BY ArgFacts
<1>5. Wide \in Nat /\ Wide > 0 /\ range(Wide) \in Nat
  <2>1. Wide \in Nat /\ Wide > 0
    BY WideFacts
  <2> QED BY <2>1, RangeFacts
<1>6. PICK q : q = range(Wide) - 1
  OBVIOUS
<1>7. Pair(x, m, u, v, a, b, c, d)
  BY DEF Loop, PairOf
<1>8. Pair(x, m, v, u, c, d, a, b)
  BY <1>4, <1>7, PairSwaps
<1>9. /\ q \in Nat /\ v <= q
      /\ -q <= c /\ c + m <= q /\ d <= q /\ -q <= d - x
  BY <1>3, <1>6, <1>8, PairBounds
<1>10. h \in Num(Wide) /\ 2 * Value(h) = v
  <2>1. v < range(Wide)
    BY <1>3, <1>5, <1>6, <1>9
  <2> QED BY <1>2, <1>3, <1>5, <2>1, HalveNat
<1>11. /\ f \in Num(Wide) /\ g \in Num(Wide)
       /\ \/ 2 * Signed(f) = c /\ 2 * Signed(g) = d
          \/ 2 * Signed(f) = c + m /\ 2 * Signed(g) = d - x
  <2>1. (c * x + d * m) % 2 = 0
    BY <1>3, <1>7 DEF Pair, Row
  <2>2. ~(x % 2 = 0 /\ m % 2 = 0)
    BY DEF Loop
  <2> QED BY <1>2, <1>6, <1>9, <2>1, <2>2, HalfRight
<1>12. z = [u |-> r.u, v |-> h, A |-> r.A, B |-> r.B, C |-> f, D |-> g]
  BY <1>1 DEF Registers
<1>13. z.u = r.u /\ z.v = h /\ z.A = r.A /\ z.B = r.B /\ z.C = f /\ z.D = g
  BY <1>1 DEF Registers
<1>. HIDE DEF h, f, g
<1>14. z \in Registers
  BY <1>2, <1>10, <1>11, <1>12 DEF Registers
<1>15. Value(h) \in Nat /\ Signed(f) \in Int /\ Signed(g) \in Int
  BY <1>13, <1>14, RegisterFacts
<1>16. v > 0 /\ u > 0
  BY <1>3 DEF Loop
<1>17. Pair(x, m, Value(h), u, Signed(f), Signed(g), a, b)
  <2>1. PICK l \in 1..(radix * radix - 1) : x * m < power(2, l)
    BY <1>4
  <2>. HIDE DEF x, m, u, v, a, b, c, d
  <2> QED BY <1>3, <1>4, <1>8, <1>10, <1>11, <1>15, <1>16, <2>1, PairHalf
<1>18. Pair(x, m, u, Value(h), a, b, Signed(f), Signed(g))
  BY <1>4, <1>17, PairSwaps
<1>19. PairOf(z)
  BY <1>13, <1>18 DEF PairOf
<1>20. Value(h) > 0 /\ Value(h) < v
  BY <1>3, <1>10, <1>15, <1>16
<1>21. Loop(z)
  <2>1. ~(x % 2 = 0 /\ m % 2 = 0)
    BY DEF Loop
  <2> QED BY <1>13, <1>14, <1>16, <1>19, <1>20, <2>1 DEF Loop
<1>22. Value(z.u) + Value(z.v) < u + v
  BY <1>3, <1>13, <1>15, <1>20
<1> QED BY <1>21, <1>22

\* The factors that a subtraction leaves fit in their arrays.
LEMMA FactorsFit ==
    ASSUME call \in Calls, NEW w \in Nat, NEW v \in Nat,
           NEW e \in Int, NEW f \in Int, NEW c \in Int, NEW d \in Int,
           Pair(BaseOf(1), call.m, w, v, e, f, c, d)
    PROVE  /\ -range(Wide) <= e /\ e < range(Wide)
           /\ -range(Wide) <= f /\ f < range(Wide)
<1>1. range(Wide) \in Nat
  <2>1. Wide \in Nat /\ Wide > 0
    BY WideFacts
  <2> QED BY <2>1, RangeFacts
<1>2. PICK q : q = range(Wide) - 1
  OBVIOUS
<1>3. q \in Nat /\ -q <= e /\ e <= q /\ -q <= f /\ f <= q
  BY <1>2, PairBounds
<1> QED BY <1>1, <1>2, <1>3

\* one that subtracts u from v
LEMMA LoopSubtractV ==
    ASSUME call \in Calls, NEW r, Loop(r), ~IsEven(r.u), ~IsEven(r.v), greater(r.v, r.u),
           NEW z, z = [r EXCEPT !.v = sub_(@, r.u), !.C = sub_(@, r.A), !.D = sub_(@, r.B)]
    PROVE  /\ Loop(z) /\ Value(z.u) # 0
           /\ Value(z.u) + Value(z.v) < Value(r.u) + Value(r.v)
<1>. DEFINE x == BaseOf(1)
            m == call.m
            u == Value(r.u)
            v == Value(r.v)
            h == sub_(r.v, r.u)
            f == sub_(r.C, r.A)
            g == sub_(r.D, r.B)
            a == Signed(r.A)
            b == Signed(r.B)
            c == Signed(r.C)
            d == Signed(r.D)
<1>1. r \in Registers
  BY DEF Loop
<1>2. /\ r.u \in Num(Wide) /\ r.v \in Num(Wide) /\ r.A \in Num(Wide)
      /\ r.B \in Num(Wide) /\ r.C \in Num(Wide) /\ r.D \in Num(Wide)
  BY <1>1, RegisterFacts
<1>3. /\ u \in Nat /\ v \in Nat /\ a \in Int /\ b \in Int /\ c \in Int /\ d \in Int
      /\ u % 2 # 0 /\ v % 2 # 0
  BY <1>1, RegisterFacts
<1>4. x \in Nat /\ m \in Nat
  BY ArgFacts
<1>5. Wide \in Nat /\ Wide > 0
  BY WideFacts
<1>6. v > u
  BY <1>2, <1>5, GreaterRight
<1>7. Pair(x, m, v, u, c, d, a, b)
  <2>1. Pair(x, m, u, v, a, b, c, d)
    BY DEF Loop, PairOf
  <2> QED BY <1>4, <2>1, PairSwaps
<1>8. h \in Num(Wide) /\ Value(h) = v - u
  <2>1. u <= v
    BY <1>3, <1>6
  <2> QED BY <1>2, <1>5, <2>1, SubNat
<1>9. v - u \in Nat /\ v - u > 0 /\ v - u < v /\ u > 0 /\ u % 2 = 1 /\ v % 2 = 1 /\ u <= v
  BY <1>3, <1>6
<1>10. Pair(x, m, v - u, u, c - a, d - b, a, b)
  <2>. HIDE DEF x, m, u, v, a, b, c, d
  <2> QED BY <1>3, <1>4, <1>7, <1>9, PairLess
<1>11. /\ f \in Num(Wide) /\ Signed(f) = c - a
       /\ g \in Num(Wide) /\ Signed(g) = d - b
  <2>1. PICK e, k, w : e = c - a /\ k = d - b /\ w = v - u
    OBVIOUS
  <2>2. Pair(x, m, w, u, e, k, Signed(r.A), Signed(r.B))
    BY <1>10, <2>1
  <2>3. w \in Nat /\ e \in Int /\ k \in Int
    <3>. HIDE DEF u, v, a, b, c, d
    <3> QED BY <1>3, <1>9, <2>1
  <2>4. /\ -range(Wide) <= e /\ e < range(Wide)
        /\ -range(Wide) <= k /\ k < range(Wide)
    <3>. HIDE DEF u, v, a, b, c, d
    <3>1. Pair(BaseOf(1), call.m, w, u, e, k, a, b)
      BY <2>2 DEF u, v, a, b, c, d
    <3> QED BY <1>3, <2>3, <3>1, FactorsFit
  <2>5. f \in Num(Wide) /\ Signed(f) = e
    BY <1>2, <1>5, <2>1, <2>4, SubBoth
  <2>6. g \in Num(Wide) /\ Signed(g) = k
    BY <1>2, <1>5, <2>1, <2>4, SubBoth
  <2> QED BY <2>1, <2>5, <2>6
<1>12. z = [u |-> r.u, v |-> h, A |-> r.A, B |-> r.B, C |-> f, D |-> g]
  BY <1>1 DEF Registers
<1>13. z.u = r.u /\ z.v = h /\ z.A = r.A /\ z.B = r.B /\ z.C = f /\ z.D = g
  BY <1>1 DEF Registers
<1>. HIDE DEF h, f, g
<1>14. z \in Registers
  BY <1>2, <1>8, <1>11, <1>12 DEF Registers
<1>15. Pair(x, m, u, v - u, a, b, c - a, d - b)
  BY <1>4, <1>10, PairSwaps
<1>16. PairOf(z)
  BY <1>8, <1>11, <1>13, <1>15 DEF PairOf
<1>17. Loop(z)
  <2>1. ~(x % 2 = 0 /\ m % 2 = 0)
    BY DEF Loop
  <2> QED BY <1>8, <1>9, <1>13, <1>14, <1>16, <2>1 DEF Loop
<1>18. Value(z.u) # 0 /\ Value(z.u) + Value(z.v) < u + v
  BY <1>3, <1>8, <1>9, <1>13
<1> QED BY <1>17, <1>18

\* and one that subtracts v from u.
LEMMA LoopSubtractU ==
    ASSUME call \in Calls, NEW r, Loop(r), ~IsEven(r.u), ~IsEven(r.v), ~greater(r.v, r.u),
           NEW z, z = [r EXCEPT !.u = sub_(@, r.v), !.A = sub_(@, r.C), !.B = sub_(@, r.D)]
    PROVE  /\ z \in Registers /\ PairOf(z) /\ z.v = r.v /\ z.C = r.C
           /\ Value(z.u) # 0 =>
                Loop(z) /\ Value(z.u) + Value(z.v) < Value(r.u) + Value(r.v)
<1>. DEFINE x == BaseOf(1)
            m == call.m
            u == Value(r.u)
            v == Value(r.v)
            h == sub_(r.u, r.v)
            f == sub_(r.A, r.C)
            g == sub_(r.B, r.D)
            a == Signed(r.A)
            b == Signed(r.B)
            c == Signed(r.C)
            d == Signed(r.D)
<1>1. r \in Registers
  BY DEF Loop
<1>2. /\ r.u \in Num(Wide) /\ r.v \in Num(Wide) /\ r.A \in Num(Wide)
      /\ r.B \in Num(Wide) /\ r.C \in Num(Wide) /\ r.D \in Num(Wide)
  BY <1>1, RegisterFacts
<1>3. /\ u \in Nat /\ v \in Nat /\ a \in Int /\ b \in Int /\ c \in Int /\ d \in Int
      /\ u % 2 # 0 /\ v % 2 # 0
  BY <1>1, RegisterFacts
<1>4. x \in Nat /\ m \in Nat
  BY ArgFacts
<1>5. Wide \in Nat /\ Wide > 0
  BY WideFacts
<1>6. ~(v > u)
  BY <1>2, <1>5, GreaterRight
<1>7. Pair(x, m, u, v, a, b, c, d)
  BY DEF Loop, PairOf
<1>8. h \in Num(Wide) /\ Value(h) = u - v
  <2>1. v <= u
    BY <1>3, <1>6
  <2> QED BY <1>2, <1>5, <2>1, SubNat
<1>9. u - v \in Nat /\ v > 0 /\ u - v < u /\ u % 2 = 1 /\ v % 2 = 1 /\ v <= u
  BY <1>3, <1>6
<1>10. Pair(x, m, u - v, v, a - c, b - d, c, d)
  <2>. HIDE DEF x, m, u, v, a, b, c, d
  <2> QED BY <1>3, <1>4, <1>7, <1>9, PairLess
<1>11. /\ f \in Num(Wide) /\ Signed(f) = a - c
       /\ g \in Num(Wide) /\ Signed(g) = b - d
  <2>1. PICK e, k, w : e = a - c /\ k = b - d /\ w = u - v
    OBVIOUS
  <2>2. Pair(x, m, w, v, e, k, Signed(r.C), Signed(r.D))
    BY <1>10, <2>1
  <2>3. w \in Nat /\ e \in Int /\ k \in Int
    <3>. HIDE DEF u, v, a, b, c, d
    <3> QED BY <1>3, <1>9, <2>1
  <2>4. /\ -range(Wide) <= e /\ e < range(Wide)
        /\ -range(Wide) <= k /\ k < range(Wide)
    <3>. HIDE DEF u, v, a, b, c, d
    <3>1. Pair(BaseOf(1), call.m, w, v, e, k, c, d)
      BY <2>2 DEF u, v, a, b, c, d
    <3> QED BY <1>3, <2>3, <3>1, FactorsFit
  <2>5. f \in Num(Wide) /\ Signed(f) = e
    BY <1>2, <1>5, <2>1, <2>4, SubBoth
  <2>6. g \in Num(Wide) /\ Signed(g) = k
    BY <1>2, <1>5, <2>1, <2>4, SubBoth
  <2> QED BY <2>1, <2>5, <2>6
<1>12. z = [u |-> h, v |-> r.v, A |-> f, B |-> g, C |-> r.C, D |-> r.D]
  BY <1>1 DEF Registers
<1>13. z.u = h /\ z.v = r.v /\ z.A = f /\ z.B = g /\ z.C = r.C /\ z.D = r.D
  BY <1>1 DEF Registers
<1>. HIDE DEF h, f, g
<1>14. z \in Registers
  BY <1>2, <1>8, <1>11, <1>12 DEF Registers
<1>15. PairOf(z)
  BY <1>8, <1>10, <1>11, <1>13 DEF PairOf
<1>16. ASSUME Value(z.u) # 0 PROVE Loop(z) /\ Value(z.u) + Value(z.v) < u + v
  <2>1. ~(x % 2 = 0 /\ m % 2 = 0)
    BY DEF Loop
  <2>2. Value(z.u) > 0
    BY <1>8, <1>9, <1>13, <1>16
  <2>3. Loop(z)
    BY <1>9, <1>13, <1>14, <1>15, <2>1, <2>2 DEF Loop
  <2>4. Value(z.u) + Value(z.v) < u + v
    BY <1>3, <1>8, <1>9, <1>13
  <2> QED BY <2>3, <2>4
<1> QED BY <1>13, <1>14, <1>15, <1>16

\* What the inverse is when u has come to 0, y being the answer.
LEMMA LoopAnswer ==
    ASSUME call \in Calls, NEW r, Loop(r), ~IsEven(r.v), NEW z, PairOf(z), z \in Registers,
           z.v = r.v, Value(z.u) = 0,
           NEW y, y = IF Value(r.v) = 1 THEN <<bigint2mpi(copy(Size(X), NonNegative(r.C)))>>
                      ELSE <<>>
    PROVE  /\ y \in Seq(Nat)
           /\ IF \E i \in 0..(call.m - 1) : (i * BaseOf(1)) % call.m = 1
              THEN y # <<>> /\ (y[1] * BaseOf(1)) % call.m = 1
              ELSE y = <<>>
<1>. DEFINE x == BaseOf(1)
            m == call.m
            v == Value(r.v)
            c == Signed(r.C)
            d == Signed(r.D)
            Exists == \E i \in 0..(m - 1) : (i * x) % m = 1
<1>1. r \in Registers
  BY DEF Loop
<1>2. x \in Nat /\ m \in Nat /\ m > 1 /\ Size(X) \in Nat
  BY ArgFacts
<1>3. v \in Nat /\ v > 0 /\ v % 2 # 0 /\ c \in Int /\ d \in Int /\ r.C \in Num(Wide)
  <2>1. v > 0
    BY DEF Loop
  <2> QED BY <1>1, <2>1, RegisterFacts
<1>4. CASE v = 1
  <2>. DEFINE t == copy(Size(X), NonNegative(r.C))
  <2>1. PICK s \in Nat : /\ s < radix * radix - 1
                         /\ Within(c, v, m, s)
    BY DEF Loop, PairOf, Pair, Halved, Scaled
  <2>2. PICK b : b = m * (radix * radix - 1)
    OBVIOUS
  <2>3. -b <= c /\ c <= b
    <3>. DEFINE k == m * (1 + s)
    <3>1. -k <= c /\ c <= k
      BY <1>4, <2>1 DEF Within
    <3>2. radix * radix - 1 \in Int /\ 1 + s <= radix * radix - 1
      <4>1. radix \in Nat
        BY RadixFacts
      <4>2. radix * radix \in Nat
        BY <4>1
      <4>3. PICK rr : rr = radix * radix
        OBVIOUS
      <4> QED BY <2>1, <4>2, <4>3
    <3>. DEFINE rr == radix * radix - 1
    <3>3. rr \in Int /\ 1 + s <= rr /\ b = m * rr
      BY <2>2, <3>2
    <3>. HIDE DEF rr
    <3>4. k <= b /\ k \in Int /\ b \in Int
      BY <1>2, <3>3
    <3>. HIDE DEF k
    <3> QED BY <1>3, <3>1, <3>4
  <2>4. t \in Num(Size(X)) /\ \E k \in Nat : Value(t) = c + k * m
    BY <1>3, <2>2, <2>3, NonNegativeRight
  <2>5. bigint2mpi(t) = Value(t)
    BY <1>2, <2>4, ArrayToMpi
  <2>6. Value(t) \in Nat
    BY <1>2, <2>4, ValueBounds
  <2>7. y = <<Value(t)>>
    BY <1>4, <2>5
  <2>8. PICK w \in Nat : Value(t) = w /\ Above(w, c, m)
    BY <2>4, <2>6 DEF Above
  <2>9. Row(x, m, v, c, d)
    BY DEF Loop, PairOf, Pair
  <2>. HIDE DEF t, x, m, v, c, d, Exists
  <2>10. (w * x) % m = 1 /\ \E i \in 0..(m - 1) : (i * x) % m = 1
    <3>1. x \in Nat /\ m \in Nat /\ m > 1 /\ v = 1
      BY <1>2, <1>4
    <3> QED BY <2>8, <2>9, <3>1, InverseOf
  <2>11. Exists
    BY <2>10 DEF Exists
  <2>12. y \in Seq(Nat) /\ y # <<>> /\ y[1] = w
    <3>1. y = <<w>> /\ w \in Nat
      BY <2>7, <2>8
    <3>2. <<w>> \in Seq(Nat) /\ <<w>> # <<>> /\ <<w>>[1] = w
      BY <3>1
    <3> QED BY <3>1, <3>2, Zenon
  <2>13. (y[1] * x) % m = 1
    BY <2>10, <2>12
  <2> QED BY <2>11, <2>12, <2>13 DEF Exists, x, m
<1>5. CASE v # 1
  <2>1. v >= 2
    BY <1>3, <1>5
  <2>2. Divides(v, 0) /\ Divides(v, v)
    <3>1. 0 = 0 * v /\ v = 1 * v
      BY <1>3
    <3>2. 0 \in Int /\ 1 \in Int
      OBVIOUS
    <3> QED BY <3>1, <3>2 DEF Divides
  <2>3. \A e \in Nat : Divides(e, 0) /\ Divides(e, v) => Divides(e, x) /\ Divides(e, m)
    BY DEF PairOf, Pair
  <2>4. Divides(v, x) /\ Divides(v, m)
    BY <1>3, <2>2, <2>3
  <2>. HIDE DEF x, m, v
  <2>5. \A i \in 0..(m - 1) : (i * x) % m # 1
    BY <1>2, <1>3, <2>1, <2>4, NoInverse
  <2>6. y = <<>> /\ y \in Seq(Nat)
    BY <1>5 DEF v
  <2> QED BY <2>5, <2>6 DEF x, m
<1> QED BY <1>4, <1>5

-----------------------------------------------------------------------------
(* The inverse: the specification. *)

\* What inverseMod_ keeps from step to step.
Inverting ==
    /\ powers = <<>>
    /\ answer \in Seq(Nat)
    /\ pc \in {"invert", "gcd", "done"}
    /\ pc = "invert" => reg = NoRegisters /\ answer = <<>>
    /\ pc = "gcd" => Loop(reg) /\ answer = <<>>
    /\ pc = "done" => (reg = NoRegisters \/ reg \in Registers) /\ InverseRight

IInv ==
    /\ call \in Calls
    /\ call.op = "invm" => Inverting
    /\ call.op # "invm" => pc \in {"power", "even", "odd", "write", "done"}

\* What the specification says of a register and of a loop depends on the call only.
LEMMA SameCall ==
    ASSUME UNCHANGED call
    PROVE  /\ Registers' = Registers
           /\ \A r : Loop(r)' <=> Loop(r)
  BY DEF Registers, Loop, PairOf, Wide, X, M, BaseOf

\* Before the first step.
LEMMA InitIInv == Init => IInv
  BY DEF Init, IInv, Inverting

\* The pc says which of the two loops a call is in.
LEMMA InTheLoop ==
    ASSUME IInv, pc \in {"invert", "gcd"}
    PROVE  call \in Calls /\ call.op = "invm" /\ Inverting
  BY DEF IInv

\* Two even numbers have no inverse; others start the loop.
LEMMA StartInverseStep == IInv /\ StartInverse => IInv'
<1>. SUFFICES ASSUME IInv, StartInverse PROVE IInv'
  OBVIOUS
<1>1. /\ pc = "invert" /\ UNCHANGED <<call, powers, answer>>
      /\ call \in Calls /\ call.op = "invm" /\ Inverting
  BY InTheLoop DEF StartInverse
<1>2. reg = NoRegisters /\ answer = <<>> /\ powers = <<>>
  BY <1>1 DEF Inverting
<1>3. CASE IsEven(X) /\ IsEven(M)
  <2>1. pc' = "done" /\ reg' = NoRegisters /\ answer' = <<>> /\ powers' = <<>> /\ call' = call
    BY <1>1, <1>2, <1>3 DEF StartInverse
  <2>2. PICK x : x = BaseOf(1)
    OBVIOUS
  <2>3. PICK m : m = call.m
    OBVIOUS
  <2>4. x \in Nat /\ m \in Nat /\ m > 1
    BY <1>1, <2>2, <2>3, ArgFacts
  <2>5. x % 2 = 0 /\ m % 2 = 0
    <3>1. /\ Size(X) \in Nat /\ Size(X) > 0 /\ X \in Num(Size(X)) /\ Value(X) = x
          /\ Size(M) \in Nat /\ Size(M) > 0 /\ M \in Num(Size(M)) /\ Value(M) = m
      <4>1. Size(X) \in Nat /\ Size(X) - 2 \in Nat
        BY <1>1, ArgFacts
      <4>2. Size(X) > 0
        BY <4>1
      <4> QED BY <1>1, <2>2, <2>3, <4>2, ArgFacts
    <3>2. IsEven(X) <=> x % 2 = 0
      BY <3>1, EvenRight
    <3>3. IsEven(M) <=> m % 2 = 0
      BY <3>1, EvenRight
    <3> QED BY <1>3, <3>2, <3>3
  <2>6. PICK two \in Nat : two = 2
    OBVIOUS
  <2>7. Divides(two, x) /\ Divides(two, m)
    <3>1. x = (x \div 2) * 2 /\ x \div 2 \in Int /\ m = (m \div 2) * 2 /\ m \div 2 \in Int
      BY <2>4, <2>5
    <3> QED BY <2>6, <3>1 DEF Divides
  <2>8. \A i \in 0..(m - 1) : (i * x) % m # 1
    <3>1. two >= 2
      BY <2>6
    <3> QED BY <2>4, <2>7, <3>1, NoInverse
  <2>9. BaseOf(1)' = x /\ call'.m = m
    BY <2>1, <2>2, <2>3 DEF BaseOf
  <2>10. InverseRight'
    BY <2>1, <2>8, <2>9 DEF InverseRight
  <2>11. Inverting'
    BY <2>1, <2>10 DEF Inverting
  <2> QED BY <1>1, <2>1, <2>11 DEF IInv
<1>4. CASE ~(IsEven(X) /\ IsEven(M))
  <2>1. /\ pc' = "gcd" /\ answer' = <<>> /\ powers' = <<>> /\ call' = call
        /\ reg' = [u |-> copy(Wide, X), v |-> copy(Wide, M),
                   A |-> copyInt(Wide, 1), B |-> copyInt(Wide, 0),
                   C |-> copyInt(Wide, 0), D |-> copyInt(Wide, 1)]
    BY <1>1, <1>2, <1>4 DEF StartInverse
  <2>2. PICK z : z = reg'
    OBVIOUS
  <2>3. Loop(z)
    BY <1>1, <1>4, <2>1, <2>2, LoopStart
  <2>4. Loop(z)'
    BY <2>1, <2>3, SameCall
  <2>5. Loop(reg)'
    BY <2>2, <2>4
  <2>6. Inverting'
    BY <2>1, <2>5 DEF Inverting
  <2> QED BY <1>1, <2>1, <2>6 DEF IInv
<1> QED BY <1>3, <1>4

\* A step of the loop that stays in it.
LEMMA Stays ==
    ASSUME IInv, pc = "gcd", pc' = "gcd", UNCHANGED <<call, powers, answer>>,
           NEW z, z = reg', Loop(z)
    PROVE  IInv'
<1>1. call \in Calls /\ call.op = "invm" /\ Inverting
  BY InTheLoop
<1>2. Loop(z)'
  BY SameCall
<1>3. Loop(reg)'
  BY <1>2
<1>4. Inverting'
  BY <1>1, <1>3 DEF Inverting
<1> QED BY <1>1, <1>4 DEF IInv

\* What the three actions of the loop make of the registers.
LEMMA HalveUStep ==
    ASSUME IInv, HalveU
    PROVE  /\ IInv'
           /\ BaseOf(1) # 0 => Value(reg'.u) + Value(reg'.v) < Value(reg.u) + Value(reg.v)
<1>1. call \in Calls /\ Loop(reg) /\ IsEven(reg.u)
  BY InTheLoop DEF HalveU, Inverting
<1>2. /\ pc = "gcd" /\ pc' = "gcd" /\ UNCHANGED <<call, powers, answer>>
      /\ reg' = [reg EXCEPT !.u = halve(@), !.A = Half(reg.A, reg.B)[1],
                            !.B = Half(reg.A, reg.B)[2]]
  BY DEF HalveU
<1>3. PICK r : r = reg
  OBVIOUS
<1>4. PICK z : z = reg'
  OBVIOUS
<1>5. /\ Loop(z)
      /\ BaseOf(1) # 0 => Value(z.u) + Value(z.v) < Value(r.u) + Value(r.v)
  BY <1>1, <1>2, <1>3, <1>4, LoopHalveU
<1>6. IInv'
  BY <1>2, <1>4, <1>5, Stays
<1> QED BY <1>3, <1>4, <1>5, <1>6

\* The second action of the loop
LEMMA HalveVStep ==
    ASSUME IInv, HalveV
    PROVE  IInv' /\ Value(reg'.u) + Value(reg'.v) < Value(reg.u) + Value(reg.v)
<1>1. call \in Calls /\ Loop(reg) /\ ~IsEven(reg.u) /\ IsEven(reg.v)
  BY InTheLoop DEF HalveV, Inverting
<1>2. /\ pc = "gcd" /\ pc' = "gcd" /\ UNCHANGED <<call, powers, answer>>
      /\ reg' = [reg EXCEPT !.v = halve(@), !.C = Half(reg.C, reg.D)[1],
                            !.D = Half(reg.C, reg.D)[2]]
  BY DEF HalveV
<1>3. PICK r : r = reg
  OBVIOUS
<1>4. PICK z : z = reg'
  OBVIOUS
<1>5. Loop(z) /\ Value(z.u) + Value(z.v) < Value(r.u) + Value(r.v)
  BY <1>1, <1>2, <1>3, <1>4, LoopHalveV
<1>6. IInv'
  BY <1>2, <1>4, <1>5, Stays
<1> QED BY <1>3, <1>4, <1>5, <1>6

\* and the third, which may be the last.
LEMMA SubtractStep ==
    ASSUME IInv, Subtract
    PROVE  /\ IInv'
           /\ pc' = "gcd" => Value(reg'.u) + Value(reg'.v) < Value(reg.u) + Value(reg.v)
<1>1. /\ call \in Calls /\ call.op = "invm" /\ Loop(reg) /\ answer = <<>> /\ powers = <<>>
      /\ pc = "gcd" /\ ~IsEven(reg.u) /\ ~IsEven(reg.v)
  BY InTheLoop DEF Subtract, Inverting
<1>2. PICK r : r = reg
  OBVIOUS
<1>3. PICK z : z = reg'
  OBVIOUS
<1>4. UNCHANGED <<call, powers>>
  BY DEF Subtract
<1>5. CASE Value(z.u) # 0
  <2>1. UNCHANGED <<pc, answer>>
    BY <1>3, <1>5 DEF Subtract
  <2>2. Loop(z) /\ Value(z.u) + Value(z.v) < Value(r.u) + Value(r.v)
    <3>1. CASE greater(reg.v, reg.u)
      <4>1. z = [r EXCEPT !.v = sub_(@, r.u), !.C = sub_(@, r.A), !.D = sub_(@, r.B)]
        BY <1>2, <1>3, <3>1 DEF Subtract
      <4> QED BY <1>1, <1>2, <3>1, <4>1, LoopSubtractV
    <3>2. CASE ~greater(reg.v, reg.u)
      <4>1. z = [r EXCEPT !.u = sub_(@, r.v), !.A = sub_(@, r.C), !.B = sub_(@, r.D)]
        BY <1>2, <1>3, <3>2 DEF Subtract
      <4> QED BY <1>1, <1>2, <1>5, <3>2, <4>1, LoopSubtractU
    <3> QED BY <3>1, <3>2
  <2>3. IInv'
    BY <1>1, <1>3, <1>4, <2>1, <2>2, Stays
  <2> QED BY <1>2, <1>3, <2>2, <2>3
<1>6. CASE Value(z.u) = 0
  <2>1. PICK y : y = IF Value(r.v) = 1
                     THEN <<bigint2mpi(copy(Size(X), NonNegative(r.C)))>> ELSE <<>>
    OBVIOUS
  <2>2. pc' = "done" /\ answer' = y
    BY <1>2, <1>3, <1>6, <2>1 DEF Subtract
  <2>3. z \in Registers /\ PairOf(z) /\ z.v = r.v
    <3>1. CASE greater(reg.v, reg.u)
      <4>1. z = [r EXCEPT !.v = sub_(@, r.u), !.C = sub_(@, r.A), !.D = sub_(@, r.B)]
        BY <1>2, <1>3, <3>1 DEF Subtract
      <4>2. Value(z.u) # 0
        BY <1>1, <1>2, <3>1, <4>1, LoopSubtractV
      <4> QED BY <1>6, <4>2
    <3>2. CASE ~greater(reg.v, reg.u)
      <4>1. z = [r EXCEPT !.u = sub_(@, r.v), !.A = sub_(@, r.C), !.B = sub_(@, r.D)]
        BY <1>2, <1>3, <3>2 DEF Subtract
      <4>2. Loop(r) /\ ~IsEven(r.u) /\ ~IsEven(r.v) /\ ~greater(r.v, r.u)
        BY <1>1, <1>2, <3>2
      <4>3. call \in Calls
        BY <1>1
      <4> QED BY <4>1, <4>2, <4>3, LoopSubtractU
    <3> QED BY <3>1, <3>2
  <2>4. /\ y \in Seq(Nat)
        /\ IF \E i \in 0..(call.m - 1) : (i * BaseOf(1)) % call.m = 1
           THEN y # <<>> /\ (y[1] * BaseOf(1)) % call.m = 1
           ELSE y = <<>>
    BY <1>1, <1>2, <1>6, <2>1, <2>3, LoopAnswer
  <2>5. InverseRight'
    BY <1>4, <2>2, <2>4 DEF InverseRight, BaseOf
  <2>6. reg' \in Registers'
    BY <1>3, <1>4, <2>3, SameCall
  <2>7. Inverting'
    BY <1>1, <1>4, <2>2, <2>4, <2>5, <2>6 DEF Inverting
  <2> QED BY <1>1, <1>4, <2>2, <2>7 DEF IInv
<1> QED BY <1>5, <1>6

\* Every step keeps the invariant; those of a power are not of an inverse.
LEMMA NextIInv == IInv /\ [Next]_vars => IInv'
<1>. SUFFICES ASSUME IInv, [Next]_vars PROVE IInv'
  OBVIOUS
<1>1. ASSUME pc \in {"power", "even", "odd", "write"}, UNCHANGED call,
             pc' \in {"power", "even", "odd", "write", "done"}
      PROVE  IInv'
  BY <1>1 DEF IInv, Inverting
<1>2. ASSUME NEW x, Power(x), pc \in {"power", "even", "odd"} PROVE IInv'
  BY <1>1, <1>2 DEF Power
<1>3. CASE StartEven
  BY <1>1, <1>3 DEF StartEven
<1>4. CASE Even
  BY <1>1, <1>4 DEF Even
<1>5. CASE EndEven
  BY <1>2, <1>5 DEF EndEven
<1>6. CASE StartOdd
  BY <1>1, <1>2, <1>6 DEF StartOdd
<1>7. CASE Odd
  BY <1>1, <1>7 DEF Odd
<1>8. CASE EndOdd
  BY <1>2, <1>8 DEF EndOdd
<1>9. CASE Write
  BY <1>1, <1>9 DEF Write
<1>10. CASE StartInverse
  BY <1>10, StartInverseStep
<1>11. CASE HalveU
  BY <1>11, HalveUStep
<1>12. CASE HalveV
  BY <1>12, HalveVStep
<1>13. CASE Subtract
  BY <1>13, SubtractStep
<1>14. CASE UNCHANGED vars
  <2>1. UNCHANGED <<call, pc, reg, powers, answer>>
    BY <1>14 DEF vars
  <2>2. Loop(reg)' <=> Loop(reg)
    BY <2>1 DEF Registers, Loop, PairOf, Wide, X, M, BaseOf
  <2>3. Registers' = Registers /\ (InverseRight' <=> InverseRight)
    BY <2>1, SameCall DEF InverseRight, BaseOf
  <2> QED BY <2>1, <2>2, <2>3 DEF IInv, Inverting
<1> QED BY <1>3, <1>4, <1>5, <1>6, <1>7, <1>8, <1>9, <1>10, <1>11, <1>12, <1>13, <1>14
        DEF Next

\* The invariant holds.
LEMMA SpecIInv == Spec => []IInv
  BY InitIInv, NextIInv, PTL DEF Spec

\* inverseMod answers with an inverse if there is one and with nothing if
\* there is none (inverseMod of lib/bigint.js, mpi_invm of library_gcrypt.js),
\* whatever the word size, the number and its modulus.
THEOREM InverseIsRight == Spec => []InverseRight
<1>1. IInv => InverseRight
  BY DEF IInv, Inverting, InverseRight
<1> QED BY <1>1, SpecIInv, PTL

\* The registers A, B, C and D of inverseMod_ stay the factors of the two
\* numbers that it makes smaller, although it adds to them and halves them.
THEOREM BezoutHolds == Spec => []Bezout
<1>1. IInv => Bezout
  <2>. SUFFICES ASSUME IInv, pc = "gcd" 
                PROVE  /\ Value(reg.u) = Signed(reg.A) * Value(X) + Signed(reg.B) * call.m
                       /\ Value(reg.v) = Signed(reg.C) * Value(X) + Signed(reg.D) * call.m
    BY DEF Bezout
  <2>1. call \in Calls /\ Loop(reg)
    BY InTheLoop DEF Inverting
  <2>2. Value(X) = BaseOf(1)
    BY <2>1, ArgFacts
  <2>3. /\ Value(reg.u) = Signed(reg.A) * BaseOf(1) + Signed(reg.B) * call.m
        /\ Value(reg.v) = Signed(reg.C) * BaseOf(1) + Signed(reg.D) * call.m
    BY <2>1 DEF Loop, PairOf, Pair, Row
  <2> QED BY <2>2, <2>3
<1> QED BY <1>1, SpecIInv, PTL

\* Every iteration of the loop of inverseMod_ makes the two numbers smaller,
\* unless it is asked for the inverse of 0.
THEOREM ShrinksHolds == Spec => Shrinks
<1>1. ASSUME IInv, [Next]_vars, pc = "gcd", pc' = "gcd", BaseOf(1) # 0, ~UNCHANGED vars
      PROVE  Value(reg'.u) + Value(reg'.v) < Value(reg.u) + Value(reg.v)
  <2>1. HalveU \/ HalveV \/ Subtract
    BY <1>1 DEF Next, StartEven, Even, EndEven, StartOdd, Odd, EndOdd, Write, StartInverse
  <2> QED BY <1>1, <2>1, HalveUStep, HalveVStep, SubtractStep
<1>2. IInv /\ [Next]_vars =>
        [ (pc = "gcd" /\ pc' = "gcd" /\ BaseOf(1) # 0) =>
            Value(reg'.u) + Value(reg'.v) < Value(reg.u) + Value(reg.v) ]_vars
  BY <1>1
<1> QED BY <1>2, SpecIInv, PTL DEF Spec, Shrinks

\* No element of a register of inverseMod_ exceeds its bpe bits.
THEOREM InverseTyped == Spec => [](call.op = "invm" => TypeOK)
<1>1. IInv => (call.op = "invm" => TypeOK)
  <2>. SUFFICES ASSUME IInv, call.op = "invm" PROVE TypeOK
    OBVIOUS
  <2>1. call \in Calls /\ Inverting
    BY DEF IInv
  <2>2. reg = NoRegisters \/ reg \in Registers
    BY <2>1 DEF Inverting, Loop
  <2>3. \A x \in Num(Wide) : Elements(x)
    BY DEF Num, Elements
  <2>4. \A f \in DOMAIN reg \ {"bit"} : Elements(reg[f])
    <3>1. CASE reg = NoRegisters
      BY <3>1 DEF NoRegisters
    <3>2. CASE reg \in Registers
      BY <2>3, <3>2 DEF Registers
    <3> QED BY <2>2, <3>1, <3>2
  <2> QED BY <2>1, <2>4 DEF Inverting, TypeOK
<1> QED BY <1>1, SpecIInv, PTL

=============================================================================
