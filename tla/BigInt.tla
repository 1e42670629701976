------------------------------- MODULE BigInt -------------------------------
(***************************************************************************)
(* The numbers of lib/bigint.js, as far as src/library_gcrypt.js needs     *)
(* them: an array of elements of bpe bits, the least significant first, as *)
(* a function on 0..k-1.                                                   *)
(*                                                                         *)
(* What can go wrong is in the elements: a carry that is lost, a sum that  *)
(* does not fit the 32 bits JavaScript shifts, an array too short by one.  *)
(* So the operators compute element by element, as the code does, and >>   *)
(* wraps at the width that is to bpe as 32 is to 15.  A function that      *)
(* writes to its first argument is an operator that returns it.            *)
(***************************************************************************)
EXTENDS Integers, Sequences, FiniteSets

CONSTANTS
    bpe,    \* bits per element: 15 in the code
    base    \* the base numbers are exchanged in: 16 in the code

\* b to the power of n, by a recursion that a proof can unfold.
power(b, n) == LET p[k \in Nat] == IF k = 0 THEN 1 ELSE b * p[k - 1] IN p[n]

radix == power(2, bpe)
mask == radix - 1

ASSUME BigIntAssumption == bpe \in Nat \ {0} /\ base \in 2..mask

\* An array.  It is f, written so that TLC computes it once.
Array(f) == CHOOSE g \in {f} : g = f

Size(x) == Cardinality(DOMAIN x)

At(x, i) == IF i \in DOMAIN x THEN x[i] ELSE 0

\* copy_ to an array of k elements.
copy(k, x) == Array([i \in 0..(k - 1) |-> At(x, i)])

\* What an array stands for, and what it stands for in two's complement.
Value(x) ==
    LET from[i \in 0..Size(x)] == IF i = Size(x) THEN 0 ELSE x[i] + radix * from[i + 1]
    IN from[0]

negative(x) == x[Size(x) - 1] >= radix \div 2

Signed(x) == IF negative(x) THEN Value(x) - power(radix, Size(x)) ELSE Value(x)

\* copyInt_ to an array of k elements.
copyInt(k, v) ==
    LET c[i \in 0..(k - 1)] == IF i = 0 THEN v ELSE c[i - 1] \div radix
    IN Array([i \in 0..(k - 1) |-> c[i] % radix])

\* Elements without the leading zeros.
Digits(x) ==
    CHOOSE k \in 0..Size(x) :
      /\ \A i \in k..(Size(x) - 1) : x[i] = 0
      /\ k > 0 => x[k - 1] # 0

trim(x, k) == copy(Digits(x) + k, x)

\* int2bigInt adds an element to the larger of the two sizes.
expand(x, k) == copy(1 + (IF Size(x) > k THEN Size(x) ELSE k), x)

-----------------------------------------------------------------------------
(* Sums.  Every function that adds has one loop: c += column; x[i] = c &   *)
(* mask; c >>= bpe.                                                        *)

Word == 4 * radix * radix

Low(c) == c % radix

\* Mutated: the width of the shift is one bit less.
HighNarrow(c) ==
    (((c + Word \div 4) % (Word \div 2)) - Word \div 4) \div radix

\* c >> bpe: of the low bits of c, as a signed number.
High(c) == (((c + Word \div 2) % Word) - Word \div 2) \div radix

Ripple(columns) ==
    LET cols == Array(columns)
        carry[i \in DOMAIN cols] ==
          IF i = 0 THEN 0 ELSE High(cols[i - 1] + carry[i - 1])
    IN Array([i \in DOMAIN cols |-> Low(cols[i] + carry[i])])

\* linCombShift_; with b = 1 and -1 also addShift_ and subShift_, and with
\* ys = 0 add_ and sub_.
linCombShift(x, y, b, ys) == Ripple([i \in DOMAIN x |-> x[i] + b * At(y, i - ys)])

add_(x, y) == linCombShift(x, y, 1, 0)
sub_(x, y) == linCombShift(x, y, -1, 0)

multInt(x, v) == Ripple([i \in DOMAIN x |-> x[i] * v])
addInt(x, v) == Ripple([x EXCEPT ![0] = @ + v])

\* The loop of mult_ and multMod_.
Product(x, y) ==
    LET rows[i \in 0..Size(y)] ==
          IF i = 0 THEN copyInt(2 * Size(x), 0)
          ELSE linCombShift(rows[i - 1], x, y[i - 1], i - 1)
    IN rows[Size(y)]

\* Mutated: the array is not made larger first.
multNarrow(x, y) == trim(copy(Size(x), Product(x, y)), 1)

mult(x, y) ==
    LET ans == expand(x, Size(x) + Size(y)) IN trim(copy(Size(ans), Product(ans, y)), 1)

-----------------------------------------------------------------------------
(* Comparing and shifting. *)

\* Mutated: true of equal numbers.
greaterOrEqual(x, y) == Value(x) >= Value(y)

greater(x, y) ==
    LET all == DOMAIN x \cup DOMAIN y IN
    \E i \in all :
      /\ At(x, i) > At(y, i)
      /\ \A j \in all : j > i => At(x, j) = At(y, j)

\* greaterShift takes a number in the leading element of either for one to
\* the left of all of the other.
greaterShift(x, y, shift) ==
    LET kx == Size(x)
        ky == Size(y)
        top == IF kx + shift < ky THEN kx + shift - 1 ELSE ky - 1
    IN \/ /\ ky - 1 - shift >= 0
          /\ \E i \in (ky - 1 - shift)..(kx - 1) : x[i] > 0
       \/ /\ \A i \in (kx - 1 + shift)..(ky - 1) : At(y, i) = 0
          /\ \E i \in shift..top :
               /\ x[i - shift] > y[i]
               /\ \A j \in (i + 1)..top : x[j - shift] = y[j]

\* By less than bpe bits.
leftShift(x, b) ==
    Array([i \in DOMAIN x |-> Low(x[i] * power(2, b)) + At(x, i - 1) \div power(2, bpe - b)])
\* Mutated: the bits that come in from the left are not masked.
rightShiftUnmasked(x, b) ==
    Array([i \in DOMAIN x |-> x[i] \div power(2, b) + At(x, i + 1) * power(2, bpe - b)])

rightShift(x, b) ==
    Array([i \in DOMAIN x |-> x[i] \div power(2, b) + Low(At(x, i + 1) * power(2, bpe - b))])

\* Mutated: the sign is not kept.
halveUnsigned(x) == rightShift(x, 1)

\* halve_ keeps the sign.
halve(x) ==
    [rightShift(x, 1) EXCEPT ![Size(x) - 1] = @ + (IF negative(x) THEN radix \div 2 ELSE 0)]

-----------------------------------------------------------------------------
(* Division. *)

\* divInt_: the remainder when the elements from i on are divided by v.
RemainderFrom(x, v) ==
    LET rem[i \in 0..Size(x)] ==
          IF i = Size(x) THEN 0 ELSE (rem[i + 1] * radix + x[i]) % v
    IN rem

modInt(x, v) == RemainderFrom(x, v)[0]

divInt(x, v) ==
    LET rem == RemainderFrom(x, v)
    IN Array([i \in DOMAIN x |-> (rem[i + 1] * radix + x[i]) \div v])

BitLength(d) == CHOOSE b \in 0..bpe : d < power(2, b) /\ (b > 0 => d >= power(2, b - 1))

\* Mutated: the estimate is not lowered.
QuotientDigitRough(r, y, ky, i) ==
    IF r[i] = y[ky - 1] THEN mask ELSE (r[i] * radix + r[i - 1]) \div y[ky - 1]

\* One digit of the quotient: an estimate from the leading elements, lowered
\* until the product with the two leading elements of y is not too large.
QuotientDigit(r, y, ky, i) ==
    LET estimate == IF r[i] = y[ky - 1] THEN mask
                    ELSE (r[i] * radix + r[i - 1]) \div y[ky - 1]
        second(q) == At(y, ky - 2) * q
        first(q) == High(second(q)) + q * y[ky - 1]
        tooLarge(q) ==
          \/ High(first(q)) > r[i]
          \/ /\ High(first(q)) = r[i]
             /\ \/ Low(first(q)) > r[i - 1]
                \/ Low(first(q)) = r[i - 1] /\ Low(second(q)) > At(r, i - 2)
    IN CHOOSE q \in 0..estimate : ~tooLarge(q) /\ \A p \in (q + 1)..estimate : tooLarge(p)

\* mod_, and divide_ for the remainder: the quotient is not used.
mod_(x, y0) ==
    LET ky == Digits(y0)
        a == bpe - BitLength(y0[ky - 1])
        y == leftShift(y0, a)
        r0 == leftShift(x, a)
        kx == IF Digits(r0) > ky THEN Digits(r0)
              ELSE IF Size(r0) < ky THEN Size(r0) ELSE ky
        less[k \in Nat] == IF k = 0 THEN r0 ELSE linCombShift(less[k - 1], y, -1, kx - ky)
        times == CHOOSE k \in 0..radix :
                   /\ greaterShift(y, less[k], kx - ky)
                   /\ \A j \in 0..(k - 1) : ~greaterShift(y, less[j], kx - ky)
        step(r, i) ==
          LET r1 == linCombShift(r, y, -QuotientDigit(r, y, ky, i), i - ky)
          IN IF negative(r1) THEN linCombShift(r1, y, 1, i - ky) ELSE r1
        rem[i \in Nat] == IF i >= kx THEN less[times] ELSE step(rem[i + 1], i)
    IN rightShift(rem[ky], a)

mod(x, n) == trim(mod_(x, n), 1)

multMod(x, y, n) == copy(Size(x), mod_(Product(x, y), n))

\* The loop of squareMod_: the last carry of a row is stored whole.
Square(x, kx, k) ==
    LET row(s, i) ==
          LET c[j \in i..(kx - 1)] ==
                IF j = i THEN s[2 * i] + x[i] * x[i]
                ELSE s[i + j] + 2 * x[i] * x[j] + High(c[j - 1])
          IN Array([p \in DOMAIN s |->
                IF p \in (2 * i)..(i + kx - 1) THEN Low(c[p - i])
                ELSE IF p = i + kx THEN High(c[kx - 1]) ELSE s[p]])
        rows[i \in 0..kx] == IF i = 0 THEN copyInt(k, 0) ELSE row(rows[i - 1], i - 1)
    IN rows[kx]

squareMod(x, n) ==
    LET k == 2 * (IF Digits(x) > Size(n) THEN Digits(x) ELSE Size(n))
    IN copy(Size(x), mod_(Square(x, Digits(x), k), n))

-----------------------------------------------------------------------------
(* Montgomery multiplication. *)

\* inverseModInt, whose answer may be negative.
Euclid[x \in Nat, n \in Nat, a \in Int, b \in Int] ==
    IF x = 1 THEN a
    ELSE IF x = 0 THEN 0
    ELSE LET d == b - a * (n \div x)
             m == n % x
         IN IF m = 1 THEN d
            ELSE IF m = 0 THEN 0
            ELSE Euclid[x % m, m, a - d * (x \div m), d]

inverseModInt(x, n) == Euclid[x, n, 1, 0]

\* The loop of mont_: for each element of x, add its product with y and the
\* multiple of n that clears the lowest element, and drop that element.
MontSum(x, y, n, np) ==
    LET kn == Digits(n)
        ks == Size(n) - 1
        row(s, i) ==
          LET ui == Low(Low(s[0] + x[i] * y[0]) * np)
              sum == Ripple([j \in 0..ks |->
                               IF j = ks THEN 0 ELSE s[j] + ui * n[j] + x[i] * At(y, j)])
          IN Array([j \in 0..ks |-> IF j < ks THEN sum[j + 1] ELSE s[j]])
        rows[i \in 0..kn] == IF i = 0 THEN copyInt(ks + 1, 0) ELSE row(rows[i - 1], i - 1)
    IN rows[kn]

\* Mutated: the sum is not reduced.
montUnreduced(x, y, n, np) == copy(Size(x), MontSum(x, y, n, np))

\* mont_(x, y, n, np).
mont(x, y, n, np) ==
    LET sa == MontSum(x, y, n, np)
    IN copy(Size(x), IF greater(n, sa) THEN sa ELSE sub_(sa, n))

-----------------------------------------------------------------------------
(* Reading and writing.  A string is the sequence of its digits. *)

str2bigInt(str) ==
    LET size == (base * Len(str) + bpe - 1) \div bpe + 1
        read[i \in 0..Len(str)] ==
          IF i = 0 THEN copyInt(size, 0) ELSE addInt(multInt(read[i - 1], base), str[i])
    IN trim(read[Len(str)], 1)

bigInt2str(x) ==
    LET rest[k \in Nat] == IF k = 0 THEN x ELSE divInt(rest[k - 1], base)
        len == CHOOSE k \in 0..(bpe * Size(x)) :
                 Digits(rest[k]) = 0 /\ \A j \in 0..(k - 1) : Digits(rest[j]) > 0
    IN IF len = 0 THEN <<0>> ELSE [i \in 1..len |-> modInt(rest[len - i], base)]

=============================================================================
