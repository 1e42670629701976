------------------------------- MODULE Gcrypt -------------------------------
(***************************************************************************)
(* The three functions of libgcrypt that src/library_gcrypt.js replaces,   *)
(* modular power, product of powers and inverse, with the loops of         *)
(* powMod_ and inverseMod_ of lib/bigint.js: one step per iteration.  All  *)
(* numbers come in and go out as strings.                                  *)
(***************************************************************************)
EXTENDS BigInt

CONSTANTS
    Calls    \* the calls made: [op, args, m]

\* args is a list of <<base, exponent>>; an inverse is of the first base.  A
\* number and its modulus have fewer than radix^2 bits, 2^30 in the code, or
\* they would not fit in memory.
ASSUME GcryptAssumption ==
    \A c \in Calls :
      /\ c.op \in {"powm", "mulpowm", "invm"}
      /\ c.args \in Seq(Nat \X Nat) /\ c.args # <<>>
      /\ c.m \in Nat /\ c.m > 1
      /\ \E bits \in 1..(radix * radix - 1) : c.args[1][1] * c.m < power(2, bits)

VARIABLES
    call,     \* the call
    pc,       \* where it is
    reg,      \* the numbers the loop works on
    powers,   \* the powers a product has computed, as bigInts
    answer    \* <<>> while there is none, or if there is no inverse

vars == <<call, pc, reg, powers, answer>>

\* gcry_mpi_print, external: a number as a string without leading zeros.
Print_(v) ==
    LET len == CHOOSE k \in 1..(v + 1) : 
                  v < power(base, k) /\ (k > 1 => v >= power(base, k - 1))
    IN [i \in 1..len |-> (v \div power(base, len - i)) % base]

\* gcry_mpi_scan, external.
Scan(str) ==
    LET upto[i \in 0..Len(str)] == IF i = 0 THEN 0 ELSE upto[i - 1] * base + str[i]
    IN upto[Len(str)]

\* The strings pass through buffers of 4096 bytes, which is more than any number
\* of OTR needs.  The code asserts that a number fits when it comes in, and
\* writes unchecked when it goes out; neither is modelled.
mpi2bigint(v) == str2bigInt(Print_(v))

bigint2mpi(x) == Scan(bigInt2str(x))

M == mpi2bigint(call.m)

N == trim(M, 2)

NoRegisters == <<>>

Init ==
    /\ call \in Calls
    /\ pc = IF call.op = "invm" THEN "invert" ELSE "power"
    /\ reg = NoRegisters
    /\ powers = <<>>
    /\ answer = <<>>

-----------------------------------------------------------------------------
(* powMod of the next pair of args. *)

Base == mpi2bigint(call.args[Len(powers) + 1][1])
Exponent == mpi2bigint(call.args[Len(powers) + 1][2])

\* The power is x.
Power(x) ==
    /\ powers' = Append(powers, trim(x, 1))
    /\ pc' = IF Len(powers') = Len(call.args) THEN "write" ELSE "power"
    /\ reg' = NoRegisters
    /\ UNCHANGED <<call, answer>>

\* An even modulus: square and multiply, from the lowest bit of y up.
StartEven ==
    /\ pc = "power"
    /\ N[0] % 2 = 0
    /\ pc' = "even"
    /\ LET x == expand(Base, Size(M)) IN
         reg' = [x |-> copyInt(Size(x), 1), s7 |-> copy(Size(N), x),
                 y |-> trim(Exponent, 2)]
    /\ UNCHANGED <<call, powers, answer>>

Even ==
    /\ pc = "even"
    /\ Value(reg.y) # 0
    /\ reg' = [x |-> IF reg.y[0] % 2 = 1 THEN multMod(reg.x, reg.s7, N) ELSE reg.x,
               y |-> divInt(reg.y, 2),
               s7 |-> squareMod(reg.s7, N)]
    /\ UNCHANGED <<call, pc, powers, answer>>

EndEven == pc = "even" /\ Value(reg.y) = 0 /\ Power(reg.x)

\* The bits of the exponent, from the lowest: y[k1] & k2.
Bit(b) == (Exponent[b \div bpe] \div power(2, b % bpe)) % 2

Bits == 0..(bpe * Size(Exponent) - 1)

\* The first nonzero element, and in it the first bit that is set.
TopBit == CHOOSE b \in Bits : Bit(b) = 1 /\ \A c \in Bits : Bit(c) = 1 => c <= b

\* An odd one: from the highest bit of y down, in Montgomery's form, in which
\* a number is multiplied by the radix to the power Digits(N).
StartOdd ==
    /\ pc = "power"
    /\ N[0] % 2 = 1
    /\ LET s7 == [copyInt(Size(N), 0) EXCEPT ![Digits(N)] = 1]
           x == multMod(expand(Base, Size(M)), s7, N)
       IN \/ /\ Value(Exponent) = 0
             /\ Power(copyInt(Size(x), 1))
          \/ /\ Value(Exponent) # 0
             /\ pc' = "odd"
             /\ reg' = [x |-> x, s3 |-> x, bit |-> TopBit]
             /\ UNCHANGED <<call, powers, answer>>

np == radix - inverseModInt(modInt(N, radix), radix)

\* reg.bit is that of k1 and k2, the next lower one to be looked at.
Odd ==
    /\ pc = "odd"
    /\ reg.bit > 0
    /\ LET b == reg.bit - 1
           square == mont(reg.x, reg.x, N, np)
       IN reg' = [reg EXCEPT !.bit = b,
                             !.x = IF Bit(b) = 1 THEN mont(square, reg.s3, N, np)
                                   ELSE square]
    /\ UNCHANGED <<call, pc, powers, answer>>

EndOdd ==
    /\ pc = "odd"
    /\ reg.bit = 0
    /\ Power(mont(reg.x, copyInt(2, 1), N, np))

\* The power, or the product of all of them, goes to the result.
Write ==
    /\ pc = "write"
    /\ pc' = "done"
    /\ LET product[i \in 0..Len(powers)] ==
             IF i = 0 THEN str2bigInt(<<1>>) ELSE mult(product[i - 1], powers[i])
       IN answer' = IF call.op = "powm" THEN <<bigint2mpi(powers[1])>>
                    ELSE <<bigint2mpi(mod(product[Len(powers)], M))>>
    /\ UNCHANGED <<call, reg, powers>>

-----------------------------------------------------------------------------
(* inverseMod: binary extended gcd. *)

X == expand(mpi2bigint(call.args[1][1]), Size(M))

Wide == 1 + 2 * Size(X)

IsEven(x) == x[0] % 2 = 0

StartInverse ==
    /\ pc = "invert"
    /\ UNCHANGED <<call, powers, answer>>
    /\ \/ /\ IsEven(X) /\ IsEven(M)
          /\ pc' = "done"
          /\ UNCHANGED reg
       \/ /\ ~(IsEven(X) /\ IsEven(M))
          /\ pc' = "gcd"
          /\ reg' = [u |-> copy(Wide, X), v |-> copy(Wide, M),
                     A |-> copyInt(Wide, 1), B |-> copyInt(Wide, 0),
                     C |-> copyInt(Wide, 0), D |-> copyInt(Wide, 1)]

\* Half of a*x + b*m, by its two factors.
Half(a, b) ==
    IF IsEven(a) /\ IsEven(b) THEN <<halve(a), halve(b)>>
    ELSE <<halve(add_(a, M)), halve(sub_(b, X))>>

HalveU ==
    /\ pc = "gcd"
    /\ IsEven(reg.u)
    /\ LET h == Half(reg.A, reg.B) IN
         reg' = [reg EXCEPT !.u = halve(@), !.A = h[1], !.B = h[2]]
    /\ UNCHANGED <<call, pc, powers, answer>>

HalveV ==
    /\ pc = "gcd"
    /\ ~IsEven(reg.u) /\ IsEven(reg.v)
    /\ LET h == Half(reg.C, reg.D) IN
         reg' = [reg EXCEPT !.v = halve(@), !.C = h[1], !.D = h[2]]
    /\ UNCHANGED <<call, pc, powers, answer>>

\* Mutated: a negative C is left as it is.
AsItIs(c) == c

\* A negative C is made nonnegative.
NonNegative(c) ==
    LET up[k \in Nat] == IF k = 0 THEN c ELSE add_(up[k - 1], M)
    IN up[CHOOSE k \in 0..(radix * radix) :
            ~negative(up[k]) /\ \A j \in 0..(k - 1) : negative(up[j])]

\* When u reaches 0, v is the greatest common divisor.
Subtract ==
    /\ pc = "gcd"
    /\ ~IsEven(reg.u) /\ ~IsEven(reg.v)
    /\ reg' = IF greater(reg.v, reg.u)
              THEN [reg EXCEPT !.v = sub_(@, reg.u), !.C = sub_(@, reg.A), !.D = sub_(@, reg.B)]
              ELSE [reg EXCEPT !.u = sub_(@, reg.v), !.A = sub_(@, reg.C), !.B = sub_(@, reg.D)]
    /\ IF Value(reg'.u) # 0 THEN UNCHANGED <<pc, answer>>
       ELSE /\ pc' = "done"
            /\ answer' = IF Value(reg.v) = 1
                         THEN <<bigint2mpi(copy(Size(X), NonNegative(reg.C)))>> ELSE <<>>
    /\ UNCHANGED <<call, powers>>

-----------------------------------------------------------------------------

Next ==
    \/ StartEven
    \/ Even
    \/ EndEven
    \/ StartOdd
    \/ Odd
    \/ EndOdd
    \/ Write
    \/ StartInverse
    \/ HalveU
    \/ HalveV
    \/ Subtract

Spec == Init /\ [][Next]_vars

-----------------------------------------------------------------------------

Elements(x) == \A i \in DOMAIN x : x[i] \in 0..mask

\* Every element of every number fits in bpe bits between two iterations.
TypeOK ==
    /\ call \in Calls
    /\ pc \in {"power", "even", "odd", "write", "invert", "gcd", "done"}
    /\ \A f \in DOMAIN reg \ {"bit"} : Elements(reg[f])
    /\ \A k \in DOMAIN powers : Elements(powers[k])
    /\ answer \in Seq(Nat)

\* b^e modulo m, by its definition.
PowerOf(b, e, m) ==
    LET p[k \in 0..e] == IF k = 0 THEN 1 ELSE (p[k - 1] * b) % m IN p[e]

BaseOf(k) == call.args[k][1]
ExponentOf(k) == call.args[k][2]

\* In the Montgomery loop x is, in that form and reduced, the base to the
\* power of the leading bits of the exponent that have been read.
MontgomeryPrefix ==
    pc = "odd" =>
      /\ Value(reg.x) < call.m
      /\ LET k == Len(powers) + 1
             read == ExponentOf(k) \div power(2, reg.bit)
         IN Value(reg.x) = (PowerOf(BaseOf(k), read, call.m) * power(radix, Digits(N))) % call.m

\* With an even modulus a base that is longer than the modulus by two
\* elements or more may lose its highest bits, or its square may.
Whole(k) == call.m % 2 = 1 \/ BaseOf(k) < power(radix, Digits(N) + 1)

\* Each power is right when its loop is over, unless the base was cut.
PowersRight ==
    \A k \in DOMAIN powers :
      Whole(k) => Value(powers[k]) = PowerOf(BaseOf(k), ExponentOf(k), call.m)

\* A product of powers is right and reduced.
ProductRight ==
    (pc = "done" /\ call.op # "invm" /\ \A k \in DOMAIN powers : Whole(k)) =>
      LET p[k \in 0..Len(powers)] ==
            IF k = 0 THEN 1
            ELSE (p[k - 1] * PowerOf(BaseOf(k), ExponentOf(k), call.m)) % call.m
      IN answer = <<p[Len(powers)]>>

\* u and v stay the combinations of the two arguments that A, B, C and D
\* say, with factors that may be negative and halves that are exact.
Bezout ==
    pc = "gcd" =>
      /\ Value(reg.u) = Signed(reg.A) * Value(X) + Signed(reg.B) * call.m
      /\ Value(reg.v) = Signed(reg.C) * Value(X) + Signed(reg.D) * call.m

\* inverseMod answers with an inverse if and only if there is one.  It need
\* not be reduced: 27 modulo 47 is answered with 54.
InverseRight ==
    (pc = "done" /\ call.op = "invm") =>
      IF \E i \in 0..(call.m - 1) : (i * BaseOf(1)) % call.m = 1
      THEN answer # <<>> /\ (answer[1] * BaseOf(1)) % call.m = 1
      ELSE answer = <<>>

\* Every iteration of inverseMod makes the two numbers smaller, so that the
\* loop ends.  Not so for the inverse of 0 modulo an odd number: the loop
\* that halves u while it is even never ends.
Shrinks ==
    [][ (pc = "gcd" /\ pc' = "gcd" /\ BaseOf(1) # 0) =>
          Value(reg'.u) + Value(reg'.v) < Value(reg.u) + Value(reg.v) ]_vars

=============================================================================
