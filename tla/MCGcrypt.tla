------------------------------ MODULE MCGcrypt ------------------------------
(* Elements of three bits, and calls with numbers of up to four elements.   *)
(* With two bits no estimate of a quotient digit would be too large by two. *)
EXTENDS Gcrypt

Powers ==
    [op : {"powm"}, args : {<<<<b, e>>>> : b \in 0..20, e \in 0..9}, m : 2..19]
      \cup [op : {"powm"},
            args : {<<<<b, e>>>> : b \in {15, 23, 28, 43, 64, 66, 317}, e \in {1, 2, 13}},
            m : {38, 39, 318, 319, 511}]
      \cup [op : {"powm"},
            args : {<<<<b, 3>>>> : b \in {63, 64, 511, 512, 513}}, m : {6, 7}]

Products ==
    [op : {"mulpowm"},
     args : {<<<<b, e>>, <<c, f>>>> : b, c \in {0, 2, 23, 64}, e, f \in {0, 1, 3}},
     m : {5, 9, 14, 39, 319}]

\* The inverse of 27 modulo 47 is the first that is not reduced.
Inverses ==
    [op : {"invm"}, args : {<<<<b, 1>>>> : b \in 0..33}, m : 2..33]
      \cup [op : {"invm"}, args : {<<<<b, 1>>>> : b \in {19, 27, 35, 37}}, m : {47, 52}]

SmallCalls == Powers \cup Products \cup Inverses

=============================================================================
