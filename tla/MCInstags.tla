----------------------------- MODULE MCInstags -----------------------------
(* Two accounts that generate up to four tags between them. *)
EXTENDS Instags, TLC

CONSTANTS a1, a2

TwoAccounts == {a1, a2}

Symmetry == Permutations(TwoAccounts)

=============================================================================
