----------------------------- MODULE MCKeyStore -----------------------------
(* Accounts of one name, which differ in their protocols only. *)
EXTENDS PrivKeyList, TLC

CONSTANTS n1, p1, p2, p3, k1, k2

OneName == {n1}
TwoProtocols == {p1, p2}
ThreeProtocols == {p1, p2, p3}
TwoKeys == {k1, k2}

\* Keys are only compared, and so are protocols.
Symmetry == Permutations(Keys) \cup Permutations(Protocols)

\* An application keeps its keys in a file or in a string, not in both.
OneWayToKeep == disk = NOFILE \/ copy = NOFILE
=============================================================================
