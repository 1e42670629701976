--------------------------- MODULE MCFingerprints ---------------------------
(* One contact with two keys, so that the order of its list matters, or two *)
(* contacts that have the same key.                                         *)
EXTENDS Fingerprints

CONSTANTS bob, carol, f1, f2

TwoContacts == {bob, carol}
TwoPrints == {f1, f2}
OneOrTwo == {(bob :> {f1, f2}) @@ (carol :> {}), (bob :> {f1}) @@ (carol :> {f1})}

=============================================================================
