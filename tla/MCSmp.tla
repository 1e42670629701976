-------------------------------- MODULE MCSmp --------------------------------
(* Two parties; two secrets, so that answers can be right and wrong. *)
EXTENDS Smp, TLC

CONSTANTS alice, bob, s1, s2

Both == {alice, bob}
OtherOne == (alice :> bob) @@ (bob :> alice)
TwoSecrets == {s1, s2}
=============================================================================
