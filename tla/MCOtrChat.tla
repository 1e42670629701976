------------------------------ MODULE MCOtrChat -----------------------------
(* Two users. *)
EXTENDS OtrChat, TLC

CONSTANTS alice, bob

Both == {alice, bob}
OtherOne == (alice :> bob) @@ (bob :> alice)
=============================================================================
