----------------------------- MODULE MCSignals -----------------------------
(***************************************************************************)
(* Two miners, and two blocks, one on the other.                           *)
(***************************************************************************)
EXTENDS SignalsProperties
CONSTANTS b1, b2
MCBlocks == {b1, b2}
MCHeight == b1 :> 1 @@ b2 :> 2 @@ NoBlock :> 0
=============================================================================
