------------------------------ MODULE SerialMC ------------------------------
(* Targets for TLC: the empty one, and two that repeat their own beginning. *)
EXTENDS Serial

MCTargets == {<<>>, <<97, 97, 49>>, <<97, 49, 97, 97>>}
=============================================================================
