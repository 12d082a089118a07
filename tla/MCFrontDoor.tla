----------------------------- MODULE MCFrontDoor -----------------------------
(* A small instance of FrontDoor.                                          *)
EXTENDS FrontDoor, TLC

Symmetry == Permutations(Workers)
=============================================================================
