--------------------------- MODULE MCTimelineFeed ---------------------------
(* A small instance of TimelineFeed.                                       *)
EXTENDS TimelineFeed, TLC

Symmetry == Permutations(Workers)
=============================================================================
