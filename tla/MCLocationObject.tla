--------------------------- MODULE MCLocationObject ----------------------------
(* A small instance of LocationObject for TLC. *)
EXTENDS LocationObject, TLC

Symmetry == Permutations(Movers) \cup Permutations(Coords)
=============================================================================
