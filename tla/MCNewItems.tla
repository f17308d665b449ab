----------------------------- MODULE MCNewItems -----------------------------
(* Values for model checking NewItems: two characters, two kinds of items that
   may be exchanged for each other. *)
EXTENDS NewItems

CONSTANTS A, B

MCPlayers == {1, 2}
Symmetry == Permutations(Kinds)
=============================================================================
