----------------------------- MODULE MCPostItem -----------------------------
(* Values for model checking PostItem: three slots, the last of a bag splits
   may not go to. *)
EXTENDS PostItem

MCGeneral == {1, 2}
=============================================================================
