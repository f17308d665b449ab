----------------------------- MODULE MCItemData -----------------------------
(* Values for model checking ItemData: one item of each sort. *)
EXTENDS ItemData
=============================================================================
