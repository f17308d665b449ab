----------------------------- MODULE MCLootScan -----------------------------
(* Values for model checking LootScan: two corpses. *)
EXTENDS LootScan
=============================================================================
