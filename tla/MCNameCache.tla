----------------------------- MODULE MCNameCache -----------------------------
(* Values for model checking NameCache: two realms, two players on each. *)
EXTENDS NameCache

V4OfOne == [g \in {1} |-> "anna"]
==============================================================================
