--------------------------- MODULE MCEquipmentSets ---------------------------
(* Values for model checking EquipmentSets: two characters, two slots. *)
EXTENDS EquipmentSets
==============================================================================
