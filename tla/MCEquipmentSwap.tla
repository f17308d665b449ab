--------------------------- MODULE MCEquipmentSwap ---------------------------
(* Values for model checking EquipmentSwap: two finger slots and a weapon slot. *)
EXTENDS EquipmentSwap

MCItems == {"ring1", "ring2", "sword", "axe"}
MCFits(item, slot) == (slot = 3) = (item \in {"sword", "axe"})
MCSets ==
  <<<<"ring1", "ring2", "sword">>,
    <<"ring2", "leave", "axe">>,
    <<"empty", "empty", "axe">>>>
==============================================================================
