--------------------------- MODULE MCEventCustom ---------------------------
(***************************************************************************)
(* Values for model checking EventCustom: a static array with a glue id,   *)
(* which is an unnamed unit field as well, a named unit field, a chat id,  *)
(* an open unit field and a named event.                                   *)
(***************************************************************************)
EXTENDS EventCustom, TLC

CONSTANT f1

MCGameNames == (0 :> NoName) @@ (1 :> "UNIT_A") @@ (2 :> NoName) @@ (3 :> NoName) @@ (4 :> "ZONE_A")
MCGlueNames == (0 :> "GLUE_A")
MCEngineNames == {<<0, "UNIT_T">>, <<1, "UNIT_X">>, <<3, "UNIT_Y">>}
MCOthers == {<<5, "OTHER">>}
=============================================================================
