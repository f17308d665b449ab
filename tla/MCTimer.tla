------------------------------ MODULE MCTimer ------------------------------
(* Timer with small delays: one in the past, one immediate, one later. *)
EXTENDS Timer

MCDelays == {-1, 0, 2}
MCIterations == {0, 2}
=============================================================================
