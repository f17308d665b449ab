----------------------------- MODULE MCAnimGroup -----------------------------
(* Values for model checking AnimGroup: a frame with a texture, and a group on
   the frame that ends and one that bounces.  One that repeats differs from the
   latter in AfterEnd only, and the proofs cover it. *)
EXTENDS AnimGroup

OnTheFrame == [g \in Groups |-> "frame"]
Loops == [g \in Groups |-> CASE g = "ends" -> "NONE" [] g = "bounces" -> "BOUNCE"]
Changes == [g \in Groups |-> IF g = "ends" THEN -1 ELSE 1]
=============================================================================
