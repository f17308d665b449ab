----------------------------- MODULE MCSortBags -----------------------------
(***************************************************************************)
(* Values for model checking SortBags.  X is ahead of Y and Y of A; A      *)
(* stacks and is junk, X is for the herb bags, cells 5 and 6.              *)
(***************************************************************************)
EXTENDS SortBags

CONSTANTS a1, a2, x1, x2, y

MCFamily == [c \in Cells |-> IF c \in {5, 6} THEN "herbs" ELSE "any"]
MCKindOf == [i \in Items |-> IF i \in {x1, x2} THEN "X" ELSE IF i = y THEN "Y" ELSE "A"]
MCItemID == [k \in Kinds |-> CASE k = "A" -> 1 [] k = "X" -> 2 [] k = "Y" -> 3]
MCRank == [k \in Kinds |-> CASE k = "A" -> 3 [] k = "X" -> 1 [] k = "Y" -> 2]
MCFamilyOf == [k \in Kinds |-> IF k = "X" THEN "herbs" ELSE "any"]
MCMaxStack == [k \in Kinds |-> IF k = "A" THEN 3 ELSE 1]
MCAll == {Cells}
MCBags == {Cells, Cells \ {6}}
MCOneTie == {[i \in Items |-> CASE i = a1 -> 1 [] i = a2 -> 2 [] i = x1 -> 3 [] i = x2 -> 4 [] i = y -> 5]}
MCTies ==
  MCOneTie \cup {[i \in Items |-> CASE i = a1 -> 2 [] i = a2 -> 1 [] i = x1 -> 4 [] i = x2 -> 3 [] i = y -> 5]}

(* The instance meets the hypothesis of the proofs. *)
ASSUME MCDecided == SortIsDecided
=============================================================================
