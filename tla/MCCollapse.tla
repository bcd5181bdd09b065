----------------------------- MODULE MCCollapse -----------------------------
(* A binary tree for the model checker.                                    *)
EXTENDS PackLeaves

(* Thirteen references: the root can open into nodes of four, three and    *)
(* six references, the last of which into two leaves and a node of three.  *)
Ref13  == 1 .. 13
Tree13 == {{i} : i \in Ref13} \cup
  {{1, 2}, {3, 4}, 1 .. 4, {5, 6}, 5 .. 7, {8, 9}, 8 .. 10, {11, 12}, 11 .. 13, 8 .. 13, 5 .. 13, 1 .. 13}
=============================================================================
