------------------------------- MODULE MCRefit -------------------------------
(* Wide trees for the model checker.                                       *)
EXTENDS Refit

(* Seven nodes: the root has two internal children and a leaf, one of them *)
(* three internal children, the other one.                                 *)
Parent7 == [n \in 0 .. 6 |-> CASE n = 0 -> InvalidValue
                               [] n \in {1, 2} -> 0
                               [] n \in {3, 4, 5} -> 1
                               [] n = 6 -> 2]
Prims7  == [n \in 0 .. 6 |-> CASE n = 1 -> {} [] OTHER -> {n}]
Below7  == [n \in 0 .. 6 |-> CASE n = 0 -> {0, 2, 3, 4, 5, 6}
                               [] n = 1 -> {3, 4, 5}
                               [] n = 2 -> {2, 6}
                               [] OTHER -> {n}]
=============================================================================
