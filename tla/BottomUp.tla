------------------------------ MODULE BottomUp ------------------------------
(***************************************************************************)
(* What the climbing kernels promise (EmitTopologyAndFitBounds, FitBounds, *)
(* ComputeFatLeaves): the nodes of a tree are fitted once each, and none   *)
(* before its internal children.                                           *)
(***************************************************************************)
VARIABLES
  children,   \* the internal children of each node
  fitted      \* the nodes fitted so far

Init == fitted = {}

Fit(n) ==
  /\ n \notin fitted
  /\ fitted' = fitted \cup {n}
  /\ children[n] \subseteq fitted
  /\ UNCHANGED children

Next == \E n \in DOMAIN children : Fit(n)

Spec == Init /\ [][Next]_<<fitted, children>>
=============================================================================
