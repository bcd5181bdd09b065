--------------------------- MODULE MCHybridMirror ---------------------------
(***************************************************************************)
(* HybridMirror for TLC.  The addresses of CPU data objects, those of      *)
(* scenes and the triangle inputs are interchangeable: nothing orders them *)
(* and nothing but equality compares them.  CHOOSE is used to name new     *)
(* Embree scenes only, and which of the free names is taken has no effect  *)
(* on anything but these names.                                            *)
(***************************************************************************)
EXTENDS HybridMirror, TLC

Symmetry ==
  Permutations(Data) \cup Permutations(Scene) \cup Permutations(Input \ Boxes)
=============================================================================
