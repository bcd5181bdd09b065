--------------------------- MODULE MCHybridTrace ---------------------------
(***************************************************************************)
(* HybridTrace for TLC: one thread traces batches of every size and the    *)
(* other single rays.  The two contexts on devices of one vendor are       *)
(* interchangeable.                                                        *)
(***************************************************************************)
EXTENDS HybridTrace, TLC

CONSTANTS t1, amd

Batches == [t \in Thread |-> IF t = t1 THEN Uint ELSE {1}]
Devices == [c \in Context |-> IF c = amd THEN {"AMD", "CPU"} ELSE {"NVIDIA", "CPU"}]

ContextSymmetry == Permutations(Context \ {amd})
=============================================================================
