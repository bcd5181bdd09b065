--------------------------- MODULE Agglomeration ---------------------------
(***************************************************************************)
(* What a bottom-up builder promises, without warps and arrays: clusters   *)
(* of references are united two by two, none of them twice.                *)
(***************************************************************************)
CONSTANT Ref        \* the references of the build

VARIABLE clusters   \* those that have no parent yet

Init == clusters = {{r} : r \in Ref}

United(c) == \E a, b \in clusters : a # b /\ c = a \cup b

Apart(S) == \A c, d \in S : c # d => c \cap d = {}

Next ==
  /\ clusters' # clusters
  /\ \A c \in clusters' : c \in clusters \/ United(c)
  /\ UNION clusters' = UNION clusters /\ Apart(clusters')

Spec == Init /\ [][Next]_clusters
=============================================================================
