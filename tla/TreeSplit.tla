----------------------------- MODULE TreeSplit -----------------------------
(***************************************************************************)
(* What the Collapse kernel promises, without threads, slots or counters:  *)
(* the references of a binary tree are split, node by node, into the       *)
(* leaves of wide nodes.  A step takes one node that is still open,        *)
(* replaces it by disjoint nodes below it that make it up, keeps the large *)
(* ones open and closes the references of the small ones for good.         *)
(***************************************************************************)
CONSTANTS
  Ref,      \* the references of the build
  Node,     \* the nodes of the binary tree, each the set of its references
  Small     \* the nodes that become leaves of a wide node

VARIABLES
  open,     \* the binary nodes that still need a wide node
  closed    \* the references that lie in a leaf of a wide node

Init == open = {Ref} /\ closed = {}

Covers(F, n) ==
  /\ UNION F = n /\ n \notin F
  /\ \A c, d \in F : c # d => c \cap d = {}

\* The nodes that are open, or have all their references closed, next.
Fates == {c \in Node : c \in open' \/ c \subseteq closed'}

Split(n) ==
  /\ n \in open
  /\ n \notin open'
  /\ \E F \in SUBSET Fates :
       /\ Covers(F, n)
       /\ open' = (open \ {n}) \cup (F \ Small)
       /\ closed' = closed \cup UNION (F \cap Small)

Next == \E n \in Node : Split(n)

Spec == Init /\ [][Next]_<<open, closed>>
=============================================================================
