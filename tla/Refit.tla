-------------------------------- MODULE Refit --------------------------------
(***************************************************************************)
(* An update keeps the wide tree and moves its primitives.  The host puts  *)
(* two kernels on a stream: ResetCountersAndUpdateLeaves clears the update *)
(* counters and rewrites the primitive nodes, then FitBounds recomputes    *)
(* the boxes from the bottom up.  FitBounds has one subwarp per box node;  *)
(* those of nodes without internal children climb, and at a node with      *)
(* several internal children only the last to arrive goes on.              *)
(*                                                                         *)
(* Both fences of the loop are in place, so memory is taken to be          *)
(* sequentially consistent.  A box is the set of primitives it was grown   *)
(* from, each with the update it was seen at: one stale primitive shows.   *)
(*                                                                         *)
(* A subwarp counts the internal children of its node with a ballot of the *)
(* warp and a mask shifted as an int, as the subwarps of Collapse do.      *)
(***************************************************************************)
EXTENDS Integers, FiniteSets

CONSTANTS
  boxNodeCount,     \* header->m_boxNodeCount
  ParentAddr,       \* m_parentAddr of each box node
  Prims,            \* the primitives in the leaf children of each box node
  Below,            \* the primitives below each box node
  WarpSubwarps,     \* subwarps of one warp: WarpSize / BranchingFactor
  IntSubwarps,      \* subwarps whose lanes an int has bits for: 32 / BranchingFactor
  resetThreadCount, \* threads of the reset: the primitives of the update
  MaxUpdates,       \* bound: the updates of a run
  InvalidValue      \* ~0u

Node == 0 .. boxNodeCount - 1
Kids(n) == {c \in Node : ParentAddr[c] = n}

(* Collapse allocates a node before its children and leaves none empty.    *)
ASSUME TreeAssumption ==
  /\ boxNodeCount \in Nat \ {0}
  /\ ParentAddr \in [Node -> Int \cup {InvalidValue}]
  /\ ParentAddr[0] = InvalidValue
  /\ \A n \in Node \ {0} : ParentAddr[n] \in 0 .. n - 1
ASSUME BelowAssumption ==
  /\ DOMAIN Prims = Node /\ DOMAIN Below = Node
  /\ \A n \in Node : Below[n] = Prims[n] \cup UNION {Below[c] : c \in Kids(n)}
ASSUME LaunchAssumption ==
  /\ resetThreadCount \in Nat /\ resetThreadCount >= boxNodeCount
  /\ MaxUpdates \in Nat
  /\ {WarpSubwarps, IntSubwarps} \subseteq Nat \ {0}
  /\ InvalidValue \notin Int

VARIABLES
  update,           \* the update under way or finished last; 0 is the build
  phase,            \* what the stream runs: "idle", "reset" or "fit"
  leaves,           \* the update the primitive nodes were written at
  updateCounter,    \* m_updateCounter of each box node
  boxes,            \* the box of each node
  pc, index, childBox,  \* of each subwarp: place, node, box register
  fitted, arrived   \* history: nodes written, and counted at their parent

vars == <<update, phase, leaves, updateCounter, boxes, pc, index, childBox, fitted, arrived>>

Fresh(n) == {<<p, update>> : p \in Below[n]}

subwarpIndex(s) == s % WarpSubwarps
Mates(s)        == {t \in Node : t \div WarpSubwarps = s \div WarpSubwarps}

(* The subwarps whose lanes the subwarpMask of s lets through: also those  *)
(* behind the bits of an int if it is widened from a negative int, and any *)
(* if it is shifted by the width of an int or more, which is undefined.    *)
Masked(s) ==
  IF subwarpIndex(s) < IntSubwarps - 1 THEN {{s}}
  ELSE IF subwarpIndex(s) = IntSubwarps - 1
  THEN {{s} \cup {t \in Mates(s) : subwarpIndex(t) >= IntSubwarps}}
  ELSE SUBSET Mates(s)

(* Every warp has at most as many lanes as an int has bits.                *)
MasksExact == WarpSubwarps <= IntSubwarps

(* The lanes with an internal child, of subwarps that are at the nodes at. *)
InternalLanes(at) == {l \in (DOMAIN at) \X Node : l[2] \in Kids(at[l[1]])}

internalCount(at) == Cardinality(InternalLanes(at))

(* After the build, whose kernels leave the counters at zero.              *)
Init ==
  /\ update = 0
  /\ phase = "idle"
  /\ leaves = 0
  /\ updateCounter = [n \in Node |-> 0]
  /\ boxes = [n \in Node |-> {<<p, 0>> : p \in Below[n]}]
  /\ pc = [s \in Node |-> "done"]
  /\ index = [s \in Node |-> s]
  /\ childBox = [s \in Node |-> {}]
  /\ fitted = Node
  /\ arrived = {}

Update ==
  /\ phase = "idle"
  /\ update < MaxUpdates
  /\ update' = update + 1
  /\ phase' = "reset"
  /\ UNCHANGED <<leaves, updateCounter, boxes, pc, index, childBox, fitted, arrived>>

(* Mutation: the counters keep what the last update left in them.          *)
KeptCounter(n) == updateCounter[n]

ResetCounter(n) == IF n < resetThreadCount THEN 0 ELSE updateCounter[n]

(* No thread of the reset reads what another one writes.  After it, the    *)
(* fit kernel starts: each subwarp looks at the node of its own index, and *)
(* is done if the ballot has internal children for it.                     *)
Reset ==
  /\ phase = "reset"
  /\ updateCounter' = [n \in Node |-> ResetCounter(n)]
  /\ leaves' = update
  /\ phase' = "fit"
  /\ pc' \in [Node -> {"grow", "done"}]
  /\ \A s \in Node : \E M \in Masked(s) :
       pc'[s] = "grow" <=> internalCount([t \in M |-> t]) = 0
  /\ index' = [s \in Node |-> s]
  /\ fitted' = {}
  /\ arrived' = {}
  /\ UNCHANGED <<update, boxes, childBox>>

(* Read the boxes of all children.                                         *)
Grow(s) ==
  /\ pc[s] = "grow"
  /\ childBox' = [childBox EXCEPT ![s] =
       {<<p, leaves>> : p \in Prims[index[s]]} \cup UNION {boxes[c] : c \in Kids(index[s])}]
  /\ pc' = [pc EXCEPT ![s] = "write"]
  /\ UNCHANGED <<update, phase, leaves, updateCounter, boxes, index, fitted, arrived>>

Write(s) ==
  /\ pc[s] = "write"
  /\ boxes' = [boxes EXCEPT ![index[s]] = childBox[s]]
  /\ fitted' = fitted \cup {index[s]}
  /\ pc' = [pc EXCEPT ![s] = IF ParentAddr[index[s]] = InvalidValue THEN "done" ELSE "arrive"]
  /\ UNCHANGED <<update, phase, leaves, updateCounter, index, childBox, arrived>>

(* Mutation: one arrival too few is waited for.                            *)
OtherArrived(n, count) == updateCounter[n] + 1 >= count - 1

(* The old value of the counter says whether the others were here before:  *)
(* not, with a count of zero, as zero minus one is the largest number.     *)
OthersArrived(n, count) == count # 0 /\ updateCounter[n] >= count - 1

(* Where the subwarps under the mask can be: other subwarps at any node,   *)
(* those that are done at one without internal children.                   *)
Under(s, n) == UNION {{at \in [M -> Node] : s \in M => at[s] = n} : M \in Masked(s)}

(* The ballot and the atomicAdd at the parent: the last child climbs on.   *)
Arrive(s) ==
  LET n == ParentAddr[index[s]]
  IN /\ pc[s] = "arrive"
     /\ updateCounter' = [updateCounter EXCEPT ![n] = @ + 1]
     /\ arrived' = arrived \cup {index[s]}
     /\ \E at \in Under(s, n) :
          IF OthersArrived(n, internalCount(at))
          THEN pc' = [pc EXCEPT ![s] = "grow"] /\ index' = [index EXCEPT ![s] = n]
          ELSE pc' = [pc EXCEPT ![s] = "done"] /\ UNCHANGED index
     /\ UNCHANGED <<update, phase, leaves, boxes, childBox, fitted>>

Step(s) == Grow(s) \/ Write(s) \/ Arrive(s)

(* The kernel ends with its last subwarp.                                  *)
Complete ==
  /\ phase = "fit"
  /\ \A s \in Node : pc[s] = "done"
  /\ phase' = "idle"
  /\ UNCHANGED <<update, leaves, updateCounter, boxes, pc, index, childBox, fitted, arrived>>

Terminated == phase = "idle" /\ update = MaxUpdates /\ UNCHANGED vars

Next == Update \/ Reset \/ (\E s \in Node : Step(s)) \/ Complete \/ Terminated

Spec == Init /\ [][Next]_vars

-----------------------------------------------------------------------------
Entry == (UNION {Below[n] : n \in Node}) \X (0 .. MaxUpdates)

TypeOK ==
  /\ update \in 0 .. MaxUpdates /\ leaves \in 0 .. MaxUpdates
  /\ phase \in {"idle", "reset", "fit"}
  /\ updateCounter \in [Node -> Nat]
  /\ \A n \in Node : updateCounter[n] <= Cardinality(Kids(n))
  /\ boxes \in [Node -> SUBSET Entry]
  /\ pc \in [Node -> {"grow", "write", "arrive", "done"}]
  /\ index \in [Node -> Node]
  /\ childBox \in [Node -> SUBSET Entry]
  /\ fitted \subseteq Node /\ arrived \subseteq Node

(* After every update, not only the first, each box is made of the         *)
(* primitives where this update put them, and of nothing else.             *)
BoxesFresh == phase = "idle" => \A n \in Node : boxes[n] = Fresh(n)

(* A box is never written with an out-of-date part in it, and never twice  *)
(* in an update: readers of the climb see a node finished or not at all.   *)
WrittenOnce ==
  [][\A s \in Node : Write(s) =>
       index[s] \notin fitted /\ childBox[s] = Fresh(index[s])]_vars

(* The climb of one update fits children before parents.                   *)
Climb == INSTANCE BottomUp WITH
  children <- [n \in Node |-> Kids(n)], fitted <- fitted

ChildrenFirst == [][Reset \/ Climb!Next \/ UNCHANGED fitted]_vars
=============================================================================
