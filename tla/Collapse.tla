------------------------------ MODULE Collapse ------------------------------
(***************************************************************************)
(* The Collapse kernel turns the binary BVH into the wide BVH.  It is one  *)
(* launch of persistent subwarps that feed each other through a task queue *)
(* in global memory: the subwarp with index a spins on slot a of           *)
(* taskQueue, opens the binary node it finds there into up to              *)
(* BranchingFactor children, allocates one box node and one queue slot per *)
(* internal child, stores the children's tasks, and hands its leaves to    *)
(* the leaf packing as a range of referenceIndices.                        *)
(*                                                                         *)
(* A binary node is represented by the set of references below it, so the  *)
(* tree is a laminar family of sets.  Slots that no child was allocated    *)
(* for still hold the value of the host's memset and are left out of the   *)
(* domain of taskQueue.                                                    *)
(*                                                                         *)
(* The subwarps of a warp tell their lanes apart by a mask that is shifted *)
(* as an int.  A warp that has more lanes than an int has bits is part of  *)
(* the model; MasksExact says that the device has no such warps.           *)
(***************************************************************************)
EXTENDS Integers, FiniteSets, Functions

CONSTANTS
  Ref,              \* the references (primitives) of the build
  Node,             \* the nodes of the binary tree, each the set of its references
  BranchingFactor,  \* children of a wide node: 4, or 8 from RTIP 3.1
  MaxFatLeafSize,   \* 1, or 4 when triangles are packed into packets
  WarpSubwarps,     \* subwarps of one warp: WarpSize / BranchingFactor
  IntSubwarps,      \* subwarps whose lanes an int has bits for: 32 / BranchingFactor
  BlockTasks,       \* subwarps of one thread block
  MaxResident,      \* thread blocks the device runs at a time
  InvalidValue      \* ~0u

ASSUME TreeAssumption ==
  /\ IsFiniteSet(Ref)
  /\ Node \subseteq (SUBSET Ref) \ {{}}
  /\ Ref \in Node
  /\ \A m, n \in Node : m \cap n = {} \/ m \subseteq n \/ n \subseteq m
ASSUME FullTreeAssumption ==
  /\ Cardinality(Ref) > 1
  /\ Cardinality({n \in Node : Cardinality(n) > 1}) = Cardinality(Ref) - 1
ASSUME SizeAssumption ==
  /\ MaxFatLeafSize \in Nat \ {0}
  /\ BranchingFactor \in Nat /\ BranchingFactor > MaxFatLeafSize
  /\ {WarpSubwarps, IntSubwarps, BlockTasks} \subseteq Nat \ {0}
  /\ BlockTasks % WarpSubwarps = 0
  /\ MaxResident \in Nat \ {0}
ASSUME InvalidAssumption == InvalidValue \notin Node \cup Nat

referenceCount == Cardinality(Ref)

DivideRoundUp(x, y) == (x + y - 1) \div y

(* Mutation: the array is as large as full nodes above full fat leaves need. *)
FullNodeCount ==
  DivideRoundUp(DivideRoundUp(referenceCount, MaxFatLeafSize) - 1, BranchingFactor - 1)

(* The size of the box node array, and so of the launch: getMaxBoxNodeCount. *)
maxBoxNodeCount ==
  IF referenceCount <= BranchingFactor THEN 1
  ELSE LET maxLeafNodes == DivideRoundUp(referenceCount, MaxFatLeafSize + 1)
       IN  maxLeafNodes + 1 + DivideRoundUp(maxLeafNodes, BranchingFactor - 1)

BlockCount == DivideRoundUp(maxBoxNodeCount, BlockTasks)
Subwarp    == 0 .. BlockCount * BlockTasks - 1

subwarpIndex(s) == s % WarpSubwarps
Mates(s)        == {t \in Subwarp : t \div WarpSubwarps = s \div WarpSubwarps}

(* The subwarps whose lanes the subwarpMask of s lets through.  The mask   *)
(* of the last subwarp an int has bits for is negative: widened to 64 bits *)
(* it has the lanes of all later ones too.  Theirs is shifted by the width *)
(* of an int or more, which is undefined: any lanes.                       *)
Masked(s) ==
  IF subwarpIndex(s) < IntSubwarps - 1 THEN {{s}}
  ELSE IF subwarpIndex(s) = IntSubwarps - 1
  THEN {{s} \cup {t \in Mates(s) : subwarpIndex(t) >= IntSubwarps}}
  ELSE SUBSET Mates(s)

(* Every warp has at most as many lanes as an int has bits.                *)
MasksExact == WarpSubwarps <= IntSubwarps

(* isFatLeafNode in the packet builds, isLeafNode in the others: such a    *)
(* child gets no box node of its own.                                      *)
FatLeaf(n) == Cardinality(n) <= MaxFatLeafSize

Internal == {n \in Node : ~FatLeaf(n)}

(* The children that the lanes of a subwarp hold, one each.                *)
LaneChildren == {{f[i] : i \in 1 .. BranchingFactor} : f \in [1 .. BranchingFactor -> Node]}

(* The child sets openNodes can leave in the lanes of a subwarp.  Which    *)
(* child is opened next depends on box areas, so every order is allowed:   *)
(* opening stops when the lanes are used up or only leaves remain, and fat *)
(* leaves are opened only once no other internal child is left.            *)
Fronts == [n \in Node |->
  {F \in LaneChildren :
     /\ UNION F = n /\ n \notin F
     /\ \A c, d \in F : c # d => c \cap d = {}
     /\ Cardinality(F) <= BranchingFactor
     /\ Cardinality(F) = BranchingFactor \/ \A c \in F : Cardinality(c) = 1
     /\ (\E c \in F : ~FatLeaf(c)) =>
          \A c \in F, m \in Node :
            (c \subseteq m /\ c # m /\ m \subseteq n /\ m # n) => ~FatLeaf(m)}]

Word == {"x", "y", "z"}   \* nodeIndex, nodeAddr, parentAddr of a uint3 task
Task == [x : Node, y : Nat, z : Nat]

EmptySlot == [x |-> InvalidValue, y |-> InvalidValue, z |-> InvalidValue]
RootTask  == [x |-> Ref, y |-> 0, z |-> 0]

VARIABLES
  dispatched,       \* thread blocks started so far
  pc,               \* where each subwarp is in the loop
  task,             \* the task registers of each subwarp
  front,            \* the child registers of each subwarp, after openNodes
  laneTask,         \* the task held by the lane that was given address a
  taskQueue,        \* what has reached slot a of the queue
  boxNodeCount,     \* header->m_boxNodeCount
  emittedCount,     \* header->m_referenceCount
  boxNodes,         \* the wide nodes written so far, by address
  ranges            \* the ranges of referenceIndices written so far

vars == <<dispatched, pc, task, front, laneTask, taskQueue, boxNodeCount,
          emittedCount, boxNodes, ranges>>

Init ==
  /\ dispatched = 0
  /\ pc = [s \in Subwarp |-> "queued"]
  /\ task = [s \in Subwarp |-> EmptySlot]
  /\ front = [s \in Subwarp |-> {}]
  /\ laneTask = [a \in {0} |-> RootTask]
  /\ taskQueue = [a \in {0} |-> RootTask]
  /\ boxNodeCount = 1
  /\ emittedCount = 0
  /\ boxNodes = [a \in {} |-> {}]
  /\ ranges = {}

-----------------------------------------------------------------------------
Block(s) == s \div BlockTasks

Resident == {b \in 0 .. dispatched - 1 :
               \E s \in Subwarp : Block(s) = b /\ pc[s] # "done"}

(* The device starts blocks in order, when an earlier one has left room.   *)
(* A subwarp without a slot of its own is done before its first iteration. *)
Dispatch ==
  /\ dispatched < BlockCount
  /\ Cardinality(Resident) < MaxResident
  /\ dispatched' = dispatched + 1
  /\ pc' = [s \in Subwarp |->
              IF Block(s) # dispatched THEN pc[s]
              ELSE IF s >= maxBoxNodeCount \/ s >= referenceCount THEN "done"
              ELSE "poll"]
  /\ UNCHANGED <<task, front, laneTask, taskQueue, boxNodeCount, emittedCount,
                 boxNodes, ranges>>

(* Mutations: the exit test is never true, or true a node too early.       *)
NeverEmitted  == emittedCount > referenceCount
NearlyEmitted == emittedCount + BranchingFactor >= referenceCount

AllEmitted == emittedCount = referenceCount

(* The head of the loop: stop when every reference has been emitted.       *)
Poll(s) ==
  /\ pc[s] = "poll"
  /\ pc' = [pc EXCEPT ![s] = IF AllEmitted THEN "done" ELSE "loadx"]
  /\ task' = [task EXCEPT ![s] = EmptySlot]
  /\ UNCHANGED <<dispatched, front, laneTask, taskQueue, boxNodeCount,
                 emittedCount, boxNodes, ranges>>

Slot(a) == IF a \in DOMAIN taskQueue THEN taskQueue[a] ELSE EmptySlot

(* atomic_load of a uint3 is three relaxed loads of a word each.           *)
Load(s, w, here, next) ==
  /\ pc[s] = here
  /\ task' = [task EXCEPT ![s][w] = Slot(s)[w]]
  /\ pc' = [pc EXCEPT ![s] = next]
  /\ UNCHANGED <<dispatched, front, laneTask, taskQueue, boxNodeCount,
                 emittedCount, boxNodes, ranges>>

LoadTask(s) ==
  \/ Load(s, "x", "loadx", "loady")
  \/ Load(s, "y", "loady", "loadz")
  \/ Load(s, "z", "loadz", "check")

(* Mutation: only the node index is looked at.                             *)
ValidNode(t) == t.x # InvalidValue

Valid(t) == \A w \in Word : t[w] # InvalidValue

Retry(s) ==
  /\ pc[s] = "check"
  /\ ~Valid(task[s])
  /\ pc' = [pc EXCEPT ![s] = "poll"]
  /\ UNCHANGED <<dispatched, task, front, laneTask, taskQueue, boxNodeCount,
                 emittedCount, boxNodes, ranges>>

(* A valid task: open its node and allocate addresses for the internal     *)
(* children with one atomicAdd; which lane gets which address is open.     *)
NewAddrs(F) == boxNodeCount .. boxNodeCount + Cardinality(F \cap Internal) - 1

Allocate(s, F, child) ==
  /\ front' = [front EXCEPT ![s] = F]
  /\ laneTask' = [a \in DOMAIN laneTask \cup NewAddrs(F) |->
       IF a \in NewAddrs(F) THEN [x |-> child[a], y |-> a, z |-> task[s].y]
                            ELSE laneTask[a]]
  /\ taskQueue' = [a \in DOMAIN taskQueue \cup NewAddrs(F) |->
       IF a \in NewAddrs(F) THEN EmptySlot ELSE taskQueue[a]]
  /\ boxNodeCount' = boxNodeCount + Cardinality(F \cap Internal)

(* The child to open is the first of the lanes the mask lets through: one  *)
(* of the own lanes, which come before those of later subwarps, or with an *)
(* undefined mask one of any lane, and the lanes are left with any nodes.  *)
(* With two lanes there is nothing to open.                                *)
OpenNodes(s) ==
  IF subwarpIndex(s) < IntSubwarps \/ BranchingFactor = 2 THEN Fronts[task[s].x]
  ELSE LaneChildren

Claim(s) ==
  /\ pc[s] = "check"
  /\ Valid(task[s])
  /\ \E F \in OpenNodes(s) :
       \E child \in Bijection(NewAddrs(F), F \cap Internal) : Allocate(s, F, child)
  /\ pc' = [pc EXCEPT ![s] = "publish"]
  /\ UNCHANGED <<dispatched, task, emittedCount, boxNodes, ranges>>

Children(s) == {a \in DOMAIN laneTask : a # 0 /\ laneTask[a].z = task[s].y}

(* atomic_store of a child's task: the words become visible in any order.  *)
Publish(s) ==
  /\ pc[s] = "publish"
  /\ \E a \in Children(s), w \in Word :
       /\ taskQueue[a][w] = InvalidValue
       /\ taskQueue' = [taskQueue EXCEPT ![a][w] = laneTask[a][w]]
  /\ UNCHANGED <<dispatched, pc, task, front, laneTask, boxNodeCount,
                 emittedCount, boxNodes, ranges>>

(* Mutations: the leaves are not told apart from the other children, or    *)
(* by the test of the builds that have no fat leaves.                      *)
AllChildren(s)  == UNION front[s]
SingleLeaves(s) == UNION {c \in front[s] : Cardinality(c) = 1}

(* The references a subwarp has to hand on: those of its leaf children.    *)
Leaves(s) == UNION {c \in front[s] : FatLeaf(c)}

(* The references in the lanes of some subwarps.                           *)
LeafLanes(T) == {l \in T \X Ref : l[2] \in Leaves(l[1])}

(* Mutation: every active lane is counted.                                 *)
ActiveLanes(s) == {Cardinality(front[s])}

(* What the ballot of the leaf lanes gives, under the mask of s.  A lane   *)
(* of another subwarp counts if that subwarp is in the same iteration.     *)
RangeSizes(s) ==
  {Cardinality(LeafLanes(T)) : T \in {U \in SUBSET Mates(s) :
     \E M \in Masked(s) : U \subseteq M /\ (s \in M => s \in U)}}

(* Mutation: the root keeps the link of its task, an existing node.        *)
TaskLink(s) == task[s].z

ParentLink(s) == IF task[s].y = 0 THEN InvalidValue ELSE task[s].z

(* After the stores: write the box node, allocate a range for the leaves,  *)
(* write it, and leave the loop.  The slot of the subwarp itself, read by  *)
(* the next kernel, is overwritten with the range, if the ballot has any   *)
(* leaf lane; the allocation counts the lanes themselves.                  *)
Emit(s) ==
  /\ pc[s] = "publish"
  /\ \A a \in Children(s) : Valid(taskQueue[a])
  /\ LET addr == task[s].y
     IN /\ boxNodes' = [a \in DOMAIN boxNodes \cup {addr} |->
             IF a # addr THEN boxNodes[a]
             ELSE [parentAddr |-> ParentLink(s), children |-> Children(s), leaves |-> Leaves(s)]]
        /\ emittedCount' = emittedCount + Cardinality(Leaves(s))
        /\ \E size \in RangeSizes(s) : ranges' = IF size = 0 THEN ranges
             ELSE ranges \cup {[rangeAddr |-> emittedCount, nodeAddr |-> addr,
                                rangeSize |-> size, refs |-> Leaves(s)]}
  /\ pc' = [pc EXCEPT ![s] = "done"]
  /\ UNCHANGED <<dispatched, task, front, laneTask, taskQueue, boxNodeCount>>

Step(s) ==
  Poll(s) \/ LoadTask(s) \/ Retry(s) \/ Claim(s) \/ Publish(s) \/ Emit(s)

Finished == dispatched = BlockCount /\ \A s \in Subwarp : pc[s] = "done"

Terminated == Finished /\ UNCHANGED vars

Next ==
  \/ Dispatch
  \/ \E s \in Subwarp : Step(s)
  \/ Terminated

Spec == Init /\ [][Next]_vars

-----------------------------------------------------------------------------
(* An address is opened once its subwarp has taken the task.               *)
Opened  == DOMAIN boxNodes \cup {s \in Subwarp : pc[s] = "publish"}
Pending == DOMAIN laneTask \ Opened

EmittedRefs == UNION {r.refs : r \in ranges}

TypeOK ==
  /\ dispatched \in 0 .. BlockCount
  /\ pc \in [Subwarp -> {"queued", "poll", "loadx", "loady", "loadz", "check",
                         "publish", "done"}]
  /\ task \in [Subwarp -> [x : Node \cup {InvalidValue},
                           y : Nat \cup {InvalidValue}, z : Nat \cup {InvalidValue}]]
  /\ front \in [Subwarp -> SUBSET Node]
  /\ boxNodeCount \in Nat \ {0}
  /\ laneTask \in [0 .. boxNodeCount - 1 -> Task]
  /\ taskQueue \in [0 .. boxNodeCount - 1 ->
                      [x : Node \cup {InvalidValue},
                       y : Nat \cup {InvalidValue}, z : Nat \cup {InvalidValue}]]
  /\ emittedCount \in Nat
  /\ \A r \in ranges : /\ r.rangeAddr \in Nat /\ r.nodeAddr \in Nat
                       /\ r.rangeSize \in Nat \ {0} /\ r.refs \subseteq Ref

(* A subwarp works on exactly the task that was published for its slot,    *)
(* although the three words of a slot are stored and loaded one by one.    *)
UntornTask == \A s \in Subwarp : pc[s] = "publish" =>
                 s \in DOMAIN laneTask /\ task[s] = laneTask[s]

(* Nothing is lost and nothing is built twice: every reference lies below  *)
(* exactly one node that is still to open, or is a leaf in the lanes of    *)
(* exactly one subwarp, or has been emitted.                               *)
InQueue(r, a) == a \in Pending /\ r \in laneTask[a].x
InLanes(r, s) == pc[s] = "publish" /\ r \in Leaves(s)

HeldOnce(r) ==
  /\ \/ \E a \in DOMAIN laneTask : InQueue(r, a)
     \/ \E s \in Subwarp : InLanes(r, s)
     \/ r \in EmittedRefs
  /\ \A a, b \in DOMAIN laneTask : InQueue(r, a) /\ InQueue(r, b) => a = b
  /\ \A s, t \in Subwarp : InLanes(r, s) /\ InLanes(r, t) => s = t
  /\ \A a \in DOMAIN laneTask, s \in Subwarp : ~(InQueue(r, a) /\ InLanes(r, s))
  /\ r \in EmittedRefs =>
       /\ \A a \in DOMAIN laneTask : ~InQueue(r, a)
       /\ \A s \in Subwarp : ~InLanes(r, s)

ReferencesPartitioned == \A r \in Ref : HeldOnce(r)

(* The count the exit test reads is the number of references emitted.      *)
CountExact == emittedCount = Cardinality(EmittedRefs)

(* A subwarp that has left the loop leaves no task behind in its slot.     *)
NoTaskAbandoned ==
  \A s \in Subwarp : pc[s] = "done" /\ s \in DOMAIN laneTask => s \in DOMAIN boxNodes

(* The allocations never outrun the task queue, which has one slot per     *)
(* reference of the build.                                                 *)
QueueFits == boxNodeCount <= referenceCount

(* They never outrun the box node array and the launch, whose size         *)
(* getMaxBoxNodeCount computes before the tree is known.                   *)
BoxNodesFit == boxNodeCount <= maxBoxNodeCount

(* The ranges of referenceIndices are as long as the references they hold, *)
(* and leave neither an overlap nor a gap below the count.                 *)
Holds(r, i) == r.rangeAddr <= i /\ i < r.rangeAddr + r.rangeSize

RangesPacked ==
  /\ \A r \in ranges : r.rangeSize = Cardinality(r.refs)
  /\ \A i \in 0 .. emittedCount - 1 : Cardinality({r \in ranges : Holds(r, i)}) = 1

(* The kernel leaves a tree: every box node but the root is listed by      *)
(* exactly the node its parent link names, and each reference of a node    *)
(* lies below exactly one of its children or leaves.                       *)
WideTree == Finished =>
  /\ DOMAIN boxNodes = 0 .. boxNodeCount - 1
  /\ boxNodes[0].parentAddr = InvalidValue
  /\ \A a \in DOMAIN boxNodes \ {0} :
       {p \in DOMAIN boxNodes : a \in boxNodes[p].children} = {boxNodes[a].parentAddr}
  /\ \A a \in DOMAIN boxNodes :
       laneTask[a].x = boxNodes[a].leaves
                         \cup UNION {laneTask[c].x : c \in boxNodes[a].children}

(* The kernel implements the plain splitting of the tree: a claim is the   *)
(* split of a node, every other step is invisible.                         *)
InHand == UNION {Leaves(s) : s \in {t \in Subwarp : pc[t] = "publish"}}

Tree == INSTANCE TreeSplit WITH Small  <- Node \ Internal,
                                open   <- {laneTask[a].x : a \in Pending},
                                closed <- EmittedRefs \cup InHand

ImplementsTreeSplit == Tree!Spec
=============================================================================
