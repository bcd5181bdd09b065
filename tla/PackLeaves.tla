----------------------------- MODULE PackLeaves -----------------------------
(***************************************************************************)
(* The kernels behind Collapse.  CompactTasks, one thread block, moves the *)
(* slots that hold a range of references to the front of the task queue,   *)
(* in place and in rounds of one slot per thread.  PackLeaves gives the    *)
(* references of each range their primitive nodes: one each, or packets of *)
(* triangles, which hold several.                                          *)
(***************************************************************************)
EXTENDS Collapse

CONSTANTS
  WarpSize,               \* lanes of a warp
  CompactWarps,           \* warps of the block that compacts
  PacketTasksPerWarp,     \* tasks a warp packs
  MinPairs, MaxPairs      \* pairs that always fit into a packet, and that may

ASSUME PackAssumption ==
  /\ {WarpSize, CompactWarps, PacketTasksPerWarp, MinPairs} \subseteq Nat \ {0}
  /\ MaxPairs \in Nat /\ MinPairs <= MaxPairs
ASSUME NoRangeAssumption ==
  InvalidValue \notin [rangeAddr : Nat, nodeAddr : Nat, rangeSize : Nat, refs : SUBSET Ref]

Packets == MaxFatLeafSize > 1

(* Mutation: the array is as large as packets that are all filled need.    *)
FilledNodeCount ==
  IF Packets THEN DivideRoundUp(referenceCount, MinPairs + 1) ELSE referenceCount

(* The size of the primitive node array: getMaxPrimNodeCount.              *)
maxPrimNodeCount ==
  IF Packets THEN 2 * DivideRoundUp(referenceCount, MinPairs + 1) ELSE referenceCount

VARIABLES
  kernel,           \* the kernel of the stream that runs: "collapse", "compact", "pack"
  slots,            \* taskQueue as Collapse leaves it: ranges, or InvalidValue
  round,            \* the round of the block that compacts
  stage,            \* what each of its warps does next: "load", "store" or "sync"
  held,             \* the tasks in the registers of a warp, by lane
  taskCount,        \* newTaskCount
  primNodeCount,    \* header->m_primNodeCount
  packed            \* the tasks packed, by place: their node and primitive nodes

packVars == <<kernel, slots, round, stage, held, taskCount, primNodeCount, packed>>

Warp == 0 .. CompactWarps - 1
Lane == 0 .. WarpSize - 1

PackInit ==
  /\ Init
  /\ kernel = "collapse"
  /\ slots = [a \in {} |-> InvalidValue]
  /\ round = 0
  /\ stage = [w \in Warp |-> "load"]
  /\ held = [w \in Warp |-> [l \in Lane |-> InvalidValue]]
  /\ taskCount = 0
  /\ primNodeCount = 0
  /\ packed = [i \in {} |-> {}]

StartBlock == Dispatch /\ UNCHANGED packVars

CollapseStep(s) == Step(s) /\ UNCHANGED packVars

(* The slot of a subwarp without leaves stays invalid.                     *)
SlotLeft(a) ==
  IF \E r \in ranges : r.nodeAddr = a THEN CHOOSE r \in ranges : r.nodeAddr = a
  ELSE InvalidValue

LaunchCompact ==
  /\ kernel = "collapse" /\ Finished
  /\ kernel' = "compact"
  /\ slots' = [a \in 0 .. boxNodeCount - 1 |-> SlotLeft(a)]
  /\ UNCHANGED <<vars, round, stage, held, taskCount, primNodeCount, packed>>

-----------------------------------------------------------------------------
taskIndex(w, l) == (round * CompactWarps + w) * WarpSize + l

LoadSlots(w) ==
  /\ kernel = "compact" /\ stage[w] = "load"
  /\ held' = [held EXCEPT ![w] = [l \in Lane |->
       IF taskIndex(w, l) < boxNodeCount THEN slots[taskIndex(w, l)] ELSE InvalidValue]]
  /\ stage' = [stage EXCEPT ![w] = "store"]
  /\ UNCHANGED <<vars, kernel, slots, round, taskCount, primNodeCount, packed>>

(* Mutation: the block does not wait before it stores.                     *)
Unsynced == TRUE

AllLoaded == \A w \in Warp : stage[w] # "load"

newIndex(w, l) == taskCount + Cardinality({j \in 0 .. l - 1 : held[w][j] # InvalidValue})

StoreTasks(w) ==
  LET valid == {l \in Lane : held[w][l] # InvalidValue}
  IN  /\ kernel = "compact" /\ stage[w] = "store" /\ AllLoaded
      /\ slots' = [a \in DOMAIN slots |->
           IF \E l \in valid : newIndex(w, l) = a
           THEN held[w][CHOOSE l \in valid : newIndex(w, l) = a] ELSE slots[a]]
      /\ taskCount' = taskCount + Cardinality(valid)
      /\ stage' = [stage EXCEPT ![w] = "sync"]
      /\ UNCHANGED <<vars, kernel, round, held, primNodeCount, packed>>

RoundDone == kernel = "compact" /\ \A w \in Warp : stage[w] = "sync"

NextRound ==
  /\ RoundDone /\ (round + 1) * CompactWarps * WarpSize < boxNodeCount
  /\ round' = round + 1
  /\ stage' = [w \in Warp |-> "load"]
  /\ UNCHANGED <<vars, kernel, slots, held, taskCount, primNodeCount, packed>>

LaunchPack ==
  /\ RoundDone /\ (round + 1) * CompactWarps * WarpSize >= boxNodeCount
  /\ kernel' = "pack"
  /\ UNCHANGED <<vars, slots, round, stage, held, taskCount, primNodeCount, packed>>

-----------------------------------------------------------------------------
PackWarp == 0 .. DivideRoundUp(taskCount, PacketTasksPerWarp) - 1

lastTask(w) ==
  LET next == (w + 1) * PacketTasksPerWarp
  IN  (IF next < taskCount THEN next ELSE taskCount) - 1

TasksOf(w) == w * PacketTasksPerWarp .. lastTask(w)

(* How many primitive nodes a range takes.  References go into one packet  *)
(* until the next does not fit, which depends on shared vertices and bits. *)
NodesFor(r) ==
  IF Packets THEN DivideRoundUp(r.rangeSize, MaxPairs) .. DivideRoundUp(r.rangeSize, MinPairs)
  ELSE {r.rangeSize}

(* No range takes more nodes than the lanes of a warp hold references.     *)
MaxPacked == PacketTasksPerWarp * WarpSubwarps * BranchingFactor * MaxFatLeafSize

(* One atomicAdd for the tasks of a warp: of all tasks it packs, in        *)
(* PackLeavesWarp, or of a single one, in PackLeaves.  The nodes of a task *)
(* end where those of the next one begin.                                  *)
Pack(w) ==
  /\ kernel = "pack" /\ TasksOf(w) \cap DOMAIN packed = {}
  /\ \E end \in [TasksOf(w) -> primNodeCount .. primNodeCount + MaxPacked] :
       LET base(i) == IF i - 1 \in TasksOf(w) THEN end[i - 1] ELSE primNodeCount
       IN  /\ \A i \in TasksOf(w) : end[i] - base(i) \in NodesFor(slots[i])
           /\ packed' = [i \in DOMAIN packed \cup TasksOf(w) |->
                IF i \in DOMAIN packed THEN packed[i]
                ELSE [task |-> slots[i], nodes |-> base(i) .. end[i] - 1]]
           /\ primNodeCount' = end[lastTask(w)]
  /\ UNCHANGED <<vars, kernel, slots, round, stage, held, taskCount>>

PackDone == kernel = "pack" /\ DOMAIN packed = 0 .. taskCount - 1

Built == PackDone /\ UNCHANGED <<vars, packVars>>

BackEnd ==
  \/ LaunchCompact
  \/ \E w \in Warp : LoadSlots(w) \/ StoreTasks(w)
  \/ NextRound
  \/ LaunchPack
  \/ \E w \in PackWarp : Pack(w)

BuildNext == StartBlock \/ (\E s \in Subwarp : CollapseStep(s)) \/ BackEnd \/ Built

(* The device starts a block whenever there is room for it, and every warp *)
(* of a resident block keeps being scheduled; the kernels behind Collapse  *)
(* do not spin, and it is enough that the device does not stop.            *)
BuildSpec ==
  /\ PackInit /\ [][BuildNext]_<<vars, packVars>>
  /\ WF_<<vars, packVars>>(StartBlock)
  /\ \A s \in Subwarp : WF_<<vars, packVars>>(CollapseStep(s))
  /\ WF_<<vars, packVars>>(BackEnd)

-----------------------------------------------------------------------------
(* Each box node with leaves is packed once, all of them and nothing else, *)
(* from the range Collapse wrote for it, into primitive nodes of its own.  *)
PackedFor(i, a) == packed[i].task.nodeAddr = a /\ packed[i].task.refs = boxNodes[a].leaves

LeavesPacked == PackDone =>
  /\ \A a \in DOMAIN boxNodes : boxNodes[a].leaves # {} =>
       \E i \in DOMAIN packed : PackedFor(i, a) /\ packed[i].task.rangeSize = Cardinality(boxNodes[a].leaves)
  /\ {packed[i].task : i \in DOMAIN packed} = ranges
  /\ \A i, j \in DOMAIN packed : i # j =>
       packed[i].task # packed[j].task /\ packed[i].nodes \cap packed[j].nodes = {}

(* The primitive nodes fit into the array whose size is computed before    *)
(* the tree, and so the ranges, are known.                                 *)
PrimNodesFit == primNodeCount <= maxPrimNodeCount

(* The kernels end.                                                        *)
Termination == <>PackDone
=============================================================================
