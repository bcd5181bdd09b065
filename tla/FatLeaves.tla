----------------------------- MODULE FatLeaves -----------------------------
(***************************************************************************)
(* The next two kernels of a build of triangle packets, on the tree that   *)
(* EmitTopologyAndFitBounds has left.  ComputeParentAddrs inverts its      *)
(* links.  ComputeFatLeaves climbs once more: a thread starts at each node *)
(* without internal children, counts the triangles below the nodes on its  *)
(* way, flags the children that are small enough to become one leaf, and   *)
(* of the threads that meet at a node the last goes on.                    *)
(***************************************************************************)
EXTENDS LbvhEmit

CONSTANT MaxFatLeafSize

ASSUME FatLeafAssumption == MaxFatLeafSize \in Nat \ {0}

VARIABLES
  kernel,           \* the kernel of the stream that runs: "emit", "parents" or "fat"
  waiting,          \* its threads that have not been started
  parentAddrs,
  triangleCounts,
  arrivals,         \* its own updateCounters, in the memory of taskQueue
  fatLeaves,        \* the children that carry the flag, as <<node, side>>
  at, doing,        \* of each thread: its node, and what it does there
  unseen            \* and the count it has stored that has not reached memory

fatVars == <<kernel, waiting, parentAddrs, triangleCounts, arrivals, fatLeaves, at, doing, unseen>>

(* The arrays lie where the sort has left its keys; zero stands for them.  *)
BuildInit ==
  /\ Init
  /\ kernel = "emit" /\ waiting = {}
  /\ parentAddrs = [n \in Node |-> 0]
  /\ triangleCounts = [n \in Node |-> 0]
  /\ arrivals = [n \in Node |-> 0]
  /\ fatLeaves = {}
  /\ at = [t \in Node |-> t]
  /\ doing = [t \in Node |-> "nothing"]
  /\ unseen = [t \in Node |-> {}]

Emit ==
  /\ kernel = "emit"
  /\ \E t \in Leaf : Arrive(t) \/ Step(t)
  /\ UNCHANGED fatVars

(* Kernels of a stream run one after the other.                            *)
LaunchParents ==
  /\ kernel = "emit" /\ Finished
  /\ kernel' = "parents" /\ waiting' = Node
  /\ UNCHANGED <<vars, parentAddrs, triangleCounts, arrivals, fatLeaves, at, doing, unseen>>

rootAddr == updateCounters[primCount - 1]

Linked(n, k) == memory[Child(n, k)]

InternalSides(n) == {k \in {0, 1} : Linked(n, k)[1] = "node"}

ParentsWritten(t) ==
  [n \in Node |->
    IF n = t /\ n = rootAddr THEN InvalidValue
    ELSE IF \E k \in InternalSides(t) : Linked(t, k)[2] = n THEN t
    ELSE parentAddrs[n]]

ComputeParentAddrs(t) ==
  /\ kernel = "parents" /\ t \in waiting
  /\ waiting' = waiting \ {t}
  /\ parentAddrs' = ParentsWritten(t)
  /\ UNCHANGED <<vars, kernel, triangleCounts, arrivals, fatLeaves, at, doing, unseen>>

LaunchFat ==
  /\ kernel = "parents" /\ waiting = {}
  /\ kernel' = "fat" /\ waiting' = Node
  /\ UNCHANGED <<vars, parentAddrs, triangleCounts, arrivals, fatLeaves, at, doing, unseen>>

-----------------------------------------------------------------------------
Starts(t) == InternalSides(t) = {}

StartThread(t) ==
  /\ kernel = "fat" /\ t \in waiting
  /\ waiting' = waiting \ {t}
  /\ doing' = [doing EXCEPT ![t] = IF Starts(t) THEN "count" ELSE "nothing"]
  /\ UNCHANGED <<vars, kernel, parentAddrs, triangleCounts, arrivals, fatLeaves, at, unseen>>

TrianglesOf(n, k) == IF k \in InternalSides(n) THEN triangleCounts[Linked(n, k)[2]] ELSE 1

SmallEnough(count) == count <= MaxFatLeafSize

(* The count is stored like the boxes of LbvhEmit are.                     *)
CountTriangles(t) ==
  LET n     == at[t]
      count == TrianglesOf(n, 0) + TrianglesOf(n, 1)
  IN  /\ doing[t] = "count"
      /\ fatLeaves' = fatLeaves \cup {<<n, k>> : k \in {l \in {0, 1} : SmallEnough(TrianglesOf(n, l))}}
      /\ IF storesInOrder
         THEN triangleCounts' = [triangleCounts EXCEPT ![n] = count] /\ UNCHANGED unseen
         ELSE unseen' = [unseen EXCEPT ![t] = {[node |-> n, count |-> count]}] /\ UNCHANGED triangleCounts
      /\ doing' = [doing EXCEPT ![t] = "climb"]
      /\ UNCHANGED <<vars, kernel, waiting, parentAddrs, arrivals, at>>

ArriveCount(t) ==
  /\ \E s \in unseen[t] : triangleCounts' = [triangleCounts EXCEPT ![s.node] = s.count]
  /\ unseen' = [unseen EXCEPT ![t] = {}]
  /\ UNCHANGED <<vars, kernel, waiting, parentAddrs, arrivals, fatLeaves, at, doing>>

(* Mutation: there is no fence before the atomicAdd.                       *)
Unfenced(t) == TRUE

Fenced(t) == unseen[t] = {}

(* Mutation: the first thread to arrive goes on.                           *)
FirstArrival(p) == arrivals[p] = 0

LastArrival(p) == arrivals[p] >= Cardinality(InternalSides(p)) - 1

LeaveRoot(t) ==
  /\ doing[t] = "climb" /\ parentAddrs[at[t]] = InvalidValue
  /\ doing' = [doing EXCEPT ![t] = "nothing"]
  /\ UNCHANGED <<vars, kernel, waiting, parentAddrs, triangleCounts, arrivals, fatLeaves, at, unseen>>

ClimbOn(t) ==
  LET p == parentAddrs[at[t]]
  IN  /\ doing[t] = "climb" /\ p # InvalidValue /\ Fenced(t)
      /\ arrivals' = [arrivals EXCEPT ![p] = @ + 1]
      /\ IF LastArrival(p)
         THEN at' = [at EXCEPT ![t] = p] /\ doing' = [doing EXCEPT ![t] = "count"]
         ELSE doing' = [doing EXCEPT ![t] = "nothing"] /\ UNCHANGED at
      /\ UNCHANGED <<vars, kernel, waiting, parentAddrs, triangleCounts, fatLeaves, unseen>>

FatStep(t) ==
  \/ ComputeParentAddrs(t)
  \/ StartThread(t) \/ CountTriangles(t) \/ ArriveCount(t) \/ LeaveRoot(t) \/ ClimbOn(t)

FatDone ==
  kernel = "fat" /\ waiting = {} /\ \A t \in Node : doing[t] = "nothing" /\ unseen[t] = {}

Built == FatDone /\ UNCHANGED <<vars, fatVars>>

BuildNext == Emit \/ LaunchParents \/ LaunchFat \/ (\E t \in Node : FatStep(t)) \/ Built

(* No thread waits for another in any of the kernels: it is enough that    *)
(* the device does not stop while some thread can go on.                   *)
BuildSpec == BuildInit /\ [][BuildNext]_<<vars, fatVars>> /\ WF_<<vars, fatVars>>(BuildNext)

-----------------------------------------------------------------------------
(* What Collapse goes by: after the kernels each node has the number of    *)
(* codes in its range, and a child carries the flag exactly if it fits     *)
(* into one leaf.                                                          *)
TrianglesBelow(c) == IF c[1] = "leaf" THEN 1 ELSE Hi(c[2]) - Lo(c[2]) + 1

FatLeavesExact == FatDone =>
  \A n \in Node :
    /\ triangleCounts[n] = Hi(n) - Lo(n) + 1
    /\ \A k \in {0, 1} : <<n, k>> \in fatLeaves <=> TrianglesBelow(RadixChild(n, k)) <= MaxFatLeafSize

(* Nodes are counted once each, children first, also where a store lags.   *)
Counting == INSTANCE BottomUp WITH
  children <- [n \in Node |-> InternalChildren(n)],
  fitted   <- {n \in Node : triangleCounts[n] # 0}

CountsBottomUp == Counting!Spec

(* The kernels end.                                                        *)
BuildEnds == <>FatDone
=============================================================================
