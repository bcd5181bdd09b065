-------------------------------- MODULE Ploc --------------------------------
(***************************************************************************)
(* HPloc: the threads climb the radix tree of the sorted Morton codes as   *)
(* those of the LBVH kernel do, but only to agree on ranges.  When a range *)
(* is longer than half a warp, the warp of the thread that completed it    *)
(* takes the clusters of its two halves, merges nearest neighbours until   *)
(* half a warp of them is left, and leaves these at the start of the       *)
(* range; the last range is merged into one.                               *)
(*                                                                         *)
(* The lanes of a warp climb together and merge one range after the other. *)
(* A cluster is the set of leaves below it.  Distances are areas of boxes, *)
(* and any ones are possible.                                              *)
(***************************************************************************)
EXTENDS MortonCode, PlocNeighbours, Sequences, FiniteSetsExt, Functions

CONSTANTS
  WarpSize,
  Warps,            \* launched
  queueCount,       \* primitives the buffers are made for, before pairing
  Alignment,        \* words that an allocation is rounded up to
  MaxDistance,      \* the largest distance of the instance
  InvalidValue      \* ~0u

ASSUME QueueAssumption ==
  queueCount \in Nat /\ primCount <= queueCount /\ Alignment \in Nat \ {0}

ASSUME WarpAssumption ==
  /\ WarpSize \in Nat /\ WarpSize > 1 /\ WarpSize % 2 = 0
  /\ Warps \in Nat /\ primCount <= WarpSize * Warps
  /\ InvalidValue \notin Nat /\ \A c \in SUBSET Leaf : c # InvalidValue

Half == WarpSize \div 2

Warp == 0 .. Warps - 1

(* The words of taskQueue, three for each primitive: the clusters, the     *)
(* counters, and a third part that HPloc does not use.  What is allocated  *)
(* next starts behind them.                                                *)
QueueEnd == ((3 * queueCount + Alignment - 1) \div Alignment) * Alignment

LanesOf(w) == w * WarpSize .. (w + 1) * WarpSize - 1

VARIABLES
  differ,           \* how much the codes before and after each boundary differ
  range,            \* of each thread: i, j and s, where its two halves meet
  active,           \* the threads that climb
  place,            \* of each warp: "climb", "merge", "cluster" or "done"
  climbing,         \* its threads that have not met a sibling in this round
  merging,          \* and those whose range it has to merge
  held,             \* its nodeIndicesWarp
  updateCounters,   \* the array siblings meet at
  nodeIndices,      \* the clusters of each range, from its start
  pairIndices,      \* the triangles that pairing has left behind taskQueue
  scratchNodes,     \* the nodes: their two children
  nodeCounter

vars == <<differ, range, active, place, climbing, merging, held,
          updateCounters, nodeIndices, pairIndices, scratchNodes, nodeCounter>>

Init ==
  /\ differ \in {Differences(s) : s \in Sorted}
  /\ range = [t \in Leaf |-> [i |-> t, s |-> t, j |-> t + 1]]
  /\ active = Leaf
  /\ place = [w \in Warp |-> "climb"]
  /\ climbing = [w \in Warp |-> LanesOf(w) \cap Leaf]
  /\ merging = [w \in Warp |-> {}]
  /\ held = [w \in Warp |-> <<>>]
  /\ updateCounters = [a \in Leaf |-> InvalidValue]
  /\ nodeIndices = [a \in Leaf |-> {a}]
  /\ pairIndices = [a \in Leaf |-> a]
  /\ scratchNodes = [a \in 0 .. primCount - 2 |-> <<>>]
  /\ nodeCounter = 0

-----------------------------------------------------------------------------
(* Climbing.                                                               *)

JoinsRight(r) == r.i = 0 \/ (r.j # primCount /\ differ[r.j] < differ[r.i])

findParent(r) == IF JoinsRight(r) THEN r.j - 1 ELSE r.i - 1

(* The end of its range a thread leaves for its sibling.                   *)
FarEnd(r) == IF JoinsRight(r) THEN r.i ELSE r.j

(* Mutation: the halves meet where the thread's own range begins.          *)
MeetAtStart(r, k) ==
  IF JoinsRight(r) THEN [i |-> r.i, s |-> r.i, j |-> k] ELSE [i |-> k, s |-> r.i, j |-> r.j]

(* What the second of two siblings makes of it.                            *)
Grown(r, k) ==
  IF JoinsRight(r) THEN [i |-> r.i, s |-> r.j, j |-> k] ELSE [i |-> k, s |-> r.i, j |-> r.j]

Climb(w, t) ==
  LET p == findParent(range[t])
      k == updateCounters[p]
  IN  /\ place[w] = "climb" /\ t \in climbing[w]
      /\ climbing' = [climbing EXCEPT ![w] = @ \ {t}]
      /\ updateCounters' = [updateCounters EXCEPT ![p] = FarEnd(range[t])]
      /\ IF k = InvalidValue
         THEN active' = active \ {t} /\ UNCHANGED range
         ELSE range' = [range EXCEPT ![t] = Grown(@, k)] /\ UNCHANGED active
      /\ UNCHANGED <<differ, place, merging, held, nodeIndices, pairIndices, scratchNodes, nodeCounter>>

Size(t) == range[t].j - range[t].i

last(t) == t \in active /\ Size(t) = primCount

(* The ballot.                                                             *)
Elect(w) ==
  /\ place[w] = "climb" /\ climbing[w] = {}
  /\ place' = [place EXCEPT ![w] = "merge"]
  /\ merging' = [merging EXCEPT ![w] = {t \in LanesOf(w) \cap active : Size(t) > Half \/ last(t)}]
  /\ UNCHANGED <<differ, range, active, climbing, held, updateCounters, nodeIndices, pairIndices, scratchNodes, nodeCounter>>

-----------------------------------------------------------------------------
(* Merging.                                                                *)

Current(w) == Min(merging[w])

(* The clusters at the start of the range [a, b): as many as lanes have    *)
(* read a valid one.                                                       *)
ClustersOf(a, b) ==
  LET valid == {l \in Lanes(Min({b - a, Half})) : nodeIndices[a + l] # InvalidValue} IN
  [k \in 1 .. Cardinality(valid) |-> nodeIndices[a + k - 1]]

Load(w) ==
  /\ place[w] = "merge" /\ merging[w] # {}
  /\ LET r == range[Current(w)] IN
     held' = [held EXCEPT ![w] = ClustersOf(r.i, r.s) \o ClustersOf(r.s, r.j)]
  /\ place' = [place EXCEPT ![w] = "cluster"]
  /\ UNCHANGED <<differ, range, active, climbing, merging, updateCounters, nodeIndices, pairIndices, scratchNodes, nodeCounter>>

(* Mutation: the last range is not merged further than the others.         *)
HalfAWarp(w) == Half

Threshold(w) == IF last(Current(w)) THEN 1 ELSE Half

(* Mutation: one round too many.                                           *)
TooManyOrEnough(w) == Len(held[w]) >= Threshold(w)

TooMany(w) == Len(held[w]) > Threshold(w)

(* What may merge among n clusters, whatever their distances.              *)
Rounds == [n \in 1 .. WarpSize |->
  {Merging(d, n) : d \in [{<<x, y>> : x \in Lanes(n), y \in Lanes(n)} \cap
                          {<<x, x + k>> : x \in Lanes(n), k \in 1 .. PlocRadius} -> 0 .. MaxDistance]}]

(* The lanes of a ballot below lane x.                                     *)
Below(ballot, x) == Cardinality({y \in ballot : y < x})

(* The lanes that merge, in order, take addresses from the end downwards.  *)
NodeAddr(pairs, p) ==
  primCount - 2 - (nodeCounter + Below({q[1] : q \in pairs}, p[1]))

(* The clusters of the next round: the second of a pair gives its place    *)
(* away, and the others move up.                                           *)
Compacted(clusters, pairs) ==
  LET kept     == Lanes(Len(clusters)) \ {p[2] : p \in pairs}
      united(x) == clusters[x + 1] \cup UNION {clusters[p[2] + 1] : p \in {q \in pairs : q[1] = x}}
  IN  [k \in 1 .. Cardinality(kept) |-> united(CHOOSE x \in kept : Below(kept, x) = k - 1)]

Cluster(w) ==
  /\ place[w] = "cluster" /\ TooMany(w)
  /\ \E pairs \in Rounds[Len(held[w])] :
       /\ held' = [held EXCEPT ![w] = Compacted(@, pairs)]
       /\ scratchNodes' = [a \in DOMAIN scratchNodes |->
            IF \E p \in pairs : NodeAddr(pairs, p) = a
            THEN LET p == CHOOSE p \in pairs : NodeAddr(pairs, p) = a
                 IN  <<held[w][p[1] + 1], held[w][p[2] + 1]>>
            ELSE scratchNodes[a]]
       /\ nodeCounter' = nodeCounter + Cardinality(pairs)
  /\ UNCHANGED <<differ, range, active, place, climbing, merging, updateCounters, nodeIndices, pairIndices>>

(* The words from the start of a range that the lanes store to, whether    *)
(* the range has as many or not: a small build is one range of less than   *)
(* half a warp, and the words behind it hold something else.               *)
Stretch(i) == i .. i + Half - 1

(* Mutation: all lanes store, not the first half of them.                  *)
WholeWarp(i) == i .. i + WarpSize - 1

Store(w) ==
  LET i == range[Current(w)].i
      clusterAt(word) == IF word - i < Len(held[w]) THEN held[w][word - i + 1] ELSE InvalidValue
  IN
  /\ place[w] = "cluster" /\ ~TooMany(w)
  /\ nodeIndices' = [a \in Leaf |->
       IF a \in Stretch(i) THEN clusterAt(a) ELSE nodeIndices[a]]
  /\ updateCounters' = [p \in Leaf |->
       IF queueCount + p \in Stretch(i) THEN clusterAt(queueCount + p) ELSE updateCounters[p]]
  /\ pairIndices' = [a \in Leaf |->
       IF QueueEnd + 2 * a \in Stretch(i) THEN clusterAt(QueueEnd + 2 * a) ELSE pairIndices[a]]
  /\ merging' = [merging EXCEPT ![w] = @ \ {Current(w)}]
  /\ held' = [held EXCEPT ![w] = <<>>]
  /\ place' = [place EXCEPT ![w] = "merge"]
  /\ UNCHANGED <<differ, range, active, climbing, scratchNodes, nodeCounter>>

(* The next round of the outer loop, while a thread of the warp climbs.    *)
Iterate(w) ==
  /\ place[w] = "merge" /\ merging[w] = {}
  /\ active' = active \ {t \in LanesOf(w) : last(t)}
  /\ climbing' = [climbing EXCEPT ![w] = LanesOf(w) \cap active']
  /\ place' = [place EXCEPT ![w] = IF climbing'[w] = {} THEN "done" ELSE "climb"]
  /\ UNCHANGED <<differ, range, merging, held, updateCounters, nodeIndices, pairIndices, scratchNodes, nodeCounter>>

Step(w) ==
  \/ \E t \in climbing[w] : Climb(w, t)
  \/ Elect(w) \/ Load(w) \/ Cluster(w) \/ Store(w) \/ Iterate(w)

Done == \A w \in Warp : place[w] = "done"

Terminated == Done /\ UNCHANGED vars

Next == (\E w \in Warp : Step(w)) \/ Terminated

Spec == Init /\ [][Next]_vars

(* No warp waits for another: it is enough that the device goes on.        *)
FairSpec == Spec /\ WF_vars(Next)

-----------------------------------------------------------------------------
Stored == {a \in DOMAIN scratchNodes : scratchNodes[a] # <<>>}

NodeAt(a) == scratchNodes[a][1] \cup scratchNodes[a][2]

Clusters ==
  ({{r} : r \in Leaf} \cup {NodeAt(a) : a \in Stored})
    \ UNION {{scratchNodes[a][1], scratchNodes[a][2]} : a \in Stored}

(* Whatever the distances and however warps and lanes run, clusters are    *)
(* united two by two and none of them twice.                               *)
Abstract == INSTANCE Agglomeration WITH Ref <- Leaf, clusters <- Clusters

ImplementsAgglomeration == Abstract!Spec

(* In the end there is one tree: each node is stored once, and the root is *)
(* at address 0, where Collapse starts.                                    *)
OneTree == Done =>
  /\ nodeCounter = primCount - 1
  /\ Stored = DOMAIN scratchNodes
  /\ \A a, b \in Stored : a # b => NodeAt(a) # NodeAt(b)
  /\ NodeAt(0) = Leaf

(* A thread that climbs finds the clusters of its range, all of them and   *)
(* nothing else, where the range starts.                                   *)
RangeComplete ==
  \A w \in Warp : \A t \in climbing[w] :
    UNION Range(ClustersOf(range[t].i, range[t].j)) = range[t].i .. range[t].j - 1

(* The words a small build stores behind its range reach nothing that is   *)
(* still needed: PackLeaves makes its nodes from these pairs.              *)
PairsKept == pairIndices = [a \in Leaf |-> a]

(* The kernel ends.                                                        *)
Termination == <>Done
=============================================================================
