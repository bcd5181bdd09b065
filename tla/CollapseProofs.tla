--------------------------- MODULE CollapseProofs ---------------------------
(* Proofs about the Collapse kernel, and the kernels behind it, for every  *)
(* tree and every launch.                                                  *)
EXTENDS PackLeaves, FiniteSetTheorems, WellFoundedInduction, TLAPS

LEMMA NodeFinite ==
  /\ IsFiniteSet(Node)
  /\ \A n \in Node : n \subseteq Ref /\ n # {} /\ IsFiniteSet(n)
<1>1. IsFiniteSet(SUBSET Ref)
  BY FS_SUBSET, TreeAssumption
<1>2. IsFiniteSet(Node)
  BY <1>1, FS_Subset, TreeAssumption
<1>3. \A n \in Node : n \subseteq Ref /\ n # {}
  BY TreeAssumption
<1>4. \A n \in Node : IsFiniteSet(n)
  BY <1>3, FS_Subset, TreeAssumption
<1> QED BY <1>2, <1>3, <1>4

LEMMA LaneNodes ==
  ASSUME NEW F \in LaneChildren
  PROVE  F \subseteq Node /\ Cardinality(F \cap Internal) \in Nat
<1>1. PICK f \in [1 .. BranchingFactor -> Node] : F = {f[i] : i \in 1 .. BranchingFactor}
  BY DEF LaneChildren
<1>2. F \subseteq Node
  BY <1>1
<1>3. IsFiniteSet(F \cap Internal)
  BY <1>2, NodeFinite, FS_Subset
<1> QED BY <1>2, <1>3, FS_CardinalityType

LEMMA FrontProperties ==
  ASSUME NEW n \in Node, NEW F \in Fronts[n]
  PROVE  /\ F \subseteq Node
         /\ UNION F = n
         /\ \A c, d \in F : c # d => c \cap d = {}
         /\ Cardinality(F \cap Internal) \in Nat
         /\ F \cap Internal = {c \in F : ~FatLeaf(c)}
<1>a. F \in LaneChildren /\ UNION F = n /\ \A c, d \in F : c # d => c \cap d = {}
  BY DEF Fronts
<1>1. F \in SUBSET Node /\ UNION F = n /\ \A c, d \in F : c # d => c \cap d = {}
  BY <1>a, LaneNodes
<1>3. Cardinality(F \cap Internal) \in Nat
  BY <1>a, LaneNodes
<1>4. F \cap Internal = {c \in F : ~FatLeaf(c)}
  BY <1>1 DEF Internal
<1> QED BY <1>1, <1>3, <1>4

LEMMA SizesInNat == maxBoxNodeCount \in Nat /\ BlockCount \in Nat
<1>1. referenceCount \in Nat
  BY TreeAssumption, FS_CardinalityType DEF referenceCount
<1>2. ASSUME NEW x \in Nat, NEW y \in Nat \ {0}
      PROVE  DivideRoundUp(x, y) \in Nat
  BY <1>2 DEF DivideRoundUp
<1>3. DivideRoundUp(referenceCount, MaxFatLeafSize + 1) \in Nat
  BY <1>1, <1>2, SizeAssumption
<1>4. BranchingFactor - 1 \in Nat \ {0}
  BY SizeAssumption
<1>5. maxBoxNodeCount \in Nat
  <2> DEFINE leafNodes == DivideRoundUp(referenceCount, MaxFatLeafSize + 1)
  <2>1. DivideRoundUp(leafNodes, BranchingFactor - 1) \in Nat
    BY <1>2, <1>3, <1>4
  <2> QED BY <1>3, <2>1 DEF maxBoxNodeCount
<1>6. BlockCount \in Nat
  BY <1>2, <1>5, SizeAssumption DEF BlockCount
<1> QED BY <1>5, <1>6

-----------------------------------------------------------------------------
(* The slots and the task registers only ever hold words of the task that  *)
(* the slot's address was allocated for.                                   *)
Words == [x : Node \cup {InvalidValue},
          y : Nat \cup {InvalidValue}, z : Nat \cup {InvalidValue}]

SlotInv == \A a \in DOMAIN laneTask :
             /\ laneTask[a].y = a
             /\ \A w \in Word : taskQueue[a][w] \in {InvalidValue, laneTask[a][w]}

RegisterInv == \A s \in Subwarp, w \in Word : task[s][w] # InvalidValue =>
                 s \in DOMAIN laneTask /\ task[s][w] = laneTask[s][w]

PublishInv == \A s \in Subwarp : pc[s] = "publish" => Valid(task[s])

DoneInv == \A a \in DOMAIN boxNodes :
             a \in Subwarp /\ a \in DOMAIN laneTask /\ pc[a] = "done"

QueuedInv == \A s \in Subwarp : Block(s) >= dispatched => pc[s] = "queued"

WordInv == TypeOK /\ QueuedInv /\ SlotInv /\ RegisterInv /\ PublishInv /\ DoneInv

LEMMA WordInvInit == Init => WordInv
<1> SUFFICES ASSUME Init PROVE WordInv
  OBVIOUS
<1>1. 0 .. boxNodeCount - 1 = {0}
  BY DEF Init
<1>2. RootTask \in Task
  BY TreeAssumption DEF RootTask, Task
<1>3. TypeOK
  BY <1>1, <1>2, SizesInNat DEF Init, TypeOK, EmptySlot, RootTask, Task
<1>4. QueuedInv /\ SlotInv /\ RegisterInv /\ PublishInv /\ DoneInv
  BY DEF Init, QueuedInv, SlotInv, RegisterInv, PublishInv, DoneInv, EmptySlot, RootTask, Word
<1> QED BY <1>3, <1>4 DEF WordInv

(* A claimed task is the one that was allocated for the slot.              *)
LEMMA ValidWords ==
  ASSUME WordInv, NEW s \in Subwarp, Valid(task[s])
  PROVE  s \in DOMAIN laneTask /\ task[s] = laneTask[s] /\ task[s] \in Task /\ task[s].y = s
<1>1. s \in DOMAIN laneTask /\ \A w \in Word : task[s][w] = laneTask[s][w]
  BY DEF WordInv, RegisterInv, Valid, Word
<1>2. task[s] = laneTask[s]
  <2>1. laneTask[s] \in Task /\ task[s] \in Words
    BY <1>1 DEF WordInv, TypeOK, Words
  <2>2. laneTask[s] = [x |-> laneTask[s].x, y |-> laneTask[s].y, z |-> laneTask[s].z]
    BY <2>1 DEF Task
  <2>3. task[s] = [x |-> task[s].x, y |-> task[s].y, z |-> task[s].z]
    BY <2>1 DEF Words
  <2>4. task[s].x = laneTask[s].x /\ task[s].y = laneTask[s].y /\ task[s].z = laneTask[s].z
    BY <1>1 DEF Word
  <2> QED BY <2>2, <2>3, <2>4
<1> QED BY <1>1, <1>2 DEF WordInv, SlotInv, TypeOK

(* An allocation extends the queue by the new addresses.                   *)
LEMMA AllocateExtends ==
  ASSUME TypeOK, NEW s \in Subwarp, task[s] \in Task, NEW F \in LaneChildren,
         NEW child \in Bijection(NewAddrs(F), F \cap Internal), Allocate(s, F, child)
  PROVE  /\ F \subseteq Node
         /\ boxNodeCount' \in Nat \ {0}
         /\ DOMAIN laneTask' = 0 .. boxNodeCount' - 1
         /\ DOMAIN taskQueue' = 0 .. boxNodeCount' - 1
         /\ NewAddrs(F) \cap DOMAIN laneTask = {}
         /\ DOMAIN laneTask' = DOMAIN laneTask \cup NewAddrs(F)
         /\ NewAddrs(F) \subseteq Nat \ {0}
         /\ \A a \in DOMAIN laneTask : /\ laneTask'[a] = laneTask[a]
                                       /\ taskQueue'[a] = taskQueue[a]
         /\ \A a \in NewAddrs(F) :
              /\ laneTask'[a] = [x |-> child[a], y |-> a, z |-> task[s].y]
              /\ laneTask'[a] \in Task
              /\ child[a] \in F \cap Internal
              /\ taskQueue'[a] = EmptySlot
<1>1. F \subseteq Node /\ Cardinality(F \cap Internal) \in Nat
  BY LaneNodes
<1>2. /\ DOMAIN laneTask = 0 .. boxNodeCount - 1
      /\ DOMAIN taskQueue = 0 .. boxNodeCount - 1
      /\ boxNodeCount \in Nat \ {0}
  BY DEF TypeOK
<1>3. boxNodeCount' = boxNodeCount + Cardinality(F \cap Internal)
  BY DEF Allocate
<1>4. /\ (0 .. boxNodeCount - 1) \cup NewAddrs(F) = 0 .. boxNodeCount' - 1
      /\ (0 .. boxNodeCount - 1) \cap NewAddrs(F) = {}
      /\ NewAddrs(F) \subseteq Nat \ {0}
  BY <1>1, <1>2, <1>3 DEF NewAddrs
<1>5. \A a \in NewAddrs(F) : child[a] \in F \cap Internal
  BY DEF Bijection, Injection
<1>6. \A a \in DOMAIN laneTask : laneTask'[a] = laneTask[a] /\ taskQueue'[a] = taskQueue[a]
  BY <1>2, <1>4 DEF Allocate
<1>7. \A a \in NewAddrs(F) :
        /\ laneTask'[a] = [x |-> child[a], y |-> a, z |-> task[s].y]
        /\ taskQueue'[a] = EmptySlot
  BY DEF Allocate
<1>8. \A a \in NewAddrs(F) : laneTask'[a] \in Task
  <2> SUFFICES ASSUME NEW a \in NewAddrs(F) PROVE laneTask'[a] \in Task
    OBVIOUS
  <2>1. child[a] \in Node /\ a \in Nat /\ task[s].y \in Nat
    BY <1>1, <1>4, <1>5 DEF Task
  <2>2. laneTask'[a] = [x |-> child[a], y |-> a, z |-> task[s].y]
    BY <1>7
  <2> QED BY <2>1, <2>2 DEF Task
<1>9. /\ DOMAIN laneTask' = DOMAIN laneTask \cup NewAddrs(F)
      /\ DOMAIN taskQueue' = DOMAIN taskQueue \cup NewAddrs(F)
  BY DEF Allocate
<1>10. boxNodeCount' \in Nat \ {0}
  BY <1>1, <1>2, <1>3
<1>11. /\ DOMAIN laneTask' = 0 .. boxNodeCount' - 1
       /\ DOMAIN taskQueue' = 0 .. boxNodeCount' - 1
       /\ NewAddrs(F) \cap DOMAIN laneTask = {}
  BY <1>2, <1>4, <1>9
<1> HIDE DEF NewAddrs
<1> QED BY ONLY <1>1, <1>4, <1>5, <1>6, <1>7, <1>8, <1>9, <1>10, <1>11

LEMMA AllocateNodes ==
  ASSUME TypeOK, NEW s \in Subwarp, task[s] \in Task, NEW F \in LaneChildren,
         NEW child \in Bijection(NewAddrs(F), F \cap Internal), Allocate(s, F, child)
  PROVE  /\ NewAddrs(F) \cap DOMAIN laneTask = {}
         /\ DOMAIN laneTask' = DOMAIN laneTask \cup NewAddrs(F)
         /\ \A a \in DOMAIN laneTask : laneTask'[a] = laneTask[a]
         /\ \A a \in NewAddrs(F) : laneTask'[a].x = child[a] /\ child[a] \in F \cap Internal
<1>1. /\ DOMAIN laneTask = 0 .. boxNodeCount - 1
      /\ boxNodeCount \in Nat \ {0}
  BY DEF TypeOK
<1>2. NewAddrs(F) \cap DOMAIN laneTask = {}
  BY <1>1 DEF NewAddrs
<1>3. \A a \in NewAddrs(F) : child[a] \in F \cap Internal
  BY DEF Bijection, Injection
<1> HIDE DEF NewAddrs
<1> QED BY <1>2, <1>3 DEF Allocate

LEMMA WordInvStep == WordInv /\ [Next]_vars => WordInv'
<1> SUFFICES ASSUME WordInv, [Next]_vars PROVE WordInv'
  OBVIOUS
<1> USE DEF WordInv
<1>1. CASE Dispatch
  <2>1. TypeOK'
    BY <1>1, SizesInNat DEF Dispatch, TypeOK
  <2>2. SlotInv' /\ RegisterInv'
    BY <1>1 DEF Dispatch, SlotInv, RegisterInv
  <2>3. PublishInv'
    BY <1>1 DEF Dispatch, TypeOK, PublishInv, Valid
  <2>4. \A t \in Subwarp : Block(t) \in Int
    BY SizesInNat, SizeAssumption DEF Block, Subwarp
  <2>5. QueuedInv'
    BY <1>1, <2>4 DEF Dispatch, TypeOK, QueuedInv
  <2>6. ASSUME NEW t \in Subwarp, pc[t] = "done" PROVE pc'[t] = "done"
    <3>1. QueuedInv /\ dispatched \in Int
      BY SizesInNat DEF TypeOK
    <3>2. Block(t) < dispatched
      BY ONLY <2>4, <2>6, <3>1 DEF QueuedInv
    <3>3. Block(t) # dispatched
      BY ONLY <2>4, <3>1, <3>2
    <3>4. pc' = [u \in Subwarp |->
                   IF Block(u) # dispatched THEN pc[u]
                   ELSE IF u >= maxBoxNodeCount \/ u >= referenceCount THEN "done"
                   ELSE "poll"]
      BY <1>1 DEF Dispatch
    <3> QED BY ONLY <2>6, <3>3, <3>4
  <2>7. DoneInv'
    BY <1>1, <2>6 DEF Dispatch, DoneInv
  <2> QED BY <2>1, <2>2, <2>3, <2>5, <2>7
<1>2. ASSUME NEW s \in Subwarp, Poll(s) PROVE WordInv'
  <2>1. TypeOK'
    BY <1>2 DEF Poll, AllEmitted, TypeOK, EmptySlot
  <2>2. RegisterInv'
    BY <1>2 DEF Poll, AllEmitted, TypeOK, RegisterInv, EmptySlot, Word
  <2>3. QueuedInv' /\ SlotInv' /\ PublishInv' /\ DoneInv'
    BY <1>2 DEF Poll, AllEmitted, TypeOK, QueuedInv, SlotInv, PublishInv, DoneInv, Valid
  <2> QED BY <2>1, <2>2, <2>3
<1>3. ASSUME NEW s \in Subwarp, LoadTask(s) PROVE WordInv'
  <2>1. PICK w \in Word, here \in {"loadx", "loady", "loadz"},
             next \in {"loady", "loadz", "check"} : Load(s, w, here, next)
    BY <1>3 DEF LoadTask, Word
  <2>2. Slot(s) \in Words
    BY DEF Slot, TypeOK, EmptySlot, Words
  <2>3. TypeOK'
    BY <2>1, <2>2 DEF Load, TypeOK, Word, Words
  <2>4. Slot(s)[w] # InvalidValue => s \in DOMAIN laneTask /\ Slot(s)[w] = laneTask[s][w]
    BY DEF Slot, SlotInv, TypeOK, EmptySlot, Word
  <2>5. RegisterInv'
    BY <2>1, <2>4 DEF Load, TypeOK, RegisterInv, Word
  <2>6. QueuedInv' /\ SlotInv' /\ PublishInv' /\ DoneInv'
    BY <2>1 DEF Load, TypeOK, QueuedInv, SlotInv, PublishInv, DoneInv, Valid
  <2> QED BY <2>3, <2>5, <2>6
<1>4. ASSUME NEW s \in Subwarp, Retry(s) PROVE WordInv'
  BY <1>4 DEF Retry, TypeOK, QueuedInv, SlotInv, RegisterInv, PublishInv, DoneInv, Valid
<1>5. ASSUME NEW s \in Subwarp, Claim(s) PROVE WordInv'
  <2>1. Valid(task[s]) /\ pc[s] = "check"
    BY <1>5 DEF Claim
  <2>2. task[s] \in Task
    BY <2>1, ValidWords
  <2>3. PICK F \in LaneChildren :
          \E child \in Bijection(NewAddrs(F), F \cap Internal) : Allocate(s, F, child)
    BY <1>5, <2>2 DEF Claim, OpenNodes, Fronts, Task
  <2>4. PICK child \in Bijection(NewAddrs(F), F \cap Internal) : Allocate(s, F, child)
    BY <2>3
  <2>5. /\ pc' = [pc EXCEPT ![s] = "publish"]
        /\ UNCHANGED <<dispatched, task, emittedCount, boxNodes, ranges>>
        /\ front' = [front EXCEPT ![s] = F]
    BY <1>5, <2>4 DEF Claim, Allocate
  <2> HIDE DEF WordInv
  <2>6. TypeOK
    BY DEF WordInv
  <2>7. /\ F \subseteq Node
        /\ boxNodeCount' \in Nat \ {0}
        /\ DOMAIN laneTask' = 0 .. boxNodeCount' - 1
        /\ DOMAIN taskQueue' = 0 .. boxNodeCount' - 1
        /\ NewAddrs(F) \cap DOMAIN laneTask = {}
        /\ DOMAIN laneTask' = DOMAIN laneTask \cup NewAddrs(F)
        /\ NewAddrs(F) \subseteq Nat \ {0}
        /\ \A a \in DOMAIN laneTask : /\ laneTask'[a] = laneTask[a]
                                      /\ taskQueue'[a] = taskQueue[a]
        /\ \A a \in NewAddrs(F) :
             /\ laneTask'[a] = [x |-> child[a], y |-> a, z |-> task[s].y]
             /\ laneTask'[a] \in Task
             /\ child[a] \in F \cap Internal
             /\ taskQueue'[a] = EmptySlot
    BY <2>2, <2>3, <2>4, <2>6, AllocateExtends
  <2>8. \A a \in DOMAIN laneTask' : laneTask'[a] \in Task /\ taskQueue'[a] \in Words
    <3>1. \A a \in DOMAIN laneTask : laneTask[a] \in Task /\ taskQueue[a] \in Words
      BY <2>6 DEF TypeOK, Words
    <3>2. EmptySlot \in Words
      BY DEF EmptySlot, Words
    <3> QED BY <2>7, <3>1, <3>2
  <2>9. /\ laneTask' = [a \in 0 .. boxNodeCount' - 1 |-> laneTask'[a]]
        /\ taskQueue' = [a \in 0 .. boxNodeCount' - 1 |-> taskQueue'[a]]
    BY <2>4, <2>7 DEF Allocate
  <2>10. /\ laneTask' \in [0 .. boxNodeCount' - 1 -> Task]
         /\ taskQueue' \in [0 .. boxNodeCount' - 1 -> Words]
    BY <2>7, <2>8, <2>9
  <2>11. TypeOK'
    BY <2>5, <2>6, <2>7, <2>10 DEF TypeOK, Words
  <2>12. SlotInv'
    <3>1. ASSUME NEW a \in DOMAIN laneTask
          PROVE  /\ laneTask'[a].y = a
                 /\ \A w \in Word : taskQueue'[a][w] \in {InvalidValue, laneTask'[a][w]}
      BY <2>7 DEF SlotInv, WordInv
    <3>2. ASSUME NEW a \in NewAddrs(F)
          PROVE  /\ laneTask'[a].y = a
                 /\ \A w \in Word : taskQueue'[a][w] \in {InvalidValue, laneTask'[a][w]}
      <4>1. /\ laneTask'[a] = [x |-> child[a], y |-> a, z |-> task[s].y]
            /\ taskQueue'[a] = EmptySlot
        BY <2>7
      <4> QED BY <4>1 DEF EmptySlot, Word
    <3> QED BY <2>7, <3>1, <3>2 DEF SlotInv
  <2>13. RegisterInv'
    <3>1. RegisterInv /\ task' = task
      BY <2>5 DEF WordInv
    <3>2. \A a \in DOMAIN laneTask : a \in DOMAIN laneTask' /\ laneTask'[a] = laneTask[a]
      BY <2>7
    <3> QED BY <3>1, <3>2 DEF RegisterInv
  <2>14. QueuedInv'
    BY <2>1, <2>5, <2>6 DEF QueuedInv, WordInv, TypeOK
  <2>15. PublishInv'
    BY <2>1, <2>5, <2>6, <2>7 DEF PublishInv, WordInv, TypeOK, Valid
  <2>16. DoneInv'
    BY <2>1, <2>5, <2>6, <2>7 DEF DoneInv, WordInv, TypeOK
  <2> QED BY <2>11, <2>12, <2>13, <2>14, <2>15, <2>16 DEF WordInv
<1>6. ASSUME NEW s \in Subwarp, Publish(s) PROVE WordInv'
  <2>1. PICK a \in Children(s), w \in Word :
          taskQueue' = [taskQueue EXCEPT ![a][w] = laneTask[a][w]]
    BY <1>6 DEF Publish
  <2>2. a \in DOMAIN laneTask
    BY DEF Children
  <2>3. TypeOK'
    <3>1. /\ laneTask[a] \in Words
          /\ taskQueue \in [DOMAIN laneTask -> Words]
      BY <2>2 DEF TypeOK, Task, Words
    <3>2. [taskQueue[a] EXCEPT ![w] = laneTask[a][w]] \in Words
      BY ONLY <2>2, <3>1 DEF Words, Word
    <3>3. taskQueue' \in [DOMAIN laneTask -> Words]
      BY ONLY <2>1, <2>2, <3>1, <3>2
    <3>4. taskQueue' \in [0 .. boxNodeCount - 1 -> Words]
      BY <3>3 DEF TypeOK
    <3> QED BY <1>6, <3>4 DEF Publish, TypeOK, Words
  <2>4. SlotInv'
    BY <1>6, <2>1, <2>2 DEF Publish, Word, TypeOK, Task, SlotInv
  <2>5. QueuedInv' /\ RegisterInv' /\ PublishInv' /\ DoneInv'
    BY <1>6 DEF Publish, QueuedInv, RegisterInv, PublishInv, DoneInv, Valid
  <2> QED BY <2>3, <2>4, <2>5
<1>7. ASSUME NEW s \in Subwarp, Emit(s) PROVE WordInv'
  <2>1. s \in DOMAIN laneTask /\ task[s].y = s
    BY <1>7, ValidWords DEF Emit, PublishInv
  <2>2. Leaves(s) \subseteq Ref
    BY NodeFinite DEF Leaves, TypeOK
  <2>3. IsFiniteSet(Leaves(s)) /\ Cardinality(Leaves(s)) \in Nat
    BY <2>2, FS_Subset, FS_CardinalityType, TreeAssumption
  <2>4. RangeSizes(s) \subseteq Nat
    <3>1. IsFiniteSet(Subwarp)
      BY SizesInNat, SizeAssumption, FS_Interval DEF Subwarp
    <3>2. ASSUME NEW T \in SUBSET Mates(s)
          PROVE  Cardinality(LeafLanes(T)) \in Nat
      <4>1. LeafLanes(T) \subseteq Subwarp \X Ref
        BY DEF LeafLanes, Mates
      <4>2. IsFiniteSet(Subwarp \X Ref)
        BY <3>1, FS_Product, TreeAssumption
      <4> QED BY <4>1, <4>2, FS_Subset, FS_CardinalityType
    <3> QED BY <3>2 DEF RangeSizes
  <2>5. TypeOK'
    <3>1. \A r \in ranges' : /\ r.rangeAddr \in Nat /\ r.nodeAddr \in Nat
                             /\ r.rangeSize \in Nat \ {0} /\ r.refs \subseteq Ref
      <4>1. PICK size \in RangeSizes(s) : ranges' = IF size = 0 THEN ranges
              ELSE ranges \cup {[rangeAddr |-> emittedCount, nodeAddr |-> task[s].y,
                                 rangeSize |-> size, refs |-> Leaves(s)]}
        BY <1>7 DEF Emit
      <4> HIDE DEF Leaves
      <4> QED BY <2>1, <2>2, <2>4, <4>1 DEF TypeOK
    <3>2. emittedCount' \in Nat
      BY <1>7, <2>3 DEF Emit, TypeOK, Leaves
    <3> QED BY <1>7, <3>1, <3>2 DEF Emit, TypeOK
  <2>6. DoneInv'
    BY <1>7, <2>1 DEF Emit, DoneInv, TypeOK
  <2>7. QueuedInv' /\ SlotInv' /\ RegisterInv' /\ PublishInv'
    BY <1>7 DEF Emit, TypeOK, QueuedInv, SlotInv, RegisterInv, PublishInv, Valid
  <2> QED BY <2>5, <2>6, <2>7
<1>8. CASE UNCHANGED vars
  BY <1>8 DEF vars, TypeOK, QueuedInv, SlotInv, RegisterInv, PublishInv, DoneInv, Valid
<1> QED BY <1>1, <1>2, <1>3, <1>4, <1>5, <1>6, <1>7, <1>8 DEF Next, Step, Terminated

THEOREM TypeCorrect == Spec => []TypeOK
<1>1. WordInv => TypeOK
  BY DEF WordInv
<1> QED BY WordInvInit, WordInvStep, <1>1, PTL DEF Spec

THEOREM TasksUntorn == Spec => []UntornTask
<1>1. WordInv => UntornTask
  BY ValidWords DEF UntornTask, WordInv, PublishInv
<1> QED BY WordInvInit, WordInvStep, <1>1, PTL DEF Spec
-----------------------------------------------------------------------------
(* From here on no warp has more lanes than an int has bits: the masks of  *)
(* the subwarps are their own lanes, and nothing else is opened or counted.*)
TaskInv == MasksExact /\ WordInv

LEMMA TaskInvInit == MasksExact /\ Init => TaskInv
BY WordInvInit DEF TaskInv

LEMMA TaskInvStep == TaskInv /\ [Next]_vars => TaskInv'
BY WordInvStep DEF TaskInv

LEMMA ValidTask ==
  ASSUME TaskInv, NEW s \in Subwarp, Valid(task[s])
  PROVE  s \in DOMAIN laneTask /\ task[s] = laneTask[s] /\ task[s] \in Task /\ task[s].y = s
BY ValidWords DEF TaskInv

LEMMA OwnLanes ==
  ASSUME MasksExact, NEW s \in Subwarp
  PROVE  subwarpIndex(s) < IntSubwarps /\ Masked(s) = {{s}}
<1>1. s \in Int /\ WarpSubwarps \in Nat \ {0} /\ IntSubwarps \in Nat \ {0} /\ WarpSubwarps <= IntSubwarps
  BY SizesInNat, SizeAssumption DEF Subwarp, MasksExact
<1>2. \A t \in Subwarp : subwarpIndex(t) \in 0 .. WarpSubwarps - 1
  BY <1>1, SizesInNat, SizeAssumption DEF Subwarp, subwarpIndex
<1>3. {t \in Mates(s) : subwarpIndex(t) >= IntSubwarps} = {}
  <2> SUFFICES ASSUME NEW t \in Mates(s) PROVE ~(subwarpIndex(t) >= IntSubwarps)
    OBVIOUS
  <2>1. t \in Subwarp
    BY DEF Mates
  <2>2. subwarpIndex(t) \in 0 .. WarpSubwarps - 1
    BY <1>2, <2>1
  <2> QED BY <1>1, <2>2
<1>4. subwarpIndex(s) \in 0 .. WarpSubwarps - 1
  BY <1>2
<1>5. subwarpIndex(s) < IntSubwarps
  BY <1>1, <1>4
<1>6. subwarpIndex(s) < IntSubwarps - 1 \/ subwarpIndex(s) = IntSubwarps - 1
  BY <1>1, <1>4
<1> QED BY <1>3, <1>5, <1>6 DEF Masked

LEMMA ClaimOwn ==
  ASSUME TaskInv, NEW s \in Subwarp, Claim(s)
  PROVE  \E F \in Fronts[task[s].x] :
           \E child \in Bijection(NewAddrs(F), F \cap Internal) : Allocate(s, F, child)
BY OwnLanes DEF TaskInv, Claim, OpenNodes

LEMMA RangeOwn ==
  ASSUME TaskInv, NEW s \in Subwarp
  PROVE  RangeSizes(s) = {Cardinality(Leaves(s))}
<1>1. Masked(s) = {{s}}
  BY OwnLanes DEF TaskInv
<1>2. s \in Mates(s)
  BY DEF Mates
<1>3. {U \in SUBSET Mates(s) : \E M \in Masked(s) : U \subseteq M /\ (s \in M => s \in U)} = {{s}}
  <2> HIDE DEF Mates
  <2> QED BY <1>1, <1>2
<1>4. Leaves(s) \subseteq Ref
  BY NodeFinite DEF Leaves, TaskInv, WordInv, TypeOK
<1>5. LeafLanes({s}) = {s} \X Leaves(s)
  BY <1>4 DEF LeafLanes
<1>6. IsFiniteSet({s}) /\ Cardinality({s}) = 1 /\ IsFiniteSet(Leaves(s))
  BY <1>4, FS_Singleton, FS_Subset, TreeAssumption
<1>7. Cardinality({s} \X Leaves(s)) = 1 * Cardinality(Leaves(s)) /\ Cardinality(Leaves(s)) \in Nat
  BY <1>6, FS_Product, FS_CardinalityType
<1>8. Cardinality(LeafLanes({s})) = Cardinality(Leaves(s))
  <2> HIDE DEF Leaves
  <2>1. Cardinality({s} \X Leaves(s)) = Cardinality(Leaves(s))
    BY <1>7
  <2> QED BY <1>5, <2>1
<1> QED BY <1>3, <1>8 DEF RangeSizes

(* The range an emission writes.                                           *)
OwnRange(s) == [rangeAddr |-> emittedCount, nodeAddr |-> task[s].y,
                rangeSize |-> Cardinality(Leaves(s)), refs |-> Leaves(s)]

LEMMA EmitOwn ==
  ASSUME TaskInv, NEW s \in Subwarp, Emit(s)
  PROVE  ranges' = IF Leaves(s) = {} THEN ranges ELSE ranges \cup {OwnRange(s)}
<1>1. IsFiniteSet(Leaves(s))
  <2>1. Leaves(s) \subseteq Ref
    BY NodeFinite DEF Leaves, TaskInv, WordInv, TypeOK
  <2> QED BY <2>1, FS_Subset, TreeAssumption
<1>2. Cardinality(Leaves(s)) = 0 <=> Leaves(s) = {}
  BY <1>1, FS_EmptySet
<1>3. RangeSizes(s) = {Cardinality(Leaves(s))}
  BY RangeOwn
<1> QED BY <1>2, <1>3 DEF Emit, OwnRange

-----------------------------------------------------------------------------
(* Steps that neither claim a task nor finish one leave the split alone.   *)
LEMMA PartitionFrame ==
  ASSUME ReferencesPartitioned, UNCHANGED <<front, laneTask, boxNodes, ranges>>,
         \A s \in Subwarp : pc'[s] = "publish" <=> pc[s] = "publish"
  PROVE  ReferencesPartitioned'
<1>1. Pending' = Pending /\ EmittedRefs' = EmittedRefs
  BY DEF Pending, Opened, EmittedRefs
<1>2. \A s \in Subwarp, r \in Ref : InLanes(r, s)' <=> InLanes(r, s)
  BY DEF InLanes, Leaves
<1>3. \A a \in DOMAIN laneTask, r \in Ref : InQueue(r, a)' <=> InQueue(r, a)
  BY <1>1 DEF InQueue
<1>4. DOMAIN laneTask' = DOMAIN laneTask
  OBVIOUS
<1> SUFFICES ASSUME NEW r \in Ref PROVE HeldOnce(r)'
  BY DEF ReferencesPartitioned
<1>5. HeldOnce(r)
  BY DEF ReferencesPartitioned
<1> QED BY <1>1, <1>2, <1>3, <1>4, <1>5 DEF HeldOnce

(* A claim replaces a node by the members of one of its fronts.            *)
LEMMA PartitionClaim ==
  ASSUME TaskInv, ReferencesPartitioned, NEW s \in Subwarp, Claim(s)
  PROVE  ReferencesPartitioned'
<1>1. Valid(task[s]) /\ pc[s] = "check"
  BY DEF Claim
<1>2. s \in DOMAIN laneTask /\ task[s] = laneTask[s] /\ task[s] \in Task
  BY <1>1, ValidTask
<1>3. PICK F \in Fronts[task[s].x] :
        \E child \in Bijection(NewAddrs(F), F \cap Internal) : Allocate(s, F, child)
  BY ClaimOwn
<1>a. F \in LaneChildren
  BY <1>2, <1>3 DEF Fronts, Task
<1>4. PICK child \in Bijection(NewAddrs(F), F \cap Internal) : Allocate(s, F, child)
  BY <1>3
<1>5. /\ pc' = [pc EXCEPT ![s] = "publish"]
      /\ boxNodes' = boxNodes /\ ranges' = ranges
      /\ front' = [front EXCEPT ![s] = F]
  BY <1>4 DEF Claim, Allocate
<1>6. TypeOK
  BY DEF TaskInv, WordInv
<1>7. /\ NewAddrs(F) \cap DOMAIN laneTask = {}
      /\ DOMAIN laneTask' = DOMAIN laneTask \cup NewAddrs(F)
      /\ \A a \in DOMAIN laneTask : laneTask'[a] = laneTask[a]
      /\ \A a \in NewAddrs(F) : laneTask'[a].x = child[a] /\ child[a] \in F \cap Internal
  BY <1>2, <1>a, <1>4, <1>6, AllocateNodes
<1>8. /\ UNION F = task[s].x
      /\ \A c, d \in F : c # d => c \cap d = {}
      /\ F \cap Internal = {c \in F : ~FatLeaf(c)}
  BY <1>2, <1>3, FrontProperties DEF Task
<1>9. /\ \A c \in F \cap Internal : \E a \in NewAddrs(F) : child[a] = c
      /\ \A a, b \in NewAddrs(F) : child[a] = child[b] => a = b
  BY DEF Bijection, Surjection, Injection, IsInjective
<1>10. Pending' = (Pending \ {s}) \cup NewAddrs(F) /\ s \in Pending
  <2>1. Opened' = Opened \cup {s}
    BY <1>1, <1>5, <1>6 DEF Opened, TypeOK
  <2>2. s \notin Opened
    BY <1>1 DEF Opened, TaskInv, WordInv, DoneInv
  <2>3. Opened \cap NewAddrs(F) = {}
    <3>1. \A a \in Opened : a \in DOMAIN laneTask
      BY ValidTask DEF Opened, TaskInv, WordInv, DoneInv, PublishInv
    <3> QED BY <1>7, <3>1
  <2>4. s \notin NewAddrs(F)
    BY <1>2, <1>7
  <2> QED BY <1>2, <1>7, <2>1, <2>2, <2>3, <2>4 DEF Pending
<1>11. EmittedRefs' = EmittedRefs
  BY <1>5 DEF EmittedRefs
<1> DEFINE leaves == UNION {c \in F : FatLeaf(c)}
<1>12. Leaves(s)' = leaves /\ \A t \in Subwarp : t # s => Leaves(t)' = Leaves(t)
  BY <1>5, <1>6 DEF Leaves, TypeOK
<1>13. /\ \A r \in Ref : InLanes(r, s)' <=> r \in leaves
       /\ \A r \in Ref, t \in Subwarp : t # s => (InLanes(r, t)' <=> InLanes(r, t))
       /\ \A r \in Ref : ~InLanes(r, s)
  BY <1>1, <1>5, <1>6, <1>12 DEF InLanes, TypeOK
<1>14. /\ \A r \in Ref, a \in DOMAIN laneTask : a # s => (InQueue(r, a)' <=> InQueue(r, a))
       /\ \A r \in Ref : ~InQueue(r, s)'
       /\ \A r \in Ref, a \in NewAddrs(F) : InQueue(r, a)' <=> r \in child[a]
       /\ \A r \in Ref : InQueue(r, s) <=> r \in UNION F
  BY <1>2, <1>7, <1>8, <1>10 DEF InQueue
<1>15. \A r \in Ref : r \in leaves => r \in UNION F
  OBVIOUS
<1>16. \A r \in Ref, a \in NewAddrs(F) : r \in child[a] => r \in UNION F
  BY <1>7
<1>17. \A r \in UNION F : r \in leaves \/ \E a \in NewAddrs(F) : r \in child[a]
  BY <1>8, <1>9
<1>18. \A r \in Ref, a, b \in NewAddrs(F) : r \in child[a] /\ r \in child[b] => a = b
  BY <1>7, <1>8, <1>9
<1>19. \A r \in Ref, a \in NewAddrs(F) : ~(r \in leaves /\ r \in child[a])
  BY <1>7, <1>8
<1> SUFFICES ASSUME NEW r \in Ref PROVE HeldOnce(r)'
  BY DEF ReferencesPartitioned
<1> HIDE DEF leaves
<1>20. HeldOnce(r)
  BY DEF ReferencesPartitioned
<1>21. (\E a \in DOMAIN laneTask : InQueue(r, a))' \/ (\E t \in Subwarp : InLanes(r, t))'
         \/ (r \in EmittedRefs)'
  <2>1. CASE r \in EmittedRefs
    BY <2>1, <1>11
  <2>2. CASE \E t \in Subwarp : InLanes(r, t)
    BY <2>2, <1>13
  <2>3. CASE \E a \in DOMAIN laneTask : InQueue(r, a) /\ a # s
    BY <2>3, <1>7, <1>14
  <2>4. CASE InQueue(r, s)
    BY <2>4, <1>7, <1>13, <1>14, <1>17
  <2> QED BY <1>20, <2>1, <2>2, <2>3, <2>4 DEF HeldOnce
<1>22. ASSUME NEW a \in DOMAIN laneTask', NEW b \in DOMAIN laneTask',
              InQueue(r, a)', InQueue(r, b)'
       PROVE  a = b
  <2>1. CASE a \in NewAddrs(F) /\ b \in NewAddrs(F)
    BY <1>22, <2>1, <1>14, <1>18
  <2>2. ASSUME NEW c \in NewAddrs(F), NEW d \in DOMAIN laneTask, InQueue(r, c)', InQueue(r, d)'
        PROVE  FALSE
    <3>1. InQueue(r, s)
      BY <2>2, <1>14, <1>16
    <3>2. d # s /\ InQueue(r, d)
      BY <2>2, <1>14
    <3> QED BY <3>1, <3>2, <1>2, <1>20 DEF HeldOnce
  <2>3. CASE a \in DOMAIN laneTask /\ b \in DOMAIN laneTask
    BY <1>22, <2>3, <1>14, <1>20 DEF HeldOnce
  <2> QED BY <1>7, <1>22, <2>1, <2>2, <2>3
<1>23. ASSUME NEW t \in Subwarp, NEW u \in Subwarp, InLanes(r, t)', InLanes(r, u)'
       PROVE  t = u
  <2>1. ASSUME NEW v \in Subwarp, v # s, InLanes(r, v)', InLanes(r, s)'
        PROVE  FALSE
    BY <2>1, <1>2, <1>13, <1>14, <1>15, <1>20 DEF HeldOnce
  <2>2. CASE t # s /\ u # s
    BY <1>23, <2>2, <1>13, <1>20 DEF HeldOnce
  <2> QED BY <1>23, <2>1, <2>2
<1>24. ASSUME NEW a \in DOMAIN laneTask', NEW t \in Subwarp, InQueue(r, a)', InLanes(r, t)'
       PROVE  FALSE
  <2>1. CASE a \in NewAddrs(F) /\ t = s
    BY <1>24, <2>1, <1>13, <1>14, <1>19
  <2>2. CASE a \in NewAddrs(F) /\ t # s
    <3>1. InQueue(r, s) /\ InLanes(r, t)
      BY <1>24, <2>2, <1>13, <1>14, <1>16
    <3> QED BY <3>1, <1>2, <1>20 DEF HeldOnce
  <2>3. CASE a \in DOMAIN laneTask /\ t = s
    <3>1. InQueue(r, a) /\ a # s /\ InQueue(r, s)
      BY <1>24, <2>3, <1>13, <1>14, <1>15
    <3> QED BY <2>3, <3>1, <1>2, <1>20 DEF HeldOnce
  <2>4. CASE a \in DOMAIN laneTask /\ t # s
    BY <1>24, <2>4, <1>13, <1>14, <1>20 DEF HeldOnce
  <2> QED BY <1>7, <2>1, <2>2, <2>3, <2>4
<1>25. ASSUME (r \in EmittedRefs)'
       PROVE  /\ \A a \in DOMAIN laneTask' : ~InQueue(r, a)'
              /\ \A t \in Subwarp : ~InLanes(r, t)'
  <2>1. r \in EmittedRefs
    BY <1>25, <1>11
  <2>2. ~InQueue(r, s)
    BY <2>1, <1>2, <1>20 DEF HeldOnce
  <2>3. r \notin UNION F
    BY <2>2, <1>14
  <2>4. \A a \in DOMAIN laneTask' : ~InQueue(r, a)'
    BY <2>1, <2>3, <1>7, <1>14, <1>16, <1>20 DEF HeldOnce
  <2>5. \A t \in Subwarp : ~InLanes(r, t)'
    BY <2>1, <2>3, <1>13, <1>15, <1>20 DEF HeldOnce
  <2> QED BY <2>4, <2>5
<1> QED BY <1>21, <1>22, <1>23, <1>24, <1>25 DEF HeldOnce

LEMMA EmitUnion ==
  ASSUME TaskInv, NEW s \in Subwarp, Emit(s)
  PROVE  EmittedRefs' = EmittedRefs \cup Leaves(s)
<1>1. CASE Leaves(s) = {}
  BY <1>1, EmitOwn DEF EmittedRefs
<1>2. CASE Leaves(s) # {}
  <2>1. ranges' = ranges \cup {OwnRange(s)} /\ OwnRange(s).refs = Leaves(s)
    BY <1>2, EmitOwn DEF OwnRange
  <2>2. {r.refs : r \in ranges'} = {r.refs : r \in ranges} \cup {Leaves(s)}
    BY <2>1
  <2> QED BY <2>2 DEF EmittedRefs
<1> QED BY <1>1, <1>2

(* A subwarp that finishes moves its leaves to the emitted references.     *)
LEMMA PartitionEmit ==
  ASSUME TaskInv, ReferencesPartitioned, NEW s \in Subwarp, Emit(s)
  PROVE  ReferencesPartitioned'
<1>1. pc[s] = "publish" /\ task[s].y = s /\ s \in DOMAIN laneTask
  BY ValidTask DEF Emit, TaskInv, WordInv, PublishInv
<1>2. /\ pc' = [pc EXCEPT ![s] = "done"]
      /\ UNCHANGED <<front, laneTask>>
      /\ DOMAIN boxNodes' = DOMAIN boxNodes \cup {s}
  BY <1>1 DEF Emit
<1>3. EmittedRefs' = EmittedRefs \cup Leaves(s)
  BY EmitUnion
<1>4. Pending' = Pending
  <2>1. Opened' = Opened
    BY <1>1, <1>2 DEF Opened, TaskInv, WordInv, TypeOK
  <2> QED BY <1>2, <2>1 DEF Pending
<1>5. \A r \in Ref, a \in DOMAIN laneTask : InQueue(r, a)' <=> InQueue(r, a)
  BY <1>2, <1>4 DEF InQueue
<1>6. /\ \A r \in Ref, t \in Subwarp : t # s => (InLanes(r, t)' <=> InLanes(r, t))
      /\ \A r \in Ref : ~InLanes(r, s)'
      /\ \A r \in Ref : InLanes(r, s) <=> r \in Leaves(s)
  BY <1>1, <1>2 DEF InLanes, Leaves, TaskInv, WordInv, TypeOK
<1> QED BY <1>2, <1>3, <1>5, <1>6 DEF ReferencesPartitioned, HeldOnce

LEMMA PartitionStep == TaskInv /\ ReferencesPartitioned /\ [Next]_vars => ReferencesPartitioned'
<1> SUFFICES ASSUME TaskInv, ReferencesPartitioned, [Next]_vars
             PROVE  ReferencesPartitioned'
  OBVIOUS
<1>1. CASE Dispatch
  <2>1. \A s \in Subwarp : Block(s) \in Int
    BY SizesInNat, SizeAssumption DEF Block, Subwarp
  <2>2. \A s \in Subwarp : pc'[s] = "publish" <=> pc[s] = "publish"
    BY <1>1, <2>1 DEF Dispatch, TaskInv, WordInv, TypeOK, QueuedInv
  <2> QED BY <1>1, <2>2, PartitionFrame DEF Dispatch
<1>2. ASSUME NEW s \in Subwarp, Poll(s) PROVE ReferencesPartitioned'
  <2>1. \A t \in Subwarp : pc'[t] = "publish" <=> pc[t] = "publish"
    BY <1>2 DEF Poll, AllEmitted, TaskInv, WordInv, TypeOK
  <2> QED BY <1>2, <2>1, PartitionFrame DEF Poll, AllEmitted
<1>3. ASSUME NEW s \in Subwarp, LoadTask(s) PROVE ReferencesPartitioned'
  <2>1. \A t \in Subwarp : pc'[t] = "publish" <=> pc[t] = "publish"
    BY <1>3 DEF LoadTask, Load, TaskInv, WordInv, TypeOK
  <2> QED BY <1>3, <2>1, PartitionFrame DEF LoadTask, Load
<1>4. ASSUME NEW s \in Subwarp, Retry(s) PROVE ReferencesPartitioned'
  <2>1. \A t \in Subwarp : pc'[t] = "publish" <=> pc[t] = "publish"
    BY <1>4 DEF Retry, TaskInv, WordInv, TypeOK
  <2> QED BY <1>4, <2>1, PartitionFrame DEF Retry
<1>5. ASSUME NEW s \in Subwarp, Claim(s) PROVE ReferencesPartitioned'
  BY <1>5, PartitionClaim
<1>6. ASSUME NEW s \in Subwarp, Publish(s) PROVE ReferencesPartitioned'
  BY <1>6, PartitionFrame DEF Publish
<1>7. ASSUME NEW s \in Subwarp, Emit(s) PROVE ReferencesPartitioned'
  BY <1>7, PartitionEmit
<1>8. CASE UNCHANGED vars
  BY <1>8, PartitionFrame DEF vars
<1> QED BY <1>1, <1>2, <1>3, <1>4, <1>5, <1>6, <1>7, <1>8 DEF Next, Step, Terminated

LEMMA PartitionInit == Init => ReferencesPartitioned
<1> SUFFICES ASSUME Init, NEW r \in Ref PROVE HeldOnce(r)
  BY DEF ReferencesPartitioned
<1>1. Pending = {0} /\ laneTask[0].x = Ref
  BY DEF Init, Pending, Opened, RootTask
<1> QED BY <1>1 DEF Init, HeldOnce, InQueue, InLanes, EmittedRefs

THEOREM ReferencesNeverLost ==
  ASSUME MasksExact
  PROVE  Spec => []ReferencesPartitioned
BY TaskInvInit, TaskInvStep, PartitionInit, PartitionStep, PTL DEF Spec
-----------------------------------------------------------------------------
LEMMA LeavesFinite ==
  ASSUME TypeOK
  PROVE  /\ \A s \in Subwarp : Leaves(s) \subseteq Ref /\ IsFiniteSet(Leaves(s))
         /\ EmittedRefs \subseteq Ref /\ IsFiniteSet(EmittedRefs)
<1>1. \A s \in Subwarp : Leaves(s) \subseteq Ref
  BY NodeFinite DEF Leaves, TypeOK
<1>2. EmittedRefs \subseteq Ref
  BY DEF EmittedRefs, TypeOK
<1> QED BY <1>1, <1>2, FS_Subset, TreeAssumption

LEMMA CountStep ==
  TaskInv /\ ReferencesPartitioned /\ CountExact /\ [Next]_vars => CountExact'
<1> SUFFICES ASSUME TaskInv, ReferencesPartitioned, CountExact, [Next]_vars
             PROVE  CountExact'
  OBVIOUS
<1>1. ASSUME NEW s \in Subwarp, Emit(s) PROVE CountExact'
  <2>1. EmittedRefs' = EmittedRefs \cup Leaves(s)
    BY <1>1, EmitUnion
  <2>2. EmittedRefs \cap Leaves(s) = {}
    <3>1. \A r \in Leaves(s) : InLanes(r, s)
      BY <1>1 DEF Emit, InLanes
    <3>2. Leaves(s) \subseteq Ref
      BY LeavesFinite DEF TaskInv, WordInv
    <3> QED BY <3>1, <3>2 DEF ReferencesPartitioned, HeldOnce
  <2>3. /\ IsFiniteSet(EmittedRefs) /\ IsFiniteSet(Leaves(s))
        /\ Cardinality(EmittedRefs) \in Nat /\ Cardinality(Leaves(s)) \in Nat
    BY LeavesFinite, FS_CardinalityType DEF TaskInv, WordInv
  <2>4. Cardinality(EmittedRefs \cap Leaves(s)) = 0
    BY <2>2, FS_EmptySet
  <2>5. Cardinality(EmittedRefs \cup Leaves(s)) =
          Cardinality(EmittedRefs) + Cardinality(Leaves(s))
                                   - Cardinality(EmittedRefs \cap Leaves(s))
    BY <2>3, FS_Union
  <2>6. emittedCount' = emittedCount + Cardinality(Leaves(s))
    BY <1>1 DEF Emit, Leaves
  <2> QED BY <2>1, <2>3, <2>4, <2>5, <2>6 DEF CountExact
<1>2. ASSUME UNCHANGED <<emittedCount, ranges>> PROVE CountExact'
  BY <1>2 DEF CountExact, EmittedRefs
<1> QED BY <1>1, <1>2 DEF Next, Step, Terminated, vars, Dispatch, Poll, AllEmitted, LoadTask, Load,
             Retry, Claim, Publish

THEOREM CountIsExact ==
  ASSUME MasksExact
  PROVE  Spec => []CountExact
<1>1. Init => CountExact
  BY FS_EmptySet DEF Init, CountExact, EmittedRefs
<1>2. Init => ReferencesPartitioned
  BY PartitionInit
<1> QED BY TaskInvInit, TaskInvStep, <1>1, <1>2, PartitionStep, CountStep, PTL DEF Spec

-----------------------------------------------------------------------------
(* A subwarp that owned a slot and has left the loop has either built its  *)
(* node or has seen the full count.                                        *)
ExitInv == \A s \in Subwarp :
  (pc[s] = "done" /\ s < maxBoxNodeCount /\ s < referenceCount) =>
    s \in DOMAIN boxNodes \/ EmittedRefs = Ref

LEMMA FullCount ==
  ASSUME TypeOK, CountExact, emittedCount = referenceCount
  PROVE  EmittedRefs = Ref
BY LeavesFinite, FS_Subset, TreeAssumption DEF CountExact, referenceCount

LEMMA ExitStep ==
  TaskInv /\ CountExact /\ ReferencesPartitioned /\ ExitInv /\ [Next]_vars => ExitInv'
<1> SUFFICES ASSUME TaskInv, CountExact, ReferencesPartitioned, ExitInv, [Next]_vars,
                    NEW s \in Subwarp, pc'[s] = "done",
                    s < maxBoxNodeCount, s < referenceCount
             PROVE  s \in DOMAIN boxNodes' \/ EmittedRefs' = Ref
  BY DEF ExitInv
<1>1. DOMAIN boxNodes \subseteq DOMAIN boxNodes'
  BY DEF Next, Step, Terminated, vars, Dispatch, Poll, AllEmitted, LoadTask, Load, Retry, Claim,
         Publish, Emit
<1>2. EmittedRefs = Ref => EmittedRefs' = Ref
  <2>1. ASSUME NEW t \in Subwarp, Emit(t), EmittedRefs = Ref PROVE EmittedRefs' = Ref
    BY <2>1, EmitUnion, LeavesFinite DEF TaskInv, WordInv
  <2>2. ASSUME UNCHANGED ranges PROVE EmittedRefs' = EmittedRefs
    BY <2>2 DEF EmittedRefs
  <2> QED BY <2>1, <2>2 DEF Next, Step, Terminated, vars, Dispatch, Poll, AllEmitted, LoadTask, Load,
               Retry, Claim, Publish
<1>3. CASE pc[s] = "done"
  BY <1>1, <1>2, <1>3 DEF ExitInv
<1>4. CASE pc[s] # "done"
  <2>1. CASE Dispatch
    BY <1>4, <2>1, SizesInNat, TreeAssumption, FS_CardinalityType
       DEF Dispatch, Subwarp, referenceCount
  <2>2. ASSUME NEW t \in Subwarp, Poll(t) PROVE EmittedRefs' = Ref
    <3>1. t = s /\ emittedCount = referenceCount
      BY <1>4, <2>2 DEF Poll, AllEmitted, TaskInv, WordInv, TypeOK
    <3> QED BY <1>2, <3>1, FullCount DEF TaskInv, WordInv
  <2>3. ASSUME NEW t \in Subwarp, Emit(t) PROVE s \in DOMAIN boxNodes'
    <3>1. t = s
      BY <1>4, <2>3 DEF Emit, TaskInv, WordInv, TypeOK
    <3>2. task[s].y = s
      BY <2>3, <3>1, ValidTask DEF Emit, TaskInv, WordInv, PublishInv
    <3> QED BY <2>3, <3>1, <3>2 DEF Emit
  <2>4. ASSUME NEW t \in Subwarp, LoadTask(t) \/ Retry(t) \/ Claim(t) PROVE pc'[s] # "done"
    BY <1>4, <2>4 DEF LoadTask, Load, Retry, Claim, TaskInv, WordInv, TypeOK
  <2>5. ASSUME UNCHANGED pc PROVE FALSE
    BY <1>4, <2>5
  <2> QED BY <2>1, <2>2, <2>3, <2>4, <2>5 DEF Next, Step, Terminated, vars, Publish
<1> QED BY <1>3, <1>4

-----------------------------------------------------------------------------
(* Addresses belong to distinct nodes of the tree, none below a node that  *)
(* is still to open.                                                       *)
Large == {n \in Node : Cardinality(n) > 1}

NestInv ==
  /\ \A a \in DOMAIN laneTask : laneTask[a].x \in Large
  /\ \A a, b \in DOMAIN laneTask : a # b => laneTask[a].x # laneTask[b].x
  /\ \A a \in Pending, b \in DOMAIN laneTask : a # b =>
       \/ laneTask[a].x \cap laneTask[b].x = {}
       \/ laneTask[a].x \subseteq laneTask[b].x

(* What a claim does to the allocated addresses and to the open ones.      *)
Opens(s, F, child) ==
  /\ F \subseteq Node
  /\ s \in Pending /\ s \in DOMAIN laneTask
  /\ NewAddrs(F) \cap DOMAIN laneTask = {}
  /\ DOMAIN laneTask' = DOMAIN laneTask \cup NewAddrs(F)
  /\ \A a \in DOMAIN laneTask : laneTask'[a] = laneTask[a]
  /\ \A a \in NewAddrs(F) : laneTask'[a].x = child[a] /\ child[a] \in F \cap Internal
  /\ Pending' = (Pending \ {s}) \cup NewAddrs(F)
  /\ front' = [front EXCEPT ![s] = F]

LEMMA ClaimEffect ==
  ASSUME TaskInv, NEW s \in Subwarp, Claim(s)
  PROVE  \E F \in Fronts[laneTask[s].x] :
           \E child \in Bijection(NewAddrs(F), F \cap Internal) : Opens(s, F, child)
<1>1. Valid(task[s]) /\ pc[s] = "check"
  BY DEF Claim
<1>2. s \in DOMAIN laneTask /\ task[s] = laneTask[s] /\ task[s] \in Task
  BY <1>1, ValidTask
<1>3. PICK F \in Fronts[task[s].x] :
        \E child \in Bijection(NewAddrs(F), F \cap Internal) : Allocate(s, F, child)
  BY ClaimOwn
<1>a. F \in LaneChildren
  BY <1>2, <1>3 DEF Fronts, Task
<1>4. PICK child \in Bijection(NewAddrs(F), F \cap Internal) : Allocate(s, F, child)
  BY <1>3
<1>5. /\ pc' = [pc EXCEPT ![s] = "publish"]
      /\ boxNodes' = boxNodes
      /\ front' = [front EXCEPT ![s] = F]
  BY <1>4 DEF Claim, Allocate
<1>6. TypeOK
  BY DEF TaskInv, WordInv
<1>7. /\ NewAddrs(F) \cap DOMAIN laneTask = {}
      /\ DOMAIN laneTask' = DOMAIN laneTask \cup NewAddrs(F)
      /\ \A a \in DOMAIN laneTask : laneTask'[a] = laneTask[a]
      /\ \A a \in NewAddrs(F) : laneTask'[a].x = child[a] /\ child[a] \in F \cap Internal
  BY <1>2, <1>a, <1>4, <1>6, AllocateNodes
<1>8. Pending' = (Pending \ {s}) \cup NewAddrs(F) /\ s \in Pending
  <2>1. Opened' = Opened \cup {s}
    BY <1>1, <1>5, <1>6 DEF Opened, TypeOK
  <2>2. s \notin Opened
    BY <1>1 DEF Opened, TaskInv, WordInv, DoneInv
  <2>3. \A a \in Opened : a \in DOMAIN laneTask
    BY ValidTask DEF Opened, TaskInv, WordInv, DoneInv, PublishInv
  <2> QED BY <1>2, <1>7, <2>1, <2>2, <2>3 DEF Pending
<1>9. F \subseteq Node
  BY <1>2, <1>3, FrontProperties DEF Task
<1>10. Opens(s, F, child)
  BY <1>2, <1>5, <1>7, <1>8, <1>9 DEF Opens
<1> QED BY <1>2, <1>3, <1>4, <1>10

LEMMA PendingFrame ==
  ASSUME TaskInv, [Next]_vars, \A s \in Subwarp : ~Claim(s)
  PROVE  laneTask' = laneTask /\ Pending' = Pending
<1>1. CASE Dispatch
  <2>1. \A s \in Subwarp : Block(s) \in Int
    BY SizesInNat, SizeAssumption DEF Block, Subwarp
  <2>2. \A s \in Subwarp : pc'[s] = "publish" <=> pc[s] = "publish"
    BY <1>1, <2>1 DEF Dispatch, TaskInv, WordInv, TypeOK, QueuedInv
  <2> QED BY <1>1, <2>2 DEF Dispatch, Pending, Opened
<1>2. ASSUME NEW s \in Subwarp, Poll(s) \/ LoadTask(s) \/ Retry(s)
      PROVE  laneTask' = laneTask /\ Pending' = Pending
  <2>1. \A t \in Subwarp : pc'[t] = "publish" <=> pc[t] = "publish"
    BY <1>2 DEF Poll, AllEmitted, LoadTask, Load, Retry, TaskInv, WordInv, TypeOK
  <2>2. UNCHANGED <<laneTask, boxNodes>>
    BY <1>2 DEF Poll, AllEmitted, LoadTask, Load, Retry
  <2> QED BY <2>1, <2>2 DEF Pending, Opened
<1>3. ASSUME NEW s \in Subwarp, Publish(s)
      PROVE  laneTask' = laneTask /\ Pending' = Pending
  BY <1>3 DEF Publish, Pending, Opened
<1>4. ASSUME NEW s \in Subwarp, Emit(s)
      PROVE  laneTask' = laneTask /\ Pending' = Pending
  <2>1. pc[s] = "publish" /\ task[s].y = s
    BY <1>4, ValidTask DEF Emit, TaskInv, WordInv, PublishInv
  <2>2. Opened' = Opened
    BY <1>4, <2>1 DEF Emit, Opened, TaskInv, WordInv, TypeOK
  <2> QED BY <1>4, <2>2 DEF Emit, Pending
<1>5. CASE UNCHANGED vars
  BY <1>5 DEF vars, Pending, Opened
<1> QED BY <1>1, <1>2, <1>3, <1>4, <1>5 DEF Next, Step, Terminated

LEMMA InternalLarge == Internal \subseteq Large
<1> SUFFICES ASSUME NEW n \in Internal PROVE n \in Large
  OBVIOUS
<1>1. n \in Node /\ ~(Cardinality(n) <= MaxFatLeafSize)
  BY DEF Internal, FatLeaf
<1>2. Cardinality(n) \in Nat
  BY <1>1, NodeFinite, FS_CardinalityType
<1> QED BY <1>1, <1>2, SizeAssumption DEF Large

LEMMA NestStep == TaskInv /\ NestInv /\ [Next]_vars => NestInv'
<1> SUFFICES ASSUME TaskInv, NestInv, [Next]_vars PROVE NestInv'
  OBVIOUS
<1>1. CASE \A s \in Subwarp : ~Claim(s)
  BY <1>1, PendingFrame DEF NestInv
<1>2. ASSUME NEW s \in Subwarp, Claim(s) PROVE NestInv'
  <2>a. PICK F \in Fronts[laneTask[s].x] :
          \E child \in Bijection(NewAddrs(F), F \cap Internal) : Opens(s, F, child)
    BY <1>2, ClaimEffect
  <2>b. PICK child \in Bijection(NewAddrs(F), F \cap Internal) : Opens(s, F, child)
    BY <2>a
  <2>1. /\ F \subseteq Node
        /\ s \in Pending /\ s \in DOMAIN laneTask
        /\ NewAddrs(F) \cap DOMAIN laneTask = {}
        /\ DOMAIN laneTask' = DOMAIN laneTask \cup NewAddrs(F)
        /\ \A a \in DOMAIN laneTask : laneTask'[a] = laneTask[a]
        /\ \A a \in NewAddrs(F) : laneTask'[a].x = child[a] /\ child[a] \in F \cap Internal
        /\ Pending' = (Pending \ {s}) \cup NewAddrs(F)
    BY <2>b DEF Opens
  <2> DEFINE n == laneTask[s].x
  <2>2. n \in Node
    BY <2>1 DEF NestInv, Large
  <2>3. /\ \A c \in F : c \subseteq n /\ c # n /\ c # {}
        /\ \A c, d \in F : c # d => c \cap d = {}
    BY <2>1, <2>2, NodeFinite DEF Fronts
  <2>4. \A a, b \in NewAddrs(F) : child[a] = child[b] => a = b
    BY DEF Bijection, Injection, IsInjective
  <2>5. \A a \in NewAddrs(F), b \in DOMAIN laneTask :
          /\ child[a] # laneTask[b].x
          /\ child[a] \cap laneTask[b].x = {} \/ child[a] \subseteq laneTask[b].x
          /\ b \in Pending \ {s} => child[a] \cap laneTask[b].x = {}
    <3> SUFFICES ASSUME NEW a \in NewAddrs(F), NEW b \in DOMAIN laneTask
                 PROVE  /\ child[a] # laneTask[b].x
                        /\ child[a] \cap laneTask[b].x = {} \/ child[a] \subseteq laneTask[b].x
                        /\ b \in Pending \ {s} => child[a] \cap laneTask[b].x = {}
      OBVIOUS
    <3>1. child[a] \subseteq n /\ child[a] # n /\ child[a] # {}
      BY <2>1, <2>3
    <3>2. CASE b = s
      BY <3>1, <3>2
    <3>3. CASE b # s /\ n \cap laneTask[b].x = {}
      BY <3>1, <3>3
    <3>4. CASE b # s /\ n \subseteq laneTask[b].x /\ n \cap laneTask[b].x # {}
      <4>1. child[a] # laneTask[b].x /\ child[a] \subseteq laneTask[b].x
        BY <3>1, <3>4
      <4>2. b \notin Pending
        <5>1. SUFFICES ASSUME b \in Pending PROVE FALSE
          OBVIOUS
        <5>2. laneTask[b].x \subseteq n
          BY <2>1, <3>4, <5>1 DEF NestInv
        <5>3. laneTask[b].x = n
          BY <3>4, <5>2
        <5> QED BY <2>1, <3>4, <5>3 DEF NestInv
      <4> QED BY <4>1, <4>2
    <3> QED BY <2>1, <3>2, <3>3, <3>4 DEF NestInv
  <2>6. \A a \in DOMAIN laneTask' : laneTask'[a].x \in Large
    BY <2>1, InternalLarge DEF NestInv
  <2>7. \A a, b \in DOMAIN laneTask' : a # b => laneTask'[a].x # laneTask'[b].x
    BY <2>1, <2>4, <2>5 DEF NestInv
  <2>8. ASSUME NEW a \in Pending', NEW b \in DOMAIN laneTask', a # b
        PROVE  \/ laneTask'[a].x \cap laneTask'[b].x = {}
               \/ laneTask'[a].x \subseteq laneTask'[b].x
    <3>1. Pending \subseteq DOMAIN laneTask
      BY DEF Pending
    <3>2. CASE a \in NewAddrs(F) /\ b \in NewAddrs(F)
      BY <2>1, <2>3, <2>4, <2>8, <3>2
    <3>3. CASE a \in NewAddrs(F) /\ b \in DOMAIN laneTask
      BY <2>1, <2>5, <3>3
    <3>4. CASE a \in Pending \ {s} /\ b \in NewAddrs(F)
      <4>1. child[b] \cap laneTask[a].x = {}
        BY <2>5, <3>1, <3>4
      <4> QED BY <2>1, <3>1, <3>4, <4>1
    <3>5. CASE a \in Pending \ {s} /\ b \in DOMAIN laneTask
      BY <2>1, <2>8, <3>1, <3>5 DEF NestInv
    <3> QED BY <2>1, <3>2, <3>3, <3>4, <3>5
  <2> QED BY <2>6, <2>7, <2>8 DEF NestInv
<1> QED BY <1>1, <1>2

LEMMA NestInit == Init => NestInv
<1> SUFFICES ASSUME Init PROVE NestInv
  OBVIOUS
<1>1. DOMAIN laneTask = {0} /\ laneTask[0].x = Ref /\ Pending \subseteq {0}
  BY DEF Init, RootTask, Pending
<1>2. Ref \in Large
  BY TreeAssumption, FullTreeAssumption DEF Large
<1> QED BY <1>1, <1>2 DEF NestInv

(* The task queue holds one slot per reference; a full binary tree over    *)
(* them has one internal node less, and no node is given two addresses.    *)
THEOREM QueueNeverOverruns ==
  ASSUME MasksExact
  PROVE  Spec => []QueueFits
<1>1. TaskInv /\ NestInv => QueueFits
  <2> SUFFICES ASSUME TaskInv, NestInv PROVE QueueFits
    OBVIOUS
  <2> DEFINE f == [a \in 0 .. boxNodeCount - 1 |-> laneTask[a].x]
  <2>1. boxNodeCount \in Nat \ {0} /\ DOMAIN laneTask = 0 .. boxNodeCount - 1
    BY DEF TaskInv, WordInv, TypeOK
  <2>2. f \in Injection(0 .. boxNodeCount - 1, Large)
    BY <2>1 DEF NestInv, Injection, IsInjective
  <2>3. IsFiniteSet(Large)
    BY NodeFinite, FS_Subset DEF Large
  <2>4. Cardinality(0 .. boxNodeCount - 1) <= Cardinality(Large)
    BY <2>2, <2>3, FS_Injection
  <2>5. Cardinality(0 .. boxNodeCount - 1) = boxNodeCount
    BY <2>1, FS_Interval
  <2>6. Cardinality(Large) = referenceCount - 1 /\ referenceCount \in Nat
    BY FullTreeAssumption, TreeAssumption, FS_CardinalityType DEF Large, referenceCount
  <2> QED BY <2>1, <2>4, <2>5, <2>6 DEF QueueFits
<1> QED BY TaskInvInit, TaskInvStep, NestInit, NestStep, <1>1, PTL DEF Spec

-----------------------------------------------------------------------------
(* Only a claim closes references: an emission passes them on.             *)
LEMMA ClosedFrame ==
  ASSUME TaskInv, [Next]_vars, \A s \in Subwarp : ~Claim(s)
  PROVE  (EmittedRefs \cup InHand)' = EmittedRefs \cup InHand
<1>1. CASE Dispatch
  <2>1. \A s \in Subwarp : Block(s) \in Int
    BY SizesInNat, SizeAssumption DEF Block, Subwarp
  <2>2. \A s \in Subwarp : pc'[s] = "publish" <=> pc[s] = "publish"
    BY <1>1, <2>1 DEF Dispatch, TaskInv, WordInv, TypeOK, QueuedInv
  <2> QED BY <1>1, <2>2 DEF Dispatch, EmittedRefs, InHand, Leaves
<1>2. ASSUME NEW s \in Subwarp, Poll(s) \/ LoadTask(s) \/ Retry(s)
      PROVE  EmittedRefs' = EmittedRefs /\ InHand' = InHand
  <2>1. \A t \in Subwarp : pc'[t] = "publish" <=> pc[t] = "publish"
    BY <1>2 DEF Poll, AllEmitted, LoadTask, Load, Retry, TaskInv, WordInv, TypeOK
  <2>2. UNCHANGED <<front, ranges>>
    BY <1>2 DEF Poll, AllEmitted, LoadTask, Load, Retry
  <2> QED BY <2>1, <2>2 DEF EmittedRefs, InHand, Leaves
<1>3. ASSUME NEW s \in Subwarp, Publish(s)
      PROVE  EmittedRefs' = EmittedRefs /\ InHand' = InHand
  BY <1>3 DEF Publish, EmittedRefs, InHand, Leaves
<1>4. ASSUME NEW s \in Subwarp, Emit(s)
      PROVE  (EmittedRefs \cup InHand)' = EmittedRefs \cup InHand
  <2>1. pc[s] = "publish" /\ pc' = [pc EXCEPT ![s] = "done"] /\ front' = front
    BY <1>4 DEF Emit
  <2>2. {t \in Subwarp : pc[t] = "publish"} = {t \in Subwarp : pc'[t] = "publish"} \cup {s}
    BY <2>1 DEF TaskInv, WordInv, TypeOK
  <2>3. InHand = InHand' \cup Leaves(s)
    BY <2>1, <2>2 DEF InHand, Leaves
  <2>4. EmittedRefs' = EmittedRefs \cup Leaves(s)
    BY <1>4, EmitUnion
  <2> QED BY <2>3, <2>4
<1>5. CASE UNCHANGED vars
  BY <1>5 DEF vars, EmittedRefs, InHand, Leaves
<1> QED BY <1>1, <1>2, <1>3, <1>4, <1>5 DEF Next, Step, Terminated

(* The refinement: the claim of a task splits its node, all else stutters. *)
THEOREM Refinement ==
  ASSUME MasksExact
  PROVE  Spec => ImplementsTreeSplit
<1> DEFINE open   == {laneTask[a].x : a \in Pending}
           closed == EmittedRefs \cup InHand
<1>1. Init => Tree!Init
  <2> SUFFICES ASSUME Init PROVE open = {Ref} /\ closed = {}
    BY DEF Tree!Init
  <2>1. Pending = {0} /\ laneTask[0].x = Ref
    BY DEF Init, Pending, Opened, RootTask
  <2> QED BY <2>1 DEF Init, EmittedRefs, InHand
<1>2. TaskInv /\ NestInv /\ ReferencesPartitioned /\ [Next]_vars
        => [Tree!Next]_<<open, closed>>
  <2> SUFFICES ASSUME TaskInv, NestInv, ReferencesPartitioned, [Next]_vars
               PROVE  Tree!Next \/ UNCHANGED <<open, closed>>
    OBVIOUS
  <2>1. ASSUME NEW s \in Subwarp, Claim(s) PROVE Tree!Next
    <3>a. PICK F \in Fronts[laneTask[s].x] :
            \E child \in Bijection(NewAddrs(F), F \cap Internal) : Opens(s, F, child)
      BY <2>1, ClaimEffect
    <3>b. PICK child \in Bijection(NewAddrs(F), F \cap Internal) : Opens(s, F, child)
      BY <3>a
    <3>1. /\ F \subseteq Node
          /\ s \in Pending /\ s \in DOMAIN laneTask
          /\ NewAddrs(F) \cap DOMAIN laneTask = {}
          /\ DOMAIN laneTask' = DOMAIN laneTask \cup NewAddrs(F)
          /\ \A a \in DOMAIN laneTask : laneTask'[a] = laneTask[a]
          /\ \A a \in NewAddrs(F) : laneTask'[a].x = child[a] /\ child[a] \in F \cap Internal
          /\ Pending' = (Pending \ {s}) \cup NewAddrs(F)
          /\ front' = [front EXCEPT ![s] = F]
      BY <3>b DEF Opens
    <3>2. PICK n \in Node : n = laneTask[s].x
      BY <3>1 DEF NestInv, Large
    <3>3. Tree!Covers(F, n)
      BY <3>1, <3>2 DEF Fronts, Tree!Covers
    <3>4. {child[a] : a \in NewAddrs(F)} = F \ (Node \ Internal)
      <4>1. {child[a] : a \in NewAddrs(F)} = F \cap Internal
        BY <3>1 DEF Bijection, Surjection
      <4> QED BY <3>1, <4>1
    <3>5. open' = (open \ {n}) \cup {child[a] : a \in NewAddrs(F)}
      <4>1. Pending \subseteq DOMAIN laneTask
        BY DEF Pending
      <4>2. \A a \in Pending \ {s} : laneTask'[a].x = laneTask[a].x /\ laneTask[a].x # n
        BY <3>1, <3>2, <4>1 DEF NestInv
      <4> QED BY <3>1, <3>2, <4>1, <4>2
    <3>6. closed' = closed \cup UNION (F \cap (Node \ Internal))
      <4>1. /\ pc' = [pc EXCEPT ![s] = "publish"] /\ ranges' = ranges
            /\ pc[s] = "check"
        BY <2>1 DEF Claim
      <4>2. Leaves(s)' = UNION (F \cap (Node \ Internal))
        <5>1. F \cap (Node \ Internal) = {c \in F : FatLeaf(c)}
          BY <3>1 DEF Internal
        <5> QED BY <3>1, <5>1 DEF Leaves, FatLeaf, TaskInv, WordInv, TypeOK
      <4>3. \A t \in Subwarp : t # s => Leaves(t)' = Leaves(t)
        BY <3>1 DEF Leaves, TaskInv, WordInv, TypeOK
      <4>4. \A t \in Subwarp : pc'[t] = "publish" <=> (t = s \/ pc[t] = "publish")
        BY <4>1 DEF TaskInv, WordInv, TypeOK
      <4>5. InHand' = InHand \cup Leaves(s)'
        BY <4>1, <4>3, <4>4 DEF InHand
      <4> QED BY <4>1, <4>2, <4>5 DEF EmittedRefs
    <3>7. n \in open /\ n \notin open'
      <4>1. n \notin F
        BY <3>3 DEF Tree!Covers
      <4>2. n \notin open'
        BY ONLY <3>4, <3>5, <4>1
      <4> QED BY <3>1, <3>2, <4>2
    <3>8. F \in SUBSET Tree!Fates
      <4>1. \A c \in F \cap Internal : c \in open'
        BY <3>4, <3>5
      <4>2. \A c \in F \cap (Node \ Internal) : c \subseteq closed'
        BY <3>6
      <4> QED BY <3>1, <4>1, <4>2 DEF Tree!Fates
    <3>9. open' = (open \ {n}) \cup (F \ (Node \ Internal))
      BY <3>4, <3>5
    <3>10. Tree!Split(n)
      BY <3>2, <3>3, <3>6, <3>7, <3>8, <3>9 DEF Tree!Split
    <3> QED BY <3>10 DEF Tree!Next
  <2>2. ASSUME \A s \in Subwarp : ~Claim(s) PROVE UNCHANGED <<open, closed>>
    BY <2>2, PendingFrame, ClosedFrame
  <2> QED BY <2>1, <2>2
<1> QED BY TaskInvInit, TaskInvStep, NestInit, NestStep, PartitionInit, PartitionStep,
           <1>1, <1>2, PTL DEF Spec, ImplementsTreeSplit, Tree!Spec

-----------------------------------------------------------------------------
(* The ranges tile the references emitted so far.                          *)
TileInv ==
  /\ \A r \in ranges : /\ r.rangeSize = Cardinality(r.refs)
                       /\ r.rangeAddr + r.rangeSize <= emittedCount
  /\ \A i \in 0 .. emittedCount - 1 : \E r \in ranges : {q \in ranges : Holds(q, i)} = {r}

LEMMA TileStep == TaskInv /\ TileInv /\ [Next]_vars => TileInv'
<1> SUFFICES ASSUME TaskInv, TileInv, [Next]_vars PROVE TileInv'
  OBVIOUS
<1>1. ASSUME NEW s \in Subwarp, Emit(s) PROVE TileInv'
  <2> DEFINE size == Cardinality(Leaves(s))
             new == OwnRange(s)
  <2>1. /\ emittedCount \in Nat /\ size \in Nat /\ emittedCount' = emittedCount + size
        /\ \A r \in ranges : r.rangeAddr \in Nat /\ r.rangeSize \in Nat
    BY <1>1, LeavesFinite, FS_CardinalityType DEF TaskInv, WordInv, TypeOK, Emit
  <2>2. CASE Leaves(s) = {}
    <3>1. size = 0 /\ ranges' = ranges
      BY <1>1, <2>2, EmitOwn, FS_EmptySet
    <3> HIDE DEF size
    <3> QED BY <2>1, <3>1 DEF TileInv, Holds
  <2>3. CASE Leaves(s) # {}
    <3>1. /\ ranges' = ranges \cup {new} /\ new.refs = Leaves(s)
          /\ new.rangeAddr = emittedCount /\ new.rangeSize = size
      BY <1>1, <2>3, EmitOwn DEF OwnRange
    <3> HIDE DEF new
    <3>2. \A i \in 0 .. emittedCount - 1 : ~Holds(new, i)
      BY <2>1, <3>1 DEF Holds
    <3>3. \A i \in emittedCount .. emittedCount + size - 1 :
            Holds(new, i) /\ \A r \in ranges : ~Holds(r, i)
      BY <2>1, <3>1 DEF Holds, TileInv
    <3>4. ASSUME NEW i \in 0 .. emittedCount' - 1
          PROVE  \E r \in ranges' : {q \in ranges' : Holds(q, i)} = {r}
      <4>1. CASE i < emittedCount
        <5>1. i \in 0 .. emittedCount - 1
          BY <2>1, <4>1
        <5>2. PICK r \in ranges : {q \in ranges : Holds(q, i)} = {r}
          BY <5>1 DEF TileInv
        <5> QED BY <3>1, <3>2, <5>1, <5>2
      <4>2. CASE i >= emittedCount
        <5>1. i \in emittedCount .. emittedCount + size - 1
          BY <2>1, <4>2
        <5> QED BY <3>1, <3>3, <5>1
      <4> QED BY <2>1, <4>1, <4>2
    <3>5. \A r \in ranges' : /\ r.rangeSize = Cardinality(r.refs)
                             /\ r.rangeAddr + r.rangeSize <= emittedCount'
      BY <2>1, <3>1 DEF TileInv
    <3> QED BY <3>4, <3>5 DEF TileInv
  <2> QED BY <2>2, <2>3
<1>2. ASSUME UNCHANGED <<emittedCount, ranges>> PROVE TileInv'
  BY <1>2 DEF TileInv
<1> QED BY <1>1, <1>2 DEF Next, Step, Terminated, vars, Dispatch, Poll, AllEmitted, LoadTask, Load,
             Retry, Claim, Publish

(* Ranges have the length of what they hold and tile the array.            *)
THEOREM RangesStayPacked ==
  ASSUME MasksExact
  PROVE  Spec => []RangesPacked
<1>1. Init => TileInv
  BY DEF Init, TileInv
<1>2. TileInv => RangesPacked
  BY FS_Singleton DEF TileInv, RangesPacked
<1> QED BY TaskInvInit, TaskInvStep, TileStep, <1>1, <1>2, PTL DEF Spec

-----------------------------------------------------------------------------
(* What an opened node was divided into: leaves, and nodes with addresses. *)
Kids(a) == {c \in DOMAIN laneTask : c # 0 /\ laneTask[c].z = a}

Divided(a, leaves) == laneTask[a].x = leaves \cup UNION {laneTask[c].x : c \in Kids(a)}

WideInv ==
  /\ \A c \in DOMAIN laneTask : c # 0 => laneTask[c].z \in Opened
  /\ \A s \in Subwarp : pc[s] = "publish" => Divided(s, Leaves(s))
  /\ \A a \in DOMAIN boxNodes :
       /\ boxNodes[a].children = Kids(a)
       /\ boxNodes[a].parentAddr = IF a = 0 THEN InvalidValue ELSE laneTask[a].z
       /\ Divided(a, boxNodes[a].leaves)

LEMMA QuietFrame ==
  ASSUME TaskInv, [Next]_vars, \A s \in Subwarp : ~Claim(s) /\ ~Emit(s)
  PROVE  /\ UNCHANGED <<laneTask, front, boxNodes>>
         /\ \A s \in Subwarp : pc'[s] = "publish" <=> pc[s] = "publish"
<1>1. CASE Dispatch
  <2>1. \A s \in Subwarp : Block(s) \in Int
    BY SizesInNat, SizeAssumption DEF Block, Subwarp
  <2>2. ASSUME NEW t \in Subwarp
        PROVE  pc'[t] = "publish" <=> pc[t] = "publish"
    <3>1. pc'[t] = IF Block(t) # dispatched THEN pc[t]
                   ELSE IF t >= maxBoxNodeCount \/ t >= referenceCount THEN "done"
                   ELSE "poll"
      BY ONLY <1>1 DEF Dispatch
    <3>2. Block(t) = dispatched => pc[t] = "queued"
      BY ONLY <2>1, TaskInv DEF TaskInv, WordInv, TypeOK, QueuedInv
    <3> QED BY ONLY <3>1, <3>2
  <2> QED BY <1>1, <2>2 DEF Dispatch
<1>2. ASSUME NEW s \in Subwarp, Poll(s) \/ LoadTask(s) \/ Retry(s) \/ Publish(s)
      PROVE  /\ UNCHANGED <<laneTask, front, boxNodes>>
             /\ \A t \in Subwarp : pc'[t] = "publish" <=> pc[t] = "publish"
  <2>1. \A t \in Subwarp : pc'[t] = "publish" <=> pc[t] = "publish"
    BY <1>2 DEF Poll, AllEmitted, LoadTask, Load, Retry, Publish, TaskInv, WordInv, TypeOK
  <2> QED BY <1>2, <2>1 DEF Poll, AllEmitted, LoadTask, Load, Retry, Publish
<1>3. CASE UNCHANGED vars
  BY <1>3 DEF vars
<1> QED BY <1>1, <1>2, <1>3 DEF Next, Step, Terminated

LEMMA WideClaim ==
  ASSUME TaskInv, WideInv, NEW s \in Subwarp, Claim(s)
  PROVE  WideInv'
<1>1. pc[s] = "check" /\ Valid(task[s])
  BY DEF Claim
<1>2. s \in DOMAIN laneTask /\ task[s] = laneTask[s] /\ task[s] \in Task /\ task[s].y = s
  BY <1>1, ValidTask
<1>3. PICK F \in Fronts[task[s].x] :
        \E child \in Bijection(NewAddrs(F), F \cap Internal) : Allocate(s, F, child)
  BY ClaimOwn
<1>a. F \in LaneChildren
  BY <1>2, <1>3 DEF Fronts, Task
<1>4. PICK child \in Bijection(NewAddrs(F), F \cap Internal) : Allocate(s, F, child)
  BY <1>3
<1>5. /\ pc' = [pc EXCEPT ![s] = "publish"] /\ boxNodes' = boxNodes
      /\ front' = [front EXCEPT ![s] = F]
  BY <1>4 DEF Claim, Allocate
<1>6. TypeOK
  BY DEF TaskInv, WordInv
<1>7. /\ NewAddrs(F) \cap DOMAIN laneTask = {}
      /\ DOMAIN laneTask' = DOMAIN laneTask \cup NewAddrs(F)
      /\ NewAddrs(F) \subseteq Nat \ {0}
      /\ \A a \in DOMAIN laneTask : laneTask'[a] = laneTask[a]
      /\ \A a \in NewAddrs(F) : laneTask'[a] = [x |-> child[a], y |-> a, z |-> task[s].y]
  <2>1. /\ NewAddrs(F) \cap DOMAIN laneTask = {}
        /\ DOMAIN laneTask' = DOMAIN laneTask \cup NewAddrs(F)
        /\ \A a \in DOMAIN laneTask : laneTask'[a] = laneTask[a]
    BY <1>2, <1>a, <1>4, <1>6, AllocateNodes
  <2>2. \A a \in NewAddrs(F) : laneTask'[a] = [x |-> child[a], y |-> a, z |-> task[s].y]
    BY <1>4 DEF Allocate
  <2>3. F \subseteq Node /\ Cardinality(F \cap Internal) \in Nat
    BY <1>2, <1>3, FrontProperties DEF Task
  <2>4. NewAddrs(F) \subseteq Nat \ {0}
    BY ONLY <1>6, <2>3 DEF TypeOK, NewAddrs
  <2> HIDE DEF NewAddrs
  <2> QED BY ONLY <2>1, <2>2, <2>4
<1>8. \A a \in NewAddrs(F) : laneTask'[a].x = child[a] /\ laneTask'[a].z = s
  BY <1>2, <1>7
<1>9. Opened' = Opened \cup {s} /\ s \notin Opened
  BY <1>1, <1>5, <1>6 DEF Opened, TypeOK, TaskInv, WordInv, DoneInv
<1>10. \A c \in DOMAIN laneTask' : c # 0 => laneTask'[c].z \in Opened'
  BY <1>7, <1>8, <1>9 DEF WideInv
<1>11. Kids(s)' = NewAddrs(F) /\ \A a \in Opened : Kids(a)' = Kids(a)
  <2>1. \A c \in DOMAIN laneTask : c # 0 => laneTask[c].z # s
    BY <1>9 DEF WideInv
  <2> HIDE DEF NewAddrs
  <2> QED BY <1>7, <1>8, <1>9, <2>1 DEF Kids
<1>12. \A a \in Opened : a \in DOMAIN laneTask /\ \A L : Divided(a, L)' <=> Divided(a, L)
  <2> SUFFICES ASSUME NEW a \in Opened
               PROVE  a \in DOMAIN laneTask /\ \A L : Divided(a, L)' <=> Divided(a, L)
    OBVIOUS
  <2>1. a \in DOMAIN laneTask
    BY ValidTask DEF Opened, TaskInv, WordInv, DoneInv, PublishInv
  <2>2. Kids(a)' = Kids(a) /\ Kids(a) \subseteq DOMAIN laneTask
    BY <1>11 DEF Kids
  <2>3. {laneTask'[c].x : c \in Kids(a)'} = {laneTask[c].x : c \in Kids(a)}
    BY <1>7, <2>2
  <2> QED BY <1>7, <2>1, <2>3 DEF Divided
<1>13. (Divided(s, Leaves(s)))'
  <2>1. Leaves(s)' = UNION {c \in F : FatLeaf(c)}
    BY <1>5, <1>6 DEF Leaves, TypeOK, FatLeaf
  <2>2. {laneTask'[c].x : c \in Kids(s)'} = F \cap Internal
    <3>1. {child[a] : a \in NewAddrs(F)} = F \cap Internal
      BY DEF Bijection, Surjection, Injection
    <3> HIDE DEF NewAddrs
    <3> QED BY <1>8, <1>11, <3>1
  <2>3. UNION F = task[s].x /\ F \cap Internal = {c \in F : ~FatLeaf(c)}
    BY <1>2, FrontProperties DEF Task
  <2>4. laneTask'[s].x = UNION F
    BY <1>2, <1>7, <2>3
  <2> QED BY <2>1, <2>2, <2>3, <2>4 DEF Divided
<1>14. \A t \in Subwarp : pc'[t] = "publish" => Divided(t, Leaves(t))'
  <2> SUFFICES ASSUME NEW t \in Subwarp, pc'[t] = "publish", t # s
               PROVE  Divided(t, Leaves(t))'
    BY <1>13
  <2>1. pc[t] = "publish" /\ t \in Opened
    BY <1>5, <1>6 DEF TypeOK, Opened
  <2>2. Leaves(t)' = Leaves(t)
    BY <1>5, <1>6 DEF Leaves, TypeOK
  <2> QED BY <1>12, <2>1, <2>2 DEF WideInv
<1>15. \A a \in DOMAIN boxNodes : a \in Opened /\ laneTask'[a] = laneTask[a]
  BY <1>7, <1>12 DEF Opened
<1> QED BY <1>5, <1>10, <1>11, <1>12, <1>14, <1>15 DEF WideInv

LEMMA WideEmit ==
  ASSUME TaskInv, WideInv, NEW s \in Subwarp, Emit(s)
  PROVE  WideInv'
<1>1. pc[s] = "publish" /\ Valid(task[s])
  BY DEF Emit, TaskInv, WordInv, PublishInv
<1>2. s \in DOMAIN laneTask /\ task[s] = laneTask[s] /\ task[s].y = s
  BY <1>1, ValidTask
<1>3. /\ pc' = [pc EXCEPT ![s] = "done"]
      /\ UNCHANGED <<laneTask, front>>
      /\ DOMAIN boxNodes' = DOMAIN boxNodes \cup {s}
      /\ boxNodes'[s] = [parentAddr |-> ParentLink(s), children |-> Children(s), leaves |-> Leaves(s)]
      /\ \A a \in DOMAIN boxNodes : a # s => boxNodes'[a] = boxNodes[a]
  BY <1>2 DEF Emit
<1>4. Opened' = Opened
  BY <1>1, <1>3 DEF Opened, TaskInv, WordInv, TypeOK
<1>5. \A a : Kids(a)' = Kids(a)
  BY <1>3 DEF Kids
<1>6. \A a, L : Divided(a, L)' <=> Divided(a, L)
  BY <1>3, <1>5 DEF Divided
<1>7. Children(s) = Kids(s) /\ ParentLink(s) = IF s = 0 THEN InvalidValue ELSE laneTask[s].z
  BY <1>2 DEF Children, Kids, ParentLink
<1>8. \A t \in Subwarp : pc'[t] = "publish" => pc[t] = "publish" /\ Leaves(t)' = Leaves(t)
  BY <1>3 DEF TaskInv, WordInv, TypeOK, Leaves
<1>9. /\ boxNodes'[s].children = Kids(s) /\ boxNodes'[s].leaves = Leaves(s)
      /\ boxNodes'[s].parentAddr = IF s = 0 THEN InvalidValue ELSE laneTask[s].z
  BY <1>3, <1>7
<1> QED BY <1>1, <1>3, <1>4, <1>5, <1>6, <1>8, <1>9 DEF WideInv

LEMMA WideStep == TaskInv /\ WideInv /\ [Next]_vars => WideInv'
<1> SUFFICES ASSUME TaskInv, WideInv, [Next]_vars PROVE WideInv'
  OBVIOUS
<1>1. CASE \A s \in Subwarp : ~Claim(s) /\ ~Emit(s)
  <2>1. /\ UNCHANGED <<laneTask, front, boxNodes>>
        /\ \A s \in Subwarp : pc'[s] = "publish" <=> pc[s] = "publish"
    BY <1>1, QuietFrame
  <2>2. Opened' = Opened /\ \A s : Leaves(s)' = Leaves(s) /\ Kids(s)' = Kids(s)
    BY <2>1 DEF Opened, Leaves, Kids
  <2>3. \A a, L : Divided(a, L)' <=> Divided(a, L)
    BY <2>1, <2>2 DEF Divided
  <2> QED BY <2>1, <2>2, <2>3 DEF WideInv
<1> QED BY <1>1, WideClaim, WideEmit

LEMMA RoundsUp ==
  ASSUME NEW x \in Nat, NEW y \in Nat \ {0}
  PROVE  DivideRoundUp(x, y) \in Nat /\ x <= DivideRoundUp(x, y) * y
<1> DEFINE q == (x + y - 1) \div y
           r == (x + y - 1) % y
<1>1. q \in Nat /\ r \in 0 .. y - 1 /\ x + y - 1 = q * y + r
  BY SMT
<1> HIDE DEF q, r
<1>2. q * y \in Int
  BY <1>1
<1>3. x <= q * y
  BY <1>1, <1>2
<1> QED BY <1>1, <1>3 DEF DivideRoundUp, q

(* A launch has at least as many subwarps as there can be box nodes.       *)
LEMMA LaunchLarge == 0 .. maxBoxNodeCount - 1 \subseteq Subwarp
<1>2. maxBoxNodeCount <= BlockCount * BlockTasks
  BY RoundsUp, SizesInNat, SizeAssumption DEF BlockCount
<1> HIDE DEF maxBoxNodeCount, BlockCount
<1>3. BlockCount * BlockTasks \in Nat
  BY SizesInNat, SizeAssumption
<1> QED BY <1>2, <1>3, SizesInNat DEF Subwarp

-----------------------------------------------------------------------------
(* Disjoint sets of at least e elements each: there are e times as many    *)
(* elements as sets.                                                       *)
LEMMA DisjointSetsCount ==
  ASSUME NEW P, IsFiniteSet(P), NEW X, IsFiniteSet(X), NEW e \in Nat,
         NEW f \in [P -> SUBSET X],
         \A p \in P : Cardinality(f[p]) >= e,
         \A p, q \in P : p # q => f[p] \cap f[q] = {}
  PROVE  e * Cardinality(P) <= Cardinality(X)
<1> DEFINE nth == [p \in P |-> CHOOSE g \in [1 .. e -> f[p]] :
                                 \A i, j \in 1 .. e : g[i] = g[j] => i = j]
           h == [q \in P \X (1 .. e) |-> nth[q[1]][q[2]]]
<1>1. \A p \in P : /\ nth[p] \in [1 .. e -> f[p]]
                   /\ \A i, j \in 1 .. e : nth[p][i] = nth[p][j] => i = j
  <2> SUFFICES ASSUME NEW p \in P
               PROVE  \E g \in [1 .. e -> f[p]] : \A i, j \in 1 .. e : g[i] = g[j] => i = j
    BY Zenon
  <2>1. IsFiniteSet(f[p])
    BY FS_Subset
  <2>2. Cardinality(f[p]) \in Nat /\ ExistsBijection(1 .. Cardinality(f[p]), f[p])
    BY <2>1, FS_CardinalityType
  <2>3. PICK b \in Bijection(1 .. Cardinality(f[p]), f[p]) : TRUE
    BY <2>2 DEF ExistsBijection
  <2>4. /\ \A i \in 1 .. Cardinality(f[p]) : b[i] \in f[p]
        /\ \A i, j \in 1 .. Cardinality(f[p]) : b[i] = b[j] => i = j
    BY DEF Bijection, Injection, IsInjective
  <2>5. \A i \in 1 .. e : i \in 1 .. Cardinality(f[p])
    BY <2>2
  <2> DEFINE g == [i \in 1 .. e |-> b[i]]
  <2>6. g \in [1 .. e -> f[p]] /\ \A i, j \in 1 .. e : g[i] = g[j] => i = j
    BY <2>4, <2>5
  <2> QED BY <2>6
<1> HIDE DEF nth
<1>2. h \in Injection(P \X (1 .. e), X)
  <2>1. ASSUME NEW q \in P \X (1 .. e)
        PROVE  q[1] \in P /\ q[2] \in 1 .. e /\ h[q] \in f[q[1]] /\ h[q] \in X
    BY <1>1
  <2>2. ASSUME NEW q \in P \X (1 .. e), NEW r \in P \X (1 .. e), h[q] = h[r]
        PROVE  q = r
    <3>1. q[1] = r[1]
      BY <2>1, <2>2
    <3>2. nth[q[1]][q[2]] = nth[q[1]][r[2]] /\ q[2] \in 1 .. e /\ r[2] \in 1 .. e
      BY <2>2, <3>1
    <3>3. q[2] = r[2]
      BY <1>1, <2>1, <3>2
    <3> QED BY <3>1, <3>3
  <2>3. h \in [P \X (1 .. e) -> X]
    BY <2>1
  <2> HIDE DEF h
  <2> QED BY <2>2, <2>3 DEF Injection, IsInjective
<1> HIDE DEF h
<1>3. Cardinality(P \X (1 .. e)) <= Cardinality(X)
  BY <1>2, FS_Injection
<1>4. IsFiniteSet(1 .. e) /\ Cardinality(1 .. e) = e
  BY FS_Interval
<1>5. Cardinality(P \X (1 .. e)) = Cardinality(P) * e /\ Cardinality(P) \in Nat
  BY <1>4, FS_Product, FS_CardinalityType
<1> QED BY <1>3, <1>5

(* A set of disjoint nodes that are not empty is not larger than a set     *)
(* that contains them.                                                     *)
LEMMA DisjointNodesCount ==
  ASSUME NEW G \in SUBSET Node, \A c, d \in G : c # d => c \cap d = {},
         NEW X, IsFiniteSet(X), \A c \in G : c \subseteq X
  PROVE  IsFiniteSet(G) /\ Cardinality(G) <= Cardinality(X)
<1> DEFINE f == [c \in G |-> c]
<1>1. IsFiniteSet(G)
  BY NodeFinite, FS_Subset
<1>2. \A c \in G : Cardinality(c) >= 1
  <2> SUFFICES ASSUME NEW c \in G PROVE Cardinality(c) >= 1
    OBVIOUS
  <2>1. IsFiniteSet(c) /\ c # {}
    BY NodeFinite
  <2>2. Cardinality(c) \in Nat /\ Cardinality(c) # 0
    BY <2>1, FS_CardinalityType, FS_EmptySet
  <2> QED BY <2>2
<1>3. f \in [G -> SUBSET X] /\ \A c \in G : f[c] = c
  OBVIOUS
<1> HIDE DEF f
<1>4. 1 * Cardinality(G) <= Cardinality(X)
  BY <1>1, <1>2, <1>3, DisjointSetsCount
<1>5. Cardinality(G) \in Nat
  BY <1>1, FS_CardinalityType
<1> QED BY <1>1, <1>4, <1>5

(* What the front of a node spends: with internal children all lanes are   *)
(* in use, and each of the others holds at least one reference.            *)
LEMMA FrontBudget ==
  ASSUME NEW n \in Node, NEW F \in Fronts[n]
  PROVE  /\ Cardinality(F \cap Internal) \in Nat
         /\ F \cap Internal = {} => UNION (F \ Internal) = n
         /\ F \cap Internal # {} =>
              /\ Cardinality(F \cap Internal) \in 1 .. BranchingFactor
              /\ Cardinality(UNION (F \ Internal)) >= BranchingFactor - Cardinality(F \cap Internal)
              /\ Cardinality(n) > BranchingFactor
<1>1. /\ F \subseteq Node /\ UNION F = n /\ n \subseteq Ref /\ IsFiniteSet(n)
      /\ \A c, d \in F : c # d => c \cap d = {}
      /\ Cardinality(F \cap Internal) \in Nat
  BY FrontProperties, NodeFinite
<1>2. F \cap Internal = {} => UNION (F \ Internal) = n
  BY <1>1
<1>3. ASSUME NEW c \in F \cap Internal
      PROVE  /\ Cardinality(F \cap Internal) \in 1 .. BranchingFactor
             /\ Cardinality(UNION (F \ Internal)) >= BranchingFactor - Cardinality(F \cap Internal)
             /\ Cardinality(n) > BranchingFactor
  <2>1. IsFiniteSet(F) /\ IsFiniteSet(F \cap Internal) /\ IsFiniteSet(c) /\ Cardinality(c) \in Nat
    BY <1>1, <1>3, NodeFinite, FS_Subset, FS_CardinalityType
  <2>2. Cardinality(c) > 1
    BY <1>3, <2>1, SizeAssumption DEF Internal, FatLeaf
  <2>3. Cardinality(F) = BranchingFactor
    BY <1>3, <2>2 DEF Fronts
  <2>4. Cardinality(F \ Internal) = BranchingFactor - Cardinality(F \cap Internal)
    BY <2>1, <2>3, FS_Difference
  <2>5. Cardinality(F \ Internal) \in Nat
    BY <2>1, FS_Difference, FS_CardinalityType
  <2>6. Cardinality(F \cap Internal) # 0
    BY <1>3, <2>1, FS_EmptySet
  <2>7. Cardinality(F \cap Internal) \in 1 .. BranchingFactor
    BY <1>1, <2>4, <2>5, <2>6, SizeAssumption
  <2>8. Cardinality(F \ Internal) <= Cardinality(UNION (F \ Internal))
    <3>1. IsFiniteSet(UNION (F \ Internal))
      BY <1>1, FS_Subset
    <3>2. F \ Internal \in SUBSET Node /\ \A d \in F \ Internal : d \subseteq UNION (F \ Internal)
      BY <1>1
    <3> QED BY <1>1, <3>1, <3>2, DisjointNodesCount
  <2>9. Cardinality(n) > BranchingFactor
    <3>1. /\ F \ {c} \in SUBSET Node /\ IsFiniteSet(n \ c)
          /\ \A d \in F \ {c} : d \subseteq n \ c
      BY <1>1, <1>3, FS_Difference
    <3>2. Cardinality(F \ {c}) <= Cardinality(n \ c)
      BY <1>1, <3>1, DisjointNodesCount
    <3>3. Cardinality(F \ {c}) = BranchingFactor - 1
      BY <1>3, <2>1, <2>3, FS_RemoveElement
    <3>4. n \cap c = c
      BY <1>1, <1>3
    <3>5. Cardinality(n \ c) = Cardinality(n) - Cardinality(n \cap c)
      BY <1>1, FS_Difference
    <3>6. Cardinality(n) \in Nat
      BY <1>1, FS_CardinalityType
    <3>7. Cardinality(n \ c) \in Nat /\ BranchingFactor \in Nat /\ MaxFatLeafSize \in Nat \ {0}
      BY <3>1, FS_CardinalityType, SizeAssumption
    <3>8. Cardinality(n \ c) = Cardinality(n) - Cardinality(c)
      BY <3>4, <3>5
    <3> QED BY <2>1, <2>2, <3>2, <3>3, <3>6, <3>7, <3>8
  <2> QED BY <2>4, <2>7, <2>8, <2>9
<1> QED BY <1>1, <1>2, <1>3

(* The budget: every box node costs as many references as a fan-out of one *)
(* less, times those of the smallest node that gets a box node; what is    *)
(* still queued pays for the box nodes it will take.                       *)
MinTask == MaxFatLeafSize + 1
Held    == UNION {laneTask[a].x : a \in Pending}

BudgetInv ==
  /\ referenceCount <= BranchingFactor => DOMAIN laneTask = {0}
  /\ referenceCount > BranchingFactor =>
       /\ \A a \in Pending : Cardinality(laneTask[a].x) >= MinTask
       /\ (MinTask * (BranchingFactor - 1)) * Cardinality(DOMAIN laneTask \ Pending)
            + BranchingFactor * Cardinality(Held) + MinTask
          <= BranchingFactor * referenceCount + MinTask * Cardinality(Pending)

(* The arithmetic of a claim: a node that has k internal children and      *)
(* l references in its other children.                                     *)
LEMMA BudgetStep ==
  ASSUME NEW B \in Nat, NEW e \in Nat \ {0}, B >= e, B > 1,
         NEW N \in Nat, NEW d \in Nat, NEW h \in Nat, NEW p \in Nat, NEW k \in 0 .. B, NEW l \in Nat,
         (e * (B - 1)) * d + B * h + e <= B * N + e * p,
         k = 0 => l >= e, k > 0 => l >= B - k
  PROVE  (e * (B - 1)) * (d + 1) + B * (h - l) + e <= B * N + e * (p - 1 + k)
<1>1. (e * (B - 1)) * (d + 1) = (e * (B - 1)) * d + e * (B - 1)
  OBVIOUS
<1>2. B * (h - l) = B * h - B * l /\ e * (p - 1 + k) = e * p + e * (k - 1)
  OBVIOUS
<1>3. e * (B - 1) - e * (k - 1) <= B * l
  <2>1. e * (B - 1) - e * (k - 1) = e * (B - k)
    OBVIOUS
  <2>2. CASE k = 0
    <3>1. B * e <= B * l
      BY <2>2
    <3> QED BY <2>1, <2>2, <3>1
  <2>3. CASE k > 0
    <3>1. e * (B - k) <= B * (B - k)
      OBVIOUS
    <3>2. B * (B - k) <= B * l
      BY <2>3
    <3> QED BY <2>1, <3>1, <3>2
  <2> QED BY <2>2, <2>3
<1> DEFINE a == (e * (B - 1)) * d
           b == (e * (B - 1)) * (d + 1)
           c == e * (B - 1)
           bh == B * h
           bl == B * l
           bhl == B * (h - l)
           bn == B * N
           ep == e * p
           ek == e * (k - 1)
           epk == e * (p - 1 + k)
<1>4. a \in Int /\ b \in Int /\ c \in Int /\ bh \in Int /\ bl \in Int /\ bhl \in Int /\ bn \in Int
      /\ ep \in Int /\ ek \in Int /\ epk \in Int
  OBVIOUS
<1>5. b = a + c /\ bhl = bh - bl /\ epk = ep + ek /\ c - ek <= bl /\ a + bh + e <= bn + ep
  BY <1>1, <1>2, <1>3
<1> HIDE DEF a, b, c, bh, bl, bhl, bn, ep, ek, epk
<1>6. b + bhl + e <= bn + epk
  BY <1>4, <1>5
<1> QED BY <1>6 DEF b, bhl, bn, epk

(* A claim in numbers: the internal children take the place of their       *)
(* parent, the others are held no longer.                                  *)
LEMMA ClaimCounts ==
  ASSUME TaskInv, NestInv, NEW s \in Subwarp, NEW F \in Fronts[laneTask[s].x],
         NEW child \in Bijection(NewAddrs(F), F \cap Internal), Opens(s, F, child)
  PROVE  LET leaf == UNION (F \ Internal)
         IN  /\ IsFiniteSet(Pending) /\ IsFiniteSet(Held) /\ IsFiniteSet(leaf)
             /\ Cardinality(Pending') = Cardinality(Pending) - 1 + Cardinality(F \cap Internal)
             /\ leaf \subseteq Held /\ Held' = Held \ leaf
             /\ Cardinality(Held') = Cardinality(Held) - Cardinality(leaf)
<1> DEFINE n == laneTask[s].x
           new == NewAddrs(F)
           leaf == UNION (F \ Internal)
           k == Cardinality(F \cap Internal)
<1>1. /\ s \in Pending /\ s \in DOMAIN laneTask
      /\ new \cap DOMAIN laneTask = {}
      /\ DOMAIN laneTask' = DOMAIN laneTask \cup new
      /\ \A a \in DOMAIN laneTask : laneTask'[a] = laneTask[a]
      /\ \A a \in new : laneTask'[a].x = child[a] /\ child[a] \in F \cap Internal
      /\ Pending' = (Pending \ {s}) \cup new
      /\ Pending \subseteq DOMAIN laneTask
  BY DEF Opens, Pending
<1>2. {child[a] : a \in new} = F \cap Internal
  BY DEF Bijection, Surjection, Injection
<1>3. /\ n \in Node /\ F \subseteq Node /\ UNION F = n /\ n \subseteq Ref
      /\ \A c, d \in F : c # d => c \cap d = {}
  BY <1>1, FrontProperties, NodeFinite DEF NestInv, Large
<1>4. k \in Nat
  BY <1>3, FrontBudget
<1>5. /\ IsFiniteSet(DOMAIN laneTask) /\ IsFiniteSet(Pending)
      /\ IsFiniteSet(F \cap Internal) /\ IsFiniteSet(Held) /\ IsFiniteSet(leaf)
  <2>1. 0 \in Int /\ boxNodeCount - 1 \in Int /\ DOMAIN laneTask = 0 .. boxNodeCount - 1
    BY DEF TaskInv, WordInv, TypeOK
  <2>2. IsFiniteSet(DOMAIN laneTask)
    BY <2>1, FS_Interval
  <2>3. Held \subseteq Ref /\ leaf \subseteq Ref
    BY <1>1, <1>3, NodeFinite DEF Held, NestInv, Large
  <2> QED BY <1>1, <1>3, <2>2, <2>3, NodeFinite, FS_Subset, TreeAssumption
<1>6. /\ Cardinality(Pending) \in Nat /\ Cardinality(Held) \in Nat
      /\ Cardinality(leaf) \in Nat
  BY <1>5, FS_CardinalityType
<1> HIDE DEF new
<1>7. Cardinality(Pending') = Cardinality(Pending) - 1 + k
  <2>1. Cardinality(new) = k /\ IsFiniteSet(new)
    <3>1. new = boxNodeCount .. boxNodeCount + k - 1 /\ boxNodeCount \in Nat
      BY DEF TaskInv, WordInv, TypeOK, new, NewAddrs
    <3>2. k \in Nat
      BY <1>4
    <3> HIDE DEF k
    <3> DEFINE last == boxNodeCount + k - 1
    <3>3. last \in Int /\ (boxNodeCount > last => k = 0) /\ last - boxNodeCount + 1 = k
      BY <3>1, <3>2
    <3>4. new = boxNodeCount .. last /\ boxNodeCount \in Int
      BY <3>1
    <3> HIDE DEF last
    <3>5. /\ IsFiniteSet(boxNodeCount .. last)
          /\ Cardinality(boxNodeCount .. last)
               = IF boxNodeCount > last THEN 0 ELSE last - boxNodeCount + 1
      BY ONLY <3>3, <3>4, FS_Interval
    <3> QED BY ONLY <3>3, <3>4, <3>5
  <2>2. /\ IsFiniteSet(Pending \ {s})
        /\ Cardinality(Pending \ {s}) = Cardinality(Pending) - 1
    BY <1>1, <1>5, FS_RemoveElement
  <2>3. Cardinality((Pending \ {s}) \cap new) = 0
    <3>1. (Pending \ {s}) \cap new = {}
      BY <1>1
    <3> QED BY <3>1, FS_EmptySet
  <2>4. Cardinality((Pending \ {s}) \cup new)
          = Cardinality(Pending \ {s}) + Cardinality(new) - Cardinality((Pending \ {s}) \cap new)
    BY <2>1, <2>2, FS_Union
  <2> QED BY <1>1, <1>4, <1>6, <2>1, <2>2, <2>3, <2>4
<1>8. Held' = Held \ leaf /\ leaf \subseteq Held
  <2>1. ASSUME NEW a \in Pending \ {s} PROVE laneTask[a].x \cap n = {}
    <3>1. a \in DOMAIN laneTask /\ laneTask[a].x # n
      BY <1>1 DEF NestInv
    <3>2. laneTask[a].x \cap n = {} \/ laneTask[a].x \subseteq n
      BY <1>1 DEF NestInv
    <3>3. laneTask[a].x \cap n = {} \/ n \subseteq laneTask[a].x
      BY <1>1, <3>1 DEF NestInv
    <3> QED BY <3>1, <3>2, <3>3
  <2>2. \A r : r \in Held <=> \E a \in Pending : r \in laneTask[a].x
    BY DEF Held
  <2>3. \A r : r \in Held' <=> \E a \in Pending' : r \in laneTask'[a].x
    BY DEF Held
  <2>4. /\ \A r : r \in n <=> \E c \in F : r \in c
        /\ \A r : r \in leaf <=> \E c \in F \ Internal : r \in c
    BY <1>3
  <2> HIDE DEF n, leaf
  <2>5. \A r : (\E a \in new : r \in child[a]) <=> \E c \in F \cap Internal : r \in c
    BY <1>2
  <2>6. \A r : r \in Held' <=> \/ \E a \in Pending \ {s} : r \in laneTask[a].x
                               \/ \E c \in F \cap Internal : r \in c
    BY <1>1, <2>3, <2>5
  <2>7. \A r : r \in Held <=> r \in n \/ \E a \in Pending \ {s} : r \in laneTask[a].x
    BY <1>1, <2>2 DEF n
  <2>8. \A r : r \in leaf => r \in n /\ ~\E c \in F \cap Internal : r \in c
    BY <1>3, <2>4
  <2>9. \A r : r \in n /\ r \notin leaf => \E c \in F \cap Internal : r \in c
    BY <2>4
  <2>10. \A c \in F : \A r \in c : r \in n
    BY <2>4
  <2> QED BY <2>1, <2>6, <2>7, <2>8, <2>9, <2>10
<1>9. Cardinality(Held') = Cardinality(Held) - Cardinality(leaf)
  <2>1. Held \cap leaf = leaf
    BY <1>8
  <2>2. Cardinality(Held \ leaf) = Cardinality(Held) - Cardinality(Held \cap leaf)
    BY <1>5, FS_Difference
  <2> QED BY <1>8, <2>1, <2>2
<1> HIDE DEF leaf
<1> QED BY <1>5, <1>7, <1>8, <1>9 DEF leaf

LEMMA BudgetClaim ==
  ASSUME TaskInv, NestInv, BudgetInv, NEW s \in Subwarp, Claim(s)
  PROVE  BudgetInv'
<1>a. PICK F \in Fronts[laneTask[s].x] :
        \E child \in Bijection(NewAddrs(F), F \cap Internal) : Opens(s, F, child)
  BY ClaimEffect
<1>b. PICK child \in Bijection(NewAddrs(F), F \cap Internal) : Opens(s, F, child)
  BY <1>a
<1> DEFINE n == laneTask[s].x
           new == NewAddrs(F)
           leaf == UNION (F \ Internal)
           k == Cardinality(F \cap Internal)
           Done == DOMAIN laneTask \ Pending
<1>1. /\ s \in Pending /\ s \in DOMAIN laneTask
      /\ new \cap DOMAIN laneTask = {}
      /\ DOMAIN laneTask' = DOMAIN laneTask \cup new
      /\ \A a \in DOMAIN laneTask : laneTask'[a] = laneTask[a]
      /\ \A a \in new : laneTask'[a].x = child[a] /\ child[a] \in F \cap Internal
      /\ Pending' = (Pending \ {s}) \cup new
      /\ Pending \subseteq DOMAIN laneTask
  BY <1>b DEF Opens, Pending
<1>2. {child[a] : a \in new} = F \cap Internal
  BY DEF Bijection, Surjection, Injection
<1>3. /\ n \in Node /\ F \subseteq Node /\ UNION F = n /\ n \subseteq Ref
      /\ \A c, d \in F : c # d => c \cap d = {}
  BY <1>1, FrontProperties, NodeFinite DEF NestInv, Large
<1>4. /\ k \in Nat
      /\ F \cap Internal = {} => leaf = n
      /\ F \cap Internal # {} => /\ k \in 1 .. BranchingFactor
                                 /\ Cardinality(leaf) >= BranchingFactor - k
                                 /\ Cardinality(n) > BranchingFactor
  BY <1>3, FrontBudget
<1>5. /\ IsFiniteSet(DOMAIN laneTask) /\ IsFiniteSet(Pending) /\ IsFiniteSet(Done)
      /\ IsFiniteSet(F \cap Internal) /\ IsFiniteSet(Held) /\ IsFiniteSet(leaf)
  <2>1. 0 \in Int /\ boxNodeCount - 1 \in Int /\ DOMAIN laneTask = 0 .. boxNodeCount - 1
    BY DEF TaskInv, WordInv, TypeOK
  <2>2. IsFiniteSet(DOMAIN laneTask)
    BY <2>1, FS_Interval
  <2>3. Held \subseteq Ref /\ leaf \subseteq Ref
    BY <1>1, <1>3, NodeFinite DEF Held, NestInv, Large
  <2> QED BY <1>1, <1>3, <2>2, <2>3, NodeFinite, FS_Subset, TreeAssumption
<1>6. /\ Cardinality(Pending) \in Nat /\ Cardinality(Done) \in Nat /\ Cardinality(Held) \in Nat
      /\ Cardinality(leaf) \in Nat /\ referenceCount \in Nat
  BY <1>5, TreeAssumption, FS_CardinalityType DEF referenceCount
<1>7. Cardinality(n) <= referenceCount
  BY <1>3, TreeAssumption, FS_Subset DEF referenceCount
<1> HIDE DEF new
<1>8. CASE referenceCount <= BranchingFactor
  <2>1. F \cap Internal = {}
    <3>1. Cardinality(n) \in Nat
      BY <1>3, NodeFinite, FS_CardinalityType
    <3> QED BY <1>4, <1>6, <1>7, <1>8, <3>1, SizeAssumption
  <2>2. new = {}
    BY <1>2, <2>1
  <2> QED BY <1>1, <1>6, <1>8, <2>2, SizeAssumption DEF BudgetInv, referenceCount
<1>9. CASE referenceCount > BranchingFactor
  <2>1. \A a \in Pending' : Cardinality(laneTask'[a].x) >= MinTask
    <3>1. \A a \in Pending : Cardinality(laneTask[a].x) >= MinTask
      BY <1>9 DEF BudgetInv
    <3>2. \A c \in F \cap Internal : Cardinality(c) >= MinTask
      <4> SUFFICES ASSUME NEW c \in F \cap Internal PROVE Cardinality(c) >= MinTask
        OBVIOUS
      <4>1. Cardinality(c) \in Nat
        BY <1>3, NodeFinite, FS_CardinalityType
      <4> QED BY <4>1, SizeAssumption DEF Internal, FatLeaf, MinTask
    <3> HIDE DEF MinTask
    <3> QED BY <1>1, <3>1, <3>2
  <2>2. (DOMAIN laneTask \ Pending)' = Done \cup {s} /\ s \notin Done
    BY <1>1
  <2>3. Cardinality(DOMAIN laneTask \ Pending)' = Cardinality(Done) + 1
    BY <1>5, <2>2, FS_AddElement
  <2>4. Cardinality(Pending') = Cardinality(Pending) - 1 + k
    BY <1>b, ClaimCounts
  <2>5. Cardinality(Held') = Cardinality(Held) - Cardinality(leaf)
    BY <1>b, ClaimCounts
  <2>7. k = 0 => Cardinality(leaf) >= MinTask
    <3>1. k = 0 => F \cap Internal = {}
      BY <1>5, FS_EmptySet
    <3>2. Cardinality(n) >= MinTask
      BY <1>1, <1>9 DEF BudgetInv
    <3> QED BY <1>4, <3>1, <3>2
  <2>8. k \in 0 .. BranchingFactor /\ (k > 0 => Cardinality(leaf) >= BranchingFactor - k)
    <3>1. F \cap Internal = {} => k = 0
      BY FS_EmptySet
    <3> QED BY <1>4, <3>1, SizeAssumption
  <2>9. (MinTask * (BranchingFactor - 1)) * Cardinality(Done) + BranchingFactor * Cardinality(Held)
          + MinTask <= BranchingFactor * referenceCount + MinTask * Cardinality(Pending)
    BY <1>9 DEF BudgetInv
  <2>10. /\ BranchingFactor \in Nat /\ MinTask \in Nat \ {0} /\ BranchingFactor >= MinTask
         /\ BranchingFactor > 1
    BY SizeAssumption DEF MinTask
  <2> HIDE DEF MinTask, k, leaf, Done, n
  <2>11. (MinTask * (BranchingFactor - 1)) * (Cardinality(Done) + 1)
           + BranchingFactor * (Cardinality(Held) - Cardinality(leaf)) + MinTask
           <= BranchingFactor * referenceCount + MinTask * (Cardinality(Pending) - 1 + k)
    BY ONLY <1>6, <2>7, <2>8, <2>9, <2>10, BudgetStep
  <2>12. (MinTask * (BranchingFactor - 1)) * Cardinality(DOMAIN laneTask' \ Pending')
           + BranchingFactor * Cardinality(Held') + MinTask
           <= BranchingFactor * referenceCount + MinTask * Cardinality(Pending')
    BY ONLY <2>3, <2>4, <2>5, <2>11
  <2> HIDE DEF Held, Pending, referenceCount
  <2> QED BY ONLY <1>6, <1>9, <2>1, <2>10, <2>12 DEF BudgetInv
<1> QED BY <1>6, <1>8, <1>9, SizeAssumption

LEMMA BudgetInit == Init => BudgetInv
<1> SUFFICES ASSUME Init PROVE BudgetInv
  OBVIOUS
<1>1. DOMAIN laneTask = {0} /\ Pending = {0} /\ Held = Ref
  BY DEF Init, Pending, Opened, RootTask, Held
<1>2. laneTask[0].x = Ref /\ Cardinality(Ref) = referenceCount /\ referenceCount \in Nat
  BY TreeAssumption, FS_CardinalityType DEF Init, RootTask, referenceCount
<1>3. Cardinality(DOMAIN laneTask \ Pending) = 0 /\ Cardinality(Pending) = 1
  BY <1>1, FS_EmptySet, FS_Singleton
<1>4. ASSUME referenceCount > BranchingFactor
      PROVE  \A a \in Pending : Cardinality(laneTask[a].x) >= MinTask
  BY <1>1, <1>2, <1>4, SizeAssumption DEF MinTask
<1>5. (MinTask * (BranchingFactor - 1)) * 0 + BranchingFactor * referenceCount + MinTask
        <= BranchingFactor * referenceCount + MinTask * 1
  BY <1>2, SizeAssumption DEF MinTask
<1> HIDE DEF Held, Pending, referenceCount, MinTask
<1> QED BY <1>1, <1>2, <1>3, <1>4, <1>5 DEF BudgetInv

LEMMA BudgetKept == TaskInv /\ NestInv /\ BudgetInv /\ [Next]_vars => BudgetInv'
<1> SUFFICES ASSUME TaskInv, NestInv, BudgetInv, [Next]_vars PROVE BudgetInv'
  OBVIOUS
<1>1. CASE \A s \in Subwarp : ~Claim(s)
  <2>1. laneTask' = laneTask /\ Pending' = Pending
    BY <1>1, PendingFrame
  <2>2. Held' = Held
    BY <2>1 DEF Held
  <2> QED BY <2>1, <2>2 DEF BudgetInv
<1> QED BY <1>1, BudgetClaim

(* The arithmetic of the end: L and R are the two rounded quotients.       *)
LEMMA BudgetEnd ==
  ASSUME NEW B \in Nat, NEW e \in Nat \ {0}, B > 1,
         NEW N \in Nat, NEW d \in Nat, NEW h \in Nat, NEW p \in Nat, NEW L \in Nat, NEW R \in Nat,
         (e * (B - 1)) * d + B * h + e <= B * N + e * p,
         e * p <= h, N <= L * e, L <= R * (B - 1)
  PROVE  d + p <= L + 1 + R
<1>1. B * (e * p) <= B * h /\ B * N <= B * (L * e)
  OBVIOUS
<1>2. B * (e * p) - e * p = (e * (B - 1)) * p /\ B * (L * e) = e * (B * L)
  OBVIOUS
<1>3. (e * (B - 1)) * (d + p) = (e * (B - 1)) * d + (e * (B - 1)) * p
  OBVIOUS
<1> DEFINE a == (e * (B - 1)) * d
           b == (e * (B - 1)) * p
           c == (e * (B - 1)) * (d + p)
           bh == B * h
           bn == B * N
           ep == e * p
           bep == B * (e * p)
           bl == e * (B * L)
<1>4. a \in Int /\ b \in Int /\ c \in Int /\ bh \in Int /\ bn \in Int /\ ep \in Int /\ bep \in Int
      /\ bl \in Int
  OBVIOUS
<1>5. c = a + b /\ a + bh + e <= bn + ep /\ bep <= bh /\ bn <= bl /\ bep - ep = b
  BY <1>1, <1>2, <1>3
<1> HIDE DEF a, b, c, bh, bn, ep, bep, bl
<1>6. c + e <= bl
  BY <1>4, <1>5
<1>7. e * ((B - 1) * (d + p) + 1) <= e * (B * L)
  <2>1. c = e * ((B - 1) * (d + p))
    BY DEF c
  <2> QED BY <1>6, <2>1 DEF bl
<1>8. (B - 1) * (d + p) + 1 <= B * L
  <2> DEFINE u == (B - 1) * (d + p) + 1
             v == B * L
  <2>1. u \in Int /\ v \in Int /\ e * u <= e * v
    BY <1>7
  <2> HIDE DEF u, v
  <2>2. u <= v
    BY <2>1
  <2> QED BY <2>2 DEF u, v
<1>9. (B - 1) * (d + p - L) < (B - 1) * R
  <2>1. (B - 1) * (d + p - L) = (B - 1) * (d + p) - (B - 1) * L /\ B * L = (B - 1) * L + L
    OBVIOUS
  <2>2. R * (B - 1) = (B - 1) * R
    OBVIOUS
  <2> DEFINE u == (B - 1) * (d + p)
             v == (B - 1) * L
             w == (B - 1) * R
             x == (B - 1) * (d + p - L)
  <2>3. u \in Int /\ v \in Int /\ w \in Int /\ x \in Int
    OBVIOUS
  <2>4. x = u - v /\ u + 1 <= v + L /\ L <= w
    BY <1>8, <2>1, <2>2
  <2> HIDE DEF u, v, w, x
  <2>5. x < w
    BY <2>3, <2>4
  <2> QED BY <2>5 DEF w, x
<1>10. d + p - L < R
  <2> DEFINE y == d + p - L
  <2>1. y \in Int /\ (B - 1) * y < (B - 1) * R
    BY <1>9
  <2> HIDE DEF y
  <2>2. y < R
    BY <2>1
  <2> QED BY <2>2 DEF y
<1> QED BY <1>10

(* The allocations fit the array getMaxBoxNodeCount has computed before    *)
(* the tree was known, for every tree, fan-out and fat leaf size.          *)
THEOREM BoxNodesAlwaysFit ==
  ASSUME MasksExact
  PROVE  Spec => []BoxNodesFit
<1>1. TaskInv /\ NestInv /\ BudgetInv => BoxNodesFit
  <2> SUFFICES ASSUME TaskInv, NestInv, BudgetInv PROVE boxNodeCount <= maxBoxNodeCount
    BY DEF BoxNodesFit
  <2>1. DOMAIN laneTask = 0 .. boxNodeCount - 1 /\ boxNodeCount \in Nat \ {0}
    BY DEF TaskInv, WordInv, TypeOK
  <2>2. referenceCount \in Nat
    BY TreeAssumption, FS_CardinalityType DEF referenceCount
  <2>3. CASE referenceCount <= BranchingFactor
    <3>1. boxNodeCount - 1 \in {0}
      <4>1. boxNodeCount - 1 \in 0 .. boxNodeCount - 1
        BY <2>1
      <4>2. 0 .. boxNodeCount - 1 = {0}
        BY <2>1, <2>3 DEF BudgetInv
      <4> QED BY ONLY <4>1, <4>2
    <3> QED BY <2>1, <2>3, <3>1 DEF maxBoxNodeCount
  <2>4. CASE referenceCount > BranchingFactor
    <3> DEFINE d == Cardinality(DOMAIN laneTask \ Pending)
               p == Cardinality(Pending)
               h == Cardinality(Held)
               L == DivideRoundUp(referenceCount, MinTask)
               R == DivideRoundUp(L, BranchingFactor - 1)
    <3>1. /\ IsFiniteSet(DOMAIN laneTask) /\ IsFiniteSet(Pending) /\ IsFiniteSet(Held)
          /\ Cardinality(DOMAIN laneTask) = boxNodeCount
      <4>1. IsFiniteSet(DOMAIN laneTask) /\ Cardinality(DOMAIN laneTask) = boxNodeCount
        BY <2>1, FS_Interval
      <4>2. Pending \subseteq DOMAIN laneTask
        BY DEF Pending
      <4>3. Held \subseteq Ref
        BY <4>2, NodeFinite DEF Held, NestInv, Large
      <4> QED BY <4>1, <4>2, <4>3, FS_Subset, TreeAssumption
    <3>2. d + p = boxNodeCount /\ d \in Nat /\ p \in Nat /\ h \in Nat
      <4>1. d = boxNodeCount - Cardinality(DOMAIN laneTask \cap Pending)
        BY <3>1, FS_Difference
      <4>2. Cardinality(DOMAIN laneTask \cap Pending) = p
        <5>1. DOMAIN laneTask \cap Pending = Pending
          BY DEF Pending
        <5> QED BY <5>1
      <4>3. d \in Nat /\ p \in Nat /\ h \in Nat
        BY <3>1, FS_Difference, FS_CardinalityType
      <4> HIDE DEF d, p, h
      <4> QED BY ONLY <2>1, <4>1, <4>2, <4>3
    <3>3. MinTask * p <= h
      <4> DEFINE f == [a \in Pending |-> laneTask[a].x]
      <4>1. f \in [Pending -> SUBSET Held]
        BY DEF Held
      <4>2. \A a \in Pending : Cardinality(f[a]) >= MinTask
        BY <2>4 DEF BudgetInv
      <4>3. ASSUME NEW a \in Pending, NEW b \in Pending, a # b
            PROVE  f[a] \cap f[b] = {}
        <5>1. a \in DOMAIN laneTask /\ b \in DOMAIN laneTask
          BY DEF Pending
        <5>2. laneTask[a].x \cap laneTask[b].x = {} \/ laneTask[a].x \subseteq laneTask[b].x
          BY <4>3, <5>1 DEF NestInv
        <5>3. laneTask[a].x \cap laneTask[b].x = {} \/ laneTask[b].x \subseteq laneTask[a].x
          BY <4>3, <5>1 DEF NestInv
        <5>4. laneTask[a].x # laneTask[b].x
          BY <4>3, <5>1 DEF NestInv
        <5> QED BY <5>2, <5>3, <5>4
      <4>4. MinTask \in Nat
        BY SizeAssumption DEF MinTask
      <4> HIDE DEF f, MinTask
      <4> QED BY <3>1, <4>1, <4>2, <4>3, <4>4, DisjointSetsCount
    <3>4. /\ BranchingFactor \in Nat /\ BranchingFactor > 1 /\ BranchingFactor - 1 \in Nat \ {0}
          /\ MinTask \in Nat \ {0}
      BY SizeAssumption DEF MinTask
    <3>5. L \in Nat /\ referenceCount <= L * MinTask
      BY <2>2, <3>4, RoundsUp
    <3>6. R \in Nat /\ L <= R * (BranchingFactor - 1)
      BY <3>4, <3>5, RoundsUp
    <3>7. (MinTask * (BranchingFactor - 1)) * d + BranchingFactor * h + MinTask
            <= BranchingFactor * referenceCount + MinTask * p
      BY <2>4 DEF BudgetInv
    <3>8. maxBoxNodeCount = L + 1 + R
      BY <2>2, <2>4, <3>4 DEF maxBoxNodeCount, MinTask
    <3> HIDE DEF d, p, h, L, R, MinTask
    <3>9. d + p <= L + 1 + R
      BY ONLY <2>2, <3>2, <3>3, <3>4, <3>5, <3>6, <3>7, BudgetEnd
    <3> QED BY <3>2, <3>8, <3>9
  <2> QED BY <2>2, <2>3, <2>4, SizeAssumption
<1> QED BY TaskInvInit, TaskInvStep, NestInit, NestStep, BudgetInit, BudgetKept, <1>1, PTL DEF Spec

-----------------------------------------------------------------------------
(* Whoever leaves the loop has built the node of its slot, if there is one:*)
(* what the sizes computed by the host are worth at the exit test.         *)
THEOREM ExitsAreSafe ==
  ASSUME MasksExact
  PROVE  Spec => []NoTaskAbandoned
<1>1. Init => ExitInv
  BY DEF Init, ExitInv
<1>2. Init => CountExact /\ ReferencesPartitioned
  BY PartitionInit, FS_EmptySet DEF Init, CountExact, EmittedRefs
<1>3. TaskInv /\ ReferencesPartitioned /\ ExitInv =>
        (BoxNodesFit /\ QueueFits => NoTaskAbandoned)
  <2> SUFFICES ASSUME TaskInv, ReferencesPartitioned, ExitInv, BoxNodesFit, QueueFits,
                      NEW s \in Subwarp, pc[s] = "done", s \in DOMAIN laneTask
               PROVE  s \in DOMAIN boxNodes
    BY DEF NoTaskAbandoned
  <2>1. s < boxNodeCount /\ s \in Int /\ boxNodeCount \in Int
    BY DEF TaskInv, WordInv, TypeOK
  <2>2. s < maxBoxNodeCount /\ s < referenceCount
    BY <2>1, SizesInNat, TreeAssumption, FS_CardinalityType
       DEF BoxNodesFit, QueueFits, referenceCount
  <2>3. CASE EmittedRefs = Ref
    <3>1. PICK r \in Ref : r \in laneTask[s].x
      BY NodeFinite DEF TaskInv, WordInv, TypeOK, Task
    <3>2. ~InQueue(r, s)
      BY <2>3, <3>1 DEF ReferencesPartitioned, HeldOnce
    <3> QED BY <3>1, <3>2 DEF InQueue, Pending, Opened
  <2> QED BY <2>2, <2>3 DEF ExitInv
<1> QED BY TaskInvInit, TaskInvStep, PartitionStep, CountStep, ExitStep, QueueNeverOverruns,
           BoxNodesAlwaysFit, <1>1, <1>2, <1>3, PTL DEF Spec

(* When the kernel has ended, the box nodes are a tree over exactly the    *)
(* references.                                                             *)
THEOREM WideTreeBuilt ==
  ASSUME MasksExact
  PROVE  Spec => []WideTree
<1>1. Init => WideInv
  <2> SUFFICES ASSUME Init PROVE WideInv
    OBVIOUS
  <2> QED BY DEF Init, WideInv
<1>2. TaskInv /\ WideInv /\ NoTaskAbandoned /\ BoxNodesFit => WideTree
  <2> SUFFICES ASSUME TaskInv, WideInv, NoTaskAbandoned, BoxNodesFit, Finished
               PROVE  /\ DOMAIN boxNodes = 0 .. boxNodeCount - 1
                      /\ boxNodes[0].parentAddr = InvalidValue
                      /\ \A a \in DOMAIN boxNodes \ {0} :
                           {p \in DOMAIN boxNodes : a \in boxNodes[p].children} = {boxNodes[a].parentAddr}
                      /\ \A a \in DOMAIN boxNodes :
                           laneTask[a].x = boxNodes[a].leaves
                                             \cup UNION {laneTask[c].x : c \in boxNodes[a].children}
    BY DEF WideTree
  <2>1. DOMAIN laneTask = 0 .. boxNodeCount - 1 /\ boxNodeCount \in Nat \ {0}
    BY DEF TaskInv, WordInv, TypeOK
  <2>2. DOMAIN boxNodes \subseteq DOMAIN laneTask
    BY DEF TaskInv, WordInv, DoneInv
  <2>3. ASSUME NEW a \in DOMAIN laneTask PROVE a \in DOMAIN boxNodes
    <3>1. a \in 0 .. maxBoxNodeCount - 1
      BY <2>1, SizesInNat DEF BoxNodesFit
    <3>2. a \in Subwarp /\ pc[a] = "done"
      BY <3>1, LaunchLarge DEF Finished
    <3> QED BY <2>3, <3>2 DEF NoTaskAbandoned
  <2>4. DOMAIN boxNodes = DOMAIN laneTask
    BY <2>2, <2>3
  <2>5. Opened = DOMAIN boxNodes
    BY DEF Opened, Finished
  <2>6. ASSUME NEW a \in DOMAIN boxNodes \ {0}
        PROVE  {p \in DOMAIN boxNodes : a \in boxNodes[p].children} = {boxNodes[a].parentAddr}
    <3>1. boxNodes[a].parentAddr = laneTask[a].z /\ laneTask[a].z \in DOMAIN boxNodes
      BY <2>2, <2>5, <2>6 DEF WideInv
    <3>2. \A p \in DOMAIN boxNodes : a \in boxNodes[p].children <=> p = laneTask[a].z
      BY <2>2, <2>6 DEF WideInv, Kids
    <3> QED BY <3>1, <3>2
  <2>7. ASSUME NEW a \in DOMAIN boxNodes
        PROVE  laneTask[a].x = boxNodes[a].leaves
                                 \cup UNION {laneTask[c].x : c \in boxNodes[a].children}
    BY <2>7 DEF WideInv, Divided
  <2>8. boxNodes[0].parentAddr = InvalidValue
    BY <2>1, <2>4 DEF WideInv
  <2> QED BY <2>1, <2>4, <2>6, <2>7, <2>8
<1> QED BY TaskInvInit, TaskInvStep, WideStep, BoxNodesAlwaysFit, ExitsAreSafe, <1>1, <1>2, PTL DEF Spec
-----------------------------------------------------------------------------
(* The ranges have a box node each.                                        *)
RangeInv ==
  /\ \A r \in ranges : /\ r \in [rangeAddr : Nat, nodeAddr : Nat, rangeSize : Nat, refs : SUBSET Ref]
                       /\ r.nodeAddr \in DOMAIN boxNodes
  /\ \A q, r \in ranges : q.nodeAddr = r.nodeAddr => q = r

(* The slots whose tasks the block has moved, and those it has not stored  *)
(* to.                                                                     *)
Moved(a) ==
  \/ a < round * CompactWarps * WarpSize
  \/ \E w \in Warp, l \in Lane : stage[w] = "sync" /\ a = taskIndex(w, l)

Kept == {r \in ranges : Moved(r.nodeAddr)}

Ahead(a) ==
  \/ a >= (round + 1) * CompactWarps * WarpSize
  \/ a >= round * CompactWarps * WarpSize /\ \E w \in Warp : stage[w] = "load"

(* The first n slots hold each of the ranges once.                         *)
Lists(n, S) ==
  /\ \A i \in 0 .. n - 1 : slots[i] \in S
  /\ \A i, j \in 0 .. n - 1 : slots[i] = slots[j] => i = j
  /\ \A r \in S : \E i \in 0 .. n - 1 : slots[i] = r

CompactInv == kernel = "compact" =>
  /\ DOMAIN slots = 0 .. boxNodeCount - 1
  /\ Lists(taskCount, Kept)
  /\ \A a \in DOMAIN slots : Ahead(a) => slots[a] = SlotLeft(a)
  /\ \A w \in Warp, l \in Lane : stage[w] = "store" =>
       held[w][l] = IF taskIndex(w, l) < boxNodeCount THEN SlotLeft(taskIndex(w, l))
                    ELSE InvalidValue
  /\ \A v, w \in Warp : stage[v] = "load" => stage[w] # "sync"

PackedInv == kernel = "pack" =>
  /\ Lists(taskCount, ranges)
  /\ \A i \in DOMAIN packed : /\ i \in 0 .. taskCount - 1
                              /\ packed[i].task = slots[i]
                              /\ packed[i].nodes \subseteq 0 .. primNodeCount - 1
  /\ \A i, j \in DOMAIN packed : i # j => packed[i].nodes \cap packed[j].nodes = {}

BackTyped ==
  /\ kernel \in {"collapse", "compact", "pack"}
  /\ kernel # "collapse" => Finished
  /\ kernel = "collapse" => round = 0 /\ taskCount = 0 /\ \A w \in Warp : stage[w] = "load"
  /\ kernel # "pack" => DOMAIN packed = {}
  /\ round \in Nat /\ taskCount \in Nat /\ primNodeCount \in Nat
  /\ stage \in [Warp -> {"load", "store", "sync"}]
  /\ DOMAIN held = Warp /\ \A w \in Warp : DOMAIN held[w] = Lane

LEMMA BackEndQuiet == BackEnd => UNCHANGED vars
BY DEF BackEnd, LaunchCompact, LoadSlots, StoreTasks, NextRound, LaunchPack, Pack

LEMMA BuildIsNext == [BuildNext]_<<vars, packVars>> => [Next]_vars
BY BackEndQuiet DEF BuildNext, StartBlock, CollapseStep, Built, Next

(* With the kernels behind it, the Collapse kernel does what it did.       *)
THEOREM BuildCollapses == BuildSpec => Spec
<1>1. PackInit => Init
  BY DEF PackInit
<1> QED BY <1>1, BuildIsNext, PTL DEF BuildSpec, Spec

LEMMA RangeStep == TaskInv /\ RangeInv /\ [Next]_vars => RangeInv'
<1> SUFFICES ASSUME TaskInv, RangeInv, [Next]_vars PROVE RangeInv'
  OBVIOUS
<1>1. ASSUME NEW s \in Subwarp, Emit(s) PROVE RangeInv'
  <2>1. task[s].y = s /\ s \in Nat /\ s \notin DOMAIN boxNodes
    <3>1. Valid(task[s])
      BY <1>1 DEF TaskInv, WordInv, PublishInv, Emit
    <3>2. s \in DOMAIN laneTask /\ task[s].y = s
      BY <3>1, ValidTask
    <3>3. s \notin DOMAIN boxNodes
      BY <1>1 DEF TaskInv, WordInv, DoneInv, Emit
    <3> QED BY <3>2, <3>3 DEF TaskInv, WordInv, TypeOK
  <2>2. DOMAIN boxNodes' = DOMAIN boxNodes \cup {s}
    BY <1>1, <2>1 DEF Emit
  <2>3. CASE Leaves(s) = {}
    <3>1. ranges' = ranges
      BY <1>1, <2>3, EmitOwn
    <3> QED BY <2>2, <3>1 DEF RangeInv
  <2>4. CASE Leaves(s) # {}
    <3> DEFINE new == OwnRange(s)
    <3>1. ranges' = ranges \cup {new}
      BY <1>1, <2>4, EmitOwn
    <3>2. emittedCount \in Nat /\ Cardinality(Leaves(s)) \in Nat /\ Leaves(s) \in SUBSET Ref
      BY LeavesFinite, FS_CardinalityType DEF TaskInv, WordInv, TypeOK
    <3>3. new \in [rangeAddr : Nat, nodeAddr : Nat, rangeSize : Nat, refs : SUBSET Ref]
          /\ new.nodeAddr = s
      BY <2>1, <3>2 DEF OwnRange
    <3> HIDE DEF new
    <3> QED BY <2>1, <2>2, <3>1, <3>3 DEF RangeInv
  <2> QED BY <2>3, <2>4
<1>2. ASSUME UNCHANGED <<boxNodes, ranges>> PROVE RangeInv'
  BY <1>2 DEF RangeInv
<1> QED BY <1>1, <1>2 DEF Next, Step, Terminated, vars, Dispatch, Poll, AllEmitted, LoadTask, Load,
             Retry, Claim, Publish

(* The kernels behind Collapse run when it has ended, and change none of   *)
(* what it left.                                                           *)
LEMMA CollapseOver == Finished /\ BuildNext => UNCHANGED vars
<1>1. Finished => ~Dispatch
  <2> SUFFICES ASSUME Finished, Dispatch PROVE FALSE
    OBVIOUS
  <2> QED BY SizesInNat DEF Finished, Dispatch
<1>2. \A s \in Subwarp : Finished => ~Step(s)
  BY DEF Finished, Step, Poll, LoadTask, Load, Retry, Claim, Publish, Emit
<1> QED BY <1>1, <1>2, BackEndQuiet DEF BuildNext, StartBlock, CollapseStep, Built

-----------------------------------------------------------------------------
(* The slots of a round are those of its threads.                          *)
LEMMA IndexFacts ==
  ASSUME round \in Nat
  PROVE  /\ \A w \in Warp, l \in Lane :
              /\ taskIndex(w, l) \in Nat
              /\ round * CompactWarps * WarpSize <= taskIndex(w, l)
              /\ taskIndex(w, l) < (round + 1) * CompactWarps * WarpSize
         /\ \A v, w \in Warp : \A k, l \in Lane :
              taskIndex(v, k) = taskIndex(w, l) => v = w /\ k = l
         /\ \A a \in Nat : /\ round * CompactWarps * WarpSize <= a
                           /\ a < (round + 1) * CompactWarps * WarpSize
                           => \E w \in Warp, l \in Lane : a = taskIndex(w, l)
<1> DEFINE R == round
           C == CompactWarps
           W == WarpSize
<1>1. R \in Nat /\ C \in Nat \ {0} /\ W \in Nat \ {0}
  BY PackAssumption
<1>2. /\ Warp = 0 .. C - 1 /\ Lane = 0 .. W - 1
      /\ \A w, l : taskIndex(w, l) = (R * C + w) * W + l
  BY DEF Warp, Lane, taskIndex
<1> HIDE DEF R, C, W
<1>3. ASSUME NEW x \in Nat, NEW y \in Nat, x < y PROVE x * W + W <= y * W
  <2>1. x + 1 <= y /\ y - (x + 1) \in Nat
    BY <1>3
  <2>2. y * W = (x + 1) * W + (y - (x + 1)) * W /\ (y - (x + 1)) * W \in Nat
    BY <1>1, <2>1
  <2>3. (x + 1) * W = x * W + W /\ x * W \in Nat
    BY <1>1
  <2> QED BY <1>1, <2>2, <2>3
<1>4. /\ R * C \in Nat /\ (R + 1) * C = R * C + C
      /\ \A x \in Nat : x * W \in Nat
  BY <1>1
<1> DEFINE b == R * C
           e == (R + 1) * C
<1>5. b \in Nat /\ e = b + C
  BY <1>4
<1> HIDE DEF b, e
<1>6. ASSUME NEW w \in Warp, NEW l \in Lane
      PROVE  (b + w) * W + l \in Nat /\ b * W <= (b + w) * W + l /\ (b + w) * W + l < e * W
  <2>1. b + w \in Nat /\ b <= b + w /\ b + w < e /\ e \in Nat /\ l \in Nat /\ l < W
    BY <1>1, <1>2, <1>5
  <2>2. (b + w) * W + W <= e * W /\ (b + w) * W \in Nat /\ b * W \in Nat /\ e * W \in Nat
    BY <1>3, <1>4, <1>5, <2>1
  <2>3. b * W <= (b + w) * W
    BY <1>1, <1>3, <1>5, <2>1, <2>2
  <2> QED BY <1>1, <2>1, <2>2, <2>3
<1>7. ASSUME NEW v \in Warp, NEW w \in Warp, NEW k \in Lane, NEW l \in Lane,
             (b + v) * W + k = (b + w) * W + l
      PROVE  v = w /\ k = l
  <2>1. b + v \in Nat /\ b + w \in Nat /\ v \in Nat /\ w \in Nat
    BY <1>2, <1>5
  <2>2. (b + v) * W \in Nat /\ (b + w) * W \in Nat
    BY <1>4, <2>1
  <2>3. k \in Nat /\ l \in Nat /\ k < W /\ l < W
    BY <1>1, <1>2
  <2>4. ~(b + v < b + w)
    BY <1>1, <1>3, <1>7, <2>1, <2>2, <2>3
  <2>5. ~(b + w < b + v)
    BY <1>1, <1>3, <1>7, <2>1, <2>2, <2>3
  <2>6. v = w
    BY <1>5, <2>1, <2>4, <2>5
  <2> QED BY <1>7, <2>2, <2>3, <2>6
<1>8. ASSUME NEW a \in Nat, b * W <= a, a < e * W
      PROVE  \E w \in Warp, l \in Lane : a = (b + w) * W + l
  <2> DEFINE q == a \div W
             l == a % W
  <2>1. q \in Nat /\ l \in 0 .. W - 1 /\ a = q * W + l
    BY <1>1
  <2> HIDE DEF q, l
  <2>2. q * W \in Nat /\ b * W \in Nat /\ e * W \in Nat /\ e \in Nat
    BY <1>1, <1>4, <1>5, <2>1
  <2>3. ~(q < b)
    BY <1>1, <1>3, <1>5, <1>8, <2>1, <2>2
  <2>4. ~(e < q) /\ e # q
    BY <1>1, <1>3, <1>5, <1>8, <2>1, <2>2
  <2>5. q - b \in Warp /\ b + (q - b) = q /\ l \in Lane
    BY <1>1, <1>2, <1>5, <2>1, <2>2, <2>3, <2>4
  <2> QED BY <2>1, <2>5
<1>9. /\ \A w, l : taskIndex(w, l) = (b + w) * W + l
      /\ round * CompactWarps * WarpSize = b * W
      /\ (round + 1) * CompactWarps * WarpSize = e * W
  BY <1>2 DEF b, e, R, C, W
<1> QED BY <1>6, <1>7, <1>8, <1>9

(* The rank of an element among those of a set of numbers.                 *)
LEMMA RankFacts ==
  ASSUME NEW n \in Nat, NEW S \in SUBSET (0 .. n - 1)
  PROVE  /\ Cardinality(S) \in Nat
         /\ \A l \in S : Cardinality({j \in S : j < l}) \in 0 .. Cardinality(S) - 1
         /\ \A k, l \in S : Cardinality({j \in S : j < k}) = Cardinality({j \in S : j < l}) => k = l
         /\ \A i \in 0 .. Cardinality(S) - 1 : \E l \in S : Cardinality({j \in S : j < l}) = i
<1> DEFINE low(l) == {j \in S : j < l}
           rank(l) == Cardinality(low(l))
           c == Cardinality(S)
<1>1. IsFiniteSet(S) /\ c \in Nat
  <2>1. IsFiniteSet(0 .. n - 1)
    BY FS_Interval
  <2>2. IsFiniteSet(S)
    BY <2>1, FS_Subset
  <2> QED BY <2>2, FS_CardinalityType
<1>2. ASSUME NEW T \in SUBSET S, T # S
      PROVE  Cardinality(T) \in Nat /\ Cardinality(T) < c
  <2>1. IsFiniteSet(T) /\ Cardinality(T) <= c /\ c # Cardinality(T)
    BY <1>1, <1>2, FS_Subset
  <2>2. Cardinality(T) \in Nat
    BY <2>1, FS_CardinalityType
  <2> QED BY <1>1, <2>1, <2>2
<1>3. ASSUME NEW l \in S PROVE low(l) \in SUBSET S /\ l \notin low(l)
  OBVIOUS
<1>4. \A l \in S : rank(l) \in 0 .. c - 1
  <2> HIDE DEF low
  <2> QED BY <1>1, <1>2, <1>3
<1>5. ASSUME NEW k \in S, NEW l \in S, k < l
      PROVE  rank(k) < rank(l)
  <2>1. low(k) \in SUBSET low(l) /\ k \in low(l) /\ k \notin low(k)
    <3>1. S \subseteq Int
      OBVIOUS
    <3>2. /\ \A j \in S : j < k => j < l
          /\ ~(k < k)
      BY <1>5, <3>1
    <3> QED BY <1>5, <3>2
  <2>2. IsFiniteSet(low(l))
    BY <1>1, <1>3, FS_Subset
  <2> HIDE DEF low
  <2>3. rank(k) <= rank(l) /\ rank(k) # rank(l)
    BY <2>1, <2>2, FS_Subset
  <2>4. rank(k) \in Nat /\ rank(l) \in Nat
    BY <1>1, <1>4
  <2> HIDE DEF rank
  <2> QED BY <2>3, <2>4
<1>6. ASSUME NEW k \in S, NEW l \in S, rank(k) = rank(l)
      PROVE  k = l
  <2> HIDE DEF rank
  <2>1. rank(k) \in Nat /\ rank(l) \in Nat
    BY <1>1, <1>4
  <2> QED BY <1>5, <1>6, <2>1
<1> HIDE DEF low
<1>7. \A i \in 0 .. c - 1 : \E l \in S : rank(l) = i
  <2> DEFINE f == [l \in S |-> rank(l)]
  <2>1. f \in [S -> 0 .. c - 1] /\ \A k, l \in S : f[k] = f[l] => k = l
    BY <1>4, <1>6
  <2>2. f \in Injection(S, 0 .. c - 1)
    <3> HIDE DEF f
    <3> QED BY <2>1 DEF Injection, IsInjective
  <2>3. IsFiniteSet(0 .. c - 1) /\ Cardinality(0 .. c - 1) = c
    <3> HIDE DEF c
    <3>1. 0 \in Int /\ c - 1 \in Int
      BY <1>1
    <3> QED BY <1>1, <3>1, FS_Interval
  <2>4. f \in Surjection(S, 0 .. c - 1)
    <3> HIDE DEF f
    <3> QED BY <2>2, <2>3, FS_Injection
  <2>5. \A i \in 0 .. c - 1 : \E l \in S : f[l] = i
    <3> HIDE DEF f
    <3> QED BY <2>4 DEF Surjection
  <2> QED BY <2>5
<1>8. \A l : rank(l) = Cardinality({j \in S : j < l})
  BY DEF low
<1> QED BY <1>1, <1>4, <1>6, <1>7, <1>8

(* The slots hold what Collapse left there until they are stored to.       *)
LEMMA SlotFacts ==
  ASSUME RangeInv
  PROVE  /\ \A r \in ranges : r # InvalidValue /\ SlotLeft(r.nodeAddr) = r
         /\ \A a : SlotLeft(a) # InvalidValue => SlotLeft(a) \in ranges /\ SlotLeft(a).nodeAddr = a
         /\ \A a : SlotLeft(a) = InvalidValue => \A r \in ranges : r.nodeAddr # a
<1>1. \A r \in ranges : r # InvalidValue
  BY NoRangeAssumption DEF RangeInv
<1>2. ASSUME NEW a, NEW r \in ranges, r.nodeAddr = a
      PROVE  SlotLeft(a) = r
  <2>1. SlotLeft(a) = CHOOSE q \in ranges : q.nodeAddr = a
    BY <1>2 DEF SlotLeft
  <2>2. SlotLeft(a) \in ranges /\ SlotLeft(a).nodeAddr = a
    BY <1>2, <2>1
  <2> QED BY <1>2, <2>2 DEF RangeInv
<1>3. ASSUME NEW a, \A r \in ranges : r.nodeAddr # a
      PROVE  SlotLeft(a) = InvalidValue
  BY <1>3 DEF SlotLeft
<1> QED BY <1>1, <1>2, <1>3

LEMMA RangeAddrs ==
  ASSUME TaskInv, RangeInv
  PROVE  boxNodeCount \in Nat /\ \A r \in ranges : r.nodeAddr \in 0 .. boxNodeCount - 1
BY DEF TaskInv, WordInv, TypeOK, DoneInv, RangeInv

LEMMA LoadKeeps ==
  ASSUME TaskInv, RangeInv, BackTyped, CompactInv, NEW w \in Warp, LoadSlots(w)
  PROVE  CompactInv'
<1>1. /\ kernel = "compact" /\ stage[w] = "load" /\ stage' = [stage EXCEPT ![w] = "store"]
      /\ held' = [held EXCEPT ![w] = [l \in Lane |->
            IF taskIndex(w, l) < boxNodeCount THEN slots[taskIndex(w, l)] ELSE InvalidValue]]
      /\ UNCHANGED <<boxNodeCount, ranges, kernel, slots, round, taskCount>>
  BY DEF LoadSlots, vars
<1>2. stage \in [Warp -> {"load", "store", "sync"}] /\ DOMAIN held = Warp /\ round \in Nat
  BY DEF BackTyped
<1>3. /\ \A a : SlotLeft(a)' = SlotLeft(a)
      /\ \A v, l : taskIndex(v, l)' = taskIndex(v, l)
  BY <1>1 DEF SlotLeft, taskIndex
<1>4. \A v \in Warp : (stage'[v] = "sync" <=> stage[v] = "sync") /\ (stage'[v] = "load" => stage[v] = "load")
  BY <1>1, <1>2
<1>5. \A a : Moved(a)' <=> Moved(a)
  BY <1>1, <1>3, <1>4 DEF Moved
<1>6. Kept' = Kept
  BY <1>1, <1>5 DEF Kept
<1>7. Lists(taskCount, Kept)'
  BY <1>1, <1>6 DEF CompactInv, Lists
<1>8. \A a \in DOMAIN slots' : Ahead(a)' => slots'[a] = SlotLeft(a)'
  BY <1>1, <1>3, <1>4 DEF CompactInv, Ahead
<1>9. ASSUME NEW l \in Lane
      PROVE  held'[w][l] = IF taskIndex(w, l) < boxNodeCount THEN SlotLeft(taskIndex(w, l))
                           ELSE InvalidValue
  <2>1. held'[w][l] = IF taskIndex(w, l) < boxNodeCount THEN slots[taskIndex(w, l)] ELSE InvalidValue
    BY <1>1, <1>2
  <2>2. taskIndex(w, l) \in Nat /\ round * CompactWarps * WarpSize <= taskIndex(w, l)
        /\ boxNodeCount \in Nat /\ round * CompactWarps * WarpSize \in Nat
    BY <1>2, IndexFacts, RangeAddrs, PackAssumption
  <2>3. taskIndex(w, l) < boxNodeCount => taskIndex(w, l) \in DOMAIN slots
    BY <1>1, <2>2 DEF CompactInv
  <2>4. Ahead(taskIndex(w, l))
    BY <1>1, <2>2 DEF Ahead
  <2> QED BY <1>1, <2>1, <2>3, <2>4 DEF CompactInv
<1>10. \A v \in Warp, l \in Lane : stage'[v] = "store" =>
         held'[v][l] = IF taskIndex(v, l) < boxNodeCount THEN SlotLeft(taskIndex(v, l))
                       ELSE InvalidValue
  BY <1>1, <1>2, <1>9 DEF CompactInv
<1>11. \A u, v \in Warp : stage'[u] = "load" => stage'[v] # "sync"
  BY <1>1, <1>4 DEF CompactInv
<1> HIDE DEF Moved, Kept, Lists, Ahead, SlotLeft, taskIndex
<1> QED BY <1>1, <1>3, <1>7, <1>8, <1>10, <1>11 DEF CompactInv

(* The places a warp stores to, and the lane each is for.                  *)
ValidLanes(w) == {l \in Lane : held[w][l] # InvalidValue}

LEMMA PlaceFacts ==
  ASSUME NEW w \in Warp, DOMAIN held[w] = Lane, taskCount \in Nat
  PROVE  /\ Cardinality(ValidLanes(w)) \in Nat
         /\ \A l \in ValidLanes(w) :
              newIndex(w, l) \in taskCount .. taskCount + Cardinality(ValidLanes(w)) - 1
         /\ \A k, l \in ValidLanes(w) : newIndex(w, k) = newIndex(w, l) => k = l
         /\ \A i \in taskCount .. taskCount + Cardinality(ValidLanes(w)) - 1 :
              \E l \in ValidLanes(w) : newIndex(w, l) = i
<1> DEFINE S == ValidLanes(w)
           c == Cardinality(S)
           rank(l) == Cardinality({j \in S : j < l})
<1>1. WarpSize \in Nat /\ S \in SUBSET (0 .. WarpSize - 1)
  BY PackAssumption DEF ValidLanes, Lane
<1>2. ASSUME NEW l \in S
      PROVE  newIndex(w, l) = taskCount + rank(l)
  <2>1. \A j : j \in 0 .. l - 1 /\ held[w][j] # InvalidValue <=> j \in S /\ j < l
    <3>1. l \in Int /\ 0 <= l /\ l < WarpSize /\ WarpSize \in Nat
      BY <1>1, <1>2
    <3> QED BY <3>1 DEF ValidLanes, Lane
  <2>2. {j \in 0 .. l - 1 : held[w][j] # InvalidValue} = {j \in S : j < l}
    BY <2>1
  <2> QED BY <2>2 DEF newIndex
<1> HIDE DEF S
<1>3. /\ c \in Nat
      /\ \A l \in S : rank(l) \in 0 .. c - 1
      /\ \A k, l \in S : rank(k) = rank(l) => k = l
      /\ \A i \in 0 .. c - 1 : \E l \in S : rank(l) = i
  BY <1>1, RankFacts
<1> HIDE DEF rank, c
<1>4. \A l \in S : rank(l) \in Nat
  BY <1>3
<1>5. \A k, l \in S : newIndex(w, k) = newIndex(w, l) => k = l
  BY <1>2, <1>3, <1>4
<1>6. \A l \in S : newIndex(w, l) \in taskCount .. taskCount + c - 1
  BY <1>2, <1>3
<1>7. ASSUME NEW i \in taskCount .. taskCount + c - 1
      PROVE  \E l \in S : newIndex(w, l) = i
  <2>1. i - taskCount \in 0 .. c - 1
    BY <1>3
  <2>2. PICK l \in S : rank(l) = i - taskCount
    BY <1>3, <2>1
  <2>3. newIndex(w, l) = i
    BY <1>2, <1>3, <2>2
  <2> QED BY <2>3
<1> QED BY <1>3, <1>5, <1>6, <1>7 DEF S, c

(* A store leaves the first slots as they are, puts the tasks of a warp    *)
(* behind them and does not reach a slot that is still to be loaded.       *)
LEMMA StoreEffect ==
  ASSUME TaskInv, RangeInv, BackTyped, CompactInv, NEW w \in Warp, StoreTasks(w)
  PROVE  /\ kernel = "compact" /\ UNCHANGED <<boxNodeCount, ranges, kernel, round, held>>
         /\ stage[w] = "store" /\ stage' = [stage EXCEPT ![w] = "sync"]
         /\ \A v \in Warp : stage[v] # "load"
         /\ DOMAIN slots' = DOMAIN slots
         /\ taskCount' \in Nat
         /\ \A a \in DOMAIN slots : a >= (round + 1) * CompactWarps * WarpSize => slots'[a] = slots[a]
         /\ Lists(taskCount, Kept)'
<1> DEFINE V == ValidLanes(w)
           n == taskCount + Cardinality(V)
           bound == (round + 1) * CompactWarps * WarpSize
           S == {held[w][l] : l \in V}
<1>1. /\ kernel = "compact" /\ UNCHANGED <<boxNodeCount, ranges, kernel, round, held>>
      /\ stage[w] = "store" /\ stage' = [stage EXCEPT ![w] = "sync"]
      /\ \A v \in Warp : stage[v] # "load"
      /\ taskCount' = n
      /\ slots' = [a \in DOMAIN slots |->
           IF \E l \in V : newIndex(w, l) = a
           THEN held[w][CHOOSE l \in V : newIndex(w, l) = a] ELSE slots[a]]
  BY DEF StoreTasks, AllLoaded, vars, ValidLanes
<1>2. /\ taskCount \in Nat /\ Cardinality(V) \in Nat /\ round \in Nat /\ n \in Nat
      /\ DOMAIN slots = 0 .. boxNodeCount - 1 /\ boxNodeCount \in Nat /\ bound \in Nat
      /\ round * CompactWarps * WarpSize \in Nat
  BY <1>1, PlaceFacts, RangeAddrs, PackAssumption DEF BackTyped, CompactInv
<1>3. /\ \A l \in V : newIndex(w, l) \in taskCount .. n - 1
      /\ \A k, l \in V : newIndex(w, k) = newIndex(w, l) => k = l
      /\ \A i \in taskCount .. n - 1 : \E l \in V : newIndex(w, l) = i
  BY PlaceFacts DEF BackTyped
<1> HIDE DEF n, bound
<1>4. ASSUME NEW l \in V
      PROVE  /\ held[w][l] \in ranges /\ held[w][l].nodeAddr = taskIndex(w, l)
             /\ taskIndex(w, l) < boxNodeCount
  <2>1. held[w][l] # InvalidValue /\ l \in Lane
    BY DEF ValidLanes
  <2>2. taskIndex(w, l) < boxNodeCount /\ held[w][l] = SlotLeft(taskIndex(w, l))
    BY <1>1, <2>1 DEF CompactInv
  <2> QED BY <2>1, <2>2, SlotFacts
<1>5. ASSUME NEW r \in ranges, NEW l \in Lane, r.nodeAddr = taskIndex(w, l)
      PROVE  l \in V /\ held[w][l] = r
  <2>1. taskIndex(w, l) < boxNodeCount
    BY <1>2, <1>5, RangeAddrs
  <2>2. held[w][l] = SlotLeft(r.nodeAddr)
    BY <1>1, <1>5, <2>1 DEF CompactInv
  <2> QED BY <2>2, SlotFacts DEF ValidLanes
(* The ranges kept afterwards are those kept before and those of the warp. *)
<1>6. Kept' = Kept \cup S
  <2>1. ASSUME NEW a \in Nat
        PROVE  Moved(a)' <=> Moved(a) \/ \E l \in Lane : a = taskIndex(w, l)
    <3>1. \A v \in Warp : stage'[v] = "sync" <=> stage[v] = "sync" \/ v = w
      BY <1>1 DEF BackTyped
    <3>2. \A v, l : taskIndex(v, l)' = taskIndex(v, l)
      BY <1>1 DEF taskIndex
    <3> QED BY <1>1, <3>1, <3>2 DEF Moved
  <2>2. \A r \in ranges : r.nodeAddr \in Nat
    BY RangeAddrs
  <2>3. \A r \in ranges : (\E l \in Lane : r.nodeAddr = taskIndex(w, l)) <=> r \in S
    BY <1>4, <1>5 DEF ValidLanes
  <2>4. S \subseteq ranges
    BY <1>4
  <2> HIDE DEF S, Moved
  <2> QED BY <1>1, <2>1, <2>2, <2>3, <2>4 DEF Kept
<1>7. ASSUME NEW l \in V PROVE held[w][l] \notin Kept
  <2>1. held[w][l].nodeAddr = taskIndex(w, l) /\ l \in Lane
    BY <1>4 DEF ValidLanes
  <2>2. ~Moved(taskIndex(w, l))
    BY <1>1, <1>2, <2>1, IndexFacts DEF Moved
  <2> QED BY <2>1, <2>2 DEF Kept
<1>8. \A k, l \in V : held[w][k] = held[w][l] => k = l
  <2>1. \A k, l \in V : taskIndex(w, k) = taskIndex(w, l) => k = l
    BY <1>2, IndexFacts DEF ValidLanes
  <2> QED BY <1>4, <2>1
<1>9. Lists(taskCount, Kept)
  BY <1>1 DEF CompactInv
(* What the first slots will hold, and that there is room for it.          *)
<1> DEFINE f == [i \in 0 .. n - 1 |->
                  IF i < taskCount THEN slots[i] ELSE held[w][CHOOSE l \in V : newIndex(w, l) = i]]
<1>10. ASSUME NEW i \in 0 .. n - 1, ~(i < taskCount)
       PROVE  \E l \in V : newIndex(w, l) = i /\ f[i] = held[w][l]
  <2>1. i \in taskCount .. n - 1
    BY <1>2, <1>10
  <2>2. \E l \in V : newIndex(w, l) = i
    BY <1>3, <2>1
  <2> DEFINE l == CHOOSE l \in V : newIndex(w, l) = i
  <2>3. l \in V /\ newIndex(w, l) = i
    BY <2>2
  <2>4. f[i] = held[w][l]
    BY <1>10
  <2> QED BY <2>3, <2>4
<1>11. \A i \in 0 .. n - 1 : i < taskCount => f[i] = slots[i] /\ i \in 0 .. taskCount - 1
  BY <1>2
<1> HIDE DEF V, f
<1>12. \A i \in 0 .. n - 1 : f[i] \in Kept'
  BY <1>6, <1>9, <1>10, <1>11 DEF Lists
<1>13. ASSUME NEW i \in 0 .. n - 1, NEW j \in 0 .. n - 1, f[i] = f[j]
       PROVE  i = j
  <2>1. CASE i < taskCount /\ j < taskCount
    BY <1>9, <1>11, <1>13, <2>1 DEF Lists
  <2>2. CASE i < taskCount /\ ~(j < taskCount)
    BY <1>7, <1>9, <1>10, <1>11, <1>13, <2>2 DEF Lists
  <2>3. CASE ~(i < taskCount) /\ j < taskCount
    BY <1>7, <1>9, <1>10, <1>11, <1>13, <2>3 DEF Lists
  <2>4. CASE ~(i < taskCount) /\ ~(j < taskCount)
    BY <1>8, <1>10, <1>13, <2>4
  <2> QED BY <2>1, <2>2, <2>3, <2>4
<1>14. n <= boxNodeCount /\ n <= bound
  <2> DEFINE top == IF boxNodeCount < bound THEN boxNodeCount ELSE bound
             g == [i \in 0 .. n - 1 |-> f[i].nodeAddr]
  <2>1. ASSUME NEW r \in Kept' PROVE r \in ranges /\ r.nodeAddr \in 0 .. top - 1
    <3>1. r \in ranges /\ r.nodeAddr \in 0 .. boxNodeCount - 1
      <4>1. r \in ranges
        BY <1>1 DEF Kept
      <4> QED BY <4>1, RangeAddrs
    <3>2. r \in Kept \/ \E l \in V : r.nodeAddr = taskIndex(w, l) /\ l \in Lane
      BY <1>4, <1>6 DEF V, ValidLanes
    <3>3. r \in Kept => \/ r.nodeAddr < round * CompactWarps * WarpSize
                        \/ \E v \in Warp, l \in Lane : r.nodeAddr = taskIndex(v, l)
      BY DEF Kept, Moved
    <3>4. \A v \in Warp, l \in Lane : taskIndex(v, l) < bound /\ taskIndex(v, l) \in Nat
      BY <1>2, IndexFacts DEF bound
    <3>5. round * CompactWarps * WarpSize <= bound
      <4>1. 0 \in Warp /\ 0 \in Lane
        BY PackAssumption DEF Warp, Lane
      <4> QED BY <1>2, <3>4, <4>1, IndexFacts
    <3>6. r.nodeAddr < bound
      BY <1>2, <3>1, <3>2, <3>3, <3>4, <3>5
    <3> QED BY <1>2, <3>1, <3>6
  <2>2. g \in [0 .. n - 1 -> 0 .. top - 1]
    BY <1>12, <2>1
  <2>3. \A i, j \in 0 .. n - 1 : g[i] = g[j] => i = j
    <3>1. \A i \in 0 .. n - 1 : f[i] \in ranges /\ g[i] = f[i].nodeAddr
      BY <1>12, <2>1
    <3> HIDE DEF g
    <3> QED BY <1>13, <3>1 DEF RangeInv
  <2>4. top \in Nat /\ top <= boxNodeCount /\ top <= bound
    BY <1>2
  <2> HIDE DEF g, top
  <2>5. g \in Injection(0 .. n - 1, 0 .. top - 1)
    BY <2>2, <2>3 DEF Injection, IsInjective
  <2>6. IsFiniteSet(0 .. top - 1) /\ Cardinality(0 .. top - 1) = top /\ Cardinality(0 .. n - 1) = n
    <3>1. 0 \in Int /\ n - 1 \in Int /\ top - 1 \in Int
      BY <1>2, <2>4
    <3>2. Cardinality(0 .. n - 1) = IF 0 > n - 1 THEN 0 ELSE n - 1 - 0 + 1
      BY <3>1, FS_Interval
    <3>3. /\ IsFiniteSet(0 .. top - 1)
          /\ Cardinality(0 .. top - 1) = IF 0 > top - 1 THEN 0 ELSE top - 1 - 0 + 1
      BY <3>1, FS_Interval
    <3> QED BY <1>2, <2>4, <3>2, <3>3
  <2>7. Cardinality(0 .. n - 1) <= Cardinality(0 .. top - 1)
    BY <2>5, <2>6, FS_Injection
  <2> QED BY <1>2, <2>4, <2>6, <2>7
<1>15. \A i \in 0 .. n - 1 : slots'[i] = f[i]
  <2> SUFFICES ASSUME NEW i \in 0 .. n - 1 PROVE slots'[i] = f[i]
    OBVIOUS
  <2>1. i \in DOMAIN slots
    BY <1>2, <1>14
  <2>2. CASE i < taskCount
    <3>1. ~\E l \in V : newIndex(w, l) = i
      BY <1>2, <1>3, <2>2 DEF V
    <3> QED BY <1>1, <1>11, <2>1, <2>2, <3>1 DEF V
  <2>3. CASE ~(i < taskCount)
    <3>1. \E l \in V : newIndex(w, l) = i
      BY <1>10, <2>3
    <3>2. slots'[i] = held[w][CHOOSE l \in V : newIndex(w, l) = i]
      BY <1>1, <2>1, <3>1 DEF V
    <3>3. f[i] = held[w][CHOOSE l \in V : newIndex(w, l) = i]
      BY <2>3 DEF f
    <3> QED BY <3>2, <3>3
  <2> QED BY <2>2, <2>3
<1>16. ASSUME NEW a \in DOMAIN slots, a >= bound
       PROVE  slots'[a] = slots[a]
  <2>1. ~\E l \in V : newIndex(w, l) = a
    BY <1>2, <1>3, <1>14, <1>16 DEF V
  <2> QED BY <1>1, <2>1 DEF V
<1>17. \A r \in Kept' : \E i \in 0 .. n - 1 : f[i] = r
  <2> SUFFICES ASSUME NEW r \in Kept' PROVE \E i \in 0 .. n - 1 : f[i] = r
    OBVIOUS
  <2>1. CASE r \in Kept
    <3>1. PICK i \in 0 .. taskCount - 1 : slots[i] = r
      BY <1>9, <2>1 DEF Lists
    <3>2. i \in 0 .. n - 1 /\ i < taskCount
      <4>1. taskCount <= n
        BY <1>2 DEF n
      <4> QED BY <1>2, <4>1
    <3> QED BY <1>11, <3>1, <3>2
  <2>2. ASSUME NEW l \in V, r = held[w][l] PROVE \E i \in 0 .. n - 1 : f[i] = r
    <3>1. newIndex(w, l) \in taskCount .. n - 1
      BY <1>3, <2>2 DEF V
    <3>2. newIndex(w, l) \in 0 .. n - 1 /\ ~(newIndex(w, l) < taskCount)
      BY <1>2, <3>1
    <3>3. PICK k \in V : newIndex(w, k) = newIndex(w, l) /\ f[newIndex(w, l)] = held[w][k]
      BY <1>10, <3>2
    <3>4. k = l
      BY <1>3, <3>3 DEF V
    <3> QED BY <2>2, <3>2, <3>3, <3>4
  <2> QED BY <1>6, <2>1, <2>2
<1>18. n \in Nat /\ taskCount' = n
  BY <1>1, <1>2 DEF n
<1>19. Lists(taskCount, Kept)'
  BY <1>12, <1>13, <1>15, <1>17, <1>18 DEF Lists
<1>20. DOMAIN slots' = DOMAIN slots
  BY <1>1
<1> HIDE DEF Lists, Kept
<1> QED BY <1>1, <1>16, <1>18, <1>19, <1>20 DEF bound

LEMMA StoreKeeps ==
  ASSUME TaskInv, RangeInv, BackTyped, CompactInv, NEW w \in Warp, StoreTasks(w)
  PROVE  CompactInv'
<1>1. /\ kernel = "compact" /\ UNCHANGED <<boxNodeCount, ranges, kernel, round, held>>
      /\ stage[w] = "store" /\ stage' = [stage EXCEPT ![w] = "sync"]
      /\ \A v \in Warp : stage[v] # "load"
      /\ DOMAIN slots' = DOMAIN slots
      /\ \A a \in DOMAIN slots : a >= (round + 1) * CompactWarps * WarpSize => slots'[a] = slots[a]
      /\ Lists(taskCount, Kept)'
  BY StoreEffect
<1>2. stage \in [Warp -> {"load", "store", "sync"}]
  BY DEF BackTyped
<1>3. /\ \A a : SlotLeft(a)' = SlotLeft(a)
      /\ \A v, l : taskIndex(v, l)' = taskIndex(v, l)
  BY <1>1 DEF SlotLeft, taskIndex
<1>4. \A v \in Warp : stage'[v] # "load" /\ (stage'[v] = "store" => stage[v] = "store")
  BY <1>1, <1>2
<1>5. \A a \in DOMAIN slots' : Ahead(a)' => slots'[a] = SlotLeft(a)'
  BY <1>1, <1>3, <1>4 DEF CompactInv, Ahead
<1>6. \A v \in Warp, l \in Lane : stage'[v] = "store" =>
        held'[v][l] = IF taskIndex(v, l) < boxNodeCount THEN SlotLeft(taskIndex(v, l))
                      ELSE InvalidValue
  BY <1>1, <1>4 DEF CompactInv
<1> HIDE DEF Kept, Lists, Ahead, SlotLeft, taskIndex
<1> QED BY <1>1, <1>3, <1>4, <1>5, <1>6 DEF CompactInv

LEMMA RoundKeeps ==
  ASSUME TaskInv, RangeInv, BackTyped, CompactInv, NextRound
  PROVE  CompactInv'
<1>1. /\ kernel = "compact" /\ \A w \in Warp : stage[w] = "sync"
      /\ round' = round + 1 /\ stage' = [w \in Warp |-> "load"]
      /\ UNCHANGED <<boxNodeCount, ranges, kernel, slots, held, taskCount>>
  BY DEF NextRound, RoundDone, vars
<1> DEFINE bound == (round + 1) * CompactWarps * WarpSize
           next == (round' + 1) * CompactWarps * WarpSize
<1>2. round \in Nat /\ round' \in Nat /\ bound \in Nat /\ next \in Nat
      /\ round' * CompactWarps * WarpSize = bound /\ bound <= next
  <2>1. round \in Nat /\ round + 1 \in Nat
    BY DEF BackTyped
  <2> DEFINE P == CompactWarps * WarpSize
  <2>2. P \in Nat /\ \A x \in Nat : x * CompactWarps * WarpSize = x * P /\ x * P \in Nat
    BY PackAssumption
  <2> HIDE DEF P
  <2>3. (round + 1 + 1) * P = (round + 1) * P + P
    BY <2>1, <2>2
  <2>4. (round + 1) * P \in Nat /\ round + 1 + 1 \in Nat
    BY <2>1, <2>2
  <2> QED BY <1>1, <2>1, <2>2, <2>3, <2>4
<1>3. \A a \in Nat : Moved(a)' <=> Moved(a)
  <2> SUFFICES ASSUME NEW a \in Nat PROVE Moved(a)' <=> Moved(a)
    OBVIOUS
  <2>1. Moved(a)' <=> a < bound
    BY <1>1, <1>2 DEF Moved
  <2>2. Moved(a) <=> a < round * CompactWarps * WarpSize \/ \E w \in Warp, l \in Lane : a = taskIndex(w, l)
    BY <1>1 DEF Moved
  <2>3. round * CompactWarps * WarpSize \in Nat /\ round * CompactWarps * WarpSize <= bound
    <3>1. 0 \in Warp /\ 0 \in Lane
      BY PackAssumption DEF Warp, Lane
    <3>2. taskIndex(0, 0) \in Nat /\ round * CompactWarps * WarpSize <= taskIndex(0, 0)
          /\ taskIndex(0, 0) < bound /\ round * CompactWarps * WarpSize \in Nat
      BY <1>2, <3>1, IndexFacts, PackAssumption
    <3> QED BY <1>2, <3>2
  <2>4. (\E w \in Warp, l \in Lane : a = taskIndex(w, l)) <=>
          round * CompactWarps * WarpSize <= a /\ a < bound
    BY <1>2, IndexFacts
  <2> QED BY <1>2, <2>1, <2>2, <2>3, <2>4
<1>4. Kept' = Kept
  <2>1. \A r \in ranges : r.nodeAddr \in Nat
    BY RangeAddrs
  <2> QED BY <1>1, <1>3, <2>1 DEF Kept
<1>5. Lists(taskCount, Kept)'
  BY <1>1, <1>4 DEF CompactInv, Lists
<1>6. \A a \in DOMAIN slots' : Ahead(a)' => slots'[a] = SlotLeft(a)'
  <2> SUFFICES ASSUME NEW a \in DOMAIN slots, Ahead(a)' PROVE slots[a] = SlotLeft(a)
    BY <1>1 DEF SlotLeft
  <2>1. a \in Nat
    BY <1>1, RangeAddrs DEF CompactInv
  <2>2. a >= next \/ a >= bound
    BY <1>2 DEF Ahead
  <2>3. a >= bound
    BY <1>2, <2>1, <2>2
  <2> QED BY <1>1, <2>3 DEF CompactInv, Ahead
<1>7. \A v, w \in Warp : stage'[v] = "load" /\ stage'[w] = "load"
  BY <1>1
<1> HIDE DEF Kept, Lists, Ahead, SlotLeft, taskIndex
<1> QED BY <1>1, <1>5, <1>6, <1>7 DEF CompactInv

LEMMA LaunchKeeps ==
  ASSUME TaskInv, RangeInv, BackTyped, LaunchCompact
  PROVE  CompactInv'
<1>1. /\ round = 0 /\ taskCount = 0 /\ \A w \in Warp : stage[w] = "load"
      /\ slots' = [a \in 0 .. boxNodeCount - 1 |-> SlotLeft(a)]
      /\ UNCHANGED <<boxNodeCount, ranges, round, stage, held, taskCount>>
  BY DEF LaunchCompact, BackTyped, vars
<1>2. \A a : SlotLeft(a)' = SlotLeft(a)
  BY <1>1 DEF SlotLeft
<1>3. Kept' = {}
  <2>1. \A r \in ranges : r.nodeAddr \in Nat
    BY RangeAddrs
  <2>2. 0 * CompactWarps * WarpSize = 0
    BY PackAssumption
  <2>3. \A a \in Nat : ~Moved(a)'
    BY <1>1, <2>2 DEF Moved
  <2> QED BY <1>1, <2>1, <2>3 DEF Kept
<1>4. Lists(taskCount, Kept)'
  BY <1>1, <1>3 DEF Lists
<1>5. \A a \in DOMAIN slots' : slots'[a] = SlotLeft(a)'
  BY <1>1, <1>2
<1> HIDE DEF Kept, Lists, SlotLeft
<1> QED BY <1>1, <1>4, <1>5 DEF CompactInv

LEMMA CompactFrame ==
  ASSUME UNCHANGED <<vars, packVars>>
  PROVE  (BackTyped => BackTyped') /\ (CompactInv => CompactInv') /\ (PackedInv => PackedInv')
BY DEF vars, packVars, BackTyped, CompactInv, PackedInv, Finished, Lists, Kept, Moved, Ahead, SlotLeft,
       taskIndex

(* The block is done when each slot has been loaded, and then no range is  *)
(* missing.                                                                *)
LEMMA LaunchPackKeeps ==
  ASSUME TaskInv, RangeInv, BackTyped, CompactInv, LaunchPack
  PROVE  PackedInv'
<1>1. /\ kernel = "compact" /\ \A w \in Warp : stage[w] = "sync"
      /\ (round + 1) * CompactWarps * WarpSize >= boxNodeCount
      /\ UNCHANGED <<ranges, slots, taskCount, primNodeCount, packed>>
  BY DEF LaunchPack, RoundDone, vars
<1>2. DOMAIN packed' = {}
  BY <1>1 DEF BackTyped
<1>3. Kept = ranges
  <2>1. ASSUME NEW r \in ranges PROVE Moved(r.nodeAddr)
    <3>1. r.nodeAddr \in Nat /\ r.nodeAddr < boxNodeCount /\ boxNodeCount \in Nat /\ round \in Nat
      BY RangeAddrs DEF BackTyped
    <3>2. /\ (round + 1) * CompactWarps * WarpSize \in Nat
          /\ round * CompactWarps * WarpSize \in Nat
      BY <3>1, PackAssumption
    <3>3. r.nodeAddr < (round + 1) * CompactWarps * WarpSize
      BY <1>1, <3>1, <3>2
    <3>4. CASE round * CompactWarps * WarpSize <= r.nodeAddr
      BY <1>1, <3>1, <3>3, <3>4, IndexFacts DEF Moved
    <3>5. CASE r.nodeAddr < round * CompactWarps * WarpSize
      BY <3>5 DEF Moved
    <3> QED BY <3>1, <3>2, <3>4, <3>5
  <2> QED BY <2>1 DEF Kept
<1>4. Lists(taskCount, ranges)'
  BY <1>1, <1>3 DEF CompactInv, Lists
<1> QED BY <1>2, <1>4 DEF PackedInv

(* The least element of a non-empty set of natural numbers.                *)
LEMMA LeastOne ==
  ASSUME NEW U \in SUBSET Nat, U # {}
  PROVE  \E n \in U : \A m \in U : n <= m
<1>1. PICK top \in U : TRUE
  OBVIOUS
<1> DEFINE below(n) == 0 .. n - 1
           T == {below(n) : n \in {u \in U : u <= top}}
<1>2. IsFiniteSet(0 .. top)
  BY FS_Interval
<1>3. IsWellFoundedOn(StrictSubsetOrdering(0 .. top), SUBSET (0 .. top))
  BY <1>2, FS_StrictSubsetOrderingWellFounded, FS_FiniteSubsetsOfFinite, Zenon
<1>4. T \in SUBSET SUBSET (0 .. top) /\ T # {}
  <2>1. \A n \in U : n <= top => below(n) \subseteq 0 .. top
    OBVIOUS
  <2>2. top \in {u \in U : u <= top}
    BY <1>1
  <2> HIDE DEF below
  <2> QED BY <2>1, <2>2
<1> HIDE DEF T
<1>5. PICK x \in T : \A y \in T : <<y, x>> \notin StrictSubsetOrdering(0 .. top)
  BY <1>3, <1>4, WFMin
<1>6. PICK n \in U : n <= top /\ x = below(n)
  BY <1>5 DEF T
<1>7. ASSUME NEW m \in U, m < n
      PROVE  FALSE
  <2>1. m \in {u \in U : u <= top}
    BY <1>6, <1>7
  <2>2. below(m) \in T
    BY <2>1 DEF T
  <2>3. below(m) \subseteq below(n) /\ m \in below(n) /\ m \notin below(m)
    BY <1>7
  <2>4. <<below(m), below(n)>> \in StrictSubsetOrdering(0 .. top)
    BY <2>2, <2>3, <1>4, <1>5, <1>6 DEF StrictSubsetOrdering
  <2> QED BY <2>2, <2>4, <1>5, <1>6
<1> QED BY <1>7

(* A warp that runs has tasks, all of them in the queue.                   *)
LEMMA WarpTasks ==
  ASSUME taskCount \in Nat, NEW w \in PackWarp
  PROVE  /\ TasksOf(w) \subseteq 0 .. taskCount - 1
         /\ lastTask(w) \in TasksOf(w)
         /\ \A i \in TasksOf(w) : i <= lastTask(w)
         /\ TasksOf(w) = w * PacketTasksPerWarp .. lastTask(w)
         /\ w * PacketTasksPerWarp \in Nat /\ lastTask(w) \in Int
<1> DEFINE P == PacketTasksPerWarp
           d == DivideRoundUp(taskCount, P)
           first == w * P
           next == (w + 1) * P
<1>1. P \in Nat \ {0} /\ d \in Nat
  BY PackAssumption, RoundsUp
<1>2. d * P <= taskCount + P - 1
  <2> DEFINE t == taskCount + P - 1
             q == t \div P
             r == t % P
  <2>1. t \in Nat
    BY <1>1
  <2> HIDE DEF t
  <2>2. q \in Nat /\ r \in 0 .. P - 1 /\ t = q * P + r
    BY <1>1, <2>1, SMT
  <2>3. d = q
    BY DEF DivideRoundUp, t
  <2> HIDE DEF q, r, d
  <2>4. q * P \in Int
    BY <1>1, <2>2
  <2>5. q * P <= t
    BY <1>1, <2>1, <2>2, <2>4
  <2> QED BY <2>3, <2>5 DEF t
<1>3. w \in Nat /\ w + 1 <= d
  BY <1>1 DEF PackWarp
<1> HIDE DEF d
<1>4. next <= d * P
  <2>1. d - (w + 1) \in Nat
    BY <1>1, <1>3
  <2>2. d * P = (w + 1) * P + (d - (w + 1)) * P /\ (d - (w + 1)) * P \in Nat
    BY <1>1, <1>3, <2>1
  <2>3. (w + 1) * P \in Nat
    BY <1>1, <1>3
  <2> QED BY <2>2, <2>3
<1>5. next = first + P /\ first \in Nat /\ d * P \in Nat
  BY <1>1, <1>3
<1> HIDE DEF P, first, next
<1>6. first < taskCount /\ first < next
  BY <1>1, <1>2, <1>4, <1>5
<1>7. lastTask(w) = (IF next < taskCount THEN next ELSE taskCount) - 1
  BY DEF lastTask, next, P
<1>8. TasksOf(w) = first .. lastTask(w)
  BY DEF TasksOf, first, P
<1> HIDE DEF lastTask, TasksOf
<1>9. lastTask(w) \in Int /\ first <= lastTask(w) /\ lastTask(w) <= taskCount - 1
  BY <1>1, <1>5, <1>6, <1>7
<1> QED BY <1>5, <1>8, <1>9 DEF first, P

LEMMA NodesForFacts ==
  ASSUME NEW r, r.rangeSize \in Nat
  PROVE  NodesFor(r) \subseteq Nat
<1>1. MinPairs \in Nat \ {0} /\ MaxPairs \in Nat \ {0}
  BY PackAssumption
<1>2. DivideRoundUp(r.rangeSize, MaxPairs) \in Nat /\ DivideRoundUp(r.rangeSize, MinPairs) \in Nat
  BY <1>1, RoundsUp
<1> QED BY <1>2 DEF NodesFor

(* The nodes of a warp's tasks follow each other.                          *)
LEMMA EndsGrow ==
  ASSUME NEW p \in Nat, NEW f \in Nat, NEW e \in Nat, NEW end \in [f .. e -> Nat],
         \A i \in f .. e : IF i - 1 \in f .. e THEN end[i - 1] <= end[i] ELSE p <= end[i]
  PROVE  \A i, j \in f .. e : i <= j => p <= end[i] /\ end[i] <= end[j]
<1>1. ASSUME NEW i \in f .. e, NEW j \in f .. e, i <= j, ~(end[i] <= end[j]) PROVE FALSE
  <2> DEFINE U == {k \in f .. e : i <= k /\ ~(end[i] <= end[k])}
  <2>1. U \in SUBSET Nat /\ U # {}
    <3>1. j \in U
      BY <1>1
    <3>2. \A k \in f .. e : k \in Nat
      OBVIOUS
    <3> QED BY <3>1, <3>2
  <2>2. PICK n \in U : \A m \in U : n <= m
    BY <2>1, LeastOne
  <2>3. n # i
    BY <2>2
  <2>4. n - 1 \in f .. e /\ i <= n - 1 /\ n - 1 \notin U
    BY <2>2, <2>3
  <2>5. end[i] <= end[n - 1] /\ end[n - 1] <= end[n]
    BY <2>2, <2>4
  <2> QED BY <2>2, <2>4, <2>5
<1>2. ASSUME NEW i \in f .. e PROVE p <= end[i]
  <2>1. f \in f .. e /\ f - 1 \notin f .. e
    OBVIOUS
  <2>2. p <= end[f] /\ end[f] <= end[i]
    BY <1>1, <2>1
  <2> QED BY <2>1, <2>2
<1> QED BY <1>1, <1>2

(* A warp packs consecutive tasks, the nodes of one from the end of those  *)
(* of the task before.                                                     *)
Base(f, e, end, i) == IF i - 1 \in f .. e THEN end[i - 1] ELSE primNodeCount

Packs(f, e, end) ==
  /\ f <= e /\ f .. e \subseteq 0 .. taskCount - 1 /\ (f .. e) \cap DOMAIN packed = {}
  /\ \A i \in f .. e : end[i] - Base(f, e, end, i) \in NodesFor(slots[i])
  /\ DOMAIN packed' = DOMAIN packed \cup (f .. e)
  /\ \A i \in DOMAIN packed : packed'[i] = packed[i]
  /\ \A i \in f .. e :
       packed'[i] = [task |-> slots[i], nodes |-> Base(f, e, end, i) .. end[i] - 1]
  /\ primNodeCount' = end[e]
  /\ kernel = "pack" /\ UNCHANGED <<vars, kernel, slots, taskCount>>

LEMMA PackEffect ==
  ASSUME BackTyped, NEW w \in PackWarp, Pack(w)
  PROVE  \E f, e \in Nat : \E end \in [f .. e -> Nat] : Packs(f, e, end)
<1> DEFINE T == TasksOf(w)
           p == primNodeCount
           f == w * PacketTasksPerWarp
           e == lastTask(w)
<1>1. PICK end \in [T -> p .. p + MaxPacked] :
        LET base(i) == IF i - 1 \in T THEN end[i - 1] ELSE p
        IN  /\ \A i \in T : end[i] - base(i) \in NodesFor(slots[i])
            /\ packed' = [i \in DOMAIN packed \cup T |->
                 IF i \in DOMAIN packed THEN packed[i]
                 ELSE [task |-> slots[i], nodes |-> base(i) .. end[i] - 1]]
            /\ primNodeCount' = end[lastTask(w)]
  BY DEF Pack
<1>2. kernel = "pack" /\ T \cap DOMAIN packed = {} /\ UNCHANGED <<vars, kernel, slots, taskCount>>
  BY DEF Pack
<1>3. taskCount \in Nat /\ p \in Nat
  BY DEF BackTyped
<1>4. T \subseteq 0 .. taskCount - 1 /\ e \in T /\ T = f .. e /\ f \in Nat /\ e \in Nat /\ f <= e
  BY <1>3, WarpTasks
<1>5. primNodeCount' = end[e]
  BY <1>1
<1> HIDE DEF f, e, p, T
<1>6. \A i : Base(f, e, end, i) = IF i - 1 \in T THEN end[i - 1] ELSE p
  BY <1>4 DEF Base, p
<1>7. /\ \A i \in T : end[i] - Base(f, e, end, i) \in NodesFor(slots[i])
      /\ packed' = [i \in DOMAIN packed \cup T |->
           IF i \in DOMAIN packed THEN packed[i]
           ELSE [task |-> slots[i], nodes |-> Base(f, e, end, i) .. end[i] - 1]]
  BY <1>1, <1>6
<1> HIDE DEF Base
<1>8. /\ DOMAIN packed' = DOMAIN packed \cup T
      /\ \A i \in DOMAIN packed : packed'[i] = packed[i]
      /\ \A i \in T : packed'[i] = [task |-> slots[i], nodes |-> Base(f, e, end, i) .. end[i] - 1]
  BY <1>2, <1>7
<1>9. end \in [f .. e -> Nat]
  BY <1>1, <1>3, <1>4
<1> QED BY <1>2, <1>4, <1>5, <1>7, <1>8, <1>9 DEF Packs

LEMMA PackKeeps ==
  ASSUME RangeInv, BackTyped, PackedInv, NEW w \in PackWarp, Pack(w)
  PROVE  PackedInv' /\ primNodeCount' \in Nat
<1>1. PICK f \in Nat, e \in Nat : \E end \in [f .. e -> Nat] : Packs(f, e, end)
  BY PackEffect
<1>2. PICK end \in [f .. e -> Nat] : Packs(f, e, end)
  BY <1>1
<1> DEFINE T == f .. e
           p == primNodeCount
           base(i) == Base(f, e, end, i)
<1>3. /\ kernel = "pack" /\ T \cap DOMAIN packed = {}
      /\ UNCHANGED <<ranges, kernel, slots, taskCount>>
      /\ \A i \in T : end[i] - base(i) \in NodesFor(slots[i])
      /\ primNodeCount' = end[e]
  BY <1>2 DEF Packs, vars
<1>4. taskCount \in Nat /\ p \in Nat
  BY DEF BackTyped
<1>5. /\ T \subseteq 0 .. taskCount - 1 /\ e \in T /\ f <= e
      /\ \A i \in T : i <= e /\ i \in Nat
  BY <1>2 DEF Packs
<1>6. \A i \in T : /\ i - 1 \in T => base(i) = end[i - 1]
                   /\ i - 1 \notin T => base(i) = p
  BY DEF Base
<1>12. /\ DOMAIN packed' = DOMAIN packed \cup T
       /\ \A i \in DOMAIN packed : packed'[i] = packed[i]
       /\ \A i \in T : packed'[i].task = slots[i] /\ packed'[i].nodes = base(i) .. end[i] - 1
  <2>1. /\ DOMAIN packed' = DOMAIN packed \cup T
        /\ \A i \in DOMAIN packed : packed'[i] = packed[i]
        /\ \A i \in T : packed'[i] = [task |-> slots[i], nodes |-> base(i) .. end[i] - 1]
    BY <1>2 DEF Packs
  <2>2. ASSUME NEW i \in T
        PROVE  packed'[i].task = slots[i] /\ packed'[i].nodes = base(i) .. end[i] - 1
    <3> DEFINE now == base(i) .. end[i] - 1
               t == slots[i]
               q == packed'[i]
    <3>1. q = [task |-> t, nodes |-> now]
      BY <2>1, <2>2
    <3> HIDE DEF now, t, q
    <3>2. q.task = t /\ q.nodes = now
      BY <3>1
    <3> QED BY <3>2 DEF now, t, q
  <2> QED BY <2>1, <2>2
<1> HIDE DEF p, base
<1>7. ASSUME NEW i \in T
      PROVE  base(i) \in Nat /\ end[i] \in Nat /\ base(i) <= end[i]
  <2>1. slots[i] \in ranges
    BY <1>3, <1>5 DEF PackedInv, Lists
  <2>2. NodesFor(slots[i]) \subseteq Nat
    BY <2>1, NodesForFacts DEF RangeInv
  <2>3. end[i] - base(i) \in Nat
    BY <1>3, <2>2
  <2>4. base(i) \in Nat /\ end[i] \in Nat
    BY <1>4, <1>6
  <2> QED BY <2>3, <2>4
<1>8. \A i, j \in T : i <= j => p <= end[i] /\ end[i] <= end[j]
  <2>1. \A i \in f .. e : IF i - 1 \in f .. e THEN end[i - 1] <= end[i] ELSE p <= end[i]
    BY <1>6, <1>7
  <2> QED BY <1>4, <2>1, EndsGrow
<1>9. ASSUME NEW i \in T
      PROVE  p <= base(i) /\ end[i] <= primNodeCount'
  <2>1. end[i] <= primNodeCount'
    BY <1>3, <1>5, <1>8
  <2>2. CASE i - 1 \in T
    BY <1>5, <1>6, <1>8, <2>1, <2>2
  <2>3. CASE i - 1 \notin T
    BY <1>4, <1>6, <2>1, <2>3
  <2> QED BY <2>2, <2>3
<1>10. ASSUME NEW i \in T, NEW j \in T, i < j
       PROVE  end[i] <= base(j)
  <2>1. j - 1 \in T /\ i <= j - 1
    BY <1>5, <1>10
  <2> QED BY <1>6, <1>8, <2>1
<1>11. primNodeCount' \in Nat /\ p <= primNodeCount'
  BY <1>3, <1>5, <1>7, <1>8
<1>13. /\ \A i \in DOMAIN packed : /\ i \in 0 .. taskCount - 1 /\ packed[i].task = slots[i]
                                   /\ packed[i].nodes \subseteq 0 .. p - 1
       /\ \A i, j \in DOMAIN packed : i # j => packed[i].nodes \cap packed[j].nodes = {}
  BY <1>3 DEF PackedInv, p
<1>14. ASSUME NEW i \in DOMAIN packed'
       PROVE  /\ i \in 0 .. taskCount - 1 /\ packed'[i].task = slots[i]
              /\ packed'[i].nodes \subseteq 0 .. primNodeCount' - 1
  <2>1. CASE i \in DOMAIN packed
    <3>1. 0 .. p - 1 \subseteq 0 .. primNodeCount' - 1
      <4> DEFINE q == primNodeCount'
      <4>1. p \in Nat /\ q \in Nat /\ p <= q
        BY <1>4, <1>11
      <4> HIDE DEF q
      <4>2. \A k \in 0 .. p - 1 : k \in 0 .. q - 1
        BY <4>1
      <4> QED BY <4>2 DEF q
    <3> QED BY <1>12, <1>13, <2>1, <3>1
  <2>2. CASE i \in T
    <3>1. base(i) .. end[i] - 1 \subseteq 0 .. primNodeCount' - 1
      BY <1>4, <1>7, <1>9, <1>11, <2>2
    <3> QED BY <1>5, <1>12, <2>2, <3>1
  <2> QED BY <1>12, <2>1, <2>2
<1>15. ASSUME NEW i \in DOMAIN packed', NEW j \in DOMAIN packed', i # j
       PROVE  packed'[i].nodes \cap packed'[j].nodes = {}
  <2>1. \A k \in T, m \in DOMAIN packed : packed'[k].nodes \cap packed'[m].nodes = {}
    <3> SUFFICES ASSUME NEW k \in T, NEW m \in DOMAIN packed
                 PROVE  (base(k) .. end[k] - 1) \cap packed[m].nodes = {}
      BY <1>12
    <3>1. (base(k) .. end[k] - 1) \cap (0 .. p - 1) = {}
      BY <1>4, <1>7, <1>9
    <3> QED BY <1>13, <3>1
  <2>2. ASSUME NEW k \in T, NEW m \in T, k < m
        PROVE  packed'[k].nodes \cap packed'[m].nodes = {}
    <3>1. (base(k) .. end[k] - 1) \cap (base(m) .. end[m] - 1) = {}
      BY <1>7, <1>10, <2>2
    <3> QED BY <1>12, <3>1
  <2>3. CASE i \in T /\ j \in T
    <3>1. i < j \/ j < i
      BY <1>5, <1>15, <2>3
    <3> QED BY <2>2, <2>3, <3>1
  <2>4. CASE i \in DOMAIN packed /\ j \in DOMAIN packed
    BY <1>12, <1>13, <1>15, <2>4
  <2> QED BY <1>12, <2>1, <2>3, <2>4
<1>16. Lists(taskCount, ranges)'
  BY <1>3 DEF PackedInv, Lists
<1> HIDE DEF Lists
<1> QED BY <1>3, <1>11, <1>14, <1>15, <1>16 DEF PackedInv

LEMMA BackTypedStep ==
  TaskInv /\ RangeInv /\ BackTyped /\ CompactInv /\ PackedInv /\ [BuildNext]_<<vars, packVars>> => BackTyped'
<1> SUFFICES ASSUME TaskInv, RangeInv, BackTyped, CompactInv, PackedInv, [BuildNext]_<<vars, packVars>>
             PROVE  BackTyped'
  OBVIOUS
<1>1. CASE StartBlock \/ \E s \in Subwarp : CollapseStep(s)
  <2>1. UNCHANGED packVars /\ BuildNext
    BY <1>1 DEF StartBlock, CollapseStep, BuildNext
  <2>2. Finished => Finished'
    BY <2>1, CollapseOver DEF Finished, vars
  <2> HIDE DEF Finished
  <2> QED BY <2>1, <2>2 DEF BackTyped, packVars
<1>2. CASE BackEnd
  <2>1. Finished' <=> Finished
    BY <1>2, BackEndQuiet DEF Finished, vars
  <2> HIDE DEF Finished
  <2>2. CASE LaunchCompact
    BY <2>1, <2>2 DEF LaunchCompact, BackTyped
  <2>3. ASSUME NEW w \in Warp, LoadSlots(w) PROVE BackTyped'
    BY <2>1, <2>3 DEF LoadSlots, BackTyped
  <2>4. ASSUME NEW w \in Warp, StoreTasks(w) PROVE BackTyped'
    <3>1. taskCount' \in Nat
      BY <2>4, StoreEffect
    <3> QED BY <2>1, <2>4, <3>1 DEF StoreTasks, BackTyped
  <2>5. CASE NextRound
    BY <2>1, <2>5 DEF NextRound, RoundDone, BackTyped
  <2>6. CASE LaunchPack
    BY <2>1, <2>6 DEF LaunchPack, RoundDone, BackTyped
  <2>7. ASSUME NEW w \in PackWarp, Pack(w) PROVE BackTyped'
    <3>1. primNodeCount' \in Nat
      BY <2>7, PackKeeps
    <3> QED BY <2>1, <2>7, <3>1 DEF Pack, BackTyped
  <2> QED BY <1>2, <2>2, <2>3, <2>4, <2>5, <2>6, <2>7 DEF BackEnd
<1>3. CASE Built \/ UNCHANGED <<vars, packVars>>
  BY <1>3, CompactFrame DEF Built
<1> QED BY <1>1, <1>2, <1>3 DEF BuildNext

LEMMA BackStep ==
  TaskInv /\ RangeInv /\ BackTyped /\ CompactInv /\ PackedInv /\ [BuildNext]_<<vars, packVars>>
    => CompactInv' /\ PackedInv'
<1> SUFFICES ASSUME TaskInv, RangeInv, BackTyped, CompactInv, PackedInv, [BuildNext]_<<vars, packVars>>
             PROVE  CompactInv' /\ PackedInv'
  OBVIOUS
<1>1. CASE StartBlock \/ \E s \in Subwarp : CollapseStep(s)
  <2>1. UNCHANGED packVars /\ BuildNext
    BY <1>1 DEF StartBlock, CollapseStep, BuildNext
  <2>2. CASE Finished
    BY <2>1, <2>2, CollapseOver, CompactFrame
  <2>3. CASE ~Finished
    BY <2>1, <2>3 DEF BackTyped, CompactInv, PackedInv, packVars
  <2> QED BY <2>2, <2>3
<1>2. CASE BackEnd
  <2>1. CASE LaunchCompact
    BY <2>1, LaunchKeeps DEF LaunchCompact, PackedInv
  <2>2. ASSUME NEW w \in Warp, LoadSlots(w) PROVE CompactInv' /\ PackedInv'
    BY <2>2, LoadKeeps DEF LoadSlots, PackedInv
  <2>3. ASSUME NEW w \in Warp, StoreTasks(w) PROVE CompactInv' /\ PackedInv'
    BY <2>3, StoreKeeps DEF StoreTasks, PackedInv
  <2>4. CASE NextRound
    BY <2>4, RoundKeeps DEF NextRound, RoundDone, PackedInv
  <2>5. CASE LaunchPack
    BY <2>5, LaunchPackKeeps DEF LaunchPack, CompactInv
  <2>6. ASSUME NEW w \in PackWarp, Pack(w) PROVE CompactInv' /\ PackedInv'
    BY <2>6, PackKeeps DEF Pack, CompactInv
  <2> QED BY <1>2, <2>1, <2>2, <2>3, <2>4, <2>5, <2>6 DEF BackEnd
<1>3. CASE Built \/ UNCHANGED <<vars, packVars>>
  BY <1>3, CompactFrame DEF Built
<1> QED BY <1>1, <1>2, <1>3 DEF BuildNext

(* A box node has the range its subwarp wrote when it built the node.      *)
GivenInv == \A a \in DOMAIN boxNodes : boxNodes[a].leaves # {} =>
  \E r \in ranges : /\ r.nodeAddr = a /\ r.refs = boxNodes[a].leaves
                    /\ r.rangeSize = Cardinality(boxNodes[a].leaves)

LEMMA GivenStep == TaskInv /\ GivenInv /\ [Next]_vars => GivenInv'
<1> SUFFICES ASSUME TaskInv, GivenInv, [Next]_vars PROVE GivenInv'
  OBVIOUS
<1>1. ASSUME NEW s \in Subwarp, Emit(s) PROVE GivenInv'
  <2> DEFINE addr == task[s].y
  <2>1. ranges' = IF Leaves(s) = {} THEN ranges ELSE ranges \cup {OwnRange(s)}
    BY <1>1, EmitOwn
  <2>2. /\ DOMAIN boxNodes' = DOMAIN boxNodes \cup {addr}
        /\ boxNodes'[addr].leaves = Leaves(s)
        /\ \A a \in DOMAIN boxNodes : a # addr => boxNodes'[a] = boxNodes[a]
    BY <1>1 DEF Emit
  <2>3. /\ OwnRange(s).nodeAddr = addr /\ OwnRange(s).refs = Leaves(s)
        /\ OwnRange(s).rangeSize = Cardinality(Leaves(s))
    BY DEF OwnRange
  <2> HIDE DEF addr, Leaves
  <2> SUFFICES ASSUME NEW a \in DOMAIN boxNodes', boxNodes'[a].leaves # {}
               PROVE  \E r \in ranges' : /\ r.nodeAddr = a /\ r.refs = boxNodes'[a].leaves
                                         /\ r.rangeSize = Cardinality(boxNodes'[a].leaves)
    BY DEF GivenInv
  <2>4. CASE a = addr
    BY <2>1, <2>2, <2>3, <2>4
  <2>5. CASE a # addr
    <3>1. a \in DOMAIN boxNodes /\ boxNodes'[a] = boxNodes[a]
      BY <2>2, <2>5
    <3> QED BY <2>1, <3>1 DEF GivenInv
  <2> QED BY <2>4, <2>5
<1>2. CASE UNCHANGED <<boxNodes, ranges>>
  BY <1>2 DEF GivenInv
<1> QED BY <1>1, <1>2 DEF Next, Dispatch, Step, Poll, LoadTask, Load, Retry, Claim, Publish,
                          Terminated, vars

(* Each box node with leaves is packed once, from its own range and into   *)
(* primitive nodes of its own, for any number of warps and lanes.          *)
THEOREM LeavesAlwaysPacked ==
  ASSUME MasksExact
  PROVE  BuildSpec => []LeavesPacked
<1> DEFINE All == TaskInv /\ RangeInv /\ GivenInv /\ BackTyped /\ CompactInv /\ PackedInv
<1>1. PackInit => All
  <2> SUFFICES ASSUME PackInit PROVE All
    OBVIOUS
  <2>1. TaskInv /\ ranges = {} /\ DOMAIN boxNodes = {}
    BY TaskInvInit DEF PackInit, Init
  <2> QED BY <2>1 DEF PackInit, RangeInv, GivenInv, BackTyped, CompactInv, PackedInv
<1>2. All => LeavesPacked
  <2> SUFFICES ASSUME PackedInv, GivenInv, PackDone PROVE LeavesPacked
    BY DEF LeavesPacked
  <2>1. DOMAIN packed = 0 .. taskCount - 1 /\ kernel = "pack"
    BY DEF PackDone
  <2>2. Lists(taskCount, ranges) /\ \A i \in DOMAIN packed : packed[i].task = slots[i]
    BY <2>1 DEF PackedInv
  <2>3. {packed[i].task : i \in DOMAIN packed} = ranges
    BY <2>1, <2>2 DEF Lists
  <2>4. \A i, j \in DOMAIN packed : packed[i].task = packed[j].task => i = j
    BY <2>1, <2>2 DEF Lists
  <2>5. \A i, j \in DOMAIN packed : i # j => packed[i].nodes \cap packed[j].nodes = {}
    BY <2>1 DEF PackedInv
  <2>6. ASSUME NEW a \in DOMAIN boxNodes, boxNodes[a].leaves # {}
        PROVE  \E i \in DOMAIN packed : /\ PackedFor(i, a)
                                        /\ packed[i].task.rangeSize = Cardinality(boxNodes[a].leaves)
    <3>1. PICK r \in ranges : /\ r.nodeAddr = a /\ r.refs = boxNodes[a].leaves
                              /\ r.rangeSize = Cardinality(boxNodes[a].leaves)
      BY <2>6 DEF GivenInv
    <3>2. PICK i \in DOMAIN packed : packed[i].task = r
      BY <2>3
    <3> QED BY <3>1, <3>2 DEF PackedFor
  <2> QED BY <2>3, <2>4, <2>5, <2>6 DEF LeavesPacked
<1>3. All /\ [BuildNext]_<<vars, packVars>> => All'
  BY TaskInvStep, RangeStep, GivenStep, BuildIsNext, BackTypedStep, BackStep
<1> HIDE DEF All
<1> QED BY <1>1, <1>2, <1>3, PTL DEF BuildSpec
-----------------------------------------------------------------------------
(* The nodes that n references can take at most; and, as pairs, those that *)
(* the leaves of some subwarps can take.                                   *)
Most(n) == IF Packets THEN DivideRoundUp(n, MinPairs) ELSE n

sizes == [a \in Subwarp |-> Cardinality(Leaves(a))]

Units(A, size) == {u \in A \X (1 .. referenceCount) : u[2] <= Most(size[u[1]])}

(* A packet of the code always holds two pairs (BvhNode.h), a fat leaf of  *)
(* the code up to four references (BvhConfig.h).  With three or more, a    *)
(* box node other than the root takes at most two thirds of a primitive    *)
(* node for each of its references and one third for each of its internal  *)
(* children but one.                                                       *)
CodeSizes == Packets => MinPairs = 2 /\ MaxFatLeafSize >= 3

SpendInv ==
  /\ \A s \in Subwarp : front[s] # {} => s \in Opened
  /\ \A r \in ranges : r.nodeAddr \in Subwarp /\ r.rangeSize = Cardinality(Leaves(r.nodeAddr))
  /\ \A a \in Pending : a = 0 \/ laneTask[a].x \in Internal
  /\ Packets => 3 * Cardinality(Units(Subwarp, sizes)) + 2 * Cardinality(Held)
                  + (IF 0 \in Pending THEN 1 ELSE 0) <= 2 * referenceCount + Cardinality(Pending)
  /\ ~Packets => Cardinality(Units(Subwarp, sizes)) + Cardinality(Held) <= referenceCount

PackedAddrs == {packed[i].task.nodeAddr : i \in DOMAIN packed}

SpentInv ==
  /\ kernel # "pack" => primNodeCount = 0
  /\ primNodeCount <= Cardinality(Units(PackedAddrs, sizes))

LEMMA MostFacts ==
  ASSUME CodeSizes
  PROVE  /\ \A n \in Nat : Most(n) \in Nat /\ Most(n) <= n
         /\ Most(0) = 0
         /\ Packets => \A n, k \in Nat :
              /\ (k = 0 => n >= 4) /\ (k = 1 => n >= 3) => 3 * Most(n) <= 2 * n + k - 1
              /\ (k = 0 => n >= 2) => 3 * Most(n) <= 2 * n + k
<1>1. CASE Packets
  <2>1. \A n : Most(n) = (n + 1) \div 2
    BY <1>1 DEF Most, CodeSizes, DivideRoundUp
  <2>2. \A n \in Nat : /\ (n + 1) \div 2 \in Nat
                       /\ n <= 2 * ((n + 1) \div 2) /\ 2 * ((n + 1) \div 2) <= n + 1
    BY SMT
  <2>3. \A n \in Nat : Most(n) \in Nat /\ 2 * Most(n) <= n + 1
    BY <2>1, <2>2
  <2> HIDE DEF Most
  <2>4. ASSUME NEW n \in Nat
        PROVE  /\ Most(n) <= n
               /\ 3 * Most(n) <= 2 * n + 1
               /\ n >= 2 => 3 * Most(n) <= 2 * n
               /\ n >= 4 => 3 * Most(n) <= 2 * n - 1
    <3> DEFINE m == Most(n)
    <3>1. m \in Nat /\ 2 * m <= n + 1
      BY <2>3
    <3> HIDE DEF m
    <3>2. m <= n /\ 3 * m <= 2 * n + 1 /\ (n >= 2 => 3 * m <= 2 * n) /\ (n >= 4 => 3 * m <= 2 * n - 1)
      BY <3>1
    <3> QED BY <3>2 DEF m
  <2>5. Most(0) = 0
    BY <2>3, <2>4
  <2>6. ASSUME NEW n \in Nat, NEW k \in Nat
        PROVE  /\ (k = 0 => n >= 4) /\ (k = 1 => n >= 3) => 3 * Most(n) <= 2 * n + k - 1
               /\ (k = 0 => n >= 2) => 3 * Most(n) <= 2 * n + k
    <3> DEFINE m == Most(n)
    <3>1. /\ m \in Nat /\ 3 * m <= 2 * n + 1
          /\ n >= 2 => 3 * m <= 2 * n
          /\ n >= 4 => 3 * m <= 2 * n - 1
      BY <2>3, <2>4
    <3> HIDE DEF m
    <3>2. /\ (k = 0 => n >= 4) /\ (k = 1 => n >= 3) => 3 * m <= 2 * n + k - 1
          /\ (k = 0 => n >= 2) => 3 * m <= 2 * n + k
      BY <3>1
    <3> QED BY <3>2 DEF m
  <2> QED BY <1>1, <2>3, <2>4, <2>5, <2>6
<1>2. CASE ~Packets
  BY <1>2 DEF Most
<1> QED BY <1>1, <1>2

LEMMA SizesType == TypeOK => sizes \in [Subwarp -> 0 .. referenceCount]
<1> SUFFICES ASSUME TypeOK, NEW a \in Subwarp PROVE Cardinality(Leaves(a)) \in 0 .. referenceCount
  BY DEF sizes
<1>1. Leaves(a) \subseteq Ref /\ IsFiniteSet(Leaves(a))
  BY LeavesFinite
<1> HIDE DEF Leaves
<1>2. /\ Cardinality(Leaves(a)) \in Nat /\ Cardinality(Leaves(a)) <= referenceCount
      /\ referenceCount \in Nat
  BY <1>1, TreeAssumption, FS_Subset, FS_CardinalityType DEF referenceCount
<1> HIDE DEF referenceCount
<1> QED BY <1>2

LEMMA UnitsFacts ==
  ASSUME CodeSizes, NEW size \in [Subwarp -> 0 .. referenceCount]
  PROVE  /\ \A A \in SUBSET Subwarp : IsFiniteSet(Units(A, size)) /\ Cardinality(Units(A, size)) \in Nat
         /\ \A A, B \in SUBSET Subwarp :
              A \subseteq B => Cardinality(Units(A, size)) <= Cardinality(Units(B, size))
         /\ \A A \in SUBSET Subwarp : \A a \in Subwarp \ A :
              Cardinality(Units(A \cup {a}, size)) = Cardinality(Units(A, size)) + Most(size[a])
<1>1. \A a \in Subwarp : size[a] \in Nat /\ size[a] <= referenceCount
  BY TreeAssumption, FS_CardinalityType DEF referenceCount
<1>2. IsFiniteSet(Subwarp) /\ referenceCount \in Nat /\ IsFiniteSet(1 .. referenceCount)
  <2>1. referenceCount \in Nat /\ BlockCount * BlockTasks \in Nat
    BY TreeAssumption, FS_CardinalityType, SizesInNat, SizeAssumption DEF referenceCount
  <2> HIDE DEF referenceCount
  <2>2. IsFiniteSet(1 .. referenceCount)
    BY <2>1, FS_Interval
  <2>3. IsFiniteSet(0 .. BlockCount * BlockTasks - 1)
    BY <2>1, FS_Interval
  <2> QED BY <2>1, <2>2, <2>3 DEF Subwarp
<1>3. ASSUME NEW A \in SUBSET Subwarp
      PROVE  IsFiniteSet(Units(A, size)) /\ Cardinality(Units(A, size)) \in Nat
  <2>1. IsFiniteSet(A)
    BY <1>2, FS_Subset
  <2>2. IsFiniteSet(A \X (1 .. referenceCount))
    BY <1>2, <2>1, FS_Product
  <2>3. IsFiniteSet(Units(A, size))
    BY <2>2, FS_Subset DEF Units
  <2> QED BY <2>3, FS_CardinalityType
<1>4. ASSUME NEW A \in SUBSET Subwarp, NEW B \in SUBSET Subwarp, A \subseteq B
      PROVE  Cardinality(Units(A, size)) <= Cardinality(Units(B, size))
  <2>1. Units(A, size) \in SUBSET Units(B, size)
    BY <1>4 DEF Units
  <2> QED BY <1>3, <2>1, FS_Subset
<1>5. ASSUME NEW A \in SUBSET Subwarp, NEW a \in Subwarp \ A
      PROVE  Cardinality(Units(A \cup {a}, size)) = Cardinality(Units(A, size)) + Most(size[a])
  <2> DEFINE m == Most(size[a])
             S == {a} \X (1 .. m)
  <2>1. m \in Nat /\ m <= referenceCount
    BY <1>1, <1>2, MostFacts
  <2>2. IsFiniteSet(S) /\ Cardinality(S) = m
    <3> HIDE DEF m
    <3>1. IsFiniteSet(1 .. m) /\ Cardinality(1 .. m) = m
      BY <2>1, FS_Interval
    <3>2. IsFiniteSet({a}) /\ Cardinality({a}) = 1
      BY FS_Singleton
    <3>3. IsFiniteSet(S) /\ Cardinality(S) = 1 * m
      BY <3>1, <3>2, FS_Product
    <3> QED BY <2>1, <3>3
  <2>3. \A q : q \in 1 .. referenceCount /\ q <= m <=> q \in 1 .. m
    <3> HIDE DEF m
    <3> QED BY <1>2, <2>1
  <2>4. Units(A \cup {a}, size) = Units(A, size) \cup S /\ Units(A, size) \cap S = {}
    <3>1. \A u : u \in Units(A \cup {a}, size) <=> u \in Units(A, size) \/ u \in S
      <4> SUFFICES ASSUME NEW u PROVE u \in Units(A \cup {a}, size) <=> u \in Units(A, size) \/ u \in S
        OBVIOUS
      <4>1. u \in S <=> u \in {a} \X (1 .. referenceCount) /\ u[2] <= m
        <5> HIDE DEF m
        <5> QED BY <2>3
      <4>2. u \in S => u[1] = a
        OBVIOUS
      <4>3. u \in (A \cup {a}) \X (1 .. referenceCount) <=>
              u \in A \X (1 .. referenceCount) \/ u \in {a} \X (1 .. referenceCount)
        OBVIOUS
      <4>4. u \in {a} \X (1 .. referenceCount) => u[1] = a
        OBVIOUS
      <4> HIDE DEF S
      <4> QED BY <4>1, <4>2, <4>3, <4>4 DEF Units, m
    <3>2. \A u \in Units(A, size) : u \notin S
      BY DEF Units
    <3> HIDE DEF S
    <3> QED BY <3>1, <3>2
  <2> HIDE DEF S, m
  <2>5. Cardinality(Units(A, size) \cap S) = 0
    BY <2>4, FS_EmptySet
  <2>6. Cardinality(Units(A, size) \cup S) = Cardinality(Units(A, size)) + Cardinality(S) - Cardinality(Units(A, size) \cap S)
    BY <1>3, <2>2, FS_Union
  <2>7. Cardinality(Units(A, size)) \in Nat
    BY <1>3
  <2>8. Cardinality(Units(A \cup {a}, size)) = Cardinality(Units(A, size)) + m
    <3>1. Cardinality(Units(A \cup {a}, size)) = Cardinality(Units(A, size) \cup S)
      BY <2>4
    <3> HIDE DEF Units
    <3> QED BY <2>1, <2>2, <2>5, <2>6, <2>7, <3>1
  <2> QED BY <2>8 DEF m
<1> HIDE DEF Units, Most, referenceCount
<1> QED BY <1>3, <1>4, <1>5

(* A claim settles what the references of one more node can take.          *)
LEMMA SpendClaim ==
  ASSUME CodeSizes, TaskInv, NestInv, RangeInv, SpendInv, NEW s \in Subwarp, Claim(s)
  PROVE  SpendInv'
<1>a. PICK F \in Fronts[laneTask[s].x] :
        \E child \in Bijection(NewAddrs(F), F \cap Internal) : Opens(s, F, child)
  BY ClaimEffect
<1>b. PICK child \in Bijection(NewAddrs(F), F \cap Internal) : Opens(s, F, child)
  BY <1>a
<1> DEFINE n == laneTask[s].x
           leaf == UNION (F \ Internal)
           l == Cardinality(leaf)
           k == Cardinality(F \cap Internal)
           U == Cardinality(Units(Subwarp, sizes))
           H == Cardinality(Held)
           P == Cardinality(Pending)
<1>1. /\ s \in Pending /\ s \in DOMAIN laneTask /\ F \subseteq Node
      /\ \A a \in DOMAIN laneTask : laneTask'[a] = laneTask[a]
      /\ \A a \in NewAddrs(F) : laneTask'[a].x \in Internal /\ a # 0
      /\ Pending' = (Pending \ {s}) \cup NewAddrs(F)
      /\ front' = [front EXCEPT ![s] = F]
  <2>1. \A a \in NewAddrs(F) : a # 0
    BY DEF NewAddrs, TaskInv, WordInv, TypeOK
  <2>2. \A a \in NewAddrs(F) : laneTask'[a].x = child[a] /\ child[a] \in F \cap Internal
    BY <1>b DEF Opens
  <2> QED BY <1>b, <2>1, <2>2 DEF Opens
<1>2. /\ pc' = [pc EXCEPT ![s] = "publish"] /\ UNCHANGED <<boxNodes, ranges>>
      /\ pc \in [Subwarp -> {"queued", "poll", "loadx", "loady", "loadz", "check", "publish", "done"}]
      /\ front \in [Subwarp -> SUBSET Node]
  BY DEF Claim, TaskInv, WordInv, TypeOK
<1>3. s \notin Opened /\ front[s] = {} /\ Pending \subseteq DOMAIN laneTask
  BY <1>1 DEF Pending, SpendInv
<1>4. Leaves(s) = {} /\ Leaves(s)' = leaf /\ \A t \in Subwarp \ {s} : Leaves(t)' = Leaves(t)
  <2>1. {c \in F : FatLeaf(c)} = F \ Internal
    BY <1>1 DEF Internal
  <2>2. front'[s] = F /\ \A t \in Subwarp \ {s} : front'[t] = front[t]
    BY <1>1, <1>2
  <2>3. Leaves(s)' = leaf
    BY <2>1, <2>2 DEF Leaves
  <2>4. Leaves(s) = {}
    BY <1>3 DEF Leaves
  <2> QED BY <2>2, <2>3, <2>4 DEF Leaves
<1>5. /\ IsFiniteSet(Pending) /\ IsFiniteSet(Held) /\ IsFiniteSet(leaf)
      /\ Cardinality(Pending') = P - 1 + k
      /\ Cardinality(Held') = H - l
  BY <1>b, ClaimCounts
<1>6. n \in Node /\ n \in Large /\ (s = 0 \/ n \in Internal) /\ IsFiniteSet(n) /\ Cardinality(n) \in Nat
  BY <1>1, NodeFinite, FS_CardinalityType DEF NestInv, Large, SpendInv
<1>7. /\ k \in Nat /\ l \in Nat /\ P \in Nat /\ H \in Nat /\ referenceCount \in Nat
      /\ k = 0 => l = Cardinality(n)
      /\ k > 0 => l >= BranchingFactor - k
  <2>1. /\ Cardinality(F \cap Internal) \in Nat
        /\ F \cap Internal = {} => leaf = n
        /\ F \cap Internal # {} => Cardinality(F \cap Internal) \in 1 .. BranchingFactor
                                   /\ Cardinality(leaf) >= BranchingFactor - Cardinality(F \cap Internal)
    BY <1>6, FrontBudget
  <2>2. F \cap Internal = {} => Cardinality(F \cap Internal) = 0
    BY FS_EmptySet
  <2>3. P \in Nat /\ H \in Nat /\ l \in Nat /\ referenceCount \in Nat
    BY <1>5, TreeAssumption, FS_CardinalityType DEF referenceCount
  <2> HIDE DEF leaf
  <2> QED BY <2>1, <2>2, <2>3, SizeAssumption
<1>8. U \in Nat /\ Cardinality(Units(Subwarp, sizes)') = U + Most(l)
  <2> DEFINE A == Subwarp \ {s}
             old == sizes
             now == sizes'
  <2>1. /\ old \in [Subwarp -> 0 .. referenceCount] /\ now \in [Subwarp -> 0 .. referenceCount]
        /\ \A t \in A : now[t] = old[t]
        /\ old[s] = 0 /\ now[s] = l
    <3>1. old \in [Subwarp -> 0 .. referenceCount]
      BY SizesType DEF TaskInv, WordInv
    <3>2. l \in 0 .. referenceCount
      <4>1. leaf \in SUBSET Ref
        BY <1>1, NodeFinite
      <4>2. l <= referenceCount
        BY <4>1, TreeAssumption, FS_Subset DEF referenceCount
      <4> QED BY <1>7, <4>2
    <3>3. now = [t \in Subwarp |-> Cardinality(Leaves(t)')]
      BY DEF sizes
    <3>4. Cardinality(Leaves(s)) = 0
      BY <1>4, FS_EmptySet
    <3>5. /\ \A t \in Subwarp : old[t] = Cardinality(Leaves(t)) /\ now[t] = Cardinality(Leaves(t)')
      BY DEF sizes
    <3>6. old[s] = 0 /\ now[s] = l /\ \A t \in A : now[t] = old[t]
      BY <1>4, <3>4, <3>5
    <3> HIDE DEF l, old
    <3>7. now \in [Subwarp -> 0 .. referenceCount]
      <4>1. \A t \in Subwarp : now[t] \in 0 .. referenceCount
        BY <3>1, <3>2, <3>6
      <4> QED BY <3>3, <4>1
    <3> QED BY <3>1, <3>6, <3>7
  <2>2. A \in SUBSET Subwarp /\ s \in Subwarp \ A /\ A \cup {s} = Subwarp
    OBVIOUS
  <2> HIDE DEF A, old, now
  <2>3. Cardinality(Units(Subwarp, old)) = Cardinality(Units(A, old)) + 0
    BY <2>1, <2>2, UnitsFacts, MostFacts
  <2>4. Cardinality(Units(Subwarp, now)) = Cardinality(Units(A, now)) + Most(l)
    BY <2>1, <2>2, UnitsFacts
  <2>5. Units(A, now) = Units(A, old)
    BY <2>1 DEF Units
  <2>6. Cardinality(Units(A, old)) \in Nat
    BY <2>1, <2>2, UnitsFacts
  <2>7. Units(Subwarp, sizes)' = Units(Subwarp, now) /\ Units(Subwarp, sizes) = Units(Subwarp, old)
    BY DEF Units, old, now
  <2> QED BY <2>3, <2>4, <2>5, <2>6, <2>7
<1>9. U \in Nat /\ H \in Nat /\ P \in Nat /\ Most(l) \in Nat /\ Most(l) <= l
  BY <1>7, <1>8, MostFacts
<1>10. ASSUME Packets
       PROVE  3 * Cardinality(Units(Subwarp, sizes)') + 2 * Cardinality(Held')
                + (IF 0 \in Pending' THEN 1 ELSE 0) <= 2 * referenceCount + Cardinality(Pending')
  <2>1. MaxFatLeafSize >= 3 /\ BranchingFactor >= 4
    BY <1>10, SizeAssumption DEF CodeSizes
  <2>2. 3 * U + 2 * H + (IF 0 \in Pending THEN 1 ELSE 0) <= 2 * referenceCount + P
    BY <1>10 DEF SpendInv
  <2>3. 0 \in Pending' <=> 0 \in Pending /\ s # 0
    BY <1>1
  <2>4. CASE s = 0
    <3>1. k = 0 => l >= 2
      BY <1>6, <1>7 DEF Large
    <3>2. 3 * Most(l) <= 2 * l + k
      BY <1>7, <1>10, <3>1, MostFacts
    <3>3. 0 \in Pending /\ 0 \notin Pending'
      BY <1>1, <2>3, <2>4
    <3> HIDE DEF U, H, P, l, k
    <3> QED BY <1>5, <1>7, <1>8, <1>9, <2>2, <3>2, <3>3
  <2>5. CASE s # 0
    <3>1. n \in Internal
      BY <1>6, <2>5
    <3>2. Cardinality(n) >= 4
      BY <1>6, <2>1, <3>1, SizeAssumption DEF Internal, FatLeaf
    <3>3. (k = 0 => l >= 4) /\ (k = 1 => l >= 3)
      BY <1>7, <2>1, <3>2, SizeAssumption
    <3>4. 3 * Most(l) <= 2 * l + k - 1
      BY <1>7, <1>10, <3>3, MostFacts
    <3>5. 0 \in Pending' <=> 0 \in Pending
      BY <2>3, <2>5
    <3> HIDE DEF U, H, P, l, k
    <3> QED BY <1>5, <1>7, <1>8, <1>9, <2>2, <3>4, <3>5
  <2> QED BY <2>4, <2>5
<1>11. ASSUME ~Packets
       PROVE  Cardinality(Units(Subwarp, sizes)') + Cardinality(Held') <= referenceCount
  <2>1. U + H <= referenceCount
    BY <1>11 DEF SpendInv
  <2> HIDE DEF U, H, l
  <2> QED BY <1>5, <1>7, <1>8, <1>9, <2>1
<1>12. ASSUME NEW t \in Subwarp, front'[t] # {} PROVE t \in Opened'
  <2>1. s \in Opened'
    BY <1>2 DEF Opened
  <2>2. Opened \subseteq Opened'
    BY <1>2 DEF Opened
  <2>3. t # s => front[t] # {}
    BY <1>1, <1>2, <1>12
  <2> QED BY <2>1, <2>2, <2>3 DEF SpendInv
<1>13. ASSUME NEW r \in ranges
       PROVE  r.nodeAddr \in Subwarp /\ r.rangeSize = Cardinality(Leaves(r.nodeAddr)')
  <2>1. r.nodeAddr \in Opened
    BY DEF RangeInv, Opened
  <2>2. r.nodeAddr \in Subwarp \ {s} /\ r.rangeSize = Cardinality(Leaves(r.nodeAddr))
    BY <1>3, <2>1 DEF SpendInv
  <2> QED BY <1>4, <2>2
<1>14. \A a \in Pending' : a = 0 \/ laneTask'[a].x \in Internal
  BY <1>1, <1>3 DEF SpendInv
<1>15. \A r \in ranges' : r.nodeAddr \in Subwarp /\ r.rangeSize = Cardinality(Leaves(r.nodeAddr))'
  BY <1>2, <1>13
<1> HIDE DEF Units, Leaves, Held, Pending, Opened
<1> QED BY <1>10, <1>11, <1>12, <1>14, <1>15 DEF SpendInv

LEMMA SpendStep ==
  CodeSizes /\ TaskInv /\ NestInv /\ RangeInv /\ SpendInv /\ [Next]_vars => SpendInv'
<1> SUFFICES ASSUME CodeSizes, TaskInv, NestInv, RangeInv, SpendInv, [Next]_vars,
                    \A s \in Subwarp : ~Claim(s)
             PROVE  SpendInv'
  BY SpendClaim
<1>1. laneTask' = laneTask /\ Pending' = Pending
  BY PendingFrame
<1>2. ASSUME NEW s \in Subwarp, Emit(s)
      PROVE  /\ front' = front /\ Opened' = Opened
             /\ \A r \in ranges' : r.nodeAddr \in Subwarp /\ r.rangeSize = Cardinality(Leaves(r.nodeAddr))
  <2>1. pc[s] = "publish" /\ task[s].y = s
    BY <1>2, ValidTask DEF Emit, TaskInv, WordInv, PublishInv
  <2>2. front' = front /\ Opened' = Opened
    BY <1>2, <2>1 DEF Emit, Opened, TaskInv, WordInv, TypeOK
  <2>3. ASSUME NEW r \in ranges'
        PROVE  r \in ranges \/ (r.nodeAddr = s /\ r.rangeSize = Cardinality(Leaves(s)))
    <3> DEFINE new == OwnRange(s)
    <3>1. ranges' = ranges \/ ranges' = ranges \cup {new}
      BY <1>2, EmitOwn
    <3>2. new.nodeAddr = s /\ new.rangeSize = Cardinality(Leaves(s))
      BY <2>1 DEF OwnRange
    <3>3. \A q \in ranges \cup {new} : q \in ranges \/ q = new
      OBVIOUS
    <3> HIDE DEF new
    <3>4. r \in ranges \/ r = new
      BY <2>3, <3>1, <3>3
    <3>5. CASE r = new
      <4> HIDE DEF Leaves
      <4> QED BY <3>2, <3>5
    <3> HIDE DEF Leaves
    <3> QED BY <3>4, <3>5
  <2> QED BY <2>2, <2>3 DEF SpendInv
<1>3. ASSUME \A s \in Subwarp : ~Emit(s)
      PROVE  front' = front /\ Opened' = Opened /\ ranges' = ranges
  <2>1. front' = front /\ Opened' = Opened
    BY <1>3, QuietFrame DEF Opened
  <2>2. ranges' = ranges
    BY <1>3 DEF Next, Step, Terminated, vars, Dispatch, Poll, AllEmitted, LoadTask, Load, Retry, Publish
  <2> QED BY <2>1, <2>2
<1>4. /\ front' = front /\ Opened' = Opened
      /\ \A r \in ranges' : r.nodeAddr \in Subwarp /\ r.rangeSize = Cardinality(Leaves(r.nodeAddr))
  BY <1>2, <1>3 DEF SpendInv
<1>5. Held' = Held /\ sizes' = sizes /\ \A s : Leaves(s)' = Leaves(s)
  BY <1>1, <1>4 DEF Held, sizes, Leaves
<1>6. Units(Subwarp, sizes)' = Units(Subwarp, sizes)
  BY <1>5 DEF Units
<1> HIDE DEF Held, Pending, Opened, Units, Leaves, sizes
<1> QED BY <1>1, <1>4, <1>5, <1>6 DEF SpendInv

LEMMA SpendInit == CodeSizes /\ Init => SpendInv
<1> SUFFICES ASSUME CodeSizes, Init PROVE SpendInv
  OBVIOUS
<1>1. Pending = {0} /\ Held = Ref
  BY DEF Init, Pending, Opened, RootTask, Held
<1>2. Cardinality(Ref) = referenceCount /\ referenceCount \in Nat
  BY TreeAssumption, FS_CardinalityType DEF referenceCount
<1>3. Units(Subwarp, sizes) = {}
  <2>1. \A a \in Subwarp : sizes[a] = 0
    BY FS_EmptySet DEF Init, sizes, Leaves
  <2>2. \A u \in Subwarp \X (1 .. referenceCount) : ~(u[2] <= Most(sizes[u[1]]))
    BY <1>2, <2>1, MostFacts
  <2> QED BY <2>2 DEF Units
<1>4. Cardinality(Units(Subwarp, sizes)) = 0 /\ Cardinality(Pending) = 1
  BY <1>1, <1>3, FS_EmptySet, FS_Singleton
<1>5. /\ \A s \in Subwarp : front[s] = {}
      /\ ranges = {}
  BY DEF Init
<1> HIDE DEF Held, Pending, Units, sizes, referenceCount
<1> QED BY <1>1, <1>2, <1>4, <1>5 DEF SpendInv

(* The tasks of a warp, from f to e, take no more nodes than counted for   *)
(* their leaves; A has the subwarps whose leaves are packed.               *)
Spends(size, p, f, e, end, addr, A) ==
  /\ size \in [Subwarp -> 0 .. referenceCount]
  /\ p \in Nat /\ f \in Nat /\ e \in Nat /\ end \in [f .. e -> Nat]
  /\ addr \in [f .. e -> Subwarp] /\ \A i, j \in f .. e : addr[i] = addr[j] => i = j
  /\ A \in SUBSET Subwarp /\ \A i \in f .. e : addr[i] \notin A
  /\ p <= Cardinality(Units(A, size))
  /\ \A i \in f .. e :
       end[i] <= (IF i - 1 \in f .. e THEN end[i - 1] ELSE p) + Most(size[addr[i]])

LEMMA EndsSpend ==
  ASSUME CodeSizes, NEW size, NEW p, NEW f, NEW e, NEW end, NEW addr, NEW A,
         Spends(size, p, f, e, end, addr, A)
  PROVE  \A j \in f .. e : end[j] <= Cardinality(Units(A \cup {addr[i] : i \in f .. j}, size))
<1> DEFINE upto(j) == A \cup {addr[i] : i \in f .. j}
           U == {j \in f .. e : ~(end[j] <= Cardinality(Units(upto(j), size)))}
<1>a. /\ size \in [Subwarp -> 0 .. referenceCount] /\ p \in Nat /\ f \in Nat /\ e \in Nat
      /\ end \in [f .. e -> Nat] /\ addr \in [f .. e -> Subwarp] /\ A \in SUBSET Subwarp
      /\ \A i, j \in f .. e : addr[i] = addr[j] => i = j
      /\ \A i \in f .. e : addr[i] \notin A
      /\ p <= Cardinality(Units(A, size))
      /\ \A i \in f .. e :
           end[i] <= (IF i - 1 \in f .. e THEN end[i - 1] ELSE p) + Most(size[addr[i]])
  BY DEF Spends
<1> USE <1>a
<1>1. SUFFICES ASSUME U # {} PROVE FALSE
  OBVIOUS
<1>2. U \in SUBSET Nat
  <2>1. \A k \in f .. e : k \in Nat
    OBVIOUS
  <2> QED BY <2>1
<1>3. PICK j \in U : \A m \in U : j <= m
  BY <1>1, <1>2, LeastOne
<1>4. j \in f .. e /\ j - 1 \in Int
  BY <1>3
<1> DEFINE B == upto(j - 1)
<1>5. upto(j) = B \cup {addr[j]} /\ B \in SUBSET Subwarp /\ addr[j] \in Subwarp \ B
  <2>1. /\ f .. j = (f .. j - 1) \cup {j}
        /\ j \notin f .. j - 1 /\ \A i \in f .. j - 1 : i \in f .. e
    BY <1>4
  <2>2. {addr[i] : i \in f .. j} = {addr[i] : i \in f .. j - 1} \cup {addr[j]}
    BY <2>1
  <2>3. \A i \in f .. j - 1 : addr[i] # addr[j] /\ addr[i] \in Subwarp
    BY <1>4, <2>1
  <2> QED BY <1>4, <2>2, <2>3
<1> DEFINE c == Cardinality(Units(B, size))
           d == Most(size[addr[j]])
           base == IF j - 1 \in f .. e THEN end[j - 1] ELSE p
<1>6. Cardinality(Units(upto(j), size)) = c + d /\ c \in Nat
  BY <1>5, UnitsFacts
<1>7. base <= c
  <2>1. CASE j - 1 \in f .. e
    <3>1. ~(j <= j - 1)
      BY <1>4
    <3>2. j - 1 \notin U
      BY <1>3, <3>1
    <3> HIDE DEF B, upto, U
    <3> QED BY <2>1, <3>2 DEF B, U
  <2>2. CASE j - 1 \notin f .. e
    <3>1. f .. j - 1 = {}
      BY <1>4, <2>2
    <3>2. B = A
      BY <3>1
    <3> QED BY <2>2, <3>2
  <2> QED BY <2>1, <2>2
<1>8. end[j] <= base + d /\ end[j] \in Nat /\ base \in Nat /\ d \in Nat
  <2>1. addr[j] \in Subwarp /\ size[addr[j]] \in Nat
    BY <1>4, <1>5, TreeAssumption, FS_CardinalityType DEF referenceCount
  <2> QED BY <1>4, <2>1, MostFacts
<1>9. ~(end[j] <= c + d)
  BY <1>3, <1>6
<1> HIDE DEF c, d, base
<1> QED BY <1>6, <1>7, <1>8, <1>9

LEMMA NodesAtMost ==
  ASSUME NEW r, r.rangeSize \in Nat
  PROVE  \A x \in NodesFor(r) : x \in Nat /\ x <= Most(r.rangeSize)
<1>1. NodesFor(r) \subseteq Nat
  BY NodesForFacts
<1>2. CASE Packets
  <2> DEFINE lo == DivideRoundUp(r.rangeSize, MaxPairs)
             hi == DivideRoundUp(r.rangeSize, MinPairs)
  <2>1. lo \in Nat /\ hi \in Nat
    BY PackAssumption, RoundsUp
  <2>2. NodesFor(r) = lo .. hi /\ Most(r.rangeSize) = hi
    BY <1>2 DEF NodesFor, Most
  <2> HIDE DEF lo, hi
  <2> QED BY <2>1, <2>2
<1>3. CASE ~Packets
  BY <1>3 DEF NodesFor, Most
<1> QED BY <1>1, <1>2, <1>3

LEMMA SpentPack ==
  ASSUME CodeSizes, TaskInv, RangeInv, BackTyped, PackedInv, SpendInv, SpentInv,
         NEW w \in PackWarp, Pack(w)
  PROVE  SpentInv'
<1>1. PICK f \in Nat, e \in Nat : \E end \in [f .. e -> Nat] : Packs(f, e, end)
  BY PackEffect
<1>2. PICK end \in [f .. e -> Nat] : Packs(f, e, end)
  BY <1>1
<1> DEFINE T == f .. e
           base(i) == Base(f, e, end, i)
           addr == [i \in T |-> slots[i].nodeAddr]
<1>3. /\ f <= e /\ T \subseteq 0 .. taskCount - 1 /\ T \cap DOMAIN packed = {}
      /\ kernel = "pack" /\ kernel' = "pack" /\ UNCHANGED vars
      /\ DOMAIN packed' = DOMAIN packed \cup T
      /\ \A i \in DOMAIN packed : packed'[i] = packed[i]
      /\ primNodeCount' = end[e]
  BY <1>2 DEF Packs
<1>4. ASSUME NEW i \in T
      PROVE  packed'[i].task = slots[i]
  <2> DEFINE now == base(i) .. end[i] - 1
             t == slots[i]
             q == packed'[i]
  <2>1. q = [task |-> t, nodes |-> now]
    BY <1>2 DEF Packs
  <2> HIDE DEF now, t, q
  <2>2. q.task = t
    BY <2>1
  <2> QED BY <2>2 DEF t, q
<1>5. Lists(taskCount, ranges) /\ \A i \in DOMAIN packed : i \in 0 .. taskCount - 1 /\ packed[i].task = slots[i]
  BY <1>3 DEF PackedInv
<1>6. \A i \in 0 .. taskCount - 1 :
        /\ slots[i] \in ranges /\ slots[i].nodeAddr \in Subwarp /\ slots[i].rangeSize \in Nat
        /\ slots[i].rangeSize = Cardinality(Leaves(slots[i].nodeAddr))
  BY <1>5 DEF Lists, SpendInv, RangeInv
<1>7. \A i, j \in 0 .. taskCount - 1 : slots[i].nodeAddr = slots[j].nodeAddr => i = j
  BY <1>5, <1>6 DEF Lists, RangeInv
<1>8. /\ addr \in [T -> Subwarp]
      /\ \A i, j \in T : addr[i] = addr[j] => i = j
      /\ PackedAddrs \in SUBSET Subwarp
      /\ \A i \in T : addr[i] \notin PackedAddrs
  <2>1. addr \in [T -> Subwarp] /\ \A i, j \in T : addr[i] = addr[j] => i = j
    BY <1>3, <1>6, <1>7
  <2>2. \A a \in PackedAddrs : \E i \in DOMAIN packed : i \in 0 .. taskCount - 1 /\ a = slots[i].nodeAddr
    BY <1>5 DEF PackedAddrs
  <2>3. \A i \in T : addr[i] \notin PackedAddrs
    BY <1>3, <1>7, <2>2
  <2> QED BY <1>6, <2>1, <2>2, <2>3
<1>9. PackedAddrs' = PackedAddrs \cup {addr[i] : i \in f .. e}
  <2>1. \A i \in T : packed'[i].task.nodeAddr = addr[i]
    BY <1>4
  <2> DEFINE now(i) == packed'[i].task.nodeAddr
             old(i) == packed[i].task.nodeAddr
             D == DOMAIN packed
  <2>3. \A i \in D : now(i) = old(i)
    BY <1>3
  <2>4. \A i \in T : now(i) = addr[i]
    BY <2>1
  <2> HIDE DEF addr, T, now, old, D
  <2>5. {now(i) : i \in D \cup T} = {old(i) : i \in D} \cup {addr[i] : i \in T}
    BY <2>3, <2>4
  <2>2. {packed'[i].task.nodeAddr : i \in DOMAIN packed \cup T}
          = {packed[i].task.nodeAddr : i \in DOMAIN packed} \cup {addr[i] : i \in T}
    BY <2>5 DEF now, old, D
  <2> QED BY <1>3, <2>2 DEF PackedAddrs, T
<1>10. sizes \in [Subwarp -> 0 .. referenceCount]
       /\ \A i \in T : sizes[addr[i]] = slots[i].rangeSize
  <2>1. \A a \in Subwarp : sizes[a] = Cardinality(Leaves(a))
    BY DEF sizes
  <2> HIDE DEF sizes, Leaves
  <2> QED BY <1>3, <1>6, <1>8, <2>1, SizesType DEF TaskInv, WordInv
<1>11. primNodeCount \in Nat
  BY DEF BackTyped
<1>12. ASSUME NEW i \in f .. e
       PROVE  end[i] <= (IF i - 1 \in f .. e THEN end[i - 1] ELSE primNodeCount) + Most(sizes[addr[i]])
  <2>1. end[i] - base(i) \in NodesFor(slots[i])
    BY <1>2 DEF Packs
  <2>2. slots[i].rangeSize \in Nat /\ sizes[addr[i]] = slots[i].rangeSize
    BY <1>3, <1>6, <1>10
  <2>3. end[i] - base(i) \in Nat /\ end[i] - base(i) <= Most(slots[i].rangeSize)
    BY <2>1, <2>2, NodesAtMost
  <2>4. base(i) = IF i - 1 \in f .. e THEN end[i - 1] ELSE primNodeCount
    BY DEF Base
  <2>5. end[i] \in Nat /\ base(i) \in Nat
    BY <1>11, <2>4
  <2>6. Most(slots[i].rangeSize) \in Nat
    BY <2>2, MostFacts
  <2> HIDE DEF base, addr
  <2>7. end[i] <= base(i) + Most(slots[i].rangeSize)
    BY <2>3, <2>5, <2>6
  <2> QED BY <2>2, <2>4, <2>7
<1>13. primNodeCount <= Cardinality(Units(PackedAddrs, sizes))
  BY DEF SpentInv
<1> HIDE DEF addr
<1>14. \A j \in f .. e : end[j] <= Cardinality(Units(PackedAddrs \cup {addr[i] : i \in f .. j}, sizes))
  <2>1. /\ addr \in [f .. e -> Subwarp]
        /\ \A i, j \in f .. e : addr[i] = addr[j] => i = j
        /\ \A i \in f .. e : addr[i] \notin PackedAddrs
        /\ PackedAddrs \in SUBSET Subwarp
    BY <1>8
  <2> DEFINE A == PackedAddrs
             size == sizes
             p == primNodeCount
  <2>2. /\ size \in [Subwarp -> 0 .. referenceCount] /\ p \in Nat /\ A \in SUBSET Subwarp
        /\ \A i \in f .. e : addr[i] \notin A
        /\ p <= Cardinality(Units(A, size))
        /\ \A i \in f .. e : end[i] <= (IF i - 1 \in f .. e THEN end[i - 1] ELSE p) + Most(size[addr[i]])
    BY <1>10, <1>11, <1>12, <1>13, <2>1
  <2> HIDE DEF A, size, p
  <2> HIDE DEF T
  <2>3. Spends(size, p, f, e, end, addr, A)
    BY <2>1, <2>2 DEF Spends
  <2>4. \A j \in f .. e : end[j] <= Cardinality(Units(A \cup {addr[i] : i \in f .. j}, size))
    BY <2>3, EndsSpend
  <2> QED BY <2>4 DEF A, size
<1>15. end[e] <= Cardinality(Units(PackedAddrs \cup {addr[i] : i \in f .. e}, sizes))
  BY <1>3, <1>14
<1>16. sizes' = sizes
  BY <1>3 DEF sizes, Leaves, vars
<1>17. Units(PackedAddrs, sizes)' = Units(PackedAddrs \cup {addr[i] : i \in f .. e}, sizes)
  BY <1>9, <1>16 DEF Units
<1> QED BY <1>3, <1>15, <1>17 DEF SpentInv

(* Each primitive node taken is one that the leaves of a packed task can   *)
(* take.                                                                   *)
LEMMA SpentStep ==
  CodeSizes /\ TaskInv /\ RangeInv /\ BackTyped /\ PackedInv /\ SpendInv /\ SpentInv
    /\ [BuildNext]_<<vars, packVars>> => SpentInv'
<1> SUFFICES ASSUME CodeSizes, TaskInv, RangeInv, BackTyped, PackedInv, SpendInv, SpentInv,
                    [BuildNext]_<<vars, packVars>>, \A w \in PackWarp : ~Pack(w)
             PROVE  SpentInv'
  BY SpentPack
<1>1. UNCHANGED <<packed, primNodeCount>> /\ (kernel = "pack" => kernel' = "pack")
  BY DEF BuildNext, StartBlock, CollapseStep, Built, BackEnd, LaunchCompact, LoadSlots, StoreTasks,
         NextRound, LaunchPack, packVars
<1>2. CASE kernel = "pack"
  <2>1. UNCHANGED vars
    BY <1>2, CollapseOver DEF BackTyped
  <2>2. sizes' = sizes /\ PackedAddrs' = PackedAddrs
    BY <1>1, <2>1 DEF sizes, Leaves, vars, PackedAddrs
  <2>3. Units(PackedAddrs, sizes)' = Units(PackedAddrs, sizes)
    BY <2>2 DEF Units
  <2> QED BY <1>1, <1>2, <2>3 DEF SpentInv
<1>3. CASE kernel # "pack"
  <2>1. primNodeCount' = 0 /\ PackedAddrs' = {}
    BY <1>1, <1>3 DEF SpentInv, BackTyped, PackedAddrs
  <2>2. Units(PackedAddrs, sizes)' = {}
    BY <2>1 DEF Units
  <2>3. Cardinality(Units(PackedAddrs, sizes)') = 0
    BY <2>2, FS_EmptySet
  <2> QED BY <2>1, <2>3 DEF SpentInv
<1> QED BY <1>2, <1>3

(* With the packet and leaf sizes of the code the primitive nodes fit into *)
(* an array whose size is computed from the number of references.          *)
THEOREM PrimNodesAlwaysFit ==
  ASSUME MasksExact, CodeSizes
  PROVE  BuildSpec => []PrimNodesFit
<1>1. PackInit => TaskInv /\ NestInv /\ RangeInv /\ BackTyped /\ CompactInv /\ PackedInv /\ SpendInv /\ SpentInv
  <2> SUFFICES ASSUME PackInit
               PROVE  TaskInv /\ NestInv /\ RangeInv /\ BackTyped /\ CompactInv /\ PackedInv /\ SpendInv /\ SpentInv
    OBVIOUS
  <2>1. TaskInv /\ NestInv /\ SpendInv /\ ranges = {}
    BY TaskInvInit, NestInit, SpendInit DEF PackInit, Init
  <2>2. PackedAddrs = {} /\ primNodeCount = 0
    BY DEF PackInit, PackedAddrs
  <2>3. Units(PackedAddrs, sizes) = {}
    BY <2>2 DEF Units
  <2>4. Cardinality(Units(PackedAddrs, sizes)) = 0
    BY <2>3, FS_EmptySet
  <2>5. SpentInv
    BY <2>2, <2>4 DEF SpentInv
  <2> QED BY <2>1, <2>5 DEF PackInit, RangeInv, BackTyped, CompactInv, PackedInv
<1>2. TaskInv /\ BackTyped /\ PackedInv /\ SpendInv /\ SpentInv /\ WideTree => PrimNodesFit
  <2> SUFFICES ASSUME TaskInv, BackTyped, PackedInv, SpendInv, SpentInv, WideTree
               PROVE  primNodeCount <= maxPrimNodeCount
    BY DEF PrimNodesFit
  <2> DEFINE N == referenceCount
             m == DivideRoundUp(N, MinPairs + 1)
             U == Cardinality(Units(Subwarp, sizes))
  <2>1. N \in Nat /\ MinPairs + 1 \in Nat \ {0} /\ primNodeCount \in Nat
    BY TreeAssumption, FS_CardinalityType, PackAssumption DEF referenceCount, BackTyped
  <2>2. m \in Nat /\ N <= m * (MinPairs + 1)
    BY <2>1, RoundsUp
  <2>3. CASE kernel # "pack"
    <3>1. primNodeCount = 0
      BY <2>3 DEF SpentInv
    <3> HIDE DEF N, m
    <3> QED BY <2>1, <2>2, <3>1 DEF maxPrimNodeCount, N, m
  <2>4. CASE kernel = "pack"
    <3>1. DOMAIN boxNodes = DOMAIN laneTask
      BY <2>4 DEF BackTyped, WideTree, TaskInv, WordInv, TypeOK
    <3>2. Pending = {} /\ Held = {}
      BY <3>1 DEF Pending, Opened, Held
    <3>3. Cardinality(Pending) = 0 /\ Cardinality(Held) = 0
      BY <3>2, FS_EmptySet
    <3>4. PackedAddrs \subseteq Subwarp
      <4>1. \A i \in DOMAIN packed : packed[i].task \in ranges
        BY <2>4 DEF PackedInv, Lists
      <4> QED BY <4>1 DEF PackedAddrs, SpendInv
    <3>5. /\ U \in Nat /\ Cardinality(Units(PackedAddrs, sizes)) \in Nat
          /\ Cardinality(Units(PackedAddrs, sizes)) <= U
      BY <3>4, SizesType, UnitsFacts DEF TaskInv, WordInv
    <3>6. primNodeCount <= U
      <4> DEFINE c == Cardinality(Units(PackedAddrs, sizes))
      <4>1. primNodeCount <= c /\ c \in Nat /\ c <= U
        BY <3>5 DEF SpentInv
      <4> HIDE DEF c, U
      <4> QED BY <2>1, <3>5, <4>1
    <3>7. CASE Packets
      <4>1. 3 * U + 0 + 0 <= 2 * N + 0
        BY <3>2, <3>3, <3>7 DEF SpendInv
      <4>2. MinPairs = 2 /\ maxPrimNodeCount = 2 * m
        BY <3>7 DEF CodeSizes, maxPrimNodeCount
      <4> HIDE DEF U, N, m
      <4>3. N <= 3 * m
        BY <2>2, <4>2
      <4> QED BY <2>1, <2>2, <3>5, <3>6, <4>1, <4>2, <4>3
    <3>8. CASE ~Packets
      <4>1. U + 0 <= N
        BY <3>3, <3>8 DEF SpendInv
      <4> HIDE DEF U, N
      <4>2. U <= N
        BY <3>5, <4>1
      <4> QED BY <2>1, <3>5, <3>6, <3>8, <4>2 DEF maxPrimNodeCount, N
    <3> QED BY <3>7, <3>8
  <2> QED BY <2>3, <2>4 DEF BackTyped
<1>3. BuildSpec => []WideTree
  BY BuildCollapses, WideTreeBuilt, PTL
<1> QED BY TaskInvStep, NestStep, RangeStep, BuildIsNext, BackTypedStep, BackStep, SpendStep, SpentStep,
           <1>1, <1>2, <1>3, PTL DEF BuildSpec
=============================================================================
