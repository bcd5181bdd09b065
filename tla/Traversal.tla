------------------------------ MODULE Traversal ------------------------------
(***************************************************************************)
(* The traversal of a scene by one ray on the device.  A traversal object  *)
(* lives in a kernel; getNextHit runs it to the next hit (any-hit) or to   *)
(* the end (closest hit), and what the next call needs is in its fields.   *)
(* A scene is a tree of boxes over instances; an instance leads to a       *)
(* geometry, a tree of boxes over triangles or custom primitives, or to    *)
(* another scene.  Node indices only make sense in the arrays of one such  *)
(* tree, and boxes only for a ray in its space.                            *)
(*                                                                         *)
(* Coordinates are left out: a space is the bag of transforms that lead to *)
(* it, a primitive is hit at a time or missed, and a box test may let a    *)
(* child through that holds nothing, never keep one out that does.         *)
(***************************************************************************)
EXTENDS Integers, Sequences, SequencesExt, FiniteSets

CONSTANTS
  TopScene,         \* the scene that is traversed
  Children,         \* of a tree and an internal node: the child indices
  Contents,         \* of a tree and a leaf: an instance, or pairs of primitives
  Cover,            \* of a tree and a node: the leaves below it
  Scenes,           \* the trees that are scenes
  Customs,          \* the trees of custom primitives
  Instances,        \* of an instance: its tree
  RootIndex, InvalidValue,
  BranchingFactor,
  MaxInstanceLevels, \* instances that lead to a primitive, at most
  Configurations,   \* type, node format, stack size, identity transforms, masked
                    \* instances, times of hits
  Far,              \* later than any hit
  MaxHits           \* primitives the ray hits, at most

Trees    == DOMAIN Contents
Nodes(b) == DOMAIN Children[b] \cup DOMAIN Contents[b]
Ids      == DOMAIN Instances

(* What a builder makes: every leaf of a tree is below its root, and below *)
(* one child of a node at most.                                            *)
ASSUME TreeAssumption ==
  /\ BranchingFactor \in Nat
  /\ \A b \in Trees :
       /\ RootIndex \in Nodes(b) /\ InvalidValue \notin Nodes(b)
       /\ DOMAIN Children[b] \cap DOMAIN Contents[b] = {}
       /\ Cover[b][RootIndex] = DOMAIN Contents[b]
       /\ \A i \in Nodes(b) : Cover[b][i] \subseteq DOMAIN Contents[b]
       /\ \A i \in DOMAIN Contents[b] : Cover[b][i] = {i}
       /\ \A i \in DOMAIN Children[b] :
            /\ Children[b][i] \subseteq Nodes(b) /\ IsFiniteSet(Children[b][i])
            /\ Cardinality(Children[b][i]) <= BranchingFactor
            /\ Cover[b][i] = UNION {Cover[b][c] : c \in Children[b][i]}
            /\ \A c, d \in Children[b][i] : c # d => Cover[b][c] \cap Cover[b][d] = {}

(* The leaves of a scene are its instances.                                *)
ASSUME InstanceAssumption ==
  /\ TopScene \in Scenes /\ Scenes \subseteq Trees /\ Customs \subseteq Trees \ Scenes
  /\ InvalidValue \notin Ids /\ \A id \in Ids : Instances[id] \in Trees
  /\ \A b \in Scenes : \A i \in DOMAIN Contents[b] :
       /\ Contents[b][i] \in Ids
       /\ \A j \in DOMAIN Contents[b] : Contents[b][i] = Contents[b][j] => i = j

(* The leaves of a geometry are pairs of primitives, the second of which   *)
(* may be missing; no primitive is in two places, so the builder has split *)
(* none.                                                                   *)
ASSUME PrimitiveAssumption ==
  \A b \in Trees \ Scenes : \A i \in DOMAIN Contents[b] :
    /\ Len(Contents[b][i]) \in Nat \ {0} /\ DOMAIN Contents[b][i] = 1 .. Len(Contents[b][i])
    /\ b \in Customs => Len(Contents[b][i]) = 1 /\ Contents[b][i][1][2] = InvalidValue
    /\ \A k \in DOMAIN Contents[b][i] : DOMAIN Contents[b][i][k] = 1 .. 2
    /\ \A k \in DOMAIN Contents[b][i], s \in 1 .. 2, j \in DOMAIN Contents[b] :
         \A n \in DOMAIN Contents[b][j], r \in 1 .. 2 :
           Contents[b][i][k][s] = Contents[b][j][n][r] =>
             Contents[b][i][k][s] = InvalidValue \/ <<i, k, s>> = <<j, n, r>>

ASSUME ConfigurationAssumption ==
  /\ Far \in Int /\ MaxInstanceLevels \in Nat
  /\ \A c \in Configurations :
       /\ c.type \in {"any", "closest"} /\ c.stackSize \in Nat \ {0}
       /\ c.times \subseteq Int /\ \A t \in c.times : t < Far

VARIABLES
  config,           \* what the traversal object was made for
  hitTime,          \* when the ray hits each primitive, wherever it appears
  m,                \* the fields of the traversal object
  pc,               \* "caller" or "loop"
  l,                \* the local variables of getNextHit
  hits              \* what the caller has been given

vars == <<config, hitTime, m, pc, l, hits>>

AnyHit  == config.type = "any"
Packets == config.format = "packets"    \* Rtip >= 31

-----------------------------------------------------------------------------
(* The scene.  A primitive in the scene is named by the instances that     *)
(* lead to it and its own number.                                          *)

LeafOf(b, id) == CHOOSE i \in DOMAIN Contents[b] : Contents[b][i] = id

IdsOf(b) == {Contents[b][i] : i \in DOMAIN Contents[b]}

(* A leaf is one pair, or a range of them with packets.                    *)
PairsOf(b, i) == IF Packets THEN Contents[b][i] ELSE SubSeq(Contents[b][i], 1, 1)

PrimsOf(b, i) == (UNION {ToSet(pair) : pair \in ToSet(PairsOf(b, i))}) \ {InvalidValue}

TreeOf(path) == IF path = <<>> THEN TopScene ELSE Instances[Last(path)]

(* Through scenes to a geometry.                                           *)
Leads(path) ==
  /\ path # <<>>
  /\ \A k \in DOMAIN path :
       /\ path[k] \in IdsOf(TreeOf(SubSeq(path, 1, k - 1)))
       /\ TreeOf(SubSeq(path, 1, k)) \in Scenes <=> k < Len(path)

Paths == {path \in BoundedSeq(Ids, MaxInstanceLevels) : Leads(path)}

Primitive ==
  UNION {{<<path, p>> : p \in UNION {PrimsOf(TreeOf(path), i) : i \in DOMAIN Contents[TreeOf(path)]}}
         : path \in Paths}

(* What the ray must find: what it hits, but for instances that the mask   *)
(* hides.                                                                  *)
Hit == {c \in DOMAIN hitTime : \A k \in DOMAIN c[1] : c[1][k] \notin config.masked}

(* The space an instance's ray is in: identity transforms leave it.        *)
Space(path) ==
  [id \in Ids |-> IF id \in config.identity THEN 0 ELSE Cardinality({k \in DOMAIN path : path[k] = id})]

(* Whether a primitive is below a node of the tree a path leads to.        *)
Below(c, path, i) ==
  LET b == TreeOf(path) IN
  IF b \in Scenes
  THEN /\ Len(c[1]) > Len(path) /\ SubSeq(c[1], 1, Len(path)) = path
       /\ LeafOf(b, c[1][Len(path) + 1]) \in Cover[b][i]
  ELSE c[1] = path /\ \E leaf \in Cover[b][i] : c[2] \in PrimsOf(b, leaf)

-----------------------------------------------------------------------------
(* The traversal object.                                                   *)

instanceId(o) == Last(o.instanceIds)

(* The instances the object has entered.                                   *)
Path(o) == IF instanceId(o) = InvalidValue THEN Front(o.instanceIds) ELSE o.instanceIds

SetInstanceId(o, id) == [o EXCEPT !.instanceIds[Len(o.instanceIds)] = id]

vacancy(o) == config.stackSize - Len(o.stack)

(* A node index carries the pair to go on with in a leaf of packets.       *)
Push(o, i) == [o EXCEPT !.stack = Append(@, i)]

Popped(o) == [o EXCEPT !.nodeIndex = Last(o.stack), !.pair = 1, !.stack = Front(o.stack)]

NoHit == <<<<>>, InvalidValue>>

Init ==
  /\ config \in Configurations
  /\ hitTime \in UNION {[Hs -> config.times] : Hs \in {Hs \in SUBSET Primitive : Cardinality(Hs) <= MaxHits}}
  /\ m = [nodeIndex |-> RootIndex, pair |-> 1, triangleMask |-> {}, state |-> "init", stack |-> <<>>,
          instanceIds |-> <<InvalidValue>>, instanceStack |-> <<>>, instanceIndex |-> InvalidValue,
          ray |-> Space(<<>>), scene |-> TopScene]
  /\ pc = "caller"
  /\ l = [nodes |-> TopScene, primNodes |-> InvalidValue, ray |-> Space(<<>>), maxT |-> Far,
          invD |-> InvalidValue, result |-> NoHit]
  /\ hits = <<>>

-----------------------------------------------------------------------------
(* Entering and leaving.                                                   *)

(* transformRay: the ray goes into the space of an instance.               *)
Applied(ray, id) == [ray EXCEPT ![id] = @ + 1]

Transformed(r, id) ==
  IF id \in config.identity THEN r
  ELSE [r EXCEPT !.ray = Applied(@, id), !.invD = IF Packets THEN @ ELSE Applied(r.ray, id)]

(* Out of n nested scenes: back to what was saved on entering the          *)
(* outermost of them.                                                      *)
LeftScenes(o, n) ==
  IF n = 0 THEN o
  ELSE LET saved == o.instanceStack[Len(o.instanceStack) - n + 1] IN
       [o EXCEPT !.ray = saved.ray, !.scene = saved.scene,
                 !.instanceStack = SubSeq(@, 1, Len(@) - n),
                 !.instanceIds = SubSeq(@, 1, Len(@) - n)]

(* A mark popped from the stack says that a tree has been searched.  The   *)
(* loop goes on while there is another mark below: trees may end together. *)
TreeEnded(o) == o.nodeIndex = InvalidValue /\ o.stack # <<>>

Ended(o) ==
  CHOOSE n \in DOMAIN o.stack :
    /\ \A k \in 1 .. n - 1 : o.stack[Len(o.stack) - k + 1] = InvalidValue
    /\ o.stack[Len(o.stack) - n + 1] # InvalidValue \/ n = Len(o.stack)

(* Mutation: the last of the trees that end is taken for the geometry.     *)
LeftOneShort(o, n) ==
  [SetInstanceId(LeftScenes(o, n - 1), InvalidValue) EXCEPT
     !.nodeIndex = o.stack[Len(o.stack) - n + 1], !.pair = 1, !.stack = SubSeq(@, 1, Len(@) - n)]

(* Only the innermost of them can be a geometry.                           *)
OutOf(o, n) ==
  LET scene == LeftScenes(o, IF instanceId(o) = InvalidValue THEN n ELSE n - 1) IN
  [SetInstanceId(scene, InvalidValue) EXCEPT
     !.nodeIndex = o.stack[Len(o.stack) - n + 1], !.pair = 1, !.stack = SubSeq(@, 1, Len(@) - n)]

Unwound(o) == IF TreeEnded(o) THEN OutOf(o, Ended(o)) ELSE o

(* Mutation: the nodes are those of the scene, the ray is not.             *)
RestoredNodes(r, o) == [r EXCEPT !.nodes = o.scene]

(* restoreRay, when a tree has been left.                                  *)
Restored(r, o) ==
  [r EXCEPT !.nodes = o.scene, !.ray = o.ray, !.invD = IF Packets THEN @ ELSE o.ray]

(* Mutation: the node is not popped.                                       *)
Retry(o, r) == m' = o /\ l' = r

(* The end of the loop's body: on to the next node.                        *)
Advance(o, r) ==
  \E next \in {Popped([o EXCEPT !.triangleMask = {}])} :
    /\ m' = Unwound(next)
    /\ l' = IF TreeEnded(next) THEN Restored(r, m') ELSE r

Running == pc = "loop" /\ m.nodeIndex # InvalidValue /\ m.state # "overflow"

Overflow == [m EXCEPT !.state = "overflow"]

-----------------------------------------------------------------------------
(* getNextHit.                                                             *)

(* A call: what an earlier one has left behind is set up again.            *)
Fresh == [nodes |-> m.scene, primNodes |-> InvalidValue, ray |-> m.ray, maxT |-> Far,
          invD |-> IF Packets \/ instanceId(m) # InvalidValue THEN InvalidValue ELSE m.ray,
          result |-> NoHit]

Resumed(r) ==
  LET id == Contents[m.scene][m.instanceIndex] IN
  [Transformed(r, id) EXCEPT !.nodes = Instances[id], !.primNodes = Instances[id]]

Call ==
  /\ pc = "caller" /\ m.state \in {"init", "hit"}
  /\ pc' = "loop"
  /\ l' = IF AnyHit /\ instanceId(m) # InvalidValue THEN Resumed(Fresh) ELSE Fresh
  /\ m' = IF m.stack = <<>> THEN Push(m, InvalidValue) ELSE m
  /\ UNCHANGED <<config, hitTime, hits>>

(* The ray and the boxes it is tested against are in one space.            *)
InSpace ==
  /\ l.nodes = TreeOf(Path(m)) /\ l.ray = Space(Path(m))
  /\ Packets \/ l.invD = l.ray

Promising(i) == \E c \in DOMAIN hitTime : hitTime[c] <= l.maxT /\ Below(c, Path(m), i)

(* The children a box test lets through.                                   *)
Entered(i) ==
  LET must == IF InSpace THEN {c \in Children[l.nodes][i] : Promising(c)} ELSE {} IN
  {must \cup R : R \in SUBSET (Children[l.nodes][i] \ must)}

TestBox ==
  /\ Running /\ m.nodeIndex \in DOMAIN Children[l.nodes]
  /\ IF vacancy(m) < BranchingFactor - 1
     THEN m' = Overflow /\ UNCHANGED l
     ELSE \E R \in Entered(m.nodeIndex) : \E result \in SetToSeqs(R) :
            IF R = {} THEN Advance(m, l)
            ELSE /\ m' = [m EXCEPT !.stack = @ \o Reverse(Tail(result)),
                                   !.nodeIndex = Head(result), !.pair = 1]
                 /\ UNCHANGED l
  /\ UNCHANGED <<config, hitTime, pc, hits>>

AtLeaf == Running /\ m.nodeIndex \in DOMAIN Contents[l.nodes]

Found(p) == <<Path(m), p>> \in DOMAIN hitTime /\ hitTime[<<Path(m), p>>] <= l.maxT

(* InvalidValue as a mask: the leaf is done with.                          *)
RangeEnd == 0 .. 31

(* Mutation: a call that resumes in a pair starts it afresh.               *)
TestPairAfresh(pair, mask) ==
  IF Found(pair[1]) THEN [hit |-> pair[1], pair |-> 1, mask |-> {0}]
  ELSE [hit |-> IF Found(pair[2]) THEN pair[2] ELSE InvalidValue, pair |-> 1, mask |-> RangeEnd]

(* One pair for any-hit: its first primitive, then its second.  The        *)
(* result is the hit, the pair and the mask the next call starts with.     *)
TestPair(pair, mask) ==
  IF 0 \notin mask /\ Found(pair[1]) THEN [hit |-> pair[1], pair |-> 1, mask |-> mask \cup {0}]
  ELSE [hit |-> IF Found(pair[2]) THEN pair[2] ELSE InvalidValue, pair |-> 1, mask |-> RangeEnd]

(* A range of pairs, up to one that is hit.  Both primitives of a pair are *)
(* tested again on the next call.                                          *)
TestPacket(pairs, k, mask) ==
  LET maskAt(j)  == IF j = k THEN mask ELSE {}
      first(j)   == 0 \notin maskAt(j) /\ Found(pairs[j][1])
      second(j)  == Found(pairs[j][2])
      j          == Min({i \in k .. Len(pairs) : first(i) \/ second(i) \/ i = Len(pairs)})
      hit        == IF first(j) THEN pairs[j][1] ELSE IF second(j) THEN pairs[j][2] ELSE InvalidValue
      unfinished == first(j) /\ second(j) /\ 1 \notin maskAt(j)
  IN  IF unfinished THEN [hit |-> hit, pair |-> j, mask |-> maskAt(j) \cup {0}]
      ELSE IF j = Len(pairs) THEN [hit |-> hit, pair |-> j, mask |-> RangeEnd]
      ELSE [hit |-> hit, pair |-> j + 1, mask |-> {}]

TestCustom(pair) == [hit |-> IF Found(pair[1]) THEN pair[1] ELSE InvalidValue, pair |-> 1, mask |-> RangeEnd]

TestAny ==
  LET pairs == PairsOf(l.primNodes, m.nodeIndex) IN
  IF l.primNodes \in Customs THEN TestCustom(pairs[1])
  ELSE IF Packets THEN TestPacket(pairs, m.pair, m.triangleMask)
  ELSE TestPair(pairs[1], m.triangleMask)

(* The hit that ends a call.                                               *)
LeaveWith(out) ==
  LET o == [m EXCEPT !.state = "hit"] IN
  /\ m' = IF out.mask = RangeEnd THEN Unwound(Popped([o EXCEPT !.triangleMask = {}]))
          ELSE [o EXCEPT !.pair = out.pair, !.triangleMask = out.mask]
  /\ hits' = Append(hits, <<Path(m), out.hit>>)
  /\ pc' = "caller"
  /\ UNCHANGED l

TestLeafAny ==
  /\ AtLeaf /\ instanceId(m) # InvalidValue /\ AnyHit
  /\ \E out \in {TestAny} :
       IF out.hit # InvalidValue THEN LeaveWith(out)
       ELSE Advance(m, l) /\ UNCHANGED <<pc, hits>>
  /\ UNCHANGED <<config, hitTime>>

(* The closest hit in a leaf; the ray ends there from now on.              *)
TestLeafClosest ==
  /\ AtLeaf /\ instanceId(m) # InvalidValue /\ ~AnyHit
  /\ LET found == {p \in UNION {ToSet(pair) : pair \in ToSet(PairsOf(l.primNodes, m.nodeIndex))} : Found(p)}
         time(p) == hitTime[<<Path(m), p>>]
     IN  \/ found = {} /\ Advance(m, l)
         \/ \E p \in found :
              /\ \A q \in found : time(p) <= time(q)
              /\ Advance(m, [l EXCEPT !.maxT = time(p), !.result = <<Path(m), p>>])
  /\ UNCHANGED <<config, hitTime, pc, hits>>

(* An instance: into its tree, unless the mask or, with packets, a test of *)
(* its box keeps the ray out.                                              *)
EnterTree(o, id, r) ==
  IF Instances[id] \in Scenes
  THEN /\ m' = [o EXCEPT !.instanceStack = Append(@, [ray |-> m.ray, scene |-> m.scene]),
                         !.ray = r.ray, !.scene = Instances[id],
                         !.instanceIds = Append(@, InvalidValue)]
       /\ l' = [r EXCEPT !.nodes = Instances[id]]
  ELSE /\ m' = o
       /\ l' = [r EXCEPT !.nodes = Instances[id], !.primNodes = Instances[id]]

TestInstance ==
  /\ AtLeaf /\ instanceId(m) = InvalidValue
  /\ LET id == Contents[m.scene][m.nodeIndex]
         r  == Transformed(l, id)
     IN  \/ /\ id \in config.masked \/ (Packets /\ id \notin config.identity /\ ~Promising(m.nodeIndex))
            /\ Advance(m, l)
         \/ /\ id \notin config.masked
            /\ IF vacancy(m) < 1 THEN m' = Overflow /\ l' = r
               ELSE EnterTree([SetInstanceId(m, id) EXCEPT !.instanceIndex = m.nodeIndex,
                                 !.nodeIndex = RootIndex, !.pair = 1, !.stack = Append(@, InvalidValue)], id, r)
  /\ UNCHANGED <<config, hitTime, pc, hits>>

(* The end of the search.                                                  *)
Finish ==
  /\ pc = "loop" /\ ~Running
  /\ m' = IF m.state = "overflow" THEN m ELSE [m EXCEPT !.state = "finished"]
  /\ hits' = IF l.result[2] = InvalidValue THEN hits ELSE Append(hits, l.result)
  /\ pc' = "caller"
  /\ UNCHANGED <<config, hitTime, l>>

Work == TestBox \/ TestLeafAny \/ TestLeafClosest \/ TestInstance \/ Finish

Next == Call \/ Work

Spec == Init /\ [][Next]_vars

(* The lane keeps running; the caller may stop asking.                     *)
FairSpec == Spec /\ WF_vars(Work)

-----------------------------------------------------------------------------
(* A search that ends has found what is there.  Any-hit calls, repeated,   *)
(* give every hit, each one once; the closest-hit call gives a nearest.    *)
HitsExact ==
  /\ \A k \in DOMAIN hits : hits[k] \in Hit
  /\ \A j, k \in DOMAIN hits : hits[j] = hits[k] => j = k
  /\ m.state = "finished" /\ pc = "caller" =>
       IF AnyHit THEN ToSet(hits) = Hit
       ELSE /\ hits = <<>> => Hit = {}
            /\ \A k \in DOMAIN hits : \A c \in Hit : hitTime[hits[k]] <= hitTime[c]

(* Whatever was entered and left and wherever a call has resumed, a node   *)
(* is tested in the arrays it belongs to with the ray in their space.      *)
RayInSpace == Running => InSpace

(* The stack holds a mark for every tree the ray is in, so no pop mistakes *)
(* the index of one tree for that of another.                              *)
Marks == Cardinality({k \in DOMAIN m.stack : m.stack[k] = InvalidValue})

MarksMatch ==
  /\ m.nodeIndex # InvalidValue /\ m.stack # <<>> => Marks = 1 + Len(Path(m))
  /\ Len(m.instanceIds) = 1 + Len(m.instanceStack)
  /\ Len(m.stack) <= config.stackSize

(* No call runs for ever.                                                  *)
CallReturns == pc = "loop" ~> pc = "caller"
=============================================================================
