------------------------------ MODULE LbvhEmit ------------------------------
(***************************************************************************)
(* EmitTopologyAndFitBounds: one thread per sorted Morton code climbs from *)
(* its leaf and builds the binary tree on the way.  A thread that owns the *)
(* codes of [i, j) picks the parent on the side of the more similar        *)
(* neighbour, links itself there and swaps its own end of the range into   *)
(* the parent's updateCounter.  The first of two siblings swaps out        *)
(* InvalidValue and stops; the second swaps out the far end of the         *)
(* sibling's range, unites the two boxes and climbs on.                    *)
(*                                                                         *)
(* A box is the set of leaves it was grown from.  A thread's plain stores  *)
(* reach the other threads at a __threadfence at the latest; before it     *)
(* they may overtake each other and the thread's own atomics, unless the   *)
(* device keeps the stores of a thread in order.                           *)
(***************************************************************************)
EXTENDS MortonCode, FiniteSets

CONSTANT InvalidValue      \* ~0u

ASSUME InvalidAssumption == InvalidValue \notin Nat

Node == 0 .. primCount - 2

VARIABLES
  storesInOrder,          \* whether the device keeps a thread's stores in order
  differ,                 \* how much the codes before and after each boundary differ
  pc, range, index, box,  \* of each thread: place, [i, j), node, box register
  updateCounters,         \* the array the siblings meet at; its last entry takes the root
  memory,                 \* the plain stores that have reached global memory
  pending                 \* those a thread has issued that have not

vars == <<storesInOrder, differ, pc, range, index, box, updateCounters, memory, pending>>

(* The locations of memory: references[i], the two child links of a        *)
(* scratch node and its m_box.                                             *)
Ref(i)      == <<"references", i>>
Child(n, k) == <<"child", n, k>>
BoxOf(n)    == <<"m_box", n>>

(* Mutation: the counters are cleared to zero, as those of ComputeFatLeaves*)
(* are.                                                                    *)
Zeroed == 0

(* What the host's memset leaves in a counter.                             *)
FreshCounter == InvalidValue

Init ==
  /\ storesInOrder \in BOOLEAN
  /\ differ \in {Differences(s) : s \in Sorted}
  /\ pc = [t \in Leaf |-> "start"]
  /\ range = [t \in Leaf |-> [i |-> t, j |-> t + 1]]
  /\ index = [t \in Leaf |-> <<"leaf", t>>]
  /\ box = [t \in Leaf |-> {t}]
  /\ updateCounters = [a \in Leaf |-> FreshCounter]
  /\ memory = [l \in {} |-> {}]
  /\ pending = [t \in Leaf |-> {}]

(* Mutation: the comparison is the wrong way round.                        *)
JoinsLessSimilar(i, j) ==
  \/ i = 0
  \/ j # primCount /\ differ[j] > differ[i]

(* The side of the parent: child 0 of node j - 1 or child 1 of node i - 1. *)
JoinsRight(i, j) ==
  \/ i = 0
  \/ j # primCount /\ differ[j] < differ[i]

Parent(r) ==
  IF r.i = 0 /\ r.j = primCount THEN InvalidValue
  ELSE IF JoinsRight(r.i, r.j) THEN r.j - 1 ELSE r.i - 1

(* findParent stores the link to the node it was called for.               *)
LinkStore(r, node) ==
  IF Parent(r) = InvalidValue THEN {}
  ELSE {[loc |-> Child(Parent(r), IF Parent(r) = r.j - 1 THEN 0 ELSE 1), val |-> node]}

Apply(mem, stores) ==
  [l \in DOMAIN mem \cup {s.loc : s \in stores} |->
     IF \E s \in stores : s.loc = l THEN (CHOOSE s \in stores : s.loc = l).val ELSE mem[l]]

Issue(t, stores) ==
  IF storesInOrder
  THEN memory' = Apply(memory, stores) /\ UNCHANGED pending
  ELSE pending' = [pending EXCEPT ![t] = @ \cup stores] /\ UNCHANGED memory

(* A store reaches memory.                                                 *)
Arrive(t) ==
  \E s \in pending[t] :
    /\ pending' = [pending EXCEPT ![t] = @ \ {s}]
    /\ memory' = Apply(memory, {s})
    /\ UNCHANGED <<storesInOrder, differ, pc, range, index, box, updateCounters>>

(* The leaf: write its reference and link it.  No fence follows.           *)
Start(t) ==
  /\ pc[t] = "start"
  /\ Issue(t, {[loc |-> Ref(t), val |-> {t}]} \cup LinkStore(range[t], index[t]))
  /\ pc' = [pc EXCEPT ![t] = "meet"]
  /\ UNCHANGED <<storesInOrder, differ, range, index, box, updateCounters>>

(* Mutation: a thread leaves the end next to its sibling.                  *)
NearEnd(r) == IF Parent(r) = r.i - 1 THEN r.i ELSE r.j

(* The end of its range a thread leaves for its sibling.                   *)
FarEnd(r) == IF Parent(r) = r.i - 1 THEN r.j ELSE r.i

(* Mutation: the sibling's end replaces the wrong end.                     *)
Shrunk(r, k) == IF Parent(r) = r.i - 1 THEN [r EXCEPT !.j = k] ELSE [r EXCEPT !.i = k]

(* The range united with the sibling's, whose far end is k.                *)
Grown(r, k) == IF Parent(r) = r.i - 1 THEN [r EXCEPT !.i = k] ELSE [r EXCEPT !.j = k]

(* The atomicExch, and what the second of two siblings learns from it.     *)
Meet(t) ==
  LET p == Parent(range[t])
      k == updateCounters[p]
  IN /\ pc[t] = "meet"
     /\ updateCounters' = [updateCounters EXCEPT ![p] = FarEnd(range[t])]
     /\ IF k = InvalidValue
        THEN /\ pc' = [pc EXCEPT ![t] = "done"]
             /\ UNCHANGED <<range, index>>
        ELSE /\ pc' = [pc EXCEPT ![t] = "fit"]
             /\ range' = [range EXCEPT ![t] = Grown(@, k)]
             /\ index' = [index EXCEPT ![t] = <<"node", p>>]
     /\ UNCHANGED <<storesInOrder, differ, box, memory, pending>>

(* A link or a box that has not arrived contributes nothing.               *)
Seen(l)     == IF l \in DOMAIN memory THEN memory[l] ELSE {}
ChildBox(l) ==
  IF l \notin DOMAIN memory THEN {}
  ELSE LET c == memory[l]
       IN  IF c[1] = "leaf" THEN Seen(Ref(c[2])) ELSE Seen(BoxOf(c[2]))

(* After a fence: unite the boxes of the two children.                     *)
Fit(t) ==
  /\ pc[t] = "fit"
  /\ pending[t] = {}
  /\ LET n == index[t][2]
     IN box' = [box EXCEPT ![t] = ChildBox(Child(n, 0)) \cup ChildBox(Child(n, 1))]
  /\ pc' = [pc EXCEPT ![t] = "link"]
  /\ UNCHANGED <<storesInOrder, differ, range, index, updateCounters, memory, pending>>

(* Store the box and the link to the parent, or save the root and stop.    *)
Link(t) ==
  LET n == index[t][2]
  IN /\ pc[t] = "link"
     /\ Issue(t, {[loc |-> BoxOf(n), val |-> box[t]]} \cup LinkStore(range[t], index[t]))
     /\ IF Parent(range[t]) = InvalidValue
        THEN /\ updateCounters' = [updateCounters EXCEPT ![primCount - 1] = n]
             /\ pc' = [pc EXCEPT ![t] = "done"]
        ELSE /\ pc' = [pc EXCEPT ![t] = "fence"]
             /\ UNCHANGED updateCounters
     /\ UNCHANGED <<storesInOrder, differ, range, index, box>>

Fence(t) ==
  /\ pc[t] = "fence"
  /\ pending[t] = {}
  /\ pc' = [pc EXCEPT ![t] = "meet"]
  /\ UNCHANGED <<storesInOrder, differ, range, index, box, updateCounters, memory, pending>>

Step(t) == Start(t) \/ Meet(t) \/ Fit(t) \/ Link(t) \/ Fence(t)

Finished == \A t \in Leaf : pc[t] = "done" /\ pending[t] = {}

Terminated == Finished /\ UNCHANGED vars

Next == (\E t \in Leaf : Arrive(t) \/ Step(t)) \/ Terminated

Spec == Init /\ [][Next]_vars

-----------------------------------------------------------------------------
(* The reference: the radix tree of the sorted codes.  Node n splits       *)
(* between the codes n and n + 1; its range is the largest in which no     *)
(* other neighbours differ in a higher bit, and its children are the       *)
(* strongest splits on either side.                                        *)
Weaker(lo, hi, n) == \A m \in lo .. hi : m # n => differ[m + 1] < differ[n + 1]

Lo(n) == CHOOSE l \in 0 .. n : Weaker(l, n, n) /\ differ[l] > differ[n + 1]

Hi(n) == CHOOSE h \in n + 1 .. primCount - 1 : Weaker(n, h - 1, n) /\ differ[h + 1] > differ[n + 1]

Strongest(lo, hi) == CHOOSE n \in lo .. hi : Weaker(lo, hi, n)

RadixChild(n, k) ==
  IF k = 0
  THEN IF Lo(n) = n THEN <<"leaf", n>> ELSE <<"node", Strongest(Lo(n), n - 1)>>
  ELSE IF Hi(n) = n + 1 THEN <<"leaf", n + 1>> ELSE <<"node", Strongest(n + 1, Hi(n) - 1)>>

InternalChildren(n) == {RadixChild(n, k)[2] : k \in {l \in {0, 1} : RadixChild(n, l)[1] = "node"}}

(* The links left behind are the radix tree of the codes, whatever the     *)
(* order in which the threads ran, and the root is where the host reads it.*)
RadixTree == Finished =>
  /\ \A n \in Node, k \in {0, 1} :
       Child(n, k) \in DOMAIN memory /\ memory[Child(n, k)] = RadixChild(n, k)
  /\ updateCounters[primCount - 1] = Strongest(0, primCount - 2)

(* A box that can be read is complete: it covers every leaf of its node.   *)
(* It takes a device that keeps stores in order, for want of a fence in    *)
(* Start.                                                                  *)
BoxesFit == storesInOrder =>
  \A n \in Node : BoxOf(n) \in DOMAIN memory => memory[BoxOf(n)] = Lo(n) .. Hi(n)

(* Nodes are fitted once each, children first.                             *)
Tree == INSTANCE BottomUp WITH
  children <- [n \in Node |-> InternalChildren(n)],
  fitted   <- {n \in Node : BoxOf(n) \in DOMAIN memory}

ImplementsBottomUp == Tree!Spec
=============================================================================
