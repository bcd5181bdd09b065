----------------------------- MODULE RefitProofs -----------------------------
(* Proofs about the update of a wide tree, for every tree, any number of   *)
(* updates, and every device whose masks are exact.                        *)
EXTENDS Refit, FiniteSetTheorems, WellFoundedInduction, TLAPS

LEMMA KidsFinite == \A n \in Node : IsFiniteSet(Kids(n))
<1>1. IsFiniteSet(Node)
  BY FS_Interval, TreeAssumption DEF Node
<1> QED BY <1>1, FS_Subset DEF Kids

(* A node is a kid of its parent only, and comes after it.                 *)
LEMMA ParentBelow ==
  ASSUME NEW c \in Node
  PROVE  /\ c # 0 <=> ParentAddr[c] # InvalidValue
         /\ c # 0 => /\ ParentAddr[c] \in Node /\ ParentAddr[c] < c
                     /\ c \in Kids(ParentAddr[c])
         /\ \A n \in Node : c \in Kids(n) => c # 0 /\ ParentAddr[c] = n
BY TreeAssumption, LaunchAssumption DEF Node, Kids

(* With exact masks a subwarp counts the internal children of its node.    *)
LEMMA OwnLanes ==
  ASSUME MasksExact, NEW s \in Node
  PROVE  Masked(s) = {{s}}
<1>1. s \in Int /\ WarpSubwarps \in Nat \ {0} /\ IntSubwarps \in Nat \ {0} /\ WarpSubwarps <= IntSubwarps
  BY LaunchAssumption, TreeAssumption DEF Node, MasksExact
<1>2. \A t \in Node : subwarpIndex(t) \in 0 .. WarpSubwarps - 1
  BY <1>1, TreeAssumption DEF Node, subwarpIndex
<1>3. {t \in Mates(s) : subwarpIndex(t) >= IntSubwarps} = {}
  <2> SUFFICES ASSUME NEW t \in Mates(s) PROVE ~(subwarpIndex(t) >= IntSubwarps)
    OBVIOUS
  <2>1. t \in Node
    BY DEF Mates
  <2>2. subwarpIndex(t) \in 0 .. WarpSubwarps - 1
    BY <1>2, <2>1
  <2> QED BY <1>1, <2>2
<1>4. subwarpIndex(s) < IntSubwarps - 1 \/ subwarpIndex(s) = IntSubwarps - 1
  <2> HIDE DEF subwarpIndex
  <2> QED BY <1>1, <1>2
<1> QED BY <1>3, <1>4 DEF Masked

LEMMA CountAt ==
  ASSUME NEW s, NEW n \in Node, NEW at \in [{s} -> Node], at[s] = n
  PROVE  internalCount(at) = Cardinality(Kids(n))
<1>1. InternalLanes(at) = {s} \X Kids(n)
  BY DEF InternalLanes, Kids
<1>2. IsFiniteSet({s}) /\ Cardinality({s}) = 1 /\ IsFiniteSet(Kids(n))
  BY FS_Singleton, KidsFinite
<1>3. Cardinality({s} \X Kids(n)) = 1 * Cardinality(Kids(n)) /\ Cardinality(Kids(n)) \in Nat
  BY <1>2, FS_Product, FS_CardinalityType
<1> QED BY <1>1, <1>3 DEF internalCount

(* A nonempty set of nodes has a last one.  The nodes after it are the     *)
(* smallest of the sets of nodes after a member.                           *)
LEMMA LastNode ==
  ASSUME NEW U \in SUBSET Node, U # {}
  PROVE  \E n \in U : \A m \in U : m <= n
<1> DEFINE after(n) == n + 1 .. boxNodeCount - 1
           T == {after(n) : n \in U}
<1>1. IsFiniteSet(Node)
  BY FS_Interval, TreeAssumption DEF Node
<1>2. IsWellFoundedOn(StrictSubsetOrdering(Node), SUBSET Node)
  BY <1>1, FS_StrictSubsetOrderingWellFounded, FS_FiniteSubsetsOfFinite, Zenon
<1>3. T \in SUBSET SUBSET Node /\ T # {}
  <2>1. \A n \in Node : after(n) \subseteq Node
    BY TreeAssumption DEF Node
  <2> HIDE DEF after
  <2> QED BY <2>1
<1> HIDE DEF T
<1>4. PICK x \in T : \A y \in T : <<y, x>> \notin StrictSubsetOrdering(Node)
  BY <1>2, <1>3, WFMin
<1>5. PICK n \in U : x = after(n)
  BY <1>4 DEF T
<1>6. ASSUME NEW m \in U, m > n
      PROVE  FALSE
  <2>1. after(m) \in T /\ after(m) \subseteq after(n) /\ m \in after(n) /\ m \notin after(m)
    BY <1>6, TreeAssumption DEF T, Node
  <2>2. <<after(m), after(n)>> \in StrictSubsetOrdering(Node)
    BY <2>1, <1>3, <1>4, <1>5 DEF StrictSubsetOrdering
  <2> QED BY <2>1, <2>2, <1>4, <1>5
<1> QED BY <1>6, TreeAssumption DEF Node

-----------------------------------------------------------------------------
(* The inductive invariant.  The counter of a node is the number of its    *)
(* children that have arrived; while the climb is under way, the subwarps  *)
(* that still run sit at distinct nodes, and every node that is ready for  *)
(* its next step has one.                                                  *)
Types ==
  /\ update \in 0 .. MaxUpdates /\ leaves \in 0 .. MaxUpdates
  /\ phase \in {"idle", "reset", "fit"}
  /\ updateCounter \in [Node -> Nat]
  /\ boxes \in [Node -> SUBSET Entry]
  /\ pc \in [Node -> {"grow", "write", "arrive", "done"}]
  /\ index \in [Node -> Node]
  /\ childBox \in [Node -> SUBSET Entry]
  /\ fitted \subseteq Node /\ arrived \subseteq Node

CountInv == \A n \in Node : updateCounter[n] = Cardinality(Kids(n) \cap arrived)

FittedInv ==
  /\ arrived \subseteq fitted
  /\ \A n \in fitted : boxes[n] = Fresh(n) /\ Kids(n) \subseteq arrived

SubwarpInv ==
  /\ \A s \in Node : pc[s] \in {"grow", "write"} =>
       index[s] \notin fitted /\ Kids(index[s]) \subseteq arrived
  /\ \A s \in Node : pc[s] = "write" => childBox[s] = Fresh(index[s])
  /\ \A s \in Node : pc[s] = "arrive" => index[s] \in fitted \ arrived /\ index[s] # 0
  /\ \A s, t \in Node :
       pc[s] # "done" /\ pc[t] # "done" /\ index[s] = index[t] => s = t

ReadyInv ==
  /\ \A n \in Node \ fitted : Kids(n) \subseteq arrived =>
       \E s \in Node : pc[s] \in {"grow", "write"} /\ index[s] = n
  /\ \A n \in fitted \ arrived : n # 0 =>
       \E s \in Node : pc[s] = "arrive" /\ index[s] = n

Inv ==
  /\ MasksExact
  /\ Types
  /\ CountInv
  /\ phase # "fit" => \A s \in Node : pc[s] = "done"
  /\ BoxesFresh
  /\ phase = "fit" => leaves = update /\ FittedInv /\ SubwarpInv /\ ReadyInv

LEMMA FreshIsEntry ==
  ASSUME Types, NEW n \in Node
  PROVE  Fresh(n) \subseteq Entry
BY DEF Types, Fresh, Entry

LEMMA InitInv == MasksExact /\ Init => Inv
<1> SUFFICES ASSUME MasksExact, Init PROVE Inv
  OBVIOUS
<1>1. Types
  BY LaunchAssumption DEF Init, Types, Entry
<1>2. CountInv
  <2> SUFFICES ASSUME NEW n \in Node PROVE updateCounter[n] = Cardinality(Kids(n) \cap arrived)
    BY DEF CountInv
  <2>1. Kids(n) \cap arrived = {}
    BY DEF Init
  <2> QED BY <2>1, FS_EmptySet DEF Init
<1>3. BoxesFresh
  BY DEF Init, BoxesFresh, Fresh
<1> QED BY <1>1, <1>2, <1>3 DEF Init, Inv

(* What the atomicAdd tells a subwarp: it is the last exactly if all       *)
(* children of the parent have arrived, itself included.                   *)
LEMMA LastArrival ==
  ASSUME CountInv, NEW n \in Node, NEW c \in Kids(n), c \notin arrived
  PROVE  /\ updateCounter[n] + 1 = Cardinality(Kids(n) \cap (arrived \cup {c}))
         /\ OthersArrived(n, Cardinality(Kids(n))) <=> Kids(n) \subseteq arrived \cup {c}
<1> DEFINE A == Kids(n) \cap arrived
           B == Kids(n) \cap (arrived \cup {c})
<1>1. IsFiniteSet(Kids(n)) /\ IsFiniteSet(A) /\ IsFiniteSet(B)
  BY KidsFinite, FS_Subset
<1>2. B = A \cup {c} /\ c \notin A
  OBVIOUS
<1>3. Cardinality(B) = Cardinality(A) + 1
  BY <1>1, <1>2, FS_AddElement
<1>4. Cardinality(Kids(n)) \in Nat /\ Cardinality(A) \in Nat /\ Cardinality(B) \in Nat
  BY <1>1, FS_CardinalityType
<1>5. updateCounter[n] = Cardinality(A)
  BY DEF CountInv
<1>6. Cardinality(B) <= Cardinality(Kids(n)) /\ (Cardinality(B) = Cardinality(Kids(n)) => Kids(n) = B)
  BY <1>1, FS_Subset
<1>7. Kids(n) = B <=> Kids(n) \subseteq arrived \cup {c}
  OBVIOUS
<1> HIDE DEF A, B
<1>8. OthersArrived(n, Cardinality(Kids(n))) <=> Cardinality(B) = Cardinality(Kids(n))
  BY <1>3, <1>4, <1>5, <1>6 DEF OthersArrived
<1> QED BY <1>3, <1>5, <1>6, <1>7, <1>8 DEF B

-----------------------------------------------------------------------------
LEMMA UpdateInv == ASSUME Inv, Update PROVE Inv'
<1>1. Types'
  BY LaunchAssumption DEF Inv, Types, Update
<1>2. CountInv'
  BY DEF Inv, CountInv, Update
<1> QED BY <1>1, <1>2 DEF Inv, Update, BoxesFresh

LEMMA ResetInv == ASSUME Inv, Reset PROVE Inv'
<1>1. \A n \in Node : ResetCounter(n) = 0
  BY LaunchAssumption, TreeAssumption DEF Node, ResetCounter
<1>2. Types'
  BY <1>1 DEF Inv, Types, Reset
<1>3. CountInv'
  <2> SUFFICES ASSUME NEW n \in Node
               PROVE  updateCounter'[n] = Cardinality(Kids(n) \cap arrived')
    BY DEF CountInv
  <2>1. Kids(n) \cap arrived' = {} /\ updateCounter'[n] = 0
    BY <1>1 DEF Reset
  <2> QED BY <2>1, FS_EmptySet
<1>4. FittedInv' /\ leaves' = update'
  BY DEF Reset, FittedInv
<1>5. \A s \in Node : pc'[s] = "grow" <=> Kids(s) = {}
  <2> SUFFICES ASSUME NEW s \in Node PROVE pc'[s] = "grow" <=> Kids(s) = {}
    OBVIOUS
  <2>1. Masked(s) = {{s}}
    BY OwnLanes DEF Inv
  <2>2. pc'[s] = "grow" <=> internalCount([t \in {s} |-> t]) = 0
    BY <2>1 DEF Reset
  <2>3. internalCount([t \in {s} |-> t]) = Cardinality(Kids(s))
    BY CountAt
  <2> QED BY <2>2, <2>3, KidsFinite, FS_EmptySet
<1>6. SubwarpInv'
  BY <1>5 DEF Reset, SubwarpInv
<1>7. ReadyInv'
  <2> SUFFICES ASSUME NEW n \in Node, Kids(n) = {}
               PROVE  pc'[n] \in {"grow", "write"} /\ index'[n] = n
    BY DEF Reset, ReadyInv
  <2> QED BY <1>5 DEF Reset
<1> QED BY <1>2, <1>3, <1>4, <1>6, <1>7 DEF Inv, Reset, BoxesFresh

LEMMA GrowInv == ASSUME Inv, NEW s \in Node, Grow(s) PROVE Inv'
<1> DEFINE n == index[s]
<1>1. phase = "fit" /\ n \in Node /\ Types /\ leaves = update /\ FittedInv /\ SubwarpInv /\ ReadyInv
  BY DEF Inv, Types, Grow
<1>2. n \notin fitted /\ Kids(n) \subseteq arrived
  BY <1>1 DEF SubwarpInv, Grow
<1>3. childBox'[s] = Fresh(n)
  <2>1. \A c \in Kids(n) : boxes[c] = Fresh(c)
    BY <1>1, <1>2 DEF FittedInv
  <2>2. childBox'[s] = {<<p, leaves>> : p \in Prims[n]} \cup UNION {boxes[c] : c \in Kids(n)}
    BY <1>1 DEF Grow, Types
  <2>3. Below[n] = Prims[n] \cup UNION {Below[c] : c \in Kids(n)}
    BY <1>1, BelowAssumption
  <2> HIDE DEF n
  <2>4. UNION {boxes[c] : c \in Kids(n)} = UNION {Fresh(c) : c \in Kids(n)}
    BY <2>1
  <2>5. Fresh(n) = {<<p, update>> : p \in Prims[n]} \cup UNION {Fresh(c) : c \in Kids(n)}
    BY <2>3 DEF Fresh
  <2> QED BY <2>2, <2>4, <2>5, <1>1
<1>4. Types'
  <2>1. childBox' \in [Node -> SUBSET Entry]
    BY <1>1, <1>3, FreshIsEntry DEF Grow, Types
  <2> QED BY <1>1, <2>1 DEF Grow, Types
<1>5. CountInv'
  BY DEF Inv, CountInv, Grow
<1>6. FittedInv'
  BY <1>1 DEF FittedInv, Grow, Fresh
<1>7. SubwarpInv'
  BY <1>1, <1>2, <1>3 DEF SubwarpInv, Grow, Types, Fresh
<1>8. ReadyInv'
  BY <1>1 DEF ReadyInv, Grow, Types
<1> QED BY <1>1, <1>4, <1>5, <1>6, <1>7, <1>8 DEF Inv, Grow, BoxesFresh

LEMMA WriteInv == ASSUME Inv, NEW s \in Node, Write(s) PROVE Inv'
<1> DEFINE n == index[s]
<1>1. phase = "fit" /\ n \in Node /\ Types /\ leaves = update /\ FittedInv /\ SubwarpInv /\ ReadyInv
  BY DEF Inv, Types, Write
<1>2. n \notin fitted /\ Kids(n) \subseteq arrived /\ childBox[s] = Fresh(n)
  BY <1>1 DEF SubwarpInv, Write
<1>3. pc'[s] = (IF n = 0 THEN "done" ELSE "arrive") /\ \A t \in Node \ {s} : pc'[t] = pc[t]
  BY <1>1, ParentBelow DEF Write, Types
<1>4. Types'
  BY <1>1 DEF Write, Types
<1>5. CountInv'
  BY DEF Inv, CountInv, Write
<1>6. FittedInv'
  BY <1>1, <1>2 DEF FittedInv, Write, Fresh, Types
<1>7. SubwarpInv'
  <2>1. \A t \in Node \ {s} : pc[t] # "done" => index[t] # n
    BY <1>1 DEF SubwarpInv, Write
  <2> QED BY <1>1, <1>2, <1>3, <2>1 DEF SubwarpInv, FittedInv, Write, Fresh
<1>8. ReadyInv'
  <2>1. ASSUME NEW m \in Node, m \notin fitted', Kids(m) \subseteq arrived'
        PROVE  \E t \in Node : pc'[t] \in {"grow", "write"} /\ index'[t] = m
    <3>1. m # n /\ m \notin fitted /\ Kids(m) \subseteq arrived
      BY <2>1 DEF Write
    <3>2. PICK t \in Node : pc[t] \in {"grow", "write"} /\ index[t] = m
      BY <1>1, <3>1 DEF ReadyInv
    <3> QED BY <1>3, <3>1, <3>2 DEF Write
  <2>2. ASSUME NEW m \in fitted', m \notin arrived', m # 0
        PROVE  \E t \in Node : pc'[t] = "arrive" /\ index'[t] = m
    <3>1. CASE m = n
      BY <1>3, <2>2, <3>1 DEF Write
    <3>2. CASE m # n
      <4>1. PICK t \in Node : pc[t] = "arrive" /\ index[t] = m
        BY <1>1, <2>2, <3>2 DEF ReadyInv, Write
      <4> QED BY <1>3, <3>2, <4>1 DEF Write
    <3> QED BY <3>1, <3>2
  <2> QED BY <2>1, <2>2 DEF ReadyInv
<1> QED BY <1>1, <1>4, <1>5, <1>6, <1>7, <1>8 DEF Inv, Write, BoxesFresh

LEMMA ArriveInv == ASSUME Inv, NEW s \in Node, Arrive(s) PROVE Inv'
<1> DEFINE c == index[s]
           n == ParentAddr[c]
<1>1. phase = "fit" /\ c \in Node /\ Types /\ CountInv /\ leaves = update
      /\ FittedInv /\ SubwarpInv /\ ReadyInv
  BY DEF Inv, Types, Arrive
<1>2. c \in fitted /\ c \notin arrived /\ c # 0
  BY <1>1 DEF SubwarpInv, Arrive
<1>3. n \in Node /\ c \in Kids(n) /\ \A m \in Node : c \in Kids(m) => m = n
  BY <1>1, <1>2, ParentBelow
<1>4. /\ updateCounter[n] + 1 = Cardinality(Kids(n) \cap arrived')
      /\ OthersArrived(n, Cardinality(Kids(n))) <=> Kids(n) \subseteq arrived'
  BY <1>1, <1>2, <1>3, LastArrival DEF Arrive
<1>5. arrived' = arrived \cup {c} /\ fitted' = fitted /\ boxes' = boxes
      /\ childBox' = childBox /\ UNCHANGED <<update, phase, leaves>>
  BY DEF Arrive
<1>6. \A t \in Node \ {s} : pc'[t] = pc[t] /\ index'[t] = index[t]
  BY <1>1 DEF Arrive, Types
<1>7. \/ OthersArrived(n, Cardinality(Kids(n))) /\ pc'[s] = "grow" /\ index'[s] = n
      \/ ~OthersArrived(n, Cardinality(Kids(n))) /\ pc'[s] = "done"
  <2>1. PICK at \in Under(s, n) :
          IF OthersArrived(n, internalCount(at))
          THEN pc' = [pc EXCEPT ![s] = "grow"] /\ index' = [index EXCEPT ![s] = n]
          ELSE pc' = [pc EXCEPT ![s] = "done"] /\ UNCHANGED index
    BY DEF Arrive
  <2>2. at \in [{s} -> Node] /\ at[s] = n
    <3>1. Masked(s) = {{s}}
      BY OwnLanes DEF Inv
    <3> HIDE DEF n
    <3> QED BY <2>1, <3>1 DEF Under
  <2>3. internalCount(at) = Cardinality(Kids(n))
    BY <1>3, <2>2, CountAt
  <2> HIDE DEF n
  <2> QED BY <1>1, <2>1, <2>3 DEF Types
<1>8. n \notin fitted
  BY <1>1, <1>2, <1>3 DEF FittedInv
<1>9. \A m \in Node : m # n => Kids(m) \cap arrived' = Kids(m) \cap arrived
  BY <1>3, <1>5
<1>10. Types'
  <2>1. updateCounter' \in [Node -> Nat]
    BY <1>1, <1>3 DEF Arrive, Types
  <2>2. pc' \in [Node -> {"grow", "write", "arrive", "done"}] /\ index' \in [Node -> Node]
    BY <1>1, <1>3 DEF Arrive, Types
  <2> QED BY <1>1, <1>5, <2>1, <2>2 DEF Types
<1>11. CountInv'
  <2> SUFFICES ASSUME NEW m \in Node
               PROVE  updateCounter'[m] = Cardinality(Kids(m) \cap arrived')
    BY DEF CountInv
  <2>1. CASE m = n
    BY <1>1, <1>4, <2>1 DEF Arrive, Types
  <2>2. CASE m # n
    BY <1>1, <1>9, <2>2 DEF Arrive, Types, CountInv
  <2> QED BY <2>1, <2>2
<1>12. FittedInv'
  BY <1>1, <1>2, <1>5 DEF FittedInv, Fresh
<1> HIDE DEF n, c
<1>13. SubwarpInv'
  <2>1. ASSUME NEW t \in Node, t # s, pc[t] # "done"
        PROVE  index[t] # n /\ index[t] # c
    <3>1. index[t] # c
      BY <1>1, <2>1 DEF SubwarpInv, Arrive, c
    <3>2. index[t] # n
      BY <1>1, <1>2, <1>3, <1>8, <2>1 DEF SubwarpInv, Types
    <3> QED BY <3>1, <3>2
  <2>2. ASSUME NEW t \in Node, pc'[t] \in {"grow", "write"}
        PROVE  index'[t] \notin fitted' /\ Kids(index'[t]) \subseteq arrived'
    BY <1>1, <1>4, <1>5, <1>6, <1>7, <1>8, <2>2 DEF SubwarpInv
  <2>3. ASSUME NEW t \in Node, pc'[t] = "write"
        PROVE  childBox'[t] = {<<p, update'>> : p \in Below[index'[t]]}
    <3>1. t # s /\ pc[t] = "write" /\ index'[t] = index[t]
      BY <1>6, <1>7, <2>3
    <3> QED BY <1>1, <1>5, <3>1 DEF SubwarpInv, Fresh
  <2>4. ASSUME NEW t \in Node, pc'[t] = "arrive"
        PROVE  index'[t] \in fitted' \ arrived' /\ index'[t] # 0
    BY <1>1, <1>5, <1>6, <1>7, <2>1, <2>4 DEF SubwarpInv
  <2>5. ASSUME NEW t \in Node, NEW u \in Node,
               pc'[t] # "done", pc'[u] # "done", index'[t] = index'[u]
        PROVE  t = u
    BY <1>1, <1>6, <1>7, <2>1, <2>5 DEF SubwarpInv
  <2> QED BY <2>2, <2>3, <2>4, <2>5 DEF SubwarpInv, Fresh
<1>14. ReadyInv'
  <2>1. ASSUME NEW m \in Node, m \notin fitted', Kids(m) \subseteq arrived'
        PROVE  \E t \in Node : pc'[t] \in {"grow", "write"} /\ index'[t] = m
    <3>1. CASE m = n
      BY <1>4, <1>7, <2>1, <3>1
    <3>2. CASE m # n
      <4>1. PICK t \in Node : pc[t] \in {"grow", "write"} /\ index[t] = m
        BY <1>1, <1>5, <1>9, <2>1, <3>2 DEF ReadyInv
      <4>2. t # s
        BY <4>1 DEF Arrive
      <4> QED BY <1>6, <4>1, <4>2
    <3> QED BY <3>1, <3>2
  <2>2. ASSUME NEW m \in fitted', m \notin arrived', m # 0
        PROVE  \E t \in Node : pc'[t] = "arrive" /\ index'[t] = m
    <3>1. PICK t \in Node : pc[t] = "arrive" /\ index[t] = m
      BY <1>1, <1>5, <2>2 DEF ReadyInv
    <3>2. t # s
      BY <1>5, <2>2, <3>1 DEF c
    <3> QED BY <1>6, <3>1, <3>2
  <2> QED BY <2>1, <2>2 DEF ReadyInv
<1> QED BY <1>1, <1>5, <1>10, <1>11, <1>12, <1>13, <1>14 DEF Inv, BoxesFresh

(* When no subwarp is left, every node has been fitted: the last node that *)
(* was not would have all its children in.                                 *)
LEMMA AllFitted ==
  ASSUME Inv, phase = "fit", \A s \in Node : pc[s] = "done"
  PROVE  fitted = Node
<1> SUFFICES ASSUME Node \ fitted # {} PROVE FALSE
  BY DEF Inv, Types
<1>1. PICK n \in Node \ fitted : \A m \in Node \ fitted : m <= n
  BY LastNode
<1>2. ASSUME NEW k \in Kids(n)
      PROVE  k \in arrived
  <2>1. k \in Node /\ k # 0 /\ n < k
    BY <1>1, <1>2, ParentBelow, TreeAssumption DEF Kids
  <2>2. k \in fitted
    BY <1>1, <2>1, TreeAssumption DEF Node
  <2> QED BY <2>1, <2>2 DEF Inv, ReadyInv
<1> QED BY <1>1, <1>2 DEF Inv, ReadyInv

LEMMA CompleteInv == ASSUME Inv, Complete PROVE Inv'
<1>1. fitted = Node
  BY AllFitted DEF Complete
<1>2. \A n \in Node : boxes[n] = Fresh(n)
  BY <1>1 DEF Complete, Inv, FittedInv
<1>3. Types' /\ CountInv'
  BY DEF Complete, Inv, Types, CountInv
<1> QED BY <1>2, <1>3 DEF Complete, Inv, BoxesFresh, Fresh

LEMMA NextInv == ASSUME Inv, [Next]_vars PROVE Inv'
<1>1. CASE Update
  BY <1>1, UpdateInv
<1>2. CASE Reset
  BY <1>2, ResetInv
<1>3. ASSUME NEW s \in Node, Step(s)
      PROVE  Inv'
  BY <1>3, GrowInv, WriteInv, ArriveInv DEF Step
<1>4. CASE Complete
  BY <1>4, CompleteInv
<1>5. CASE UNCHANGED vars
  BY <1>5 DEF vars, Inv, Types, CountInv, BoxesFresh, FittedInv, SubwarpInv, ReadyInv, Fresh
<1> QED BY <1>1, <1>2, <1>3, <1>4, <1>5 DEF Next, Terminated

LEMMA InvHolds == MasksExact => (Spec => []Inv)
BY InitInv, NextInv, PTL DEF Spec

-----------------------------------------------------------------------------
(* Type correctness: no counter passes the number of its children.  Here   *)
(* and below, no warp has more lanes than an int has bits.                 *)
THEOREM RefitTypeCorrect ==
  ASSUME MasksExact
  PROVE  Spec => []TypeOK
<1>1. ASSUME Inv PROVE TypeOK
  <2>1. ASSUME NEW n \in Node PROVE updateCounter[n] <= Cardinality(Kids(n))
    <3>1. IsFiniteSet(Kids(n))
      BY KidsFinite
    <3>2. Cardinality(Kids(n) \cap arrived) <= Cardinality(Kids(n))
      BY <3>1, FS_Subset
    <3> QED BY <1>1, <3>2 DEF Inv, CountInv
  <2>2. Types
    BY <1>1 DEF Inv
  <2> QED BY <2>1, <2>2 DEF Types, TypeOK
<1> QED BY <1>1, InvHolds, PTL

(* Between updates every box is made of the primitives as the last update  *)
(* left them, whatever the order in which the subwarps ran.                *)
THEOREM BoxesAlwaysFresh ==
  ASSUME MasksExact
  PROVE  Spec => []BoxesFresh
<1>1. Inv => BoxesFresh
  BY DEF Inv
<1> QED BY <1>1, InvHolds, PTL

(* No box is written twice in an update, or with a stale part.             *)
THEOREM BoxesWrittenOnce ==
  ASSUME MasksExact
  PROVE  Spec => WrittenOnce
<1> DEFINE Once == \A s \in Node : Write(s) =>
                     index[s] \notin fitted /\ childBox[s] = Fresh(index[s])
<1>1. Inv /\ [Next]_vars => [Once]_vars
  <2> SUFFICES ASSUME Inv, NEW s \in Node, Write(s)
               PROVE  index[s] \notin fitted /\ childBox[s] = Fresh(index[s])
    OBVIOUS
  <2>1. phase = "fit" /\ SubwarpInv
    BY DEF Inv, Write
  <2> QED BY <2>1 DEF SubwarpInv, Write
<1> QED BY <1>1, InvHolds, PTL DEF Spec, WrittenOnce

(* Within an update a node is fitted only after all its internal children. *)
THEOREM FitsChildrenFirst ==
  ASSUME MasksExact
  PROVE  Spec => ChildrenFirst
<1>1. Inv /\ [Next]_vars => [Reset \/ Climb!Next \/ UNCHANGED fitted]_vars
  <2> SUFFICES ASSUME Inv, NEW s \in Node, Write(s)
               PROVE  Climb!Next
    BY DEF Next, Step, Update, Grow, Arrive, Complete, Terminated, vars
  <2>1. index[s] \in Node /\ FittedInv /\ SubwarpInv
    BY DEF Inv, Types, Write
  <2>2. index[s] \notin fitted /\ Kids(index[s]) \subseteq fitted
    BY <2>1 DEF SubwarpInv, FittedInv, Write
  <2>3. Climb!Fit(index[s])
    BY <2>1, <2>2 DEF Climb!Fit, Write
  <2> QED BY <2>1, <2>3 DEF Climb!Next
<1> QED BY <1>1, InvHolds, PTL DEF Spec, ChildrenFirst
=============================================================================
