--------------------------- MODULE TraversalProofs ---------------------------
(***************************************************************************)
(* Proofs about the traversal, for any scene and any ray.  The stack is    *)
(* the plan of what is left to do: a mark for each tree the ray is in,     *)
(* above it the nodes of that tree.  What the ray must find is either      *)
(* found or below exactly one entry of the plan.                           *)
(***************************************************************************)
EXTENDS Traversal, FiniteSetTheorems, SequenceTheorems, WellFoundedInduction, TLAPS

-----------------------------------------------------------------------------
(* Natural numbers.                                                        *)

(* A set of naturals that is not empty has a smallest element, for the     *)
(* intervals below its elements are ordered like the elements.             *)
LEMMA Smallest ==
  ASSUME NEW U \in SUBSET Nat, U # {}
  PROVE  \E n \in U : \A k \in U : n <= k
<1>1. PICK top \in U : TRUE
  OBVIOUS
<1> DEFINE below(n) == 0 .. n - 1
           T == {below(n) : n \in {u \in U : u <= top}}
<1>2. IsFiniteSet(0 .. top)
  BY FS_Interval
<1>3. IsWellFoundedOn(StrictSubsetOrdering(0 .. top), SUBSET (0 .. top))
  BY <1>2, FS_StrictSubsetOrderingWellFounded, FS_FiniteSubsetsOfFinite, Zenon
<1>4. T \in SUBSET SUBSET (0 .. top) /\ T # {}
  <2>1. \A n \in U : n <= top => below(n) \subseteq 0 .. top
    OBVIOUS
  <2>2. top \in {u \in U : u <= top}
    BY <1>1
  <2> HIDE DEF below
  <2> QED BY <2>1, <2>2
<1> HIDE DEF T
<1>5. PICK x \in T : \A y \in T : <<y, x>> \notin StrictSubsetOrdering(0 .. top)
  BY <1>3, <1>4, WFMin
<1>6. PICK n \in U : n <= top /\ x = below(n)
  BY <1>5 DEF T
<1>7. ASSUME NEW k \in U, k < n
      PROVE  FALSE
  <2>1. k \in {u \in U : u <= top}
    BY <1>6, <1>7
  <2>2. below(k) \in T
    BY <2>1 DEF T
  <2>3. below(k) \subseteq below(n) /\ k \in below(n) /\ k \notin below(k)
    BY <1>7
  <2>4. <<below(k), below(n)>> \in StrictSubsetOrdering(0 .. top)
    BY <2>2, <2>3, <1>4, <1>5, <1>6 DEF StrictSubsetOrdering
  <2> QED BY <2>2, <2>4, <1>5, <1>6
<1> QED BY <1>7

(* The minimum of such a set.                                              *)
LEMMA MinIsSmallest ==
  ASSUME NEW U \in SUBSET Nat, U # {}
  PROVE  Min(U) \in U /\ \A k \in U : Min(U) <= k
<1>1. \E n \in U : \A k \in U : n <= k
  BY Smallest
<1> QED BY <1>1 DEF Min

-----------------------------------------------------------------------------
(* Marks on a stack, up to a position.                                     *)

MarksIn(s, n) == Cardinality({k \in 1 .. n : s[k] = InvalidValue})

LEMMA MarksType ==
  ASSUME NEW s, NEW n \in Nat
  PROVE  /\ MarksIn(s, n) \in Nat
         /\ IsFiniteSet({k \in 1 .. n : s[k] = InvalidValue})
<1>1. IsFiniteSet(1 .. n)
  BY FS_Interval
<1>2. IsFiniteSet({k \in 1 .. n : s[k] = InvalidValue})
  BY <1>1, FS_Subset
<1> QED BY <1>2, FS_CardinalityType DEF MarksIn

LEMMA MarksSame ==
  ASSUME NEW s, NEW t, NEW n \in Nat, \A k \in 1 .. n : s[k] = t[k]
  PROVE  MarksIn(s, n) = MarksIn(t, n)
<1>1. {k \in 1 .. n : s[k] = InvalidValue} = {k \in 1 .. n : t[k] = InvalidValue}
  OBVIOUS
<1> QED BY <1>1 DEF MarksIn

LEMMA MarksNone ==
  ASSUME NEW s, NEW a \in Nat, NEW b \in Nat, a <= b,
         \A k \in a + 1 .. b : s[k] # InvalidValue
  PROVE  MarksIn(s, b) = MarksIn(s, a)
<1>1. {k \in 1 .. a : s[k] = InvalidValue} = {k \in 1 .. b : s[k] = InvalidValue}
  OBVIOUS
<1> QED BY <1>1 DEF MarksIn

LEMMA MarksAll ==
  ASSUME NEW s, NEW a \in Nat, NEW b \in Nat, a <= b,
         \A k \in a + 1 .. b : s[k] = InvalidValue
  PROVE  MarksIn(s, b) = MarksIn(s, a) + (b - a)
<1> DEFINE A == {k \in 1 .. a : s[k] = InvalidValue}
           B == {k \in 1 .. b : s[k] = InvalidValue}
           C == a + 1 .. b
<1>1. B = A \cup C /\ A \cap C = {}
  OBVIOUS
<1>2. IsFiniteSet(A) /\ Cardinality(A) \in Nat
  BY MarksType, FS_CardinalityType
<1>3. IsFiniteSet(C) /\ Cardinality(C) = b - a
  <2>1. IsFiniteSet(C) /\ Cardinality(C) = IF a + 1 > b THEN 0 ELSE b - (a + 1) + 1
    BY FS_Interval
  <2> QED BY <2>1
<1> HIDE DEF A, B, C
<1>4. Cardinality(A \cap C) = 0
  BY <1>1, FS_EmptySet
<1>5. Cardinality(A \cup C) = Cardinality(A) + Cardinality(C) - Cardinality(A \cap C)
  BY <1>2, <1>3, FS_Union
<1>6. Cardinality(B) = Cardinality(A) + (b - a)
  BY <1>1, <1>2, <1>3, <1>4, <1>5
<1> QED BY <1>6 DEF MarksIn, A, B

LEMMA MarksMonotone ==
  ASSUME NEW s, NEW a \in Nat, NEW b \in Nat, a <= b
  PROVE  MarksIn(s, a) <= MarksIn(s, b)
<1>1. {k \in 1 .. a : s[k] = InvalidValue} \subseteq {k \in 1 .. b : s[k] = InvalidValue}
  OBVIOUS
<1> QED BY <1>1, MarksType, FS_Subset DEF MarksIn

(* Above the mark at the bottom there is a mark or more.                   *)
LEMMA MarksAbove ==
  ASSUME NEW s, NEW n \in Nat \ {0}, s[1] = InvalidValue
  PROVE  MarksIn(s, 1) = 1 /\ MarksIn(s, n) >= 1 /\ MarksIn(s, n) \in Nat
<1>1. MarksIn(s, 0) = 0
  <2>1. {k \in 1 .. 0 : s[k] = InvalidValue} = {}
    OBVIOUS
  <2> QED BY <2>1, FS_EmptySet DEF MarksIn
<1>2. MarksIn(s, 1) = MarksIn(s, 0) + (1 - 0)
  BY MarksAll
<1>3. MarksIn(s, 1) <= MarksIn(s, n)
  <2>1. n \in Nat /\ 1 \in Nat /\ 1 <= n
    OBVIOUS
  <2> HIDE DEF MarksIn
  <2> QED BY <2>1, MarksMonotone
<1>4. MarksIn(s, n) \in Nat
  BY MarksType
<1> QED BY <1>1, <1>2, <1>3, <1>4

-----------------------------------------------------------------------------
(* Paths.                                                                  *)

Prefix(path, n) == SubSeq(path, 1, n)

LEMMA PrefixType ==
  ASSUME NEW S, NEW s \in Seq(S), NEW n \in 0 .. Len(s)
  PROVE  /\ Prefix(s, n) \in Seq(S) /\ Len(Prefix(s, n)) = n
         /\ \A k \in 1 .. n : Prefix(s, n)[k] = s[k]
<1>1. \A i \in 1 .. n : s[i] \in S
  BY ElementOfSeq, LenProperties
<1>2. /\ SubSeq(s, 1, n) \in Seq(S)
      /\ Len(SubSeq(s, 1, n)) = IF 1 <= n THEN n - 1 + 1 ELSE 0
      /\ \A i \in 1 .. n - 1 + 1 : SubSeq(s, 1, n)[i] = s[1 + i - 1]
  BY <1>1, SubSeqProperties, LenProperties
<1>3. n \in Nat
  BY LenProperties
<1> QED BY <1>2, <1>3 DEF Prefix

LEMMA PrefixIs ==
  ASSUME NEW S, NEW s \in Seq(S), NEW t \in Seq(S), Len(t) <= Len(s),
         \A k \in 1 .. Len(t) : t[k] = s[k]
  PROVE  t = Prefix(s, Len(t))
<1>1. Len(t) \in 0 .. Len(s)
  BY LenProperties
<1>2. /\ Prefix(s, Len(t)) \in Seq(S) /\ Len(Prefix(s, Len(t))) = Len(t)
      /\ \A k \in 1 .. Len(t) : Prefix(s, Len(t))[k] = s[k]
  BY <1>1, PrefixType
<1> QED BY <1>2, SeqEqual

LEMMA PrefixFull ==
  ASSUME NEW S, NEW s \in Seq(S)
  PROVE  Prefix(s, Len(s)) = s
BY SubSeqFull DEF Prefix

LEMMA PrefixEmpty == \A s : Prefix(s, 0) = <<>>
BY SubSeqEmpty DEF Prefix

LEMMA PrefixOfPrefix ==
  ASSUME NEW S, NEW s \in Seq(S), NEW n \in 0 .. Len(s), NEW k \in 0 .. n
  PROVE  Prefix(Prefix(s, n), k) = Prefix(s, k)
<1>1. k \in 0 .. Len(s) /\ n \in Nat /\ Len(s) \in Nat
  BY LenProperties
<1>2. /\ Prefix(s, n) \in Seq(S) /\ Len(Prefix(s, n)) = n
      /\ \A j \in 1 .. n : Prefix(s, n)[j] = s[j]
  BY PrefixType
<1>3. /\ Prefix(Prefix(s, n), k) \in Seq(S) /\ Len(Prefix(Prefix(s, n), k)) = k
      /\ \A j \in 1 .. k : Prefix(Prefix(s, n), k)[j] = Prefix(s, n)[j]
  BY <1>2, PrefixType
<1>4. k <= Len(s) /\ \A j \in 1 .. k : Prefix(Prefix(s, n), k)[j] = s[j]
  BY <1>1, <1>2, <1>3
<1> QED BY <1>3, <1>4, PrefixIs

LEMMA PrefixOfAppend ==
  ASSUME NEW S, NEW s \in Seq(S), NEW e \in S, NEW n \in 0 .. Len(s)
  PROVE  Prefix(Append(s, e), n) = Prefix(s, n)
<1>1. /\ Append(s, e) \in Seq(S) /\ Len(Append(s, e)) = Len(s) + 1
      /\ \A i \in 1 .. Len(s) : Append(s, e)[i] = s[i]
  BY AppendProperties
<1>2. n \in 0 .. Len(Append(s, e)) /\ Len(s) \in Nat
  BY <1>1, LenProperties
<1>3. /\ Prefix(Append(s, e), n) \in Seq(S) /\ Len(Prefix(Append(s, e), n)) = n
      /\ \A k \in 1 .. n : Prefix(Append(s, e), n)[k] = Append(s, e)[k]
  BY <1>1, <1>2, PrefixType
<1>4. n <= Len(s) /\ \A k \in 1 .. n : Prefix(Append(s, e), n)[k] = s[k]
  BY <1>1, <1>2, <1>3
<1> QED BY <1>3, <1>4, PrefixIs

LEMMA FrontIsPrefix ==
  ASSUME NEW S, NEW s \in Seq(S), s # <<>>
  PROVE  /\ Front(s) = Prefix(s, Len(s) - 1) /\ Len(s) \in Nat \ {0}
         /\ Front(s) \in Seq(S) /\ Len(Front(s)) = Len(s) - 1
         /\ \A k \in 1 .. Len(s) - 1 : Front(s)[k] = s[k]
         /\ Last(s) = s[Len(s)] /\ Last(s) \in S
<1>1. Len(s) \in Nat \ {0}
  BY EmptySeq
<1>2. Len(s) - 1 \in 0 .. Len(s)
  BY <1>1
<1>3. Last(s) \in S
  BY <1>1, ElementOfSeq DEF Last
<1> QED BY <1>1, <1>2, <1>3, PrefixType DEF Front, Last, Prefix

LEMMA FrontOfAppend ==
  ASSUME NEW S, NEW s \in Seq(S), NEW e \in S
  PROVE  Front(Append(s, e)) = s /\ Last(Append(s, e)) = e
<1>1. /\ Append(s, e) \in Seq(S) /\ Append(s, e) # <<>>
      /\ Len(Append(s, e)) = Len(s) + 1 /\ Append(s, e)[Len(s) + 1] = e
  BY AppendProperties
<1>2. Len(s) \in 0 .. Len(s) /\ Len(s) \in Nat
  BY LenProperties
<1>3. Front(Append(s, e)) = Prefix(Append(s, e), Len(s))
  <2> DEFINE t == Append(s, e)
  <2> HIDE DEF t
  <2>1. Front(t) = Prefix(t, Len(t) - 1)
    BY <1>1, FrontIsPrefix DEF t
  <2>2. Len(t) - 1 = Len(s)
    BY <1>1, <1>2 DEF t
  <2> QED BY <2>1, <2>2 DEF t
<1>4. Prefix(Append(s, e), Len(s)) = s
  BY <1>2, PrefixOfAppend, PrefixFull
<1> QED BY <1>1, <1>3, <1>4 DEF Last

-----------------------------------------------------------------------------
(* Spaces.                                                                 *)

Ray == [Ids -> Nat]

LEMMA SpaceType ==
  ASSUME NEW path \in Seq(Ids)
  PROVE  Space(path) \in Ray
<1>1. Len(path) \in Nat /\ DOMAIN path = 1 .. Len(path)
  BY LenProperties
<1>2. IsFiniteSet(DOMAIN path)
  BY <1>1, FS_Interval
<1>3. ASSUME NEW id \in Ids
      PROVE  Cardinality({k \in DOMAIN path : path[k] = id}) \in Nat
  BY <1>2, FS_Subset, FS_CardinalityType
<1> QED BY <1>3 DEF Space, Ray

(* The transform of an instance is applied to the space around it.         *)
LEMMA SpaceOfAppend ==
  ASSUME NEW path \in Seq(Ids), NEW id \in Ids
  PROVE  Space(Append(path, id)) =
           IF id \in config.identity THEN Space(path) ELSE Applied(Space(path), id)
<1> DEFINE at(q, i) == {k \in DOMAIN q : q[k] = i}
           n == Len(path) + 1
<1>1. /\ Append(path, id) \in Seq(Ids) /\ Len(Append(path, id)) = n
      /\ \A i \in 1 .. Len(path) : Append(path, id)[i] = path[i]
      /\ Append(path, id)[n] = id
  BY AppendProperties
<1>2. /\ Len(path) \in Nat /\ DOMAIN path = 1 .. Len(path)
      /\ DOMAIN Append(path, id) = 1 .. n
  BY <1>1, LenProperties
<1>3. ASSUME NEW i \in Ids, i # id
      PROVE  at(Append(path, id), i) = at(path, i)
  BY <1>1, <1>2, <1>3
<1>4. /\ at(Append(path, id), id) = at(path, id) \cup {n} /\ n \notin at(path, id)
  BY <1>1, <1>2
<1>5. IsFiniteSet(at(path, id))
  <2>1. IsFiniteSet(DOMAIN path)
    BY <1>2, FS_Interval
  <2> QED BY <2>1, FS_Subset
<1>6. Cardinality(at(Append(path, id), id)) = Cardinality(at(path, id)) + 1
  BY <1>4, <1>5, FS_AddElement
<1> HIDE DEF at
<1>7. \A q : Space(q) = [i \in Ids |-> IF i \in config.identity THEN 0 ELSE Cardinality(at(q, i))]
  BY DEF Space, at
<1>8. CASE id \in config.identity
  <2>1. \A i \in Ids : i \notin config.identity => at(Append(path, id), i) = at(path, i)
    BY <1>3, <1>8
  <2>2. Space(Append(path, id)) =
          [i \in Ids |-> IF i \in config.identity THEN 0 ELSE Cardinality(at(Append(path, id), i))]
    BY <1>7
  <2>3. Space(path) = [i \in Ids |-> IF i \in config.identity THEN 0 ELSE Cardinality(at(path, i))]
    BY <1>7
  <2> QED BY <1>8, <2>1, <2>2, <2>3
<1>9. CASE id \notin config.identity
  <2> DEFINE S == Space(path)
             T == Space(Append(path, id))
  <2>1. DOMAIN S = Ids /\ DOMAIN T = Ids /\ S = [i \in Ids |-> S[i]] /\ T = [i \in Ids |-> T[i]]
    BY DEF Space
  <2>2. S[id] = Cardinality(at(path, id)) /\ T[id] = Cardinality(at(Append(path, id), id))
    BY <1>7, <1>9
  <2>3. \A i \in Ids : i # id => T[i] = S[i]
    BY <1>3, <1>7
  <2> HIDE DEF S, T
  <2>4. T[id] = S[id] + 1
    BY <2>2, <1>6
  <2>5. T = Applied(S, id)
    BY <2>1, <2>3, <2>4 DEF Applied
  <2> QED BY <1>9, <2>5 DEF S, T
<1> QED BY <1>8, <1>9

-----------------------------------------------------------------------------
(* Trees.                                                                  *)

Index == UNION {Nodes(b) : b \in Trees}

LEMMA TreeOfAppend ==
  ASSUME NEW path \in Seq(Ids), NEW id \in Ids
  PROVE  TreeOf(Append(path, id)) = Instances[id]
BY FrontOfAppend, AppendProperties DEF TreeOf

LEMMA TreeOfType ==
  ASSUME NEW path \in Seq(Ids)
  PROVE  TreeOf(path) \in Trees
<1>1. CASE path = <<>>
  BY <1>1, InstanceAssumption DEF TreeOf
<1>2. CASE path # <<>>
  <2>1. Last(path) \in Ids
    BY <1>2, FrontIsPrefix
  <2> QED BY <1>2, <2>1, InstanceAssumption DEF TreeOf
<1> QED BY <1>1, <1>2

LEMMA LeafOfIs ==
  ASSUME NEW b \in Scenes, NEW i \in DOMAIN Contents[b]
  PROVE  /\ LeafOf(b, Contents[b][i]) = i /\ Contents[b][i] \in Ids
         /\ Contents[b][i] \in IdsOf(b)
BY InstanceAssumption DEF LeafOf, IdsOf

LEMMA IdsOfLeaf ==
  ASSUME NEW b \in Scenes, NEW id \in IdsOf(b)
  PROVE  LeafOf(b, id) \in DOMAIN Contents[b] /\ Contents[b][LeafOf(b, id)] = id /\ id \in Ids
BY InstanceAssumption DEF LeafOf, IdsOf

(* The pairs of a leaf, and the primitives in them.                        *)
LEMMA PairsType ==
  ASSUME NEW b \in Trees \ Scenes, NEW i \in DOMAIN Contents[b]
  PROVE  /\ Len(PairsOf(b, i)) \in Nat \ {0}
         /\ Len(PairsOf(b, i)) <= Len(Contents[b][i]) /\ Len(Contents[b][i]) \in Nat
         /\ DOMAIN PairsOf(b, i) = 1 .. Len(PairsOf(b, i))
         /\ \A k \in 1 .. Len(PairsOf(b, i)) :
              /\ PairsOf(b, i)[k] = Contents[b][i][k]
              /\ DOMAIN PairsOf(b, i)[k] = 1 .. 2
         /\ ~Packets \/ b \in Customs => Len(PairsOf(b, i)) = 1
         /\ b \in Customs => PairsOf(b, i)[1][2] = InvalidValue
<1> DEFINE whole == Contents[b][i]
<1>1. /\ Len(whole) \in Nat \ {0} /\ DOMAIN whole = 1 .. Len(whole)
      /\ \A k \in DOMAIN whole : DOMAIN whole[k] = 1 .. 2
      /\ b \in Customs => Len(whole) = 1 /\ whole[1][2] = InvalidValue
  BY PrimitiveAssumption
<1> HIDE DEF whole
<1>2. CASE Packets
  <2>1. PairsOf(b, i) = whole
    BY <1>2 DEF PairsOf, whole
  <2> QED BY <1>1, <1>2, <2>1 DEF whole
<1>3. CASE ~Packets
  <2>1. PairsOf(b, i) = SubSeq(whole, 1, 1)
    BY <1>3 DEF PairsOf, whole
  <2>2. \A k \in 1 .. 1 : whole[k] \in {whole[1]}
    OBVIOUS
  <2>3. /\ SubSeq(whole, 1, 1) \in Seq({whole[1]})
        /\ Len(SubSeq(whole, 1, 1)) = IF 1 <= 1 THEN 1 - 1 + 1 ELSE 0
        /\ \A k \in 1 .. 1 - 1 + 1 : SubSeq(whole, 1, 1)[k] = whole[1 + k - 1]
    BY <2>2, SubSeqProperties
  <2>4. /\ Len(PairsOf(b, i)) = 1 /\ PairsOf(b, i)[1] = whole[1]
        /\ DOMAIN PairsOf(b, i) = 1 .. 1
    BY <2>1, <2>3, LenProperties
  <2> QED BY <1>1, <1>3, <2>4 DEF whole
<1> QED BY <1>2, <1>3

LEMMA PrimsAre ==
  ASSUME NEW b \in Trees \ Scenes, NEW i \in DOMAIN Contents[b]
  PROVE  /\ \A p \in PrimsOf(b, i) : /\ p # InvalidValue
                                      /\ \E k \in 1 .. Len(PairsOf(b, i)), s \in 1 .. 2 : p = PairsOf(b, i)[k][s]
         /\ \A k \in 1 .. Len(PairsOf(b, i)), s \in 1 .. 2 :
              PairsOf(b, i)[k][s] = InvalidValue \/ PairsOf(b, i)[k][s] \in PrimsOf(b, i)
<1> DEFINE pairs == PairsOf(b, i)
           all == UNION {ToSet(pair) : pair \in ToSet(pairs)}
<1>1. /\ DOMAIN pairs = 1 .. Len(pairs)
      /\ \A k \in 1 .. Len(pairs) : DOMAIN pairs[k] = 1 .. 2
  BY PairsType
<1>2. PrimsOf(b, i) = all \ {InvalidValue}
  BY DEF PrimsOf
<1> HIDE DEF pairs, all
<1>3. ToSet(pairs) = {pairs[k] : k \in 1 .. Len(pairs)}
  BY <1>1 DEF ToSet
<1>4. \A k \in 1 .. Len(pairs) : ToSet(pairs[k]) = {pairs[k][s] : s \in 1 .. 2}
  BY <1>1 DEF ToSet
<1>5. ASSUME NEW p \in PrimsOf(b, i)
      PROVE  p # InvalidValue /\ \E k \in 1 .. Len(pairs), s \in 1 .. 2 : p = pairs[k][s]
  <2>1. PICK pair \in ToSet(pairs) : p \in ToSet(pair)
    BY <1>2 DEF all
  <2>2. PICK k \in 1 .. Len(pairs) : pair = pairs[k]
    BY <2>1, <1>3
  <2>3. p \in {pairs[k][s] : s \in 1 .. 2}
    BY <2>1, <2>2, <1>4
  <2>4. PICK s \in 1 .. 2 : p = pairs[k][s]
    BY <2>3
  <2>5. p # InvalidValue
    BY <1>2
  <2> QED BY <2>4, <2>5
<1>6. ASSUME NEW k \in 1 .. Len(pairs), NEW s \in 1 .. 2, pairs[k][s] # InvalidValue
      PROVE  pairs[k][s] \in PrimsOf(b, i)
  <2>1. pairs[k] \in ToSet(pairs) /\ pairs[k][s] \in ToSet(pairs[k])
    BY <1>3, <1>4
  <2>2. pairs[k][s] \in all
    BY <2>1 DEF all
  <2> QED BY <2>2, <1>2, <1>6
<1> QED BY <1>5, <1>6 DEF pairs

(* A primitive is in one place of its tree.                                *)
LEMMA OnePlace ==
  ASSUME NEW b \in Trees \ Scenes, NEW i \in DOMAIN Contents[b], NEW j \in DOMAIN Contents[b],
         NEW k \in 1 .. Len(PairsOf(b, i)), NEW n \in 1 .. Len(PairsOf(b, j)),
         NEW s \in 1 .. 2, NEW r \in 1 .. 2,
         PairsOf(b, i)[k][s] = PairsOf(b, j)[n][r], PairsOf(b, i)[k][s] # InvalidValue
  PROVE  i = j /\ k = n /\ s = r
<1>1. /\ k \in 1 .. Len(Contents[b][i]) /\ PairsOf(b, i)[k] = Contents[b][i][k]
      /\ n \in 1 .. Len(Contents[b][j]) /\ PairsOf(b, j)[n] = Contents[b][j][n]
  BY PairsType
<1>2. k \in DOMAIN Contents[b][i] /\ n \in DOMAIN Contents[b][j]
  BY <1>1, PrimitiveAssumption
<1>3. <<i, k, s>> = <<j, n, r>>
  BY <1>1, <1>2, PrimitiveAssumption
<1> QED BY <1>3

LEMMA OneLeaf ==
  ASSUME NEW b \in Trees \ Scenes, NEW i \in DOMAIN Contents[b], NEW j \in DOMAIN Contents[b],
         NEW p \in PrimsOf(b, i), p \in PrimsOf(b, j)
  PROVE  i = j
<1>1. PICK k \in 1 .. Len(PairsOf(b, i)), s \in 1 .. 2 : p # InvalidValue /\ p = PairsOf(b, i)[k][s]
  BY PrimsAre
<1>2. PICK n \in 1 .. Len(PairsOf(b, j)), r \in 1 .. 2 : p = PairsOf(b, j)[n][r]
  BY PrimsAre
<1>3. PairsOf(b, i)[k][s] = PairsOf(b, j)[n][r] /\ PairsOf(b, i)[k][s] # InvalidValue
  BY <1>1, <1>2
<1> QED BY <1>3, OnePlace

-----------------------------------------------------------------------------
(* What is below a node.                                                   *)

LEMMA PrimitiveIs ==
  ASSUME NEW c \in Primitive
  PROVE  /\ c = <<c[1], c[2]>> /\ c[1] \in Seq(Ids) /\ Len(c[1]) \in Nat \ {0}
         /\ TreeOf(c[1]) \in Trees \ Scenes /\ c[2] # InvalidValue
         /\ \E i \in DOMAIN Contents[TreeOf(c[1])] : c[2] \in PrimsOf(TreeOf(c[1]), i)
         /\ \A k \in 1 .. Len(c[1]) :
              /\ c[1][k] \in IdsOf(TreeOf(Prefix(c[1], k - 1)))
              /\ TreeOf(Prefix(c[1], k)) \in Scenes <=> k < Len(c[1])
<1>1. PICK q \in Paths : c \in {<<q, p>> : p \in UNION {PrimsOf(TreeOf(q), i) : i \in DOMAIN Contents[TreeOf(q)]}}
  BY DEF Primitive
<1>2. PICK p \in UNION {PrimsOf(TreeOf(q), i) : i \in DOMAIN Contents[TreeOf(q)]} : c = <<q, p>>
  BY <1>1
<1>3. PICK i \in DOMAIN Contents[TreeOf(q)] : p \in PrimsOf(TreeOf(q), i)
  BY <1>2
<1>4. c[1] = q /\ c[2] = p
  BY <1>2
<1>5. q \in BoundedSeq(Ids, MaxInstanceLevels) /\ Leads(q)
  BY DEF Paths
<1>6. q \in Seq(Ids)
  <2>1. PICK n \in 0 .. MaxInstanceLevels : q \in [1 .. n -> Ids]
    BY <1>5 DEF BoundedSeq, SeqOf
  <2> QED BY <2>1, ConfigurationAssumption
<1>7. Len(q) \in Nat \ {0} /\ DOMAIN q = 1 .. Len(q)
  BY <1>5, <1>6, EmptySeq, LenProperties DEF Leads
<1>8. \A k \in 1 .. Len(q) :
        /\ q[k] \in IdsOf(TreeOf(Prefix(q, k - 1)))
        /\ TreeOf(Prefix(q, k)) \in Scenes <=> k < Len(q)
  BY <1>5, <1>7 DEF Leads, Prefix
<1>9. TreeOf(q) \in Trees \ Scenes
  <2>1. Len(q) \in 1 .. Len(q) /\ Prefix(q, Len(q)) = q
    BY <1>6, <1>7, PrefixFull
  <2>2. TreeOf(q) \notin Scenes
    BY <1>7, <1>8, <2>1
  <2> QED BY <2>2, <1>6, TreeOfType
<1>10. p # InvalidValue
  BY <1>3, <1>9, PrimsAre
<1> QED BY <1>2, <1>3, <1>4, <1>6, <1>7, <1>8, <1>9, <1>10

(* All primitives are below the root of the top scene.                     *)
LEMMA BelowTop ==
  ASSUME NEW c \in Primitive
  PROVE  Below(c, <<>>, RootIndex)
<1>1. /\ c[1] \in Seq(Ids) /\ Len(c[1]) \in Nat \ {0}
      /\ c[1][1] \in IdsOf(TreeOf(Prefix(c[1], 0)))
  BY PrimitiveIs
<1>2. SubSeq(c[1], 1, 0) = <<>> /\ TreeOf(<<>>) = TopScene /\ Len(<<>>) = 0
  BY PrefixEmpty DEF Prefix, TreeOf
<1>3. c[1][1] \in IdsOf(TopScene)
  BY <1>1, <1>2 DEF Prefix
<1>4. LeafOf(TopScene, c[1][1]) \in Cover[TopScene][RootIndex]
  BY <1>3, IdsOfLeaf, InstanceAssumption, TreeAssumption
<1> QED BY <1>1, <1>2, <1>4, InstanceAssumption DEF Below

(* What is below an instance is below the root of its tree.                *)
LEMMA BelowRoot ==
  ASSUME NEW c \in Primitive, NEW path \in Seq(Ids), TreeOf(path) \in Scenes,
         NEW i \in DOMAIN Contents[TreeOf(path)],
         NEW id, id = Contents[TreeOf(path)][i]
  PROVE  Below(c, Append(path, id), RootIndex) <=> Below(c, path, i)
<1> DEFINE q == c[1]
           n == Len(path)
           inner == Append(path, id)
           b == TreeOf(path)
           d == Instances[id]
<1>1. /\ q \in Seq(Ids) /\ Len(q) \in Nat \ {0} /\ TreeOf(q) \in Trees \ Scenes
      /\ \E j \in DOMAIN Contents[TreeOf(q)] : c[2] \in PrimsOf(TreeOf(q), j)
      /\ \A k \in 1 .. Len(q) : /\ q[k] \in IdsOf(TreeOf(Prefix(q, k - 1)))
                                /\ TreeOf(Prefix(q, k)) \in Scenes <=> k < Len(q)
  BY PrimitiveIs
<1>2. /\ id \in Ids /\ LeafOf(b, id) = i /\ d \in Trees
      /\ Cover[b][i] = {i} /\ Cover[d][RootIndex] = DOMAIN Contents[d]
  BY LeafOfIs, InstanceAssumption, TreeAssumption
<1>3. /\ n \in Nat /\ inner \in Seq(Ids) /\ Len(inner) = n + 1 /\ inner # <<>>
      /\ \A k \in 1 .. n : inner[k] = path[k]
      /\ inner[n + 1] = id /\ TreeOf(inner) = d
  BY <1>2, AppendProperties, TreeOfAppend, LenProperties
<1> HIDE DEF q, n, inner, b, d
<1>4. Below(c, path, i) <=> Len(q) > n /\ Prefix(q, n) = path /\ LeafOf(b, q[n + 1]) = i
  BY <1>2 DEF Below, Prefix, q, n, b
<1>5. Below(c, path, i) <=> Len(q) >= n + 1 /\ Prefix(q, n + 1) = inner
  <2>1. ASSUME Len(q) > n, Prefix(q, n) = path, LeafOf(b, q[n + 1]) = i
        PROVE  Len(q) >= n + 1 /\ Prefix(q, n + 1) = inner
    <3>1. n + 1 \in 1 .. Len(q) /\ n \in 0 .. Len(q) /\ n + 1 - 1 = n
      BY <1>1, <1>3, <2>1
    <3>2. q[n + 1] \in IdsOf(b)
      BY <1>1, <2>1, <3>1 DEF b
    <3>3. q[n + 1] = id
      <4>1. b \in Scenes
        BY DEF b
      <4>2. Contents[b][LeafOf(b, q[n + 1])] = q[n + 1]
        BY <3>2, <4>1, IdsOfLeaf
      <4> QED BY <4>2, <2>1 DEF b
    <3>4. \A k \in 1 .. n : path[k] = q[k]
      BY <1>1, <2>1, <3>1, PrefixType
    <3>5. \A k \in 1 .. Len(inner) : inner[k] = q[k]
      BY <1>3, <3>3, <3>4
    <3> QED BY <1>1, <1>3, <3>1, <3>5, PrefixIs
  <2>2. ASSUME Len(q) >= n + 1, Prefix(q, n + 1) = inner
        PROVE  Len(q) > n /\ Prefix(q, n) = path /\ LeafOf(b, q[n + 1]) = i
    <3>1. n + 1 \in 0 .. Len(q) /\ n \in 0 .. n + 1 /\ n + 1 \in 1 .. n + 1
      BY <1>1, <1>3, <2>2
    <3>2. Prefix(q, n) = Prefix(inner, n)
      BY <1>1, <2>2, <3>1, PrefixOfPrefix
    <3>3. Prefix(inner, n) = path
      <4>1. n \in 0 .. Len(path)
        BY <1>3 DEF n
      <4> QED BY <1>2, <4>1, PrefixOfAppend, PrefixFull DEF inner, n
    <3>4. q[n + 1] = id
      BY <1>1, <1>3, <2>2, <3>1, PrefixType
    <3> QED BY <1>1, <1>2, <1>3, <2>2, <3>2, <3>3, <3>4
  <2> QED BY <1>4, <2>1, <2>2
<1>6. CASE d \in Scenes
  <2>1. Below(c, inner, RootIndex) <=>
          /\ Len(q) > n + 1 /\ Prefix(q, n + 1) = inner
          /\ LeafOf(d, q[n + 2]) \in DOMAIN Contents[d]
    BY <1>2, <1>3, <1>6 DEF Below, Prefix, q
  <2>2. ASSUME Len(q) >= n + 1, Prefix(q, n + 1) = inner
        PROVE  Len(q) > n + 1 /\ LeafOf(d, q[n + 2]) \in DOMAIN Contents[d]
    <3>1. n + 1 \in 1 .. Len(q)
      BY <1>1, <1>3, <2>2
    <3>2. n + 1 < Len(q)
      BY <1>1, <1>3, <1>6, <2>2, <3>1
    <3>3. n + 2 \in 1 .. Len(q) /\ n + 2 - 1 = n + 1
      BY <1>1, <1>3, <3>2
    <3>4. PICK k \in 1 .. Len(q) : k = n + 2 /\ k - 1 = n + 1
      BY <1>3, <3>3
    <3>5. q[k] \in IdsOf(TreeOf(Prefix(q, k - 1)))
      BY <1>1
    <3>6. q[n + 2] \in IdsOf(d)
      BY <1>3, <2>2, <3>4, <3>5
    <3> QED BY <1>6, <3>2, <3>6, IdsOfLeaf
  <2>3. Len(q) > n + 1 => Len(q) >= n + 1
    BY <1>1, <1>3
  <2> QED BY <1>5, <2>1, <2>2, <2>3 DEF inner
<1>7. CASE d \notin Scenes
  <2>1. Below(c, inner, RootIndex) <=>
          q = inner /\ \E leaf \in DOMAIN Contents[d] : c[2] \in PrimsOf(d, leaf)
    BY <1>2, <1>3, <1>7 DEF Below, q
  <2>2. ASSUME Len(q) >= n + 1, Prefix(q, n + 1) = inner
        PROVE  q = inner
    <3>1. n + 1 \in 1 .. Len(q)
      BY <1>1, <1>3, <2>2
    <3>2. Len(q) = n + 1
      BY <1>1, <1>3, <1>7, <2>2, <3>1
    <3> QED BY <1>1, <2>2, <3>2, PrefixFull
  <2>3. ASSUME q = inner
        PROVE  /\ Len(q) >= n + 1 /\ Prefix(q, n + 1) = inner
               /\ \E leaf \in DOMAIN Contents[d] : c[2] \in PrimsOf(d, leaf)
    BY <1>1, <1>3, <2>3, PrefixFull
  <2> QED BY <1>5, <2>1, <2>2, <2>3 DEF inner
<1> QED BY <1>6, <1>7

(* What is below a node is below exactly one of its children.              *)
LEMMA BelowChild ==
  ASSUME NEW c, NEW path \in Seq(Ids), NEW i \in DOMAIN Children[TreeOf(path)]
  PROVE  Below(c, path, i) <=> \E d \in Children[TreeOf(path)][i] : Below(c, path, d)
<1>1. Cover[TreeOf(path)][i] = UNION {Cover[TreeOf(path)][d] : d \in Children[TreeOf(path)][i]}
  BY TreeOfType, TreeAssumption
<1>2. \A leaf : leaf \in Cover[TreeOf(path)][i] <=>
                 \E d \in Children[TreeOf(path)][i] : leaf \in Cover[TreeOf(path)][d]
  BY <1>1
<1> QED BY <1>2, Zenon DEF Below

LEMMA BelowOneChild ==
  ASSUME NEW c, NEW path \in Seq(Ids), NEW i \in DOMAIN Children[TreeOf(path)],
         NEW d \in Children[TreeOf(path)][i], NEW e \in Children[TreeOf(path)][i],
         Below(c, path, d), Below(c, path, e)
  PROVE  d = e
<1> DEFINE b == TreeOf(path)
<1>1. /\ b \in Trees /\ d \in Nodes(b) /\ e \in Nodes(b)
      /\ Cover[b][d] \subseteq DOMAIN Contents[b] /\ Cover[b][e] \subseteq DOMAIN Contents[b]
      /\ d # e => Cover[b][d] \cap Cover[b][e] = {}
  BY TreeOfType, TreeAssumption
<1>2. CASE b \in Scenes
  BY <1>1, <1>2 DEF Below
<1>3. CASE b \notin Scenes
  <2>1. PICK j \in Cover[b][d] : c[2] \in PrimsOf(b, j)
    BY <1>3 DEF Below
  <2>2. PICK k \in Cover[b][e] : c[2] \in PrimsOf(b, k)
    BY <1>3 DEF Below
  <2>3. j = k
    <3> HIDE DEF b
    <3> QED BY <1>1, <1>3, <2>1, <2>2, OneLeaf
  <2> QED BY <1>1, <2>1, <2>2, <2>3
<1> QED BY <1>2, <1>3
-----------------------------------------------------------------------------
(* The invariants, of a traversal object o.                                *)

Entry == Index \cup {InvalidValue}
Saved == [ray : Ray, scene : Scenes]

ObjectType(o) ==
  o \in [nodeIndex : Entry, pair : Nat \ {0}, triangleMask : {{}, {0}},
         state : {"init", "hit", "finished", "overflow"}, stack : Seq(Entry),
         instanceIds : Seq(Ids \cup {InvalidValue}), instanceStack : Seq(Saved),
         instanceIndex : Entry, ray : Ray, scene : Scenes]

(* The scenes around the object, and what was saved on entering each.      *)
Outer(o) == Front(o.instanceIds)

Around(path) == [ray |-> Space(path), scene |-> TreeOf(path)]

Reached(path) ==
  \A k \in 1 .. Len(path) :
    /\ TreeOf(Prefix(path, k - 1)) \in Scenes
    /\ path[k] \in IdsOf(TreeOf(Prefix(path, k - 1)))
    /\ path[k] \notin config.masked

Nested(o) ==
  /\ o.instanceIds # <<>> /\ Outer(o) \in Seq(Ids)
  /\ Len(o.instanceStack) = Len(Outer(o))
  /\ \A k \in 1 .. Len(o.instanceStack) : o.instanceStack[k] = Around(Prefix(Outer(o), k - 1))
  /\ o.ray = Space(Outer(o)) /\ o.scene = TreeOf(Outer(o))
  /\ Reached(Path(o))
  /\ instanceId(o) # InvalidValue =>
       /\ TreeOf(Path(o)) \notin Scenes
       /\ o.instanceIndex \in DOMAIN Contents[o.scene]
       /\ Contents[o.scene][o.instanceIndex] = instanceId(o)

(* The path to the tree of a stack's entry.                                *)
PathAt(path, s, k) == Prefix(path, MarksIn(s, k) - 1)

Marked(path, s) ==
  /\ s # <<>> => s[1] = InvalidValue /\ MarksIn(s, Len(s)) = 1 + Len(path)
  /\ s = <<>> => path = <<>>
  /\ \A k \in 1 .. Len(s) : s[k] # InvalidValue => s[k] \in Nodes(TreeOf(PathAt(path, s, k)))

Planned(o) ==
  /\ Len(o.stack) <= config.stackSize
  /\ o.nodeIndex # InvalidValue => o.nodeIndex \in Nodes(TreeOf(Path(o))) /\ Marked(Path(o), o.stack)
  /\ o.nodeIndex = InvalidValue =>
       instanceId(o) = InvalidValue /\ \A k \in 1 .. Len(o.stack) : o.stack[k] = InvalidValue

(* In a leaf of a geometry a call may have left off at any pair.           *)
InLeaf(o) ==
  /\ o.nodeIndex # InvalidValue /\ TreeOf(Path(o)) \in Trees \ (Scenes \cup Customs)
  /\ o.nodeIndex \in DOMAIN Contents[TreeOf(Path(o))]
  /\ o.pair \in 1 .. Len(PairsOf(TreeOf(Path(o)), o.nodeIndex))

Fits(o) ==
  \/ o.pair = 1 /\ o.triangleMask = {}
  \/ AnyHit /\ InLeaf(o)

ObjectInv(o) == ObjectType(o) /\ Nested(o) /\ Planned(o) /\ Fits(o)

Searching == pc = "loop" /\ m.state # "overflow"

Locals ==
  [nodes : Trees, primNodes : Trees \cup {InvalidValue}, ray : Ray, maxT : Int,
   invD : Ray \cup {InvalidValue}, result : Primitive \cup {NoHit}]

HitTimes ==
  DOMAIN hitTime \subseteq Primitive /\ \A c \in DOMAIN hitTime : hitTime[c] \in Int /\ hitTime[c] < Far

InTree ==
  /\ l.nodes = TreeOf(Path(m)) /\ l.ray = Space(Path(m))
  /\ instanceId(m) # InvalidValue => l.primNodes = TreeOf(Path(m))

Control ==
  /\ pc \in {"caller", "loop"}
  /\ pc = "loop" /\ m.nodeIndex # InvalidValue => m.stack # <<>>
  /\ pc = "caller" /\ m.state = "init" =>
       m.stack = <<>> /\ m.nodeIndex = RootIndex /\ instanceId(m) = InvalidValue /\ m.pair = 1 /\ m.triangleMask = {}
  /\ m.state = "finished" => pc = "caller" /\ m.nodeIndex = InvalidValue
  /\ m.state = "hit" => AnyHit

StackInv ==
  /\ config \in Configurations
  /\ ObjectInv(m) /\ l \in Locals /\ HitTimes /\ Control
  /\ Searching => InTree

(* Where a primitive is still to be found: at the current node (place 0)   *)
(* or at an entry of the stack.                                            *)
LeftIn(pairs, k, mask, p) ==
  \E j \in k .. Len(pairs), s \in 1 .. 2 : p = pairs[j][s] /\ ~(j = k /\ s = 1 /\ 0 \in mask)

Left(o, p) == LeftIn(PairsOf(TreeOf(Path(o)), o.nodeIndex), o.pair, o.triangleMask, p)

AtNode(o, c) ==
  /\ o.nodeIndex # InvalidValue /\ Below(c, Path(o), o.nodeIndex)
  /\ o.nodeIndex \in DOMAIN Contents[TreeOf(Path(o))] /\ TreeOf(Path(o)) \notin Scenes => Left(o, c[2])

AtEntry(path, s, k, c) == s[k] # InvalidValue /\ Below(c, PathAt(path, s, k), s[k])

Place(o, c, j) == IF j = 0 THEN AtNode(o, c) ELSE AtEntry(Path(o), o.stack, j, c)

Pending(o, c) == \E j \in 0 .. Len(o.stack) : Place(o, c, j)

Once(o, c) == \A i, j \in 0 .. Len(o.stack) : Place(o, c, i) /\ Place(o, c, j) => i = j

Boxed == Searching => Packets \/ l.invD = l.ray

Given(c) == \E k \in DOMAIN hits : hits[k] = c

AnyInv ==
  /\ \A c \in Hit : Given(c) \/ Pending(m, c)
  /\ \A c \in Hit : ~(Given(c) /\ Pending(m, c))
  /\ l.result = NoHit /\ l.maxT = Far

ClosestInv ==
  /\ l.result = NoHit => l.maxT = Far
  /\ l.result # NoHit => l.result \in Hit /\ l.maxT = hitTime[l.result]
  /\ pc = "loop" => hits = <<>>
  /\ pc = "caller" /\ m.state = "init" => hits = <<>> /\ l.result = NoHit
  /\ pc = "caller" /\ m.state # "init" => hits = IF l.result = NoHit THEN <<>> ELSE <<l.result>>
  /\ \A c \in Hit : hitTime[c] >= l.maxT \/ Pending(m, c)

HitsInv ==
  /\ hits \in Seq(Hit) /\ \A j, k \in DOMAIN hits : hits[j] = hits[k] => j = k
  /\ \A c \in Hit : Once(m, c)
  /\ IF AnyHit THEN AnyInv ELSE ClosestInv

IInv == StackInv /\ Boxed /\ HitsInv

-----------------------------------------------------------------------------
(* The invariants of an object look at config and hitTime, which no step   *)
(* changes.                                                                *)

LEMMA ObjectFrame ==
  ASSUME UNCHANGED config, NEW o, m' = o
  PROVE  ObjectInv(m)' <=> ObjectInv(o)
BY DEF ObjectInv, ObjectType, Nested, Outer, Around, Reached, Planned, Marked, PathAt, InLeaf, Fits,
       Path, instanceId, Space, TreeOf, PairsOf, Packets, AnyHit, Prefix, MarksIn, Nodes, Ids, Trees,
       Entry, Index, Saved, Ray, IdsOf

LEMMA PlaceFrame ==
  ASSUME UNCHANGED config, NEW o, m' = o, NEW c
  PROVE  /\ Pending(m, c)' <=> Pending(o, c)
         /\ Once(m, c)' <=> Once(o, c)
BY DEF Pending, Once, Place, AtNode, AtEntry, Left, LeftIn, Below, PrimsOf, PathAt,
       Path, instanceId, TreeOf, PairsOf, Packets, Prefix, MarksIn, Nodes, Ids, Trees, LeafOf

-----------------------------------------------------------------------------
(* The instances around an object.                                         *)

LEMMA SetLast ==
  ASSUME NEW S, NEW ids \in Seq(S), ids # <<>>, NEW id \in S,
         NEW t, t = [ids EXCEPT ![Len(ids)] = id]
  PROVE  /\ t \in Seq(S) /\ Len(t) = Len(ids) /\ t # <<>>
         /\ Front(t) = Front(ids) /\ Last(t) = id
<1>1. Len(ids) \in Nat \ {0} /\ Len(ids) \in 1 .. Len(ids)
  BY EmptySeq
<1>2. /\ t \in Seq(S) /\ Len(t) = Len(ids)
      /\ \A i \in 1 .. Len(ids) : t[i] = IF i = Len(ids) THEN id ELSE ids[i]
  BY <1>1, ExceptSeq
<1>3. t # <<>>
  BY <1>1, <1>2, EmptySeq
<1>4. /\ Front(t) \in Seq(S) /\ Len(Front(t)) = Len(ids) - 1 /\ Last(t) = id
      /\ \A k \in 1 .. Len(ids) - 1 : Front(t)[k] = t[k]
  <2>1. t \in Seq(S) /\ Len(t) = Len(ids) /\ t[Len(ids)] = id
    BY <1>1, <1>2
  <2>2. /\ Front(t) \in Seq(S) /\ Len(Front(t)) = Len(t) - 1 /\ Last(t) = t[Len(t)]
        /\ \A k \in 1 .. Len(t) - 1 : Front(t)[k] = t[k]
    BY <1>3, <2>1, FrontIsPrefix
  <2> QED BY <2>1, <2>2
<1>5. /\ Front(ids) \in Seq(S) /\ Len(Front(ids)) = Len(ids) - 1
      /\ \A k \in 1 .. Len(ids) - 1 : Front(ids)[k] = ids[k]
  BY FrontIsPrefix
<1>6. ASSUME NEW k \in 1 .. Len(ids) - 1
      PROVE  Front(t)[k] = Front(ids)[k]
  <2>1. k \in 1 .. Len(ids) /\ k # Len(ids)
    BY <1>1
  <2>2. t[k] = ids[k]
    BY <1>2, <2>1
  <2> QED BY <1>4, <1>5, <2>2
<1>7. Front(t) = Front(ids)
  BY <1>4, <1>5, <1>6, SeqEqual
<1> QED BY <1>2, <1>3, <1>4, <1>7

LEMMA OuterIs ==
  ASSUME NEW o, ObjectType(o), Nested(o)
  PROVE  /\ Len(Outer(o)) \in Nat /\ Len(o.instanceIds) = Len(Outer(o)) + 1
         /\ Outer(o) = Prefix(o.instanceIds, Len(Outer(o)))
         /\ o.instanceIds = Append(Outer(o), instanceId(o))
         /\ Path(o) \in Seq(Ids) /\ Len(Path(o)) \in Nat
         /\ instanceId(o) \in Ids \cup {InvalidValue}
         /\ instanceId(o) = InvalidValue => Path(o) = Outer(o)
         /\ instanceId(o) # InvalidValue =>
              Path(o) = Append(Outer(o), instanceId(o)) /\ Len(Path(o)) = Len(Outer(o)) + 1
         /\ Outer(o) = Prefix(Path(o), Len(Outer(o)))
<1> DEFINE ids == o.instanceIds
           S == Ids \cup {InvalidValue}
           n == Len(Outer(o))
<1>1. ids \in Seq(S) /\ ids # <<>> /\ Outer(o) \in Seq(Ids) /\ Outer(o) = Front(ids)
  BY DEF ObjectType, Nested, Outer
<1>2. /\ Len(ids) \in Nat \ {0} /\ n = Len(ids) - 1 /\ Outer(o) = Prefix(ids, Len(ids) - 1)
      /\ Last(ids) \in S /\ Last(ids) = ids[Len(ids)]
      /\ \A k \in 1 .. Len(ids) - 1 : Outer(o)[k] = ids[k]
  BY <1>1, FrontIsPrefix
<1>3. n \in Nat /\ Len(ids) = n + 1 /\ Outer(o) = Prefix(ids, n) /\ instanceId(o) = Last(ids)
  BY <1>2 DEF instanceId
<1>4. Outer(o) \in Seq(S)
  BY <1>1, <1>2, <1>3, ElementOfSeq, SeqDef, LenProperties
<1>5. ids = Append(Outer(o), instanceId(o))
  <2> DEFINE t == Append(Outer(o), instanceId(o))
  <2>1. /\ t \in Seq(S) /\ Len(t) = n + 1 /\ t[n + 1] = instanceId(o)
        /\ \A k \in 1 .. n : t[k] = Outer(o)[k]
    <3>1. instanceId(o) \in S
      BY <1>2, <1>3
    <3> QED BY <1>4, <3>1, AppendProperties
  <2> HIDE DEF t
  <2>2. ASSUME NEW k \in 1 .. n + 1
        PROVE  t[k] = ids[k]
    <3>1. CASE k = n + 1
      BY <1>2, <1>3, <2>1, <3>1
    <3>2. CASE k \in 1 .. n
      <4>1. Len(ids) - 1 = n
        BY <1>2
      <4> QED BY <1>2, <2>1, <3>2, <4>1
    <3> QED BY <1>3, <3>1, <3>2
  <2>3. t = ids
    BY <1>1, <1>3, <2>1, <2>2, SeqEqual
  <2> QED BY <2>3 DEF t
<1>6. CASE instanceId(o) = InvalidValue
  <2>1. Path(o) = Outer(o)
    BY <1>6 DEF Path, Outer
  <2> QED BY <1>1, <1>2, <1>3, <1>5, <1>6, <2>1, PrefixFull
<1>7. CASE instanceId(o) # InvalidValue
  <2>1. instanceId(o) \in Ids /\ Path(o) = Append(Outer(o), instanceId(o))
    BY <1>2, <1>3, <1>5, <1>7 DEF Path
  <2>2. Path(o) \in Seq(Ids) /\ Len(Path(o)) = n + 1
    BY <1>1, <2>1, AppendProperties
  <2>3. n \in 0 .. n
    BY <1>3
  <2>4. Prefix(Path(o), n) = Outer(o)
    BY <1>1, <2>1, <2>3, PrefixOfAppend, PrefixFull
  <2> QED BY <1>1, <1>2, <1>3, <1>5, <1>7, <2>1, <2>2, <2>4
<1> QED BY <1>6, <1>7

LEMMA ReachedPrefix ==
  ASSUME NEW path \in Seq(Ids), Reached(path), NEW n \in 0 .. Len(path)
  PROVE  Reached(Prefix(path, n))
<1>1. n \in Nat /\ n <= Len(path) /\ Len(path) \in Nat
  BY LenProperties
<1>2. Len(Prefix(path, n)) = n /\ \A k \in 1 .. n : Prefix(path, n)[k] = path[k]
  BY PrefixType
<1>3. \A k \in 1 .. n : k - 1 \in 0 .. n /\ k \in 1 .. Len(path)
  BY <1>1
<1>4. \A k \in 1 .. n : Prefix(Prefix(path, n), k - 1) = Prefix(path, k - 1)
  BY <1>3, PrefixOfPrefix
<1> QED BY <1>2, <1>3, <1>4 DEF Reached

LEMMA ReachedAppend ==
  ASSUME NEW path \in Seq(Ids), Reached(path), TreeOf(path) \in Scenes,
         NEW id \in IdsOf(TreeOf(path)), id \notin config.masked
  PROVE  Append(path, id) \in Seq(Ids) /\ Reached(Append(path, id))
<1>1. id \in Ids /\ Len(path) \in Nat
  BY IdsOfLeaf, LenProperties
<1>2. /\ Append(path, id) \in Seq(Ids) /\ Len(Append(path, id)) = Len(path) + 1
      /\ \A i \in 1 .. Len(path) : Append(path, id)[i] = path[i]
      /\ Append(path, id)[Len(path) + 1] = id
  BY <1>1, AppendProperties
<1>3. \A k \in 1 .. Len(path) + 1 : k - 1 \in 0 .. Len(path)
  BY <1>1
<1>4. \A k \in 1 .. Len(path) + 1 : Prefix(Append(path, id), k - 1) = Prefix(path, k - 1)
  BY <1>1, <1>3, PrefixOfAppend
<1>5. ASSUME NEW k \in 1 .. Len(path) + 1
      PROVE  /\ TreeOf(Prefix(Append(path, id), k - 1)) \in Scenes
             /\ Append(path, id)[k] \in IdsOf(TreeOf(Prefix(Append(path, id), k - 1)))
             /\ Append(path, id)[k] \notin config.masked
  <2>1. CASE k \in 1 .. Len(path)
    BY <1>2, <1>4, <2>1 DEF Reached
  <2>2. CASE k = Len(path) + 1
    <3>1. Prefix(Append(path, id), k - 1) = path
      BY <1>1, <1>4, <2>2, PrefixFull
    <3> QED BY <1>2, <2>2, <3>1
  <2> QED BY <1>1, <2>1, <2>2
<1> QED BY <1>2, <1>5 DEF Reached

(* Out of k scenes.                                                        *)
LEMMA LeavingScenes ==
  ASSUME NEW o, ObjectType(o), Nested(o), NEW k \in 0 .. Len(Outer(o)),
         NEW u, u = LeftScenes(o, k)
  PROVE  /\ ObjectType(u)
         /\ u.nodeIndex = o.nodeIndex /\ u.pair = o.pair /\ u.triangleMask = o.triangleMask
         /\ u.state = o.state /\ u.stack = o.stack /\ u.instanceIndex = o.instanceIndex
         /\ u.instanceIds = Prefix(o.instanceIds, Len(o.instanceIds) - k)
         /\ u.instanceStack = Prefix(o.instanceStack, Len(o.instanceStack) - k)
         /\ u.ray = Space(Prefix(Outer(o), Len(Outer(o)) - k))
         /\ u.scene = TreeOf(Prefix(Outer(o), Len(Outer(o)) - k))
<1> DEFINE n == Len(Outer(o))
           ids == o.instanceIds
           stack == o.instanceStack
<1>1. /\ n \in Nat /\ Len(ids) = n + 1 /\ Len(stack) = n
      /\ ids \in Seq(Ids \cup {InvalidValue}) /\ stack \in Seq(Saved) /\ Outer(o) \in Seq(Ids)
      /\ o.ray = Space(Outer(o)) /\ o.scene = TreeOf(Outer(o))
      /\ \A j \in 1 .. n : stack[j] = Around(Prefix(Outer(o), j - 1))
  BY OuterIs DEF ObjectType, Nested
<1>2. CASE k = 0
  <2>1. u = o /\ n - k = n /\ Len(ids) - k = Len(ids) /\ Len(stack) - k = Len(stack)
    BY <1>1, <1>2 DEF LeftScenes
  <2>2. Prefix(ids, Len(ids)) = ids /\ Prefix(stack, Len(stack)) = stack /\ Prefix(Outer(o), n) = Outer(o)
    BY <1>1, PrefixFull
  <2> QED BY <1>1, <2>1, <2>2
<1>3. CASE k # 0
  <2> DEFINE j == Len(stack) - k + 1
  <2>1. j \in 1 .. n /\ j - 1 = n - k
    BY <1>1, <1>3
  <2>2. stack[j] = Around(Prefix(Outer(o), n - k)) /\ stack[j] \in Saved
    BY <1>1, <2>1, ElementOfSeq
  <2>3. u = [o EXCEPT !.ray = stack[j].ray, !.scene = stack[j].scene,
                      !.instanceStack = Prefix(stack, Len(stack) - k),
                      !.instanceIds = Prefix(ids, Len(ids) - k)]
    BY <1>3 DEF LeftScenes, Prefix
  <2>4. stack[j].ray = Space(Prefix(Outer(o), n - k)) /\ stack[j].scene = TreeOf(Prefix(Outer(o), n - k))
    BY <2>2 DEF Around
  <2>5. stack[j].ray \in Ray /\ stack[j].scene \in Scenes
    BY <2>2 DEF Saved
  <2>6. Prefix(stack, Len(stack) - k) \in Seq(Saved) /\ Prefix(ids, Len(ids) - k) \in Seq(Ids \cup {InvalidValue})
    <3>1. Len(stack) - k \in 0 .. Len(stack) /\ Len(ids) - k \in 0 .. Len(ids)
      BY <1>1
    <3> QED BY <1>1, <3>1, PrefixType
  <2> HIDE DEF j, n, ids, stack
  <2>7. ObjectType(u)
    BY <2>3, <2>5, <2>6 DEF ObjectType
  <2>8. /\ u.ray = stack[j].ray /\ u.scene = stack[j].scene
        /\ u.instanceStack = Prefix(stack, Len(stack) - k) /\ u.instanceIds = Prefix(ids, Len(ids) - k)
        /\ u.nodeIndex = o.nodeIndex /\ u.pair = o.pair /\ u.triangleMask = o.triangleMask
        /\ u.state = o.state /\ u.stack = o.stack /\ u.instanceIndex = o.instanceIndex
    BY <2>3 DEF ObjectType
  <2> QED BY <2>4, <2>7, <2>8 DEF n, ids, stack
<1> QED BY <1>2, <1>3

(* Out of n trees, the innermost of which may be a geometry.               *)
LEMMA Leaving ==
  ASSUME NEW o, ObjectType(o), Nested(o), NEW n \in 1 .. Len(Path(o)), n <= Len(o.stack),
         NEW t, t = OutOf(o, n)
  PROVE  /\ ObjectType(t) /\ Nested(t)
         /\ Path(t) = Prefix(Path(o), Len(Path(o)) - n) /\ instanceId(t) = InvalidValue
         /\ t.nodeIndex = o.stack[Len(o.stack) - n + 1] /\ t.pair = 1
         /\ t.triangleMask = o.triangleMask /\ t.state = o.state
         /\ t.stack = Prefix(o.stack, Len(o.stack) - n)
<1> DEFINE k == IF instanceId(o) = InvalidValue THEN n ELSE n - 1
           u == LeftScenes(o, k)
           S == Ids \cup {InvalidValue}
           left == Len(Outer(o)) - k
           outer == Prefix(Outer(o), left)
           i == o.stack[Len(o.stack) - n + 1]
           rest == Prefix(o.stack, Len(o.stack) - n)
           kept == Len(o.instanceIds) - k
           below == Prefix(o.instanceStack, Len(o.instanceStack) - k)
<1>1. /\ k \in 0 .. Len(Outer(o)) /\ left = Len(Path(o)) - n /\ left \in 0 .. Len(Outer(o))
      /\ kept \in 0 .. Len(o.instanceIds) /\ kept = left + 1
      /\ Len(o.instanceStack) - k = left /\ left \in 0 .. Len(Path(o))
      /\ Len(Outer(o)) <= Len(Path(o)) /\ left \in Nat /\ Len(Path(o)) \in Nat
  <2>1. Len(o.instanceStack) = Len(Outer(o))
    BY DEF Nested
  <2>2. /\ Len(Outer(o)) \in Nat /\ Len(o.instanceIds) = Len(Outer(o)) + 1 /\ Len(Path(o)) \in Nat
        /\ Len(Path(o)) = IF instanceId(o) = InvalidValue THEN Len(Outer(o)) ELSE Len(Outer(o)) + 1
    BY OuterIs
  <2> QED BY <2>1, <2>2
<1>2. o.stack \in Seq(Entry) /\ o.instanceIds \in Seq(S) /\ o.instanceStack \in Seq(Saved) /\ Outer(o) \in Seq(Ids)
  BY DEF ObjectType, Nested
<1>3. Len(o.stack) - n \in 0 .. Len(o.stack) /\ Len(o.stack) - n + 1 \in 1 .. Len(o.stack)
  BY <1>2, LenProperties
<1>4. i \in Entry /\ rest \in Seq(Entry)
  BY <1>2, <1>3, ElementOfSeq, PrefixType
<1>5. /\ ObjectType(u) /\ u.triangleMask = o.triangleMask /\ u.state = o.state /\ u.stack = o.stack
      /\ u.instanceIds = Prefix(o.instanceIds, kept) /\ u.instanceStack = below
      /\ u.ray = Space(outer) /\ u.scene = TreeOf(outer)
  <2> HIDE DEF k
  <2> QED BY <1>1, LeavingScenes
<1>6. u.instanceIds \in Seq(S) /\ u.instanceIds # <<>> /\ Front(u.instanceIds) = outer
  <2>1. Prefix(o.instanceIds, kept) \in Seq(S) /\ Len(Prefix(o.instanceIds, kept)) = kept
    BY <1>1, <1>2, PrefixType
  <2>2. Prefix(o.instanceIds, kept) # <<>>
    <3>1. kept # 0
      BY <1>1
    <3> HIDE DEF kept
    <3> QED BY <2>1, <3>1, EmptySeq
  <2>3. Front(Prefix(o.instanceIds, kept)) = Prefix(Prefix(o.instanceIds, kept), kept - 1)
    BY <2>1, <2>2, FrontIsPrefix
  <2>4. kept - 1 = left /\ left \in 0 .. kept
    BY <1>1
  <2>5. Prefix(Prefix(o.instanceIds, kept), left) = Prefix(o.instanceIds, left)
    BY <1>1, <1>2, <2>4, PrefixOfPrefix
  <2>6. Prefix(o.instanceIds, left) = outer
    <3>1. Outer(o) = Prefix(o.instanceIds, Len(Outer(o))) /\ Len(Outer(o)) \in 0 .. Len(o.instanceIds)
      BY OuterIs
    <3>2. left \in 0 .. Len(Outer(o))
      BY <1>1
    <3>3. Prefix(Prefix(o.instanceIds, Len(Outer(o))), left) = Prefix(o.instanceIds, left)
      <4> HIDE DEF left
      <4> QED BY <1>2, <3>1, <3>2, PrefixOfPrefix
    <3> QED BY <3>1, <3>3
  <2> HIDE DEF kept, left, outer
  <2> QED BY <1>5, <2>1, <2>2, <2>3, <2>4, <2>5, <2>6
<1> DEFINE ids == [u.instanceIds EXCEPT ![Len(u.instanceIds)] = InvalidValue]
<1>7. ids \in Seq(S) /\ ids # <<>> /\ Front(ids) = outer /\ Last(ids) = InvalidValue
  <2> HIDE DEF u, outer
  <2>1. InvalidValue \in S
    OBVIOUS
  <2> DEFINE t2 == ids
  <2>2. t2 = [u.instanceIds EXCEPT ![Len(u.instanceIds)] = InvalidValue]
    OBVIOUS
  <2> HIDE DEF t2, S
  <2>3. t2 \in Seq(S) /\ t2 # <<>> /\ Front(t2) = Front(u.instanceIds) /\ Last(t2) = InvalidValue
    BY <1>6, <2>1, <2>2, SetLast
  <2> QED BY <1>6, <2>3 DEF t2
<1>8. t = [[u EXCEPT !.instanceIds = ids] EXCEPT
             !.nodeIndex = i, !.pair = 1, !.stack = SubSeq(u.stack, 1, Len(u.stack) - n)]
  <2>1. SetInstanceId(u, InvalidValue) = [u EXCEPT !.instanceIds = ids]
    BY <1>5 DEF SetInstanceId, ObjectType
  <2> HIDE DEF u
  <2>2. t = [SetInstanceId(u, InvalidValue) EXCEPT
               !.nodeIndex = i, !.pair = 1, !.stack = SubSeq(@, 1, Len(@) - n)]
    BY DEF OutOf, u
  <2> QED BY <2>1, <2>2, <1>5 DEF ObjectType
<1> HIDE DEF ids, u, i
<1>9. t = [u EXCEPT !.instanceIds = ids, !.nodeIndex = i, !.pair = 1, !.stack = rest]
  BY <1>5, <1>8 DEF ObjectType, Prefix
<1> HIDE DEF rest
<1>10. /\ ObjectType(t) /\ t.instanceIds = ids /\ t.nodeIndex = i /\ t.pair = 1 /\ t.stack = rest
       /\ t.triangleMask = o.triangleMask /\ t.state = o.state
       /\ t.ray = u.ray /\ t.scene = u.scene /\ t.instanceStack = u.instanceStack
  <2>1. ObjectType(t)
    <3>1. ids \in Seq(Ids \cup {InvalidValue}) /\ i \in Entry /\ rest \in Seq(Entry) /\ 1 \in Nat \ {0} /\ ObjectType(u)
      BY <1>4, <1>5, <1>7
    <3> HIDE DEF k, S, left, outer, kept, below
    <3> QED BY ONLY <3>1, <1>9 DEF ObjectType
  <2>2. /\ t.instanceIds = ids /\ t.nodeIndex = i /\ t.pair = 1 /\ t.stack = rest
        /\ t.triangleMask = u.triangleMask /\ t.state = u.state
        /\ t.ray = u.ray /\ t.scene = u.scene /\ t.instanceStack = u.instanceStack
    BY <1>5, <1>9 DEF ObjectType
  <2> QED BY <2>1, <2>2, <1>5
<1>11. Outer(t) = outer /\ instanceId(t) = InvalidValue /\ Path(t) = outer
  BY <1>7, <1>10 DEF Outer, instanceId, Path
<1>12. outer = Prefix(Path(o), Len(Path(o)) - n)
  <2>1. Outer(o) = Prefix(Path(o), Len(Outer(o))) /\ Path(o) \in Seq(Ids) /\ Len(Outer(o)) \in 0 .. Len(Path(o))
    BY <1>1, OuterIs
  <2>2. Prefix(Prefix(Path(o), Len(Outer(o))), left) = Prefix(Path(o), left)
    BY <1>1, <2>1, PrefixOfPrefix
  <2> QED BY <1>1, <2>1, <2>2
<1>13. Nested(t)
  <2> HIDE DEF k, outer, left, below
  <2>1. outer \in Seq(Ids) /\ Len(outer) = left
    BY <1>1, <1>2, PrefixType DEF outer
  <2>2. below \in Seq(Saved) /\ Len(below) = left /\ \A j \in 1 .. left : below[j] = o.instanceStack[j]
    <3>1. left \in 0 .. Len(o.instanceStack)
      BY <1>1 DEF Nested
    <3>2. below = Prefix(o.instanceStack, left)
      BY <1>1 DEF below
    <3> QED BY <1>2, <3>1, <3>2, PrefixType
  <2>3. ASSUME NEW j \in 1 .. Len(below)
        PROVE  below[j] = Around(Prefix(outer, j - 1))
    <3>1. j \in 1 .. Len(o.instanceStack) /\ j - 1 \in 0 .. left /\ j \in 1 .. left
      BY <1>1, <2>2 DEF Nested
    <3>2. Prefix(outer, j - 1) = Prefix(Outer(o), j - 1)
      BY <1>1, <1>2, <3>1, PrefixOfPrefix DEF outer
    <3> QED BY <2>2, <3>1, <3>2 DEF Nested
  <2>4. Reached(outer)
    BY <1>1, <1>12, OuterIs, ReachedPrefix DEF Nested
  <2> QED BY <1>5, <1>7, <1>10, <1>11, <2>1, <2>2, <2>3, <2>4 DEF Nested
<1> QED BY <1>10, <1>11, <1>12, <1>13 DEF i, rest

LEMMA NestedSame ==
  ASSUME NEW o, Nested(o), NEW u, u.instanceIds = o.instanceIds, u.instanceStack = o.instanceStack,
         u.ray = o.ray, u.scene = o.scene, u.instanceIndex = o.instanceIndex
  PROVE  Nested(u) /\ Path(u) = Path(o) /\ Outer(u) = Outer(o) /\ instanceId(u) = instanceId(o)
<1>1. Path(u) = Path(o) /\ Outer(u) = Outer(o) /\ instanceId(u) = instanceId(o)
  BY DEF Path, Outer, instanceId
<1>2. Nested(u)
  BY <1>1, Zenon DEF Nested
<1> QED BY <1>1, <1>2

-----------------------------------------------------------------------------
(* On to the next node.                                                    *)

LEMMA EndedIs ==
  ASSUME NEW o, o.stack \in Seq(Entry), o.stack # <<>>
  PROVE  /\ Ended(o) \in 1 .. Len(o.stack) /\ Len(o.stack) \in Nat
         /\ \A k \in 1 .. Ended(o) - 1 : o.stack[Len(o.stack) - k + 1] = InvalidValue
         /\ o.stack[Len(o.stack) - Ended(o) + 1] # InvalidValue \/ Ended(o) = Len(o.stack)
<1> DEFINE s == o.stack
           stops(n) == s[Len(s) - n + 1] # InvalidValue \/ n = Len(s)
           U == {n \in 1 .. Len(s) : stops(n)}
<1>1. Len(s) \in Nat \ {0} /\ DOMAIN s = 1 .. Len(s)
  BY EmptySeq, LenProperties
<1>2. Len(s) \in U
  BY <1>1
<1>3. PICK n \in U : \A k \in U : n <= k
  <2>1. U \in SUBSET Nat /\ U # {}
    BY <1>2
  <2> HIDE DEF U
  <2> QED BY <2>1, Smallest
<1>4. n \in 1 .. Len(s) /\ stops(n)
  OBVIOUS
<1>5. ASSUME NEW k \in 1 .. n - 1
      PROVE  s[Len(s) - k + 1] = InvalidValue
  <2>1. k \in 1 .. Len(s) /\ ~(n <= k)
    BY <1>1, <1>4
  <2>2. k \notin U
    <3> HIDE DEF U
    <3> QED BY <1>3, <2>1
  <2> QED BY <2>1, <2>2
<1>6. \E i \in DOMAIN s : (\A k \in 1 .. i - 1 : s[Len(s) - k + 1] = InvalidValue) /\ stops(i)
  BY <1>1, <1>4, <1>5
<1> HIDE DEF U
<1> QED BY <1>1, <1>6 DEF Ended

(* The node popped, and the object around it.                              *)
LEMMA PoppedIs ==
  ASSUME NEW o, ObjectType(o), Nested(o), o.stack # <<>>,
         NEW p, p = Popped([o EXCEPT !.triangleMask = {}])
  PROVE  /\ ObjectType(p) /\ Nested(p)
         /\ Path(p) = Path(o) /\ instanceId(p) = instanceId(o)
         /\ p.nodeIndex = o.stack[Len(o.stack)] /\ p.stack = Prefix(o.stack, Len(o.stack) - 1)
         /\ p.pair = 1 /\ p.triangleMask = {} /\ p.state = o.state
         /\ p.ray = o.ray /\ p.scene = o.scene
<1>1. o.stack \in Seq(Entry)
  BY DEF ObjectType
<1>2. /\ Front(o.stack) = Prefix(o.stack, Len(o.stack) - 1) /\ Front(o.stack) \in Seq(Entry)
      /\ Last(o.stack) = o.stack[Len(o.stack)] /\ Last(o.stack) \in Entry
  BY <1>1, FrontIsPrefix
<1> DEFINE top == Last(o.stack)
           rest == Front(o.stack)
<1>3. p = [o EXCEPT !.triangleMask = {}, !.nodeIndex = top, !.pair = 1, !.stack = rest]
  BY DEF Popped, ObjectType
<1>4. ObjectType(p)
  <2>1. top \in Entry /\ rest \in Seq(Entry) /\ 1 \in Nat \ {0} /\ ObjectType(o)
    BY <1>2
  <2> HIDE DEF top, rest
  <2> QED BY ONLY <2>1, <1>3 DEF ObjectType
<1>5. /\ p.nodeIndex = top /\ p.stack = rest /\ p.pair = 1 /\ p.triangleMask = {} /\ p.state = o.state
      /\ p.ray = o.ray /\ p.scene = o.scene /\ p.instanceIds = o.instanceIds
      /\ p.instanceStack = o.instanceStack /\ p.instanceIndex = o.instanceIndex
  <2> HIDE DEF top, rest
  <2> QED BY <1>3 DEF ObjectType
<1>6. Nested(p) /\ Path(p) = Path(o) /\ instanceId(p) = instanceId(o)
  BY <1>5, NestedSame
<1> QED BY <1>2, <1>4, <1>5, <1>6

(* An entry q of the stack comes next; what was above it was marks.        *)
LEMMA NextEntry ==
  ASSUME NEW o, ObjectType(o), Nested(o), Marked(Path(o), o.stack), o.stack # <<>>,
         NEW p, p = Popped([o EXCEPT !.triangleMask = {}]),
         NEW t, t = Unwound(p)
  PROVE  /\ \E q \in 1 .. Len(o.stack) :
              /\ t.nodeIndex = o.stack[q] /\ t.stack = Prefix(o.stack, q - 1)
              /\ \A k \in q + 1 .. Len(o.stack) : o.stack[k] = InvalidValue
              /\ o.stack[q] = InvalidValue => q = 1
              /\ Path(t) = PathAt(Path(o), o.stack, q)
         /\ ObjectType(t) /\ Nested(t)
         /\ t.pair = 1 /\ t.triangleMask = {} /\ t.state = o.state
         /\ TreeEnded(p) => instanceId(t) = InvalidValue
         /\ ~TreeEnded(p) => Path(t) = Path(o) /\ instanceId(t) = instanceId(o)
         /\ t.nodeIndex = InvalidValue => instanceId(t) = InvalidValue
<1> DEFINE s == o.stack
           L == Len(s)
<1>1. s \in Seq(Entry) /\ L \in Nat \ {0}
  BY EmptySeq DEF ObjectType
<1>2. s[1] = InvalidValue /\ MarksIn(s, L) = 1 + Len(Path(o)) /\ Len(Path(o)) \in Nat /\ Path(o) \in Seq(Ids)
  BY OuterIs DEF Marked
<1>3. /\ ObjectType(p) /\ Nested(p)
      /\ Path(p) = Path(o) /\ instanceId(p) = instanceId(o)
      /\ p.nodeIndex = s[L] /\ p.stack = Prefix(s, L - 1)
      /\ p.pair = 1 /\ p.triangleMask = {} /\ p.state = o.state
  BY PoppedIs
<1>4. Prefix(s, L - 1) \in Seq(Entry) /\ Len(Prefix(s, L - 1)) = L - 1 /\ \A k \in 1 .. L - 1 : Prefix(s, L - 1)[k] = s[k]
  <2>1. L - 1 \in 0 .. Len(s)
    BY <1>1
  <2> HIDE DEF L
  <2> QED BY <1>1, <2>1, PrefixType
<1> HIDE DEF s, L
<1>5. CASE ~TreeEnded(p)
  <2>1. t = p
    BY <1>5 DEF Unwound
  <2>2. PathAt(Path(o), s, L) = Path(o)
    <3>1. MarksIn(s, L) - 1 = Len(Path(o))
      BY <1>2
    <3> QED BY <1>2, <3>1, PrefixFull DEF PathAt
  <2>3. s[L] = InvalidValue => L = 1
    <3>1. s[L] = InvalidValue => Prefix(s, L - 1) = <<>>
      BY <1>3, <1>5 DEF TreeEnded
    <3>2. Prefix(s, L - 1) = <<>> => L - 1 = 0
      BY <1>4, EmptySeq
    <3> QED BY <1>1, <3>1, <3>2
  <2>4. s[L] = InvalidValue => instanceId(o) = InvalidValue
    <3>1. ASSUME s[L] = InvalidValue
          PROVE  Len(Path(o)) = 0
      <4>1. MarksIn(s, 1) = 1 /\ L = 1
        BY <1>2, <2>3, <3>1, MarksAbove
      <4> QED BY <1>2, <4>1
    <3>2. instanceId(o) # InvalidValue => Len(Path(o)) = Len(Outer(o)) + 1 /\ Len(Outer(o)) \in Nat
      BY OuterIs
    <3>3. ASSUME s[L] = InvalidValue, instanceId(o) # InvalidValue
          PROVE  FALSE
      <4>1. Len(Path(o)) = 0
        BY <3>1, <3>3
      <4>2. PICK n \in Nat : Len(Path(o)) = n + 1
        BY <3>2, <3>3
      <4> QED BY <4>1, <4>2
    <3> QED BY <3>3
  <2>5. L \in 1 .. L /\ \A k \in L + 1 .. L : s[k] = InvalidValue
    BY <1>1
  <2> QED BY <1>3, <1>5, <2>1, <2>2, <2>3, <2>4, <2>5 DEF s, L
<1>6. CASE TreeEnded(p)
  <2> DEFINE n == Ended(p)
             q == L - n
  <2>1. s[L] = InvalidValue /\ p.stack # <<>> /\ p.stack \in Seq(Entry)
    BY <1>3, <1>4, <1>6 DEF TreeEnded
  <2>2. /\ n \in 1 .. L - 1
        /\ \A k \in 1 .. n - 1 : p.stack[L - 1 - k + 1] = InvalidValue
        /\ p.stack[L - 1 - n + 1] # InvalidValue \/ n = L - 1
    <3>1. /\ n \in 1 .. Len(p.stack)
          /\ \A k \in 1 .. n - 1 : p.stack[Len(p.stack) - k + 1] = InvalidValue
          /\ p.stack[Len(p.stack) - n + 1] # InvalidValue \/ n = Len(p.stack)
      BY <2>1, EndedIs
    <3> QED BY <1>3, <1>4, <3>1
  <2> HIDE DEF n
  <2>3. /\ q \in 1 .. L - 1 /\ L - 1 - n + 1 = q /\ q \in 1 .. L /\ n = L - q /\ q \in Nat /\ L \in Nat /\ q <= L
        /\ n \in 1 .. L - 1
    BY <1>1, <2>2
  <2>4. p.stack[q] = s[q]
    BY <1>3, <1>4, <2>3
  <2>5. ASSUME NEW k \in q + 1 .. L
        PROVE  s[k] = InvalidValue
    <3>1. CASE k = L
      BY <2>1, <3>1
    <3>2. CASE k # L
      <4> DEFINE j == L - k
      <4>1. j \in 1 .. n - 1 /\ L - 1 - j + 1 = k /\ k \in 1 .. L - 1
        BY <1>1, <2>3, <3>2
      <4>2. p.stack[L - 1 - j + 1] = InvalidValue
        <5> HIDE DEF j
        <5> QED BY <2>2, <4>1
      <4> QED BY <1>3, <1>4, <4>1, <4>2
    <3> QED BY <3>1, <3>2
  <2>6. s[q] = InvalidValue => q = 1
    BY <1>1, <2>2, <2>3, <2>4
  <2>7. MarksIn(s, L) = MarksIn(s, q) + (L - q)
    <3> HIDE DEF q
    <3> QED BY <2>3, <2>5, MarksAll
  <2>8. MarksIn(s, q) \in Nat /\ MarksIn(s, q) >= 1
    <3>1. q \in Nat \ {0}
      BY <2>3
    <3> HIDE DEF q
    <3> QED BY <1>2, <3>1, MarksAbove
  <2>9. MarksIn(s, q) - 1 = Len(Path(o)) - n /\ n \in 1 .. Len(Path(o))
    <3> HIDE DEF q
    <3> QED BY <1>2, <2>3, <2>7, <2>8
  <2>10. t = OutOf(p, n)
    BY <1>6 DEF Unwound, n
  <2>11. n \in 1 .. Len(Path(p)) /\ n <= Len(p.stack) /\ Len(p.stack) = L - 1
    BY <1>3, <1>4, <2>2, <2>9
  <2>12. /\ ObjectType(t) /\ Nested(t)
         /\ Path(t) = Prefix(Path(p), Len(Path(p)) - n) /\ instanceId(t) = InvalidValue
         /\ t.nodeIndex = p.stack[Len(p.stack) - n + 1] /\ t.pair = 1
         /\ t.triangleMask = p.triangleMask /\ t.state = p.state
         /\ t.stack = Prefix(p.stack, Len(p.stack) - n)
    BY <1>3, <2>10, <2>11, Leaving
  <2>13. Path(t) = PathAt(Path(o), s, q)
    BY <1>3, <2>9, <2>12 DEF PathAt
  <2>14. t.stack = Prefix(s, q - 1)
    <3>1. L - 1 \in 0 .. Len(s) /\ q - 1 \in 0 .. L - 1 /\ Len(p.stack) - n = q - 1
      BY <2>3, <2>11 DEF L
    <3>2. Prefix(Prefix(s, L - 1), q - 1) = Prefix(s, q - 1)
      <4> HIDE DEF q
      <4> QED BY <1>1, <3>1, PrefixOfPrefix
    <3> QED BY <1>3, <2>12, <3>1, <3>2
  <2>15. t.nodeIndex = s[q]
    BY <2>3, <2>4, <2>11, <2>12
  <2> HIDE DEF q
  <2> QED BY <1>3, <1>6, <2>3, <2>5, <2>6, <2>12, <2>13, <2>14, <2>15 DEF s, L
<1> QED BY <1>5, <1>6

(* The paths to the trees on a stack get longer upwards.                   *)
LEMMA PathsGrow ==
  ASSUME NEW path \in Seq(Ids), NEW s \in Seq(Entry), s # <<>>, Marked(path, s),
         NEW k \in 1 .. Len(s), NEW q \in k .. Len(s)
  PROVE  /\ MarksIn(s, k) \in 1 .. MarksIn(s, q) /\ MarksIn(s, q) \in 1 .. Len(path) + 1
         /\ MarksIn(s, k) - 1 \in 0 .. MarksIn(s, q) - 1 /\ MarksIn(s, q) - 1 \in 0 .. Len(path)
         /\ PathAt(path, s, q) \in Seq(Ids) /\ Len(PathAt(path, s, q)) = MarksIn(s, q) - 1
         /\ Prefix(PathAt(path, s, q), MarksIn(s, k) - 1) = PathAt(path, s, k)
<1>1. /\ Len(s) \in Nat /\ k \in Nat \ {0} /\ q \in Nat \ {0} /\ k <= q /\ q <= Len(s) /\ Len(path) \in Nat
      /\ k \in Nat /\ q \in Nat
  BY LenProperties
<1>2. s[1] = InvalidValue /\ MarksIn(s, Len(s)) = 1 + Len(path)
  BY DEF Marked
<1>3. MarksIn(s, k) \in Nat /\ MarksIn(s, k) >= 1 /\ MarksIn(s, q) \in Nat
  BY <1>1, <1>2, MarksAbove
<1>4. MarksIn(s, k) <= MarksIn(s, q) /\ MarksIn(s, q) <= MarksIn(s, Len(s))
  BY <1>1, MarksMonotone
<1>5. /\ MarksIn(s, k) \in 1 .. MarksIn(s, q) /\ MarksIn(s, q) \in 1 .. Len(path) + 1
      /\ MarksIn(s, k) - 1 \in 0 .. MarksIn(s, q) - 1 /\ MarksIn(s, q) - 1 \in 0 .. Len(path)
  BY <1>1, <1>2, <1>3, <1>4
<1>6. PathAt(path, s, q) \in Seq(Ids) /\ Len(PathAt(path, s, q)) = MarksIn(s, q) - 1
  BY <1>5, PrefixType DEF PathAt
<1>7. Prefix(PathAt(path, s, q), MarksIn(s, k) - 1) = PathAt(path, s, k)
  BY <1>5, PrefixOfPrefix DEF PathAt
<1> QED BY <1>5, <1>6, <1>7

LEMMA MarkedBelow ==
  ASSUME NEW path \in Seq(Ids), NEW s \in Seq(Entry), s # <<>>, Marked(path, s),
         NEW q \in 1 .. Len(s), s[q] # InvalidValue
  PROVE  /\ s[q] \in Nodes(TreeOf(PathAt(path, s, q)))
         /\ Marked(PathAt(path, s, q), Prefix(s, q - 1))
         /\ Len(Prefix(s, q - 1)) = q - 1
         /\ \A k \in 1 .. q - 1 : /\ Prefix(s, q - 1)[k] = s[k]
                                  /\ PathAt(PathAt(path, s, q), Prefix(s, q - 1), k) = PathAt(path, s, k)
<1> DEFINE r == Prefix(s, q - 1)
           at == PathAt(path, s, q)
<1>1. /\ Len(s) \in Nat /\ q \in Nat \ {0} /\ q - 1 \in Nat /\ q - 1 \in 0 .. Len(s)
      /\ s[1] = InvalidValue /\ q # 1 /\ 1 \in 1 .. q - 1
  BY LenProperties DEF Marked
<1>2. r \in Seq(Entry) /\ Len(r) = q - 1 /\ \A k \in 1 .. q - 1 : r[k] = s[k]
  BY <1>1, PrefixType
<1>3. q \in q .. Len(s)
  BY <1>1
<1>4. at \in Seq(Ids) /\ Len(at) = MarksIn(s, q) - 1 /\ MarksIn(s, q) \in Nat
  BY <1>3, PathsGrow
<1> HIDE DEF r, at
<1>5. \A k \in 1 .. q - 1 : MarksIn(r, k) = MarksIn(s, k)
  <2>1. ASSUME NEW k \in 1 .. q - 1
        PROVE  MarksIn(r, k) = MarksIn(s, k)
    <3>1. k \in Nat /\ \A j \in 1 .. k : r[j] = s[j]
      BY <1>1, <1>2
    <3> QED BY <3>1, MarksSame
  <2> QED BY <2>1
<1>6. ASSUME NEW k \in 1 .. q - 1
      PROVE  PathAt(at, r, k) = PathAt(path, s, k)
  <2>1. k \in 1 .. Len(s) /\ q \in k .. Len(s)
    BY <1>1
  <2>2. Prefix(at, MarksIn(s, k) - 1) = PathAt(path, s, k)
    BY <2>1, PathsGrow DEF at
  <2> QED BY <1>5, <2>2 DEF PathAt
<1>7. MarksIn(r, Len(r)) = 1 + Len(at)
  <2>1. MarksIn(s, q) = MarksIn(s, q - 1)
    <3>1. q - 1 <= q /\ q \in Nat /\ \A k \in q - 1 + 1 .. q : s[k] # InvalidValue
      BY <1>1
    <3> QED BY <1>1, <3>1, MarksNone
  <2>2. q - 1 \in 1 .. q - 1
    BY <1>1
  <2> QED BY <1>2, <1>4, <1>5, <2>1, <2>2
<1>8. s[q] \in Nodes(TreeOf(at))
  BY DEF Marked, at
<1>9. \A k \in 1 .. Len(r) : r[k] # InvalidValue => r[k] \in Nodes(TreeOf(PathAt(at, r, k)))
  <2>1. ASSUME NEW k \in 1 .. q - 1, r[k] # InvalidValue
        PROVE  r[k] \in Nodes(TreeOf(PathAt(at, r, k)))
    <3>1. k \in 1 .. Len(s) /\ r[k] = s[k]
      BY <1>1, <1>2
    <3>2. s[k] \in Nodes(TreeOf(PathAt(path, s, k)))
      BY <2>1, <3>1 DEF Marked
    <3> QED BY <1>6, <3>1, <3>2
  <2> QED BY <1>2, <2>1
<1>10. r # <<>> /\ r[1] = InvalidValue
  BY <1>1, <1>2, EmptySeq
<1>11. Marked(at, r)
  BY <1>7, <1>9, <1>10 DEF Marked
<1> QED BY <1>2, <1>6, <1>8, <1>11 DEF r, at

(* On to the next node: the object is as it must be, and what is pending   *)
(* is what was on the stack.                                               *)
LEMMA AdvanceObject ==
  ASSUME config \in Configurations, NEW o, ObjectInv(o), o.nodeIndex # InvalidValue, o.stack # <<>>,
         NEW p, p = Popped([o EXCEPT !.triangleMask = {}]),
         NEW t, t = Unwound(p)
  PROVE  /\ ObjectInv(t) /\ t.state = o.state /\ t.pair = 1 /\ t.triangleMask = {}
         /\ t.nodeIndex # InvalidValue => t.stack # <<>>
         /\ TreeEnded(p) => instanceId(t) = InvalidValue
         /\ ~TreeEnded(p) => Path(t) = Path(o) /\ instanceId(t) = instanceId(o)
         /\ t.nodeIndex = InvalidValue => t.stack = <<>>
<1>1. /\ ObjectType(o) /\ Nested(o) /\ Marked(Path(o), o.stack) /\ o.stack \in Seq(Entry)
      /\ Len(o.stack) <= config.stackSize /\ Path(o) \in Seq(Ids)
  BY OuterIs DEF ObjectInv, Planned, ObjectType
<1>2. PICK q \in 1 .. Len(o.stack) :
         /\ t.nodeIndex = o.stack[q] /\ t.stack = Prefix(o.stack, q - 1)
         /\ \A k \in q + 1 .. Len(o.stack) : o.stack[k] = InvalidValue
         /\ o.stack[q] = InvalidValue => q = 1
         /\ Path(t) = PathAt(Path(o), o.stack, q)
  BY <1>1, NextEntry
<1>3. /\ ObjectType(t) /\ Nested(t)
      /\ t.pair = 1 /\ t.triangleMask = {} /\ t.state = o.state
      /\ TreeEnded(p) => instanceId(t) = InvalidValue
      /\ ~TreeEnded(p) => Path(t) = Path(o) /\ instanceId(t) = instanceId(o)
      /\ t.nodeIndex = InvalidValue => instanceId(t) = InvalidValue
  BY <1>1, NextEntry
<1>4. Len(o.stack) \in Nat /\ Len(t.stack) = q - 1 /\ q - 1 \in 0 .. Len(o.stack)
  <2>1. Len(o.stack) \in Nat /\ q - 1 \in 0 .. Len(o.stack)
    BY <1>1, LenProperties
  <2> QED BY <1>1, <1>2, <2>1, PrefixType
<1>5. config.stackSize \in Nat
  BY ConfigurationAssumption
<1>6. Len(t.stack) <= config.stackSize
  BY <1>1, <1>4, <1>5
<1>7. t.nodeIndex # InvalidValue => /\ t.nodeIndex \in Nodes(TreeOf(Path(t))) /\ Marked(Path(t), t.stack)
                                    /\ t.stack # <<>>
  <2>1. ASSUME o.stack[q] # InvalidValue
        PROVE  /\ o.stack[q] \in Nodes(TreeOf(Path(t))) /\ Marked(Path(t), t.stack)
               /\ q # 1
    <3>1. o.stack[1] = InvalidValue
      BY <1>1 DEF Marked
    <3>2. o.stack[q] \in Nodes(TreeOf(PathAt(Path(o), o.stack, q)))
      BY <1>1, <2>1, MarkedBelow
    <3>3. Marked(PathAt(Path(o), o.stack, q), Prefix(o.stack, q - 1))
      BY <1>1, <2>1, MarkedBelow
    <3> QED BY <1>2, <2>1, <3>1, <3>2, <3>3
  <2>2. q # 1 => t.stack # <<>>
    BY <1>4, EmptySeq
  <2> QED BY <1>2, <2>1, <2>2
<1>8. t.nodeIndex = InvalidValue => t.stack = <<>>
  <2>1. q = 1 => t.stack = <<>>
    BY <1>2, PrefixEmpty
  <2> QED BY <1>2, <2>1
<1>9. \A k \in 1 .. Len(<<>>) : FALSE
  OBVIOUS
<1>10. Planned(t)
  BY <1>3, <1>6, <1>7, <1>8, <1>9 DEF Planned
<1> QED BY <1>3, <1>7, <1>8, <1>10 DEF ObjectInv, Fits

-----------------------------------------------------------------------------
(* Pushing.                                                                *)

(* The nodes of a tree.                                                    *)
LEMMA PushedNodes ==
  ASSUME NEW path \in Seq(Ids), NEW s \in Seq(Entry), s # <<>>, Marked(path, s),
         NEW rest \in Seq(Nodes(TreeOf(path)))
  PROVE  /\ s \o rest \in Seq(Entry) /\ s \o rest # <<>> /\ Marked(path, s \o rest)
         /\ Len(s \o rest) = Len(s) + Len(rest)
         /\ \A k \in 1 .. Len(s) :
              (s \o rest)[k] = s[k] /\ PathAt(path, s \o rest, k) = PathAt(path, s, k)
         /\ \A k \in Len(s) + 1 .. Len(s) + Len(rest) :
              /\ (s \o rest)[k] = rest[k - Len(s)] /\ (s \o rest)[k] # InvalidValue
              /\ PathAt(path, s \o rest, k) = path
<1> DEFINE u == s \o rest
           b == TreeOf(path)
           n == Len(s)
           r == Len(rest)
<1>1. b \in Trees /\ InvalidValue \notin Nodes(b) /\ Nodes(b) \subseteq Entry
  BY TreeOfType, TreeAssumption DEF Entry, Index
<1>2. /\ n \in Nat \ {0} /\ r \in Nat /\ rest \in Seq(Entry) /\ n \in Nat
      /\ s[1] = InvalidValue /\ MarksIn(s, n) = 1 + Len(path) /\ Len(path) \in Nat
  BY <1>1, EmptySeq, LenProperties, SeqMonotonic DEF Marked
<1>3. /\ u \in Seq(Entry) /\ Len(u) = n + r
      /\ \A i \in 1 .. n + r : u[i] = IF i <= n THEN s[i] ELSE rest[i - n]
  BY <1>2, ConcatProperties
<1> HIDE DEF n, r, b, u
<1>4. /\ \A k \in 1 .. n : u[k] = s[k]
      /\ \A k \in n + 1 .. n + r : u[k] = rest[k - n]
  BY <1>2, <1>3
<1>5. ASSUME NEW k \in n + 1 .. n + r
      PROVE  u[k] \in Nodes(b) /\ u[k] # InvalidValue
  <2>1. k - n \in 1 .. Len(rest)
    BY <1>2 DEF r
  <2>2. rest[k - n] \in Nodes(b)
    BY <2>1, ElementOfSeq DEF b
  <2> QED BY <1>1, <1>4, <2>2
<1>6. ASSUME NEW k \in 1 .. n
      PROVE  MarksIn(u, k) = MarksIn(s, k)
  <2>1. k \in Nat /\ \A j \in 1 .. k : j \in 1 .. n
    BY <1>2
  <2>2. \A j \in 1 .. k : u[j] = s[j]
    BY <1>4, <2>1
  <2> QED BY <2>1, <2>2, MarksSame
<1>7. ASSUME NEW k \in n .. n + r
      PROVE  MarksIn(u, k) = 1 + Len(path)
  <2>1. n <= k /\ k \in Nat /\ n \in 1 .. n /\ \A j \in n + 1 .. k : u[j] # InvalidValue
    <3>1. n <= k /\ k \in Nat /\ n \in 1 .. n /\ \A j \in n + 1 .. k : j \in n + 1 .. n + r
      BY <1>2
    <3> QED BY <1>5, <3>1
  <2>2. MarksIn(u, k) = MarksIn(u, n)
    BY <1>2, <2>1, MarksNone
  <2> QED BY <1>2, <1>6, <2>1, <2>2
<1>8. \A k \in 1 .. n : PathAt(path, u, k) = PathAt(path, s, k)
  BY <1>6 DEF PathAt
<1>9. ASSUME NEW k \in n + 1 .. n + r
      PROVE  PathAt(path, u, k) = path
  <2>1. k \in n .. n + r
    BY <1>2
  <2>2. MarksIn(u, k) - 1 = Len(path)
    BY <1>2, <1>7, <2>1
  <2> QED BY <2>2, PrefixFull DEF PathAt
<1>10. u # <<>> /\ u[1] = InvalidValue /\ MarksIn(u, Len(u)) = 1 + Len(path)
  <2>1. 1 \in 1 .. n /\ n + r \in n .. n + r /\ n + r # 0
    BY <1>2
  <2>2. u[1] = InvalidValue
    BY <1>2, <1>4, <2>1
  <2>3. u # <<>>
    BY <1>3, <2>1, EmptySeq
  <2> QED BY <1>3, <1>7, <2>1, <2>2, <2>3
<1>11. ASSUME NEW k \in 1 .. Len(u), u[k] # InvalidValue
       PROVE  u[k] \in Nodes(TreeOf(PathAt(path, u, k)))
  <2>1. CASE k \in 1 .. n
    <3>1. s[k] # InvalidValue => s[k] \in Nodes(TreeOf(PathAt(path, s, k)))
      BY <2>1 DEF Marked, n
    <3> QED BY <1>4, <1>8, <1>11, <2>1, <3>1
  <2>2. CASE k \in n + 1 .. n + r
    BY <1>5, <1>9, <2>2 DEF b
  <2> QED BY <1>2, <1>3, <2>1, <2>2
<1>12. Marked(path, u)
  BY <1>10, <1>11 DEF Marked
<1> QED BY <1>3, <1>4, <1>5, <1>8, <1>9, <1>10, <1>12 DEF n, r, u

(* The mark of a tree that is entered.                                     *)
LEMMA PushedMark ==
  ASSUME NEW path \in Seq(Ids), NEW s \in Seq(Entry), s # <<>>, Marked(path, s),
         NEW id \in Ids
  PROVE  /\ Append(s, InvalidValue) \in Seq(Entry) /\ Append(s, InvalidValue) # <<>>
         /\ Marked(Append(path, id), Append(s, InvalidValue))
         /\ Len(Append(s, InvalidValue)) = Len(s) + 1
         /\ \A k \in 1 .. Len(s) :
              /\ Append(s, InvalidValue)[k] = s[k]
              /\ PathAt(Append(path, id), Append(s, InvalidValue), k) = PathAt(path, s, k)
         /\ Append(s, InvalidValue)[Len(s) + 1] = InvalidValue
<1> DEFINE u == Append(s, InvalidValue)
           n == Len(s)
           q == Append(path, id)
<1>1. InvalidValue \in Entry
  BY DEF Entry
<1>2. /\ u \in Seq(Entry) /\ u # <<>> /\ Len(u) = n + 1
      /\ \A i \in 1 .. n : u[i] = s[i]
      /\ u[n + 1] = InvalidValue
  BY <1>1, AppendProperties
<1>3. /\ n \in Nat \ {0} /\ n \in Nat /\ s[1] = InvalidValue /\ MarksIn(s, n) = 1 + Len(path)
      /\ Len(path) \in Nat /\ Len(q) = Len(path) + 1
  BY EmptySeq, LenProperties, AppendProperties DEF Marked
<1>4. ASSUME NEW k \in 1 .. n
      PROVE  MarksIn(u, k) = MarksIn(s, k) /\ PathAt(q, u, k) = PathAt(path, s, k)
  <2>1. k \in Nat /\ n \in k .. Len(s) /\ \A j \in 1 .. k : u[j] = s[j]
    BY <1>2, <1>3
  <2>2. MarksIn(u, k) = MarksIn(s, k)
    BY <2>1, MarksSame
  <2>3. MarksIn(s, k) - 1 \in 0 .. Len(path)
    <3>1. k \in k .. Len(s)
      BY <1>3
    <3> QED BY <3>1, PathsGrow
  <2>4. Prefix(q, MarksIn(s, k) - 1) = Prefix(path, MarksIn(s, k) - 1)
    BY <2>3, PrefixOfAppend
  <2> QED BY <2>2, <2>4 DEF PathAt
<1> HIDE DEF n, q, u
<1>5. MarksIn(u, Len(u)) = 1 + Len(q)
  <2>1. PICK top \in Nat : top = n + 1
    BY <1>3
  <2>2. n <= top /\ n \in Nat /\ n \in 1 .. n /\ \A j \in n + 1 .. top : u[j] = InvalidValue
    BY <1>2, <1>3, <2>1
  <2>3. MarksIn(u, top) = MarksIn(u, n) + (top - n)
    BY <2>2, MarksAll
  <2>4. MarksIn(u, n) = 1 + Len(path)
    BY <1>3, <1>4, <2>2 DEF n
  <2> QED BY <1>2, <1>3, <2>1, <2>3, <2>4
<1>6. ASSUME NEW k \in 1 .. Len(u), u[k] # InvalidValue
      PROVE  u[k] \in Nodes(TreeOf(PathAt(q, u, k)))
  <2>1. k \in 1 .. n
    BY <1>2, <1>3, <1>6
  <2>2. s[k] # InvalidValue => s[k] \in Nodes(TreeOf(PathAt(path, s, k)))
    BY <2>1 DEF Marked, n
  <2> QED BY <1>2, <1>4, <1>6, <2>1, <2>2
<1>7. 1 \in 1 .. n /\ u[1] = InvalidValue
  BY <1>2, <1>3
<1>8. Marked(q, u)
  BY <1>2, <1>5, <1>6, <1>7 DEF Marked
<1> QED BY <1>2, <1>4, <1>8 DEF n, q, u

LEMMA SameInterval ==
  ASSUME NEW a \in Nat, NEW b \in Nat, 1 .. a = 1 .. b
  PROVE  a = b
<1>1. ASSUME a < b
      PROVE  FALSE
  <2>1. b \in 1 .. b /\ b \notin 1 .. a
    BY <1>1
  <2> QED BY <2>1
<1>2. ASSUME b < a
      PROVE  FALSE
  <2>1. a \in 1 .. a /\ a \notin 1 .. b
    BY <1>2
  <2> QED BY <2>1
<1> QED BY <1>1, <1>2

(* The order in which children are visited: each of them once.             *)
Visits(R, first, rest) ==
  /\ first \in R /\ rest \in Seq(R)
  /\ \A k \in 1 .. Len(rest) : rest[k] # first
  /\ \A j, k \in 1 .. Len(rest) : rest[j] = rest[k] => j = k
  /\ \A d \in R : d = first \/ \E k \in 1 .. Len(rest) : rest[k] = d

LEMMA VisitedOnce ==
  ASSUME NEW R, IsFiniteSet(R), R # {}, NEW result \in SetToSeqs(R),
         NEW rest, rest = Reverse(Tail(result))
  PROVE  Visits(R, Head(result), rest) /\ Len(rest) = Cardinality(R) - 1 /\ Cardinality(R) \in Nat
<1> USE DEF Visits
<1> DEFINE n == Cardinality(R)
           f == result
<1>1. n \in Nat \ {0}
  BY FS_CardinalityType, FS_EmptySet
<1>2. f \in [1 .. n -> R] /\ \A i, j \in 1 .. n : i # j => f[i] # f[j]
  BY DEF SetToSeqs
<1> HIDE DEF n, f
<1>3. f \in Seq(R) /\ Len(f) = n
  <2>1. f \in Seq(R)
    BY <1>1, <1>2, SeqDef
  <2>2. Len(f) \in Nat /\ DOMAIN f = 1 .. Len(f) /\ DOMAIN f = 1 .. n
    BY <1>2, <2>1, LenProperties
  <2>3. Len(f) = n
    BY <1>1, <2>2, SameInterval
  <2> QED BY <2>1, <2>3
<1>4. f # <<>>
  BY <1>1, <1>3, EmptySeq
<1>5. /\ Tail(f) \in Seq(R) /\ Len(Tail(f)) = n - 1
      /\ \A i \in 1 .. n - 1 : Tail(f)[i] = f[i + 1]
  BY <1>3, <1>4, HeadTailProperties
<1>6. Head(f) = f[1] /\ Head(f) \in R
  <2>1. Head(f) = f[1]
    BY <1>3, <1>4
  <2> QED BY <1>1, <1>2, <2>1
<1>7. rest = [i \in 1 .. n - 1 |-> f[n - i + 1]]
  <2>1. rest = [i \in 1 .. n - 1 |-> Tail(f)[n - 1 - i + 1]]
    BY <1>5 DEF Reverse, f
  <2>2. \A i \in 1 .. n - 1 : n - 1 - i + 1 \in 1 .. n - 1 /\ n - 1 - i + 1 + 1 = n - i + 1
    BY <1>1
  <2>3. \A i \in 1 .. n - 1 : Tail(f)[n - 1 - i + 1] = f[n - i + 1]
    BY <1>5, <2>2
  <2> QED BY <2>1, <2>3
<1>8. \A i \in 1 .. n - 1 : n - i + 1 \in 2 .. n /\ n - i + 1 \in 1 .. n
  BY <1>1
<1>9. rest \in [1 .. n - 1 -> R]
  BY <1>2, <1>7, <1>8
<1>10. rest \in Seq(R) /\ Len(rest) = n - 1
  <2>1. n - 1 \in Nat
    BY <1>1
  <2>2. rest \in Seq(R)
    BY <1>9, <2>1, SeqDef
  <2>3. Len(rest) \in Nat /\ DOMAIN rest = 1 .. Len(rest) /\ DOMAIN rest = 1 .. n - 1
    BY <1>9, <2>2, LenProperties
  <2>4. Len(rest) = n - 1
    BY <2>1, <2>3, SameInterval
  <2> QED BY <2>2, <2>4
<1>11. ASSUME NEW k \in 1 .. n - 1
       PROVE  rest[k] # Head(f)
  <2>1. rest[k] = f[n - k + 1] /\ n - k + 1 \in 1 .. n /\ n - k + 1 # 1 /\ 1 \in 1 .. n
    BY <1>1, <1>7, <1>8
  <2> QED BY <1>2, <1>6, <2>1
<1>12. ASSUME NEW j \in 1 .. n - 1, NEW k \in 1 .. n - 1, rest[j] = rest[k]
       PROVE  j = k
  <2>1. f[n - j + 1] = f[n - k + 1]
    BY <1>7, <1>12
  <2>2. n - j + 1 = n - k + 1
    BY <1>2, <1>8, <2>1
  <2> QED BY <1>1, <2>2
<1>13. ASSUME NEW d \in R
       PROVE  d = Head(f) \/ \E k \in 1 .. n - 1 : rest[k] = d
  <2>1. \A x \in 1 .. n, y \in 1 .. n : f[x] = f[y] => x = y
    BY <1>2
  <2>2. f \in Injection(1 .. n, R)
    BY <1>2, <2>1 DEF Injection, IsInjective
  <2>3. Cardinality(1 .. n) = Cardinality(R)
    <3>1. Cardinality(1 .. n) = IF 1 > n THEN 0 ELSE n - 1 + 1
      BY <1>1, FS_Interval
    <3> QED BY <1>1, <3>1 DEF n
  <2>4. f \in Surjection(1 .. n, R)
    BY <2>2, <2>3, FS_Injection
  <2>5. PICK i \in 1 .. n : f[i] = d
    BY <2>4 DEF Surjection
  <2>6. i = 1 \/ (n - i + 1 \in 1 .. n - 1 /\ n - (n - i + 1) + 1 = i)
    BY <1>1
  <2>7. CASE i = 1
    BY <1>6, <2>5, <2>7
  <2>8. CASE n - i + 1 \in 1 .. n - 1 /\ n - (n - i + 1) + 1 = i
    BY <1>7, <2>5, <2>8
  <2> QED BY <2>6, <2>7, <2>8
<1> QED BY <1>1, <1>6, <1>10, <1>11, <1>12, <1>13 DEF n, f

-----------------------------------------------------------------------------
(* The steps of an object.                                                 *)

LEMMA FrontAndLast ==
  ASSUME NEW S, NEW s \in Seq(S), s # <<>>
  PROVE  s = Append(Front(s), Last(s))
<1>1. /\ Len(s) \in Nat \ {0} /\ Front(s) \in Seq(S) /\ Len(Front(s)) = Len(s) - 1
      /\ \A k \in 1 .. Len(s) - 1 : Front(s)[k] = s[k]
      /\ Last(s) = s[Len(s)] /\ Last(s) \in S
  BY FrontIsPrefix
<1> DEFINE t == Append(Front(s), Last(s))
<1>2. /\ t \in Seq(S) /\ Len(t) = Len(s) - 1 + 1 /\ t[Len(s) - 1 + 1] = Last(s)
      /\ \A k \in 1 .. Len(s) - 1 : t[k] = Front(s)[k]
  BY <1>1, AppendProperties
<1> HIDE DEF t
<1>3. Len(t) = Len(s) /\ t[Len(s)] = s[Len(s)]
  BY <1>1, <1>2
<1>4. ASSUME NEW k \in 1 .. Len(t)
      PROVE  t[k] = s[k]
  <2>1. k = Len(s) \/ k \in 1 .. Len(s) - 1
    BY <1>1, <1>3
  <2> QED BY <1>1, <1>2, <1>3, <2>1
<1>5. t = s
  BY <1>2, <1>3, <1>4, SeqEqual
<1> QED BY <1>5 DEF t

LEMMA StateObject ==
  ASSUME NEW o, ObjectInv(o), NEW st \in {"init", "hit", "finished", "overflow"},
         NEW t, t = [o EXCEPT !.state = st]
  PROVE  /\ ObjectInv(t) /\ t.state = st /\ t.nodeIndex = o.nodeIndex /\ t.pair = o.pair
         /\ t.triangleMask = o.triangleMask /\ t.stack = o.stack
         /\ Path(t) = Path(o) /\ instanceId(t) = instanceId(o)
<1>1. /\ ObjectType(o) /\ Nested(o)
  BY DEF ObjectInv
<1>2. ObjectType(t)
  BY <1>1 DEF ObjectType
<1>3. /\ t.state = st /\ t.nodeIndex = o.nodeIndex /\ t.pair = o.pair
      /\ t.triangleMask = o.triangleMask /\ t.stack = o.stack
      /\ t.instanceIds = o.instanceIds /\ t.instanceStack = o.instanceStack
      /\ t.ray = o.ray /\ t.scene = o.scene /\ t.instanceIndex = o.instanceIndex
  BY <1>1 DEF ObjectType
<1>4. Nested(t) /\ Path(t) = Path(o) /\ instanceId(t) = instanceId(o)
  BY <1>1, <1>3, NestedSame
<1>5. Planned(t)
  BY <1>3, <1>4, Zenon DEF ObjectInv, Planned
<1>6. Fits(t)
  BY <1>3, <1>4, Zenon DEF ObjectInv, Fits, InLeaf
<1> QED BY <1>2, <1>3, <1>4, <1>5, <1>6 DEF ObjectInv

(* A call pushes the mark at the bottom.                                   *)
LEMMA CallObject ==
  ASSUME config \in Configurations, NEW o, ObjectInv(o), o.stack = <<>>,
         NEW t, t = Push(o, InvalidValue)
  PROVE  /\ ObjectInv(t) /\ t.state = o.state /\ t.nodeIndex = o.nodeIndex /\ t.pair = o.pair
         /\ t.triangleMask = o.triangleMask /\ t.stack # <<>>
         /\ t.stack[1] = InvalidValue /\ Len(t.stack) = 1
         /\ Path(t) = Path(o) /\ instanceId(t) = instanceId(o)
<1> DEFINE u == Append(<<>>, InvalidValue)
<1>1. /\ ObjectType(o) /\ Nested(o)
  BY DEF ObjectInv
<1>2. /\ u \in Seq(Entry) /\ u # <<>> /\ Len(u) = 1 /\ u[1] = InvalidValue
  BY DEF Entry
<1>3. t = [o EXCEPT !.stack = u]
  BY DEF Push
<1> HIDE DEF u
<1>4. ObjectType(t)
  BY <1>1, <1>2, <1>3 DEF ObjectType
<1>5. /\ t.state = o.state /\ t.nodeIndex = o.nodeIndex /\ t.pair = o.pair
      /\ t.triangleMask = o.triangleMask /\ t.stack = u
      /\ t.instanceIds = o.instanceIds /\ t.instanceStack = o.instanceStack
      /\ t.ray = o.ray /\ t.scene = o.scene /\ t.instanceIndex = o.instanceIndex
  BY <1>1, <1>3 DEF ObjectType
<1>6. Nested(t) /\ Path(t) = Path(o) /\ instanceId(t) = instanceId(o)
  BY <1>1, <1>5, NestedSame
<1>7. config.stackSize \in Nat \ {0}
  BY ConfigurationAssumption
<1>8. \A k \in 1 .. Len(u) : k = 1
  BY <1>2
<1>9. ASSUME t.nodeIndex # InvalidValue
      PROVE  t.nodeIndex \in Nodes(TreeOf(Path(t))) /\ Marked(Path(t), u)
  <2>1. o.nodeIndex \in Nodes(TreeOf(Path(o))) /\ Path(o) = <<>>
    BY <1>5, <1>9 DEF ObjectInv, Planned, Marked
  <2>2. MarksIn(u, 1) = 1
    <3>1. 1 \in Nat \ {0}
      OBVIOUS
    <3> QED BY <1>2, <3>1, MarksAbove
  <2>3. Len(<<>>) = 0
    OBVIOUS
  <2> QED BY <1>2, <1>5, <1>6, <1>8, <2>1, <2>2, <2>3 DEF Marked
<1>10. Planned(t)
  <2>1. o.nodeIndex = InvalidValue => instanceId(o) = InvalidValue
    BY DEF ObjectInv, Planned
  <2>2. \A k \in 1 .. Len(u) : u[k] = InvalidValue
    BY <1>2, <1>8
  <2>3. Len(u) <= config.stackSize
    BY <1>2, <1>7
  <2> QED BY <1>5, <1>6, <1>9, <2>1, <2>2, <2>3, Zenon DEF Planned
<1>11. Fits(t)
  BY <1>5, <1>6, Zenon DEF ObjectInv, Fits, InLeaf
<1> QED BY <1>2, <1>4, <1>5, <1>6, <1>10, <1>11 DEF ObjectInv

(* Children of the current node: one of them is next, the rest is pushed.  *)
Into(o, first, rest) == [o EXCEPT !.stack = @ \o rest, !.nodeIndex = first, !.pair = 1]

LEMMA BoxObject ==
  ASSUME config \in Configurations, NEW o, ObjectInv(o), o.nodeIndex # InvalidValue, o.stack # <<>>,
         NEW first \in Nodes(TreeOf(Path(o))), NEW rest \in Seq(Nodes(TreeOf(Path(o)))),
         Len(o.stack) + Len(rest) <= config.stackSize, ~InLeaf(o),
         NEW t, t = Into(o, first, rest)
  PROVE  /\ ObjectInv(t) /\ t.state = o.state /\ t.nodeIndex = first /\ t.pair = 1
         /\ t.triangleMask = {} /\ t.stack # <<>> /\ t.stack = o.stack \o rest
         /\ Path(t) = Path(o) /\ instanceId(t) = instanceId(o) /\ first # InvalidValue
<1>1. /\ ObjectType(o) /\ Nested(o) /\ Marked(Path(o), o.stack) /\ o.stack \in Seq(Entry)
      /\ Path(o) \in Seq(Ids)
  BY OuterIs DEF ObjectInv, Planned, ObjectType
<1> DEFINE u == o.stack \o rest
<1>3. t = [o EXCEPT !.stack = u, !.nodeIndex = first, !.pair = 1]
  BY DEF Into
<1>2. u \in Seq(Entry) /\ u # <<>> /\ Marked(Path(o), u) /\ Len(u) = Len(o.stack) + Len(rest)
  <2>1. o.stack # <<>> /\ rest \in Seq(Nodes(TreeOf(Path(o))))
    OBVIOUS
  <2> QED BY <1>1, <2>1, PushedNodes
<1>4. first \in Entry /\ first # InvalidValue
  BY <1>1, TreeOfType, TreeAssumption DEF Entry, Index
<1> HIDE DEF u
<1>5. ObjectType(t)
  <2>1. ObjectType(o) /\ u \in Seq(Entry) /\ first \in Entry /\ 1 \in Nat \ {0}
    BY <1>1, <1>2, <1>4
  <2> QED BY ONLY <2>1, <1>3 DEF ObjectType
<1>6. /\ t.state = o.state /\ t.nodeIndex = first /\ t.pair = 1
      /\ t.triangleMask = o.triangleMask /\ t.stack = u
      /\ t.instanceIds = o.instanceIds /\ t.instanceStack = o.instanceStack
      /\ t.ray = o.ray /\ t.scene = o.scene /\ t.instanceIndex = o.instanceIndex
  BY <1>1, <1>3 DEF ObjectType
<1>7. Nested(t) /\ Path(t) = Path(o) /\ instanceId(t) = instanceId(o)
  BY <1>1, <1>6, NestedSame
<1>8. t.triangleMask = {}
  BY <1>6 DEF ObjectInv, Fits
<1>9. Planned(t)
  BY <1>2, <1>4, <1>6, <1>7 DEF Planned
<1> QED BY <1>2, <1>4, <1>5, <1>6, <1>7, <1>8, <1>9 DEF ObjectInv, Fits, u

(* Another pair of the leaf, or the rest of one.                           *)
LeftOff(o, k, mask) == [o EXCEPT !.state = "hit", !.pair = k, !.triangleMask = mask]

LEMMA PairObject ==
  ASSUME NEW o, ObjectInv(o), AnyHit, InLeaf(o), NEW k \in 1 .. Len(PairsOf(TreeOf(Path(o)), o.nodeIndex)),
         NEW mask, mask \in {{}, {0}},
         NEW t, t = LeftOff(o, k, mask)
  PROVE  /\ ObjectInv(t) /\ t.state = "hit" /\ t.nodeIndex = o.nodeIndex /\ t.pair = k
         /\ t.triangleMask = mask /\ t.stack = o.stack
         /\ Path(t) = Path(o) /\ instanceId(t) = instanceId(o)
<1>1. /\ ObjectType(o) /\ Nested(o)
  BY DEF ObjectInv
<1>2. k \in Nat \ {0}
  <2>1. k \in Int /\ k >= 1
    OBVIOUS
  <2> QED BY <2>1
<1>3. ObjectType(t)
  BY ONLY <1>1, <1>2, mask \in {{}, {0}}, t = LeftOff(o, k, mask) DEF ObjectType, LeftOff
<1>4. /\ t.state = "hit" /\ t.nodeIndex = o.nodeIndex /\ t.pair = k
      /\ t.triangleMask = mask /\ t.stack = o.stack
      /\ t.instanceIds = o.instanceIds /\ t.instanceStack = o.instanceStack
      /\ t.ray = o.ray /\ t.scene = o.scene /\ t.instanceIndex = o.instanceIndex
  BY <1>1 DEF ObjectType, LeftOff
<1>5. Nested(t) /\ Path(t) = Path(o) /\ instanceId(t) = instanceId(o)
  BY <1>1, <1>4, NestedSame
<1>6. Planned(t)
  BY <1>4, <1>5, Zenon DEF ObjectInv, Planned
<1>7. Fits(t)
  BY <1>4, <1>5 DEF ObjectInv, Fits, InLeaf
<1> QED BY <1>3, <1>4, <1>5, <1>6, <1>7 DEF ObjectInv

(* Into the tree of an instance.                                           *)
Entering(o, id) ==
  [SetInstanceId(o, id) EXCEPT !.instanceIndex = o.nodeIndex, !.nodeIndex = RootIndex, !.pair = 1,
     !.stack = Append(@, InvalidValue)]

Within(o, id) ==
  IF Instances[id] \in Scenes
  THEN [Entering(o, id) EXCEPT !.instanceStack = Append(@, [ray |-> o.ray, scene |-> o.scene]),
          !.ray = Space(Append(Path(o), id)), !.scene = Instances[id],
          !.instanceIds = Append(@, InvalidValue)]
  ELSE Entering(o, id)

LEMMA EnterObject ==
  ASSUME config \in Configurations, NEW o, ObjectInv(o), o.nodeIndex # InvalidValue, o.stack # <<>>,
         instanceId(o) = InvalidValue, o.nodeIndex \in DOMAIN Contents[o.scene],
         NEW id, id = Contents[o.scene][o.nodeIndex], id \notin config.masked,
         Len(o.stack) < config.stackSize,
         NEW t, t = Within(o, id)
  PROVE  /\ ObjectInv(t) /\ t.state = o.state /\ t.nodeIndex = RootIndex /\ t.pair = 1
         /\ t.triangleMask = {} /\ t.stack = Append(o.stack, InvalidValue) /\ t.stack # <<>>
         /\ id \in Ids /\ Path(t) = Append(Path(o), id) /\ RootIndex # InvalidValue
         /\ TreeOf(Path(t)) = Instances[id] /\ id \in IdsOf(o.scene)
         /\ TreeOf(Path(o)) = o.scene /\ o.scene \in Scenes /\ Path(o) \in Seq(Ids)
         /\ instanceId(t) = InvalidValue <=> Instances[id] \in Scenes
<1>14. PICK ray : ray = Space(Append(Path(o), id))
  OBVIOUS
<1>15. PICK e : e = [SetInstanceId(o, id) EXCEPT !.instanceIndex = o.nodeIndex,
                      !.nodeIndex = RootIndex, !.pair = 1, !.stack = Append(@, InvalidValue)]
  OBVIOUS
<1>16. t = IF Instances[id] \in Scenes
           THEN [e EXCEPT !.instanceStack = Append(@, [ray |-> o.ray, scene |-> o.scene]),
                          !.ray = ray, !.scene = Instances[id],
                          !.instanceIds = Append(@, InvalidValue)]
           ELSE e
  BY <1>14, <1>15 DEF Within, Entering
<1> USE <1>14, <1>15, <1>16
<1> DEFINE S == Ids \cup {InvalidValue}
           path == Outer(o)
           inner == Append(path, id)
           s2 == Append(o.stack, InvalidValue)
           d == Instances[id]
           saved == [ray |-> o.ray, scene |-> o.scene]
<1>1. /\ ObjectType(o) /\ Nested(o) /\ Marked(Path(o), o.stack) /\ o.stack \in Seq(Entry)
      /\ path \in Seq(Ids) /\ Path(o) = path /\ o.scene = TreeOf(path) /\ o.ray = Space(path)
      /\ o.scene \in Scenes /\ o.ray \in Ray /\ o.instanceIds \in Seq(S) /\ o.instanceIds # <<>>
      /\ o.instanceStack \in Seq(Saved) /\ Len(o.instanceStack) = Len(path) /\ Len(path) \in Nat
      /\ Reached(path)
  <2>1. ObjectType(o) /\ Nested(o) /\ Marked(Path(o), o.stack)
    BY DEF ObjectInv, Planned
  <2>2. Path(o) = path /\ Len(path) \in Nat
    BY <2>1, OuterIs
  <2>3. o.stack \in Seq(Entry) /\ o.scene \in Scenes /\ o.ray \in Ray /\ o.instanceIds \in Seq(S) /\ o.instanceStack \in Seq(Saved)
    BY <2>1 DEF ObjectType
  <2> QED BY <2>1, <2>2, <2>3 DEF Nested
<1>2. /\ id \in Ids /\ id \in IdsOf(o.scene) /\ id # InvalidValue /\ d \in Trees
      /\ RootIndex \in Nodes(d) /\ RootIndex \in Entry /\ RootIndex # InvalidValue
      /\ o.nodeIndex \in Entry
  <2>1. id \in Ids /\ id \in IdsOf(o.scene)
    BY <1>1, LeafOfIs
  <2>2. d \in Trees /\ id # InvalidValue
    BY <2>1, InstanceAssumption
  <2>3. RootIndex \in Nodes(d) /\ InvalidValue \notin Nodes(d)
    BY <2>2, TreeAssumption
  <2>4. RootIndex \in Entry
    BY <2>2, <2>3 DEF Entry, Index
  <2>5. o.nodeIndex \in Entry
    BY <1>1 DEF ObjectType
  <2> QED BY <2>1, <2>2, <2>3, <2>4, <2>5
<1>3. inner \in Seq(Ids) /\ Reached(inner) /\ TreeOf(inner) = d /\ Space(inner) \in Ray
  BY <1>1, <1>2, ReachedAppend, TreeOfAppend, SpaceType
<1>4. inner \in Seq(S) /\ inner # <<>> /\ Front(inner) = path /\ Last(inner) = id
  <2>1. inner # <<>>
    BY <1>1, <1>2, AppendProperties
  <2>2. Front(inner) = path /\ Last(inner) = id
    BY <1>1, <1>2, FrontOfAppend
  <2>3. Ids \subseteq S
    OBVIOUS
  <2> HIDE DEF inner, S
  <2>4. inner \in Seq(S)
    BY <1>3, <2>3, SeqMonotonic
  <2> QED BY <2>1, <2>2, <2>4
<1>5. [o.instanceIds EXCEPT ![Len(o.instanceIds)] = id] = inner
  <2> DEFINE ids == [o.instanceIds EXCEPT ![Len(o.instanceIds)] = id]
  <2>1. id \in S
    BY <1>2
  <2>2. ids = [o.instanceIds EXCEPT ![Len(o.instanceIds)] = id]
    OBVIOUS
  <2> HIDE DEF ids, S
  <2>3. ids \in Seq(S) /\ ids # <<>> /\ Front(ids) = Front(o.instanceIds) /\ Last(ids) = id
    BY <1>1, <2>1, <2>2, SetLast
  <2>4. ids = Append(Front(ids), Last(ids))
    BY <2>3, FrontAndLast
  <2> QED BY <2>3, <2>4 DEF ids, Outer
<1>6. /\ s2 \in Seq(Entry) /\ s2 # <<>> /\ Marked(inner, s2) /\ Len(s2) = Len(o.stack) + 1
  BY <1>1, <1>2, PushedMark
<1>7. Len(s2) <= config.stackSize
  <2>1. config.stackSize \in Nat /\ Len(o.stack) \in Nat
    BY <1>1, ConfigurationAssumption, LenProperties
  <2> HIDE DEF s2
  <2> QED BY <1>6, <2>1
<1>8. o.triangleMask = {}
  <2>1. ~InLeaf(o)
    BY <1>1 DEF InLeaf
  <2> QED BY <2>1 DEF ObjectInv, Fits
<1> DEFINE e2 == [o EXCEPT !.instanceIds = inner, !.instanceIndex = o.nodeIndex,
                           !.nodeIndex = RootIndex, !.pair = 1, !.stack = s2]
<1>9. e = e2
  <2>1. SetInstanceId(o, id) = [o EXCEPT !.instanceIds = inner]
    <3> HIDE DEF inner
    <3> QED BY <1>1, <1>5 DEF SetInstanceId, ObjectType
  <2> HIDE DEF inner
  <2>2. SetInstanceId(o, id).stack = o.stack
    BY <1>1, <2>1 DEF ObjectType
  <2>3. e = [SetInstanceId(o, id) EXCEPT !.instanceIndex = o.nodeIndex,
                       !.nodeIndex = RootIndex, !.pair = 1, !.stack = s2]
    BY <2>2
  <2> HIDE DEF s2
  <2> QED BY <1>1, <2>1, <2>3 DEF ObjectType
<1> HIDE DEF inner, s2, path
<1>10. ObjectType(e)
  <2>1. ObjectType(o) /\ inner \in Seq(Ids \cup {InvalidValue}) /\ s2 \in Seq(Entry)
        /\ RootIndex \in Entry /\ o.nodeIndex \in Entry /\ 1 \in Nat \ {0}
    BY <1>1, <1>2, <1>4, <1>6
  <2>2. e = [o EXCEPT !.instanceIds = inner, !.instanceIndex = o.nodeIndex,
                      !.nodeIndex = RootIndex, !.pair = 1, !.stack = s2]
    BY <1>9
  <2> QED BY ONLY <2>1, <2>2 DEF ObjectType
<1>11. /\ e.instanceIds = inner /\ e.instanceIndex = o.nodeIndex /\ e.nodeIndex = RootIndex /\ e.pair = 1
       /\ e.stack = s2 /\ e.triangleMask = {} /\ e.state = o.state /\ e.ray = o.ray /\ e.scene = o.scene
       /\ e.instanceStack = o.instanceStack
  BY <1>1, <1>8, <1>9 DEF ObjectType
<1>12. CASE d \notin Scenes
  <2>1. t = e
    BY <1>12
  <2>2. Outer(e) = path /\ instanceId(e) = id /\ Path(e) = inner
    BY <1>2, <1>4, <1>11 DEF Outer, instanceId, Path
  <2>3. \A k \in 1 .. Len(o.instanceStack) : o.instanceStack[k] = Around(Prefix(path, k - 1))
    BY <1>1 DEF Nested, path
  <2>4. Nested(e)
    <3>1. /\ e.instanceIds # <<>> /\ Outer(e) \in Seq(Ids)
          /\ Len(e.instanceStack) = Len(Outer(e))
          /\ \A k \in 1 .. Len(e.instanceStack) : e.instanceStack[k] = Around(Prefix(Outer(e), k - 1))
      BY <1>1, <1>4, <1>11, <2>2, <2>3
    <3>2. e.ray = Space(Outer(e)) /\ e.scene = TreeOf(Outer(e)) /\ Reached(Path(e))
      BY <1>1, <1>3, <1>11, <2>2
    <3>3. /\ TreeOf(Path(e)) \notin Scenes /\ e.instanceIndex \in DOMAIN Contents[e.scene]
          /\ Contents[e.scene][e.instanceIndex] = instanceId(e)
      BY <1>3, <1>11, <1>12, <2>2
    <3> QED BY <3>1, <3>2, <3>3 DEF Nested
  <2>5. Planned(e)
    BY <1>2, <1>3, <1>6, <1>7, <1>11, <2>2 DEF Planned
  <2> QED BY <1>1, <1>2, <1>3, <1>6, <1>10, <1>11, <1>12, <2>1, <2>2, <2>4, <2>5 DEF ObjectInv, Fits, inner, s2
<1>13. CASE d \in Scenes
  <2> DEFINE is == Append(o.instanceStack, saved)
             ids == Append(inner, InvalidValue)
  <2>1. saved \in Saved /\ saved = Around(path)
    BY <1>1 DEF Saved, Around
  <2>2. /\ is \in Seq(Saved) /\ Len(is) = Len(path) + 1
        /\ \A k \in 1 .. Len(path) : is[k] = o.instanceStack[k]
        /\ is[Len(path) + 1] = saved
    <3> HIDE DEF saved
    <3> QED BY <1>1, <2>1, AppendProperties
  <2>3. /\ ids \in Seq(S) /\ ids # <<>> /\ Front(ids) = inner /\ Last(ids) = InvalidValue
    <3>1. InvalidValue \in S
      OBVIOUS
    <3> HIDE DEF S
    <3> QED BY <1>4, <3>1, AppendProperties, FrontOfAppend
  <2>4. t = [e EXCEPT !.instanceStack = is, !.ray = Space(inner), !.scene = d, !.instanceIds = ids]
    BY <1>1, <1>11, <1>13 DEF inner
  <2> HIDE DEF is, ids, d, S, saved
  <2>5. ObjectType(t)
    <3>1. ObjectType(e) /\ is \in Seq(Saved) /\ ids \in Seq(Ids \cup {InvalidValue}) /\ Space(inner) \in Ray /\ d \in Scenes
      BY <1>3, <1>10, <1>13, <2>2, <2>3 DEF S
    <3> QED BY ONLY <3>1, <2>4 DEF ObjectType
  <2>6. /\ t.instanceIds = ids /\ t.nodeIndex = RootIndex /\ t.pair = 1
        /\ t.stack = s2 /\ t.triangleMask = {} /\ t.state = o.state /\ t.ray = Space(inner) /\ t.scene = d
        /\ t.instanceStack = is
    BY <1>10, <1>11, <2>4 DEF ObjectType
  <2>7. Outer(t) = inner /\ instanceId(t) = InvalidValue /\ Path(t) = inner
    BY <2>3, <2>6 DEF Outer, instanceId, Path
  <2>8. Len(inner) = Len(path) + 1
    BY <1>1, <1>2, AppendProperties DEF inner
  <2>9. ASSUME NEW k \in 1 .. Len(is)
        PROVE  is[k] = Around(Prefix(inner, k - 1))
    <3>1. k - 1 \in 0 .. Len(path)
      BY <1>1, <2>2
    <3>2. Prefix(inner, k - 1) = Prefix(path, k - 1)
      BY <1>1, <1>2, <3>1, PrefixOfAppend DEF inner
    <3>3. CASE k = Len(path) + 1
      <4>1. k - 1 = Len(path)
        BY <1>1, <3>3
      <4>2. Prefix(path, k - 1) = path
        BY <1>1, <4>1, PrefixFull
      <4> QED BY <2>1, <2>2, <3>2, <3>3, <4>2
    <3>4. CASE k \in 1 .. Len(path)
      BY <1>1, <2>2, <3>2, <3>4 DEF Nested, path
    <3> QED BY <1>1, <2>2, <3>3, <3>4
  <2>10. Nested(t)
    <3>1. Len(t.instanceStack) = Len(Outer(t))
      BY <2>2, <2>6, <2>7, <2>8
    <3> QED BY <1>3, <2>3, <2>6, <2>7, <2>9, <3>1 DEF Nested
  <2>11. Planned(t)
    BY <1>2, <1>3, <1>6, <1>7, <2>6, <2>7 DEF Planned, d
  <2> QED BY <1>1, <1>2, <1>3, <1>6, <1>13, <2>5, <2>6, <2>7, <2>10, <2>11 DEF ObjectInv, Fits, inner, s2, d
<1> QED BY <1>12, <1>13

-----------------------------------------------------------------------------
(* The tests of a leaf for any-hit: the hit is one of those left, and what *)
(* is left afterwards is what was, but for the hit and what is missed.     *)

Outcome(pairs, k, mask, out) ==
  /\ out.hit = InvalidValue => \A p : LeftIn(pairs, k, mask, p) => ~Found(p)
  /\ out.hit # InvalidValue => LeftIn(pairs, k, mask, out.hit) /\ Found(out.hit)
  /\ out.hit # InvalidValue /\ out.mask = RangeEnd =>
       \A p : LeftIn(pairs, k, mask, p) /\ Found(p) => p = out.hit
  /\ out.hit # InvalidValue /\ out.mask # RangeEnd =>
       /\ out.pair \in 1 .. Len(pairs) /\ out.mask \in {{}, {0}}
       /\ \A p : Found(p) =>
            (LeftIn(pairs, out.pair, out.mask, p) <=> LeftIn(pairs, k, mask, p) /\ p # out.hit)

Distinct(pairs) ==
  \A i, n \in 1 .. Len(pairs), s, r \in 1 .. 2 :
    pairs[i][s] = pairs[n][r] /\ pairs[i][s] # InvalidValue => i = n /\ s = r

LEMMA RangeEndIs == RangeEnd # {} /\ RangeEnd # {0}
<1>1. 0 \in RangeEnd /\ 1 \in RangeEnd
  BY DEF RangeEnd
<1> QED BY <1>1

LEMMA PairOutcome ==
  ASSUME NEW pairs, Len(pairs) = 1, Distinct(pairs), NEW mask \in {{}, {0}}, ~Found(InvalidValue)
  PROVE  Outcome(pairs, 1, mask, TestPair(pairs[1], mask))
<1> DEFINE out == TestPair(pairs[1], mask)
           a == pairs[1][1]
           b == pairs[1][2]
<1>1. \A p, msk : LeftIn(pairs, 1, msk, p) <=> (p = a /\ 0 \notin msk) \/ p = b
  BY DEF LeftIn
<1>2. a = b => a = InvalidValue
  BY DEF Distinct
<1>3. Len(pairs) = 1 /\ 1 \in 1 .. Len(pairs)
  OBVIOUS
<1>4. CASE 0 \notin mask /\ Found(a)
  <2>1. out = [hit |-> a, pair |-> 1, mask |-> {0}]
    BY <1>4 DEF TestPair
  <2>2. a # InvalidValue /\ out.hit = a /\ out.pair = 1 /\ out.mask = {0} /\ out.mask # RangeEnd
    BY <1>4, <2>1, RangeEndIs
  <2> HIDE DEF out, a, b
  <2> QED BY <1>1, <1>2, <1>3, <1>4, <2>2 DEF Outcome, out, a, b
<1>5. CASE ~(0 \notin mask /\ Found(a))
  <2>1. out = [hit |-> IF Found(b) THEN b ELSE InvalidValue, pair |-> 1, mask |-> RangeEnd]
    BY <1>5 DEF TestPair
  <2>2. out.hit = (IF Found(b) THEN b ELSE InvalidValue) /\ out.mask = RangeEnd
    BY <2>1
  <2> HIDE DEF out, a, b
  <2> QED BY <1>1, <1>2, <1>5, <2>2 DEF Outcome, out, a, b
<1> QED BY <1>4, <1>5

LEMMA CustomOutcome ==
  ASSUME NEW pairs, Len(pairs) = 1, pairs[1][2] = InvalidValue, ~Found(InvalidValue)
  PROVE  /\ Outcome(pairs, 1, {}, TestCustom(pairs[1])) /\ TestCustom(pairs[1]).mask = RangeEnd
<1> DEFINE out == TestCustom(pairs[1])
           a == pairs[1][1]
           b == pairs[1][2]
<1>1. \A p : LeftIn(pairs, 1, {}, p) <=> p = a \/ p = b
  BY DEF LeftIn
<1>2. out.hit = (IF Found(a) THEN a ELSE InvalidValue) /\ out.mask = RangeEnd
  BY DEF TestCustom
<1> HIDE DEF out, a
<1> QED BY <1>1, <1>2 DEF Outcome, out, a

LEMMA PacketOutcome ==
  ASSUME NEW pairs, Len(pairs) \in Nat \ {0}, Distinct(pairs), NEW k \in 1 .. Len(pairs),
         NEW mask \in {{}, {0}}, ~Found(InvalidValue)
  PROVE  Outcome(pairs, k, mask, TestPacket(pairs, k, mask))
<1> DEFINE N == Len(pairs)
           maskAt(i) == IF i = k THEN mask ELSE {}
           first(i)  == 0 \notin maskAt(i) /\ Found(pairs[i][1])
           second(i) == Found(pairs[i][2])
           U == {i \in k .. N : first(i) \/ second(i) \/ i = N}
           j == Min(U)
           hit == IF first(j) THEN pairs[j][1] ELSE IF second(j) THEN pairs[j][2] ELSE InvalidValue
           out == TestPacket(pairs, k, mask)
<1>1. out = IF first(j) /\ second(j) /\ 1 \notin maskAt(j)
            THEN [hit |-> hit, pair |-> j, mask |-> maskAt(j) \cup {0}]
            ELSE IF j = N THEN [hit |-> hit, pair |-> j, mask |-> RangeEnd]
            ELSE [hit |-> hit, pair |-> j + 1, mask |-> {}]
  BY DEF TestPacket
<1>2. N \in Nat \ {0} /\ k \in Nat \ {0} /\ k <= N /\ N \in U /\ U \in SUBSET Nat
  OBVIOUS
<1>3. j \in U /\ \A i \in U : j <= i
  <2>1. U # {}
    BY <1>2
  <2> HIDE DEF U
  <2> QED BY <1>2, <2>1, MinIsSmallest
<1> HIDE DEF j
<1>4. j \in k .. N /\ j \in Nat /\ j \in 1 .. N /\ (first(j) \/ second(j) \/ j = N)
  BY <1>2, <1>3
<1>5. \A i \in k .. N : first(i) \/ second(i) => j <= i
  BY <1>3
<1>6. \A i : 1 \notin maskAt(i) /\ maskAt(i) \cup {0} = {0}
  OBVIOUS
<1> HIDE DEF U, maskAt, out, N
(* Where what is hit is.                                                   *)
<1>7. ASSUME NEW p, LeftIn(pairs, k, mask, p), Found(p)
      PROVE  \E i \in k .. N : (first(i) /\ p = pairs[i][1]) \/ (second(i) /\ p = pairs[i][2])
  <2>1. PICK i \in k .. N, s \in 1 .. 2 : p = pairs[i][s] /\ ~(i = k /\ s = 1 /\ 0 \in mask)
    BY <1>7 DEF LeftIn, N
  <2>2. s = 1 => 0 \notin maskAt(i)
    BY <2>1 DEF maskAt
  <2>3. s = 1 \/ s = 2
    OBVIOUS
  <2> QED BY <1>7, <2>1, <2>2, <2>3
<1>8. ASSUME NEW i \in k .. N
      PROVE  /\ first(i) => LeftIn(pairs, k, mask, pairs[i][1]) /\ pairs[i][1] # InvalidValue
             /\ second(i) => LeftIn(pairs, k, mask, pairs[i][2]) /\ pairs[i][2] # InvalidValue
  <2>1. first(i) => ~(i = k /\ 0 \in mask)
    BY DEF maskAt
  <2> QED BY <2>1 DEF LeftIn, N
<1>9. \A i, n \in 1 .. N, s, r \in 1 .. 2 : pairs[i][s] = pairs[n][r] /\ Found(pairs[i][s]) => i = n /\ s = r
  BY DEF Distinct, N
<1>10. CASE first(j) /\ second(j)
  <2>1. hit = pairs[j][1] /\ hit # InvalidValue /\ Found(hit) /\ LeftIn(pairs, k, mask, hit)
    BY <1>4, <1>8, <1>10
  <2>2. out.hit = hit /\ out.pair = j /\ out.mask = {0} /\ out.mask # RangeEnd
    BY <1>1, <1>6, <1>10, RangeEndIs
  <2>3. ASSUME NEW p, Found(p), LeftIn(pairs, j, {0}, p)
        PROVE  LeftIn(pairs, k, mask, p) /\ p # hit
    <3>1. PICK i \in j .. N, s \in 1 .. 2 : p = pairs[i][s] /\ ~(i = j /\ s = 1)
      BY <2>3 DEF LeftIn, N
    <3>2. i \in k .. N /\ i \in 1 .. N /\ 1 \in 1 .. 2
      BY <1>2, <1>4
    <3>3. ~(i = k /\ s = 1)
      BY <1>2, <1>4, <3>1
    <3>4. LeftIn(pairs, k, mask, p)
      BY <3>1, <3>2, <3>3 DEF LeftIn, N
    <3> QED BY <1>4, <1>9, <2>1, <2>3, <3>1, <3>2, <3>4
  <2>4. ASSUME NEW p, Found(p), LeftIn(pairs, k, mask, p), p # hit
        PROVE  LeftIn(pairs, j, {0}, p)
    <3>1. PICK i \in k .. N : (first(i) /\ p = pairs[i][1]) \/ (second(i) /\ p = pairs[i][2])
      BY <1>7, <2>4
    <3>2. i \in j .. N
      BY <1>2, <1>4, <1>5, <3>1
    <3>3. i # j \/ p # pairs[i][1]
      BY <2>1, <2>4
    <3>4. \E s \in 1 .. 2 : p = pairs[i][s] /\ ~(i = j /\ s = 1)
      BY <3>1, <3>3
    <3> QED BY <3>2, <3>4 DEF LeftIn, N
  <2> HIDE DEF hit, first, second
  <2>5. j \in 1 .. Len(pairs) /\ {0} \in {{}, {0}}
    BY <1>4 DEF N
  <2> QED BY <2>1, <2>2, <2>3, <2>4, <2>5 DEF Outcome, out
<1>11. CASE ~(first(j) /\ second(j)) /\ j = N
  <2>1. out.hit = hit /\ out.mask = RangeEnd
    BY <1>1, <1>11
  <2>2. ASSUME NEW p, Found(p), LeftIn(pairs, k, mask, p)
        PROVE  p = hit /\ hit # InvalidValue
    <3>1. PICK i \in k .. N : (first(i) /\ p = pairs[i][1]) \/ (second(i) /\ p = pairs[i][2])
      BY <1>7, <2>2
    <3>2. i = j
      BY <1>2, <1>4, <1>5, <1>11, <3>1
    <3> QED BY <1>8, <1>11, <3>1, <3>2
  <2>3. hit # InvalidValue => LeftIn(pairs, k, mask, hit) /\ Found(hit)
    BY <1>4, <1>8
  <2> HIDE DEF hit, first, second
  <2> QED BY <2>1, <2>2, <2>3 DEF Outcome, out
<1>12. CASE ~(first(j) /\ second(j)) /\ j # N
  <2>1. out.hit = hit /\ out.pair = j + 1 /\ out.mask = {} /\ out.mask # RangeEnd
    BY <1>1, <1>12, RangeEndIs
  <2>2. hit # InvalidValue /\ LeftIn(pairs, k, mask, hit) /\ Found(hit) /\ j + 1 \in 1 .. N
    BY <1>2, <1>4, <1>8, <1>12
  <2>3. \E s \in 1 .. 2 : hit = pairs[j][s]
    BY <1>4, <1>12
  <2>4. ASSUME NEW p, Found(p), LeftIn(pairs, j + 1, {}, p)
        PROVE  LeftIn(pairs, k, mask, p) /\ p # hit
    <3>1. PICK i \in j + 1 .. N, s \in 1 .. 2 : p = pairs[i][s]
      BY <2>4 DEF LeftIn, N
    <3>2. i \in k .. N /\ i \in 1 .. N /\ i # j /\ i # k
      BY <1>2, <1>4
    <3>3. LeftIn(pairs, k, mask, p)
      BY <3>1, <3>2 DEF LeftIn, N
    <3> QED BY <1>4, <1>9, <2>3, <2>4, <3>1, <3>2, <3>3
  <2>5. ASSUME NEW p, Found(p), LeftIn(pairs, k, mask, p), p # hit
        PROVE  LeftIn(pairs, j + 1, {}, p)
    <3>1. PICK i \in k .. N : (first(i) /\ p = pairs[i][1]) \/ (second(i) /\ p = pairs[i][2])
      BY <1>7, <2>5
    <3>2. i # j
      BY <1>12, <2>5, <3>1
    <3>3. i \in j + 1 .. N
      BY <1>2, <1>4, <1>5, <3>1, <3>2
    <3>4. \E s \in 1 .. 2 : p = pairs[i][s]
      BY <3>1
    <3> QED BY <3>3, <3>4 DEF LeftIn, N
  <2> HIDE DEF hit, first, second
  <2> QED BY <2>1, <2>2, <2>4, <2>5 DEF Outcome, out, N
<1> QED BY <1>10, <1>11, <1>12

(* A missing second primitive is never hit.                                *)
LEMMA NoneFound ==
  ASSUME HitTimes
  PROVE  ~Found(InvalidValue)
<1>1. ASSUME <<Path(m), InvalidValue>> \in Primitive
      PROVE  FALSE
  <2>1. <<Path(m), InvalidValue>>[2] # InvalidValue
    BY <1>1, PrimitiveIs
  <2> QED BY <2>1
<1> QED BY <1>1 DEF Found, HitTimes

(* A leaf of a geometry.                                                   *)
LEMMA LeafOutcome ==
  ASSUME ObjectInv(m), HitTimes, m.nodeIndex # InvalidValue, AnyHit,
         NEW b \in Trees \ Scenes, b = TreeOf(Path(m)), m.nodeIndex \in DOMAIN Contents[b],
         l.primNodes = b
  PROVE  /\ Outcome(PairsOf(b, m.nodeIndex), m.pair, m.triangleMask, TestAny)
         /\ b \in Customs => TestAny.mask = RangeEnd
<1> DEFINE pairs == PairsOf(b, m.nodeIndex)
<1>1. /\ Len(pairs) \in Nat \ {0}
      /\ ~Packets \/ b \in Customs => Len(pairs) = 1
      /\ b \in Customs => pairs[1][2] = InvalidValue
  BY PairsType
<1>2. Distinct(pairs)
  BY OnePlace DEF Distinct
<1>3. ~Found(InvalidValue)
  BY NoneFound
<1>4. m.pair \in 1 .. Len(pairs) /\ m.triangleMask \in {{}, {0}}
  <2>1. m.triangleMask \in {{}, {0}}
    BY DEF ObjectInv, ObjectType
  <2>2. 1 \in 1 .. Len(pairs)
    BY <1>1
  <2> HIDE DEF pairs
  <2>3. m.pair = 1 \/ m.pair \in 1 .. Len(pairs)
    BY DEF ObjectInv, Fits, InLeaf, pairs
  <2> QED BY <2>1, <2>2, <2>3
<1>5. b \in Customs => m.pair = 1 /\ m.triangleMask = {}
  BY DEF ObjectInv, Fits, InLeaf
<1>6. TestAny = IF b \in Customs THEN TestCustom(pairs[1])
                ELSE IF Packets THEN TestPacket(pairs, m.pair, m.triangleMask)
                ELSE TestPair(pairs[1], m.triangleMask)
  BY DEF TestAny
<1> HIDE DEF pairs
<1>7. CASE b \in Customs
  BY <1>1, <1>3, <1>5, <1>6, <1>7, CustomOutcome DEF pairs
<1>8. CASE b \notin Customs /\ Packets
  BY <1>1, <1>2, <1>3, <1>4, <1>6, <1>8, PacketOutcome DEF pairs
<1>9. CASE b \notin Customs /\ ~Packets
  <2>1. m.pair = 1
    <3>1. Len(pairs) = 1
      BY <1>1, <1>9
    <3>2. m.pair \in 1 .. 1
      BY <1>4, <3>1
    <3> QED BY <3>2
  <2> QED BY <1>1, <1>2, <1>3, <1>4, <1>6, <1>9, <2>1, PairOutcome DEF pairs
<1> QED BY <1>7, <1>8, <1>9

-----------------------------------------------------------------------------
(* The local variables.                                                    *)

LEMMA PrimitiveFrame ==
  ASSUME UNCHANGED config
  PROVE  Primitive' = Primitive
BY DEF Primitive, PrimsOf, PairsOf, Packets

LEMMA LocalsFrame ==
  ASSUME UNCHANGED config, NEW r \in Locals, l' = r
  PROVE  (l \in Locals)'
<1>1. Locals' = Locals
  BY PrimitiveFrame DEF Locals, Ray, Ids, Trees, NoHit
<1> QED BY <1>1

(* The frame of the spaces.                                                *)
LEMMA PathFrame ==
  ASSUME UNCHANGED config, NEW o, m' = o
  PROVE  /\ Path(m)' = Path(o) /\ instanceId(m)' = instanceId(o) /\ Space(Path(m))' = Space(Path(o))
         /\ TreeOf(Path(m))' = TreeOf(Path(o)) /\ Packets' = Packets /\ AnyHit' = AnyHit
BY DEF Path, instanceId, Space, TreeOf, Packets, AnyHit, Ids

LEMMA InTreeFrame ==
  ASSUME UNCHANGED config, NEW o, m' = o, NEW r, l' = r,
         r.nodes = TreeOf(Path(o)), r.ray = Space(Path(o)),
         instanceId(o) # InvalidValue => r.primNodes = TreeOf(Path(o))
  PROVE  InTree'
BY PathFrame DEF InTree

LEMMA TransformedIs ==
  ASSUME NEW r \in Locals, NEW path \in Seq(Ids), NEW id \in Ids, r.ray = Space(path)
  PROVE  /\ Transformed(r, id) \in Locals /\ Transformed(r, id).ray = Space(Append(path, id))
         /\ Transformed(r, id).nodes = r.nodes /\ Transformed(r, id).primNodes = r.primNodes
         /\ Transformed(r, id).maxT = r.maxT /\ Transformed(r, id).result = r.result
         /\ id \notin config.identity => Packets \/ Transformed(r, id).invD = Transformed(r, id).ray
         /\ id \in config.identity => Transformed(r, id).invD = r.invD /\ Transformed(r, id).ray = r.ray
<1>1. Space(Append(path, id)) = IF id \in config.identity THEN Space(path) ELSE Applied(Space(path), id)
  BY SpaceOfAppend
<1>2. CASE id \in config.identity
  BY <1>1, <1>2 DEF Transformed
<1>3. CASE id \notin config.identity
  <2> DEFINE ray == Applied(r.ray, id)
             invD == IF Packets THEN r.invD ELSE ray
  <2>1. r.ray \in Ray /\ r.invD \in Ray \cup {InvalidValue}
    BY DEF Locals
  <2>2. ray \in Ray
    BY <2>1 DEF Applied, Ray
  <2>3. Transformed(r, id) = [r EXCEPT !.ray = ray, !.invD = invD]
    BY <1>3 DEF Transformed, Locals
  <2>4. invD \in Ray \cup {InvalidValue}
    BY <2>1, <2>2
  <2> HIDE DEF ray, invD
  <2>5. Transformed(r, id) \in Locals
    BY <2>2, <2>3, <2>4 DEF Locals
  <2>6. /\ Transformed(r, id).ray = ray /\ Transformed(r, id).invD = invD
        /\ Transformed(r, id).nodes = r.nodes /\ Transformed(r, id).primNodes = r.primNodes
        /\ Transformed(r, id).maxT = r.maxT /\ Transformed(r, id).result = r.result
    BY <2>3 DEF Locals
  <2>7. Packets \/ invD = ray
    BY DEF invD
  <2> QED BY <1>1, <1>3, <2>5, <2>6, <2>7 DEF ray
<1> QED BY <1>2, <1>3

(* The fields that say where a ray is, after a tree has been left.         *)
LEMMA RestoredIs ==
  ASSUME NEW r \in Locals, NEW o, ObjectType(o)
  PROVE  /\ Restored(r, o) \in Locals /\ Restored(r, o).nodes = o.scene /\ Restored(r, o).ray = o.ray
         /\ Restored(r, o).maxT = r.maxT /\ Restored(r, o).result = r.result
         /\ Restored(r, o).primNodes = r.primNodes
         /\ Packets \/ Restored(r, o).invD = Restored(r, o).ray
<1> DEFINE invD == IF Packets THEN r.invD ELSE o.ray
<1>1. o.ray \in Ray /\ o.scene \in Scenes /\ o.scene \in Trees
  BY InstanceAssumption DEF ObjectType
<1>2. invD \in Ray \cup {InvalidValue}
  BY <1>1 DEF Locals
<1>3. Restored(r, o) = [r EXCEPT !.nodes = o.scene, !.ray = o.ray, !.invD = invD]
  BY DEF Restored, Locals
<1>4. Packets \/ invD = o.ray
  OBVIOUS
<1> HIDE DEF invD
<1>5. Restored(r, o) \in Locals
  BY <1>1, <1>2, <1>3 DEF Locals
<1>6. /\ Restored(r, o).nodes = o.scene /\ Restored(r, o).ray = o.ray
      /\ Restored(r, o).maxT = r.maxT /\ Restored(r, o).result = r.result
      /\ Restored(r, o).primNodes = r.primNodes /\ Restored(r, o).invD = invD
  BY <1>3 DEF Locals
<1> QED BY <1>4, <1>5, <1>6

(* The end of the loop's body.                                             *)
LEMMA AdvanceStack ==
  ASSUME config \in Configurations, UNCHANGED config, ObjectInv(m),
         m.nodeIndex # InvalidValue, m.stack # <<>>, InTree,
         NEW r \in Locals, r.nodes = l.nodes, r.ray = l.ray, r.primNodes = l.primNodes,
         Advance(m, r)
  PROVE  /\ ObjectInv(m)' /\ (l \in Locals)' /\ InTree'
         /\ m'.state = m.state /\ (m'.nodeIndex # InvalidValue => m'.stack # <<>>)
         /\ m' = Unwound(Popped([m EXCEPT !.triangleMask = {}]))
         /\ l'.maxT = r.maxT /\ l'.result = r.result
         /\ (Packets \/ r.invD = r.ray) => (Packets \/ l'.invD = l'.ray)
<1>1. PICK p : p = Popped([m EXCEPT !.triangleMask = {}])
  OBVIOUS
<1>2. m' = Unwound(p) /\ l' = IF TreeEnded(p) THEN Restored(r, m') ELSE r
  BY <1>1 DEF Advance
<1>3. PICK t : t = Unwound(p)
  OBVIOUS
<1>4. /\ ObjectInv(t) /\ t.state = m.state
      /\ t.nodeIndex # InvalidValue => t.stack # <<>>
      /\ TreeEnded(p) => instanceId(t) = InvalidValue
      /\ ~TreeEnded(p) => Path(t) = Path(m) /\ instanceId(t) = instanceId(m)
  BY <1>1, <1>3, AdvanceObject
<1>5. m' = t
  BY <1>2, <1>3
<1>6. ObjectInv(m)'
  BY <1>4, <1>5, ObjectFrame
<1>7. CASE TreeEnded(p)
  <2>1. l' = Restored(r, t)
    BY <1>2, <1>5, <1>7
  <2>2. ObjectType(t) /\ Nested(t)
    BY <1>4 DEF ObjectInv
  <2>3. /\ Restored(r, t) \in Locals /\ Restored(r, t).nodes = t.scene /\ Restored(r, t).ray = t.ray
        /\ Restored(r, t).maxT = r.maxT /\ Restored(r, t).result = r.result
        /\ Packets \/ Restored(r, t).invD = Restored(r, t).ray
    BY <2>2, RestoredIs
  <2>4. instanceId(t) = InvalidValue /\ Path(t) = Outer(t)
    BY <1>4, <1>7, <2>2, OuterIs
  <2>5. t.scene = TreeOf(Path(t)) /\ t.ray = Space(Path(t))
    BY <2>2, <2>4 DEF Nested
  <2>6. InTree'
    BY <1>5, <2>1, <2>3, <2>4, <2>5, InTreeFrame
  <2>7. (l \in Locals)'
    BY <2>1, <2>3, LocalsFrame
  <2> QED BY <1>1, <1>2, <1>4, <1>5, <1>6, <2>1, <2>3, <2>6, <2>7
<1>8. CASE ~TreeEnded(p)
  <2>1. l' = r
    BY <1>2, <1>8
  <2>2. InTree'
    <3>1. r.nodes = TreeOf(Path(t)) /\ r.ray = Space(Path(t))
      BY <1>4, <1>8 DEF InTree
    <3>2. instanceId(t) # InvalidValue => r.primNodes = TreeOf(Path(t))
      BY <1>4, <1>8 DEF InTree
    <3> QED BY <1>5, <2>1, <3>1, <3>2, InTreeFrame
  <2>3. (l \in Locals)'
    BY <2>1, LocalsFrame
  <2> QED BY <1>1, <1>2, <1>4, <1>5, <1>6, <2>1, <2>2, <2>3
<1> QED BY <1>7, <1>8

-----------------------------------------------------------------------------
(* The stack and the spaces in every step.                                 *)

(* What a call of any-hit in the format of pairs needs: it sets up the     *)
(* inverse direction only in the transform it applies, and an identity is  *)
(* not applied.                                                            *)
SoundConfigurations ==
  \A c \in Configurations : c.type = "any" /\ c.format # "packets" => c.identity = {}

LEMMA HitTimesFrame ==
  ASSUME UNCHANGED <<config, hitTime>>, HitTimes
  PROVE  HitTimes'
BY PrimitiveFrame DEF HitTimes

LEMMA ControlFrame ==
  ASSUME UNCHANGED config, NEW o, m' = o,
         pc' \in {"caller", "loop"},
         pc' = "loop" /\ o.nodeIndex # InvalidValue => o.stack # <<>>,
         pc' = "caller" => o.state # "init",
         o.state = "finished" => pc' = "caller" /\ o.nodeIndex = InvalidValue,
         o.state = "hit" => AnyHit
  PROVE  Control'
BY DEF Control, AnyHit

LEMMA RootIs ==
  ASSUME NEW b \in Trees
  PROVE  RootIndex \in Nodes(b) /\ RootIndex \in Entry /\ RootIndex # InvalidValue
BY TreeAssumption DEF Entry, Index

LEMMA StackInit ==
  ASSUME Init
  PROVE  StackInv /\ Boxed
<1> DEFINE ids == <<InvalidValue>>
           empty == Space(<<>>)
<1>1. /\ config \in Configurations
      /\ m = [nodeIndex |-> RootIndex, pair |-> 1, triangleMask |-> {}, state |-> "init", stack |-> <<>>,
              instanceIds |-> ids, instanceStack |-> <<>>, instanceIndex |-> InvalidValue,
              ray |-> empty, scene |-> TopScene]
      /\ pc = "caller"
      /\ l = [nodes |-> TopScene, primNodes |-> InvalidValue, ray |-> empty, maxT |-> Far,
              invD |-> InvalidValue, result |-> NoHit]
  BY DEF Init
<1>2. HitTimes
  <2>1. PICK H \in {Hs \in SUBSET Primitive : Cardinality(Hs) <= MaxHits} : hitTime \in [H -> config.times]
    BY DEF Init
  <2>2. config.times \subseteq Int /\ \A t \in config.times : t < Far
    BY <1>1, ConfigurationAssumption
  <2> QED BY <2>1, <2>2 DEF HitTimes
<1>3. <<>> \in Seq(Ids) /\ empty \in Ray /\ TopScene \in Scenes /\ TopScene \in Trees /\ TreeOf(<<>>) = TopScene
  <2>1. <<>> \in Seq(Ids)
    OBVIOUS
  <2>2. Space(<<>>) \in Ray
    BY <2>1, SpaceType
  <2>3. TreeOf(<<>>) = TopScene
    BY DEF TreeOf
  <2> QED BY <2>1, <2>2, <2>3, InstanceAssumption
<1>4. RootIndex \in Entry /\ RootIndex # InvalidValue /\ RootIndex \in Nodes(TopScene) /\ InvalidValue \in Entry
  BY <1>3, RootIs DEF Entry
<1>5. ids \in Seq(Ids \cup {InvalidValue}) /\ ids # <<>> /\ Len(ids) = 1 /\ ids[1] = InvalidValue
  OBVIOUS
<1>6. Front(ids) = <<>> /\ Last(ids) = InvalidValue
  <2>1. Front(ids) = SubSeq(ids, 1, 0)
    BY DEF Front
  <2> QED BY <1>5, <2>1, SubSeqEmpty DEF Last
<1> HIDE DEF ids, empty
<1>7. /\ m.nodeIndex = RootIndex /\ m.pair = 1 /\ m.triangleMask = {} /\ m.state = "init" /\ m.stack = <<>>
      /\ m.instanceIds = ids /\ m.instanceStack = <<>> /\ m.instanceIndex = InvalidValue
      /\ m.ray = empty /\ m.scene = TopScene
  BY <1>1
<1>8. <<>> \in Seq(Entry) /\ <<>> \in Seq(Saved) /\ Len(<<>>) = 0 /\ 1 \in Nat \ {0}
  OBVIOUS
<1>9. ObjectType(m)
  BY ONLY <1>1, <1>3, <1>4, <1>5, <1>8 DEF ObjectType
<1>10. Outer(m) = <<>> /\ instanceId(m) = InvalidValue /\ Path(m) = <<>>
  BY <1>6, <1>7 DEF Outer, instanceId, Path
<1>11. Nested(m)
  BY <1>3, <1>5, <1>7, <1>8, <1>10 DEF Nested, Reached, empty
<1>12. config.stackSize \in Nat
  BY <1>1, ConfigurationAssumption
<1>13. Planned(m)
  BY <1>3, <1>4, <1>7, <1>8, <1>10, <1>12 DEF Planned, Marked
<1>14. ObjectInv(m)
  BY <1>7, <1>9, <1>11, <1>13 DEF ObjectInv, Fits
<1>15. l \in Locals
  BY <1>1, <1>3, ConfigurationAssumption DEF Locals
<1>16. Control /\ ~Searching
  BY <1>1, <1>7, <1>10 DEF Control, Searching
<1> QED BY <1>1, <1>2, <1>14, <1>15, <1>16 DEF StackInv, Boxed

(* What the steps of the loop start from.                                  *)
LEMMA InLoop ==
  ASSUME StackInv, pc = "loop", m.state # "overflow", m.nodeIndex # InvalidValue
  PROVE  /\ config \in Configurations /\ ObjectInv(m) /\ l \in Locals /\ HitTimes /\ InTree
         /\ m.stack # <<>> /\ m.state # "finished" /\ (m.state = "hit" => AnyHit)
         /\ Path(m) \in Seq(Ids) /\ l.nodes = TreeOf(Path(m)) /\ l.nodes \in Trees
         /\ m.nodeIndex \in Nodes(l.nodes) /\ Marked(Path(m), m.stack) /\ m.stack \in Seq(Entry)
         /\ l.ray = Space(Path(m))
         /\ instanceId(m) # InvalidValue =>
              l.primNodes = TreeOf(Path(m)) /\ TreeOf(Path(m)) \in Trees \ Scenes
         /\ instanceId(m) = InvalidValue =>
              TreeOf(Path(m)) \in Scenes /\ m.scene = TreeOf(Path(m)) /\ m.scene \in Scenes
<1>1. /\ config \in Configurations /\ ObjectInv(m) /\ l \in Locals /\ HitTimes /\ InTree /\ Control
  BY DEF StackInv, Searching
<1>2. ObjectType(m) /\ Nested(m) /\ Planned(m)
  BY <1>1 DEF ObjectInv
<1>3. m.stack # <<>> /\ m.state # "finished" /\ (m.state = "hit" => AnyHit)
  BY <1>1 DEF Control
<1>4. Path(m) \in Seq(Ids) /\ TreeOf(Path(m)) \in Trees
  BY <1>2, OuterIs, TreeOfType
<1>5. l.nodes = TreeOf(Path(m)) /\ l.ray = Space(Path(m)) /\ (instanceId(m) # InvalidValue => l.primNodes = TreeOf(Path(m)))
  BY <1>1 DEF InTree
<1>6. m.nodeIndex \in Nodes(TreeOf(Path(m))) /\ Marked(Path(m), m.stack)
  BY <1>2 DEF Planned
<1>7. m.stack \in Seq(Entry) /\ m.scene \in Scenes
  BY <1>2 DEF ObjectType
<1>8. instanceId(m) # InvalidValue => TreeOf(Path(m)) \notin Scenes
  BY <1>2 DEF Nested
<1>9. instanceId(m) = InvalidValue => m.scene = TreeOf(Path(m))
  BY <1>2, OuterIs DEF Nested
<1> QED BY <1>1, <1>3, <1>4, <1>5, <1>6, <1>7, <1>8, <1>9

LEMMA CallStack ==
  ASSUME StackInv, Call
  PROVE  StackInv' /\ (SoundConfigurations => Boxed')
<1>1. /\ pc = "caller" /\ m.state \in {"init", "hit"} /\ pc' = "loop"
      /\ l' = IF AnyHit /\ instanceId(m) # InvalidValue THEN Resumed(Fresh) ELSE Fresh
      /\ m' = IF m.stack = <<>> THEN Push(m, InvalidValue) ELSE m
      /\ UNCHANGED <<config, hitTime>>
  BY DEF Call
<1>2. /\ config \in Configurations /\ ObjectInv(m) /\ l \in Locals /\ HitTimes /\ Control
  BY DEF StackInv
<1>3. ObjectType(m) /\ Nested(m)
  BY <1>2 DEF ObjectInv
<1>4. PICK t : t = IF m.stack = <<>> THEN Push(m, InvalidValue) ELSE m
  OBVIOUS
<1>5. /\ ObjectInv(t) /\ t.state = m.state /\ t.nodeIndex = m.nodeIndex
      /\ t.stack # <<>> /\ Path(t) = Path(m) /\ instanceId(t) = instanceId(m)
  BY <1>2, <1>4, CallObject
<1>6. ObjectInv(m)' /\ m' = t
  BY <1>1, <1>4, <1>5, ObjectFrame
<1>7. Control'
  BY <1>1, <1>2, <1>5, <1>6, ControlFrame DEF Control
<1>8. /\ Fresh \in Locals /\ Fresh.nodes = m.scene /\ Fresh.ray = m.ray
      /\ Packets \/ instanceId(m) # InvalidValue \/ Fresh.invD = m.ray
  <2> DEFINE invD == IF Packets \/ instanceId(m) # InvalidValue THEN InvalidValue ELSE m.ray
  <2>1. m.ray \in Ray /\ m.scene \in Trees
    BY <1>3, InstanceAssumption DEF ObjectType
  <2>2. invD \in Ray \cup {InvalidValue}
    BY <2>1
  <2>3. Fresh = [nodes |-> m.scene, primNodes |-> InvalidValue, ray |-> m.ray, maxT |-> Far,
                 invD |-> invD, result |-> NoHit]
    BY DEF Fresh
  <2>4. Packets \/ instanceId(m) # InvalidValue \/ invD = m.ray
    OBVIOUS
  <2> HIDE DEF invD
  <2> QED BY <2>1, <2>2, <2>3, <2>4, ConfigurationAssumption DEF Locals
<1>9. CASE instanceId(m) = InvalidValue
  <2>1. l' = Fresh
    BY <1>1, <1>9
  <2>2. Path(m) = Outer(m) /\ m.scene = TreeOf(Path(m)) /\ m.ray = Space(Path(m))
    BY <1>3, <1>9, OuterIs DEF Nested
  <2>3. InTree'
    BY <1>1, <1>5, <1>6, <1>8, <1>9, <2>1, <2>2, InTreeFrame
  <2>4. (l \in Locals)'
    BY <1>1, <1>8, <2>1, LocalsFrame
  <2>5. Boxed'
    BY <1>1, <1>8, <1>9, <2>1 DEF Boxed, Packets
  <2> QED BY <1>1, <1>2, <1>6, <1>7, <2>3, <2>4, <2>5, HitTimesFrame DEF StackInv
<1>10. CASE instanceId(m) # InvalidValue
  <2>1. AnyHit
    BY <1>1, <1>2, <1>10 DEF Control
  <2> DEFINE id == instanceId(m)
             r == Transformed(Fresh, id)
  <2>2. id \in Ids /\ Path(m) = Append(Outer(m), id) /\ Outer(m) \in Seq(Ids)
    BY <1>3, <1>10, OuterIs DEF Nested
  <2>3. Contents[m.scene][m.instanceIndex] = id /\ m.ray = Space(Outer(m))
    BY <1>3, <1>10 DEF Nested
  <2>4. l' = [r EXCEPT !.nodes = Instances[id], !.primNodes = Instances[id]]
    BY <1>1, <1>10, <2>1, <2>3 DEF Resumed
  <2>5. /\ r \in Locals /\ r.ray = Space(Path(m))
        /\ id \notin config.identity => Packets \/ r.invD = r.ray
    <3>1. Fresh.ray = Space(Outer(m))
      BY <1>8, <2>3
    <3> HIDE DEF id
    <3> QED BY <1>8, <2>2, <3>1, TransformedIs
  <2>6. Instances[id] = TreeOf(Path(m)) /\ Instances[id] \in Trees
    BY <2>2, TreeOfAppend, InstanceAssumption
  <2> HIDE DEF r, id
  <2>7. PICK s : s = [r EXCEPT !.nodes = Instances[id], !.primNodes = Instances[id]]
    OBVIOUS
  <2>8. s \in Locals /\ s.nodes = Instances[id] /\ s.primNodes = Instances[id] /\ s.ray = r.ray /\ s.invD = r.invD
    BY <2>5, <2>6, <2>7 DEF Locals
  <2>9. l' = s
    BY <2>4, <2>7
  <2>10. InTree'
    BY <1>1, <1>5, <1>6, <2>5, <2>6, <2>8, <2>9, InTreeFrame
  <2>11. (l \in Locals)'
    BY <1>1, <2>8, <2>9, LocalsFrame
  <2>12. SoundConfigurations => Packets \/ id \notin config.identity
    BY <1>2, <2>1 DEF SoundConfigurations, AnyHit, Packets
  <2>13. SoundConfigurations => Boxed'
    BY <1>1, <2>5, <2>8, <2>9, <2>12 DEF Boxed, Packets
  <2> QED BY <1>1, <1>2, <1>6, <1>7, <2>10, <2>11, <2>13, HitTimesFrame DEF StackInv
<1> QED BY <1>9, <1>10

(* Running out of stack leaves everything else alone.                      *)
LEMMA OverflowStack ==
  ASSUME StackInv, UNCHANGED <<config, hitTime, pc>>, pc = "loop", m.state # "overflow",
         m.nodeIndex # InvalidValue, m' = Overflow, NEW r \in Locals, l' = r
  PROVE  StackInv' /\ Boxed'
<1>1. /\ config \in Configurations /\ ObjectInv(m) /\ HitTimes /\ Control /\ m.stack # <<>>
  BY InLoop DEF StackInv
<1>2. PICK t : t = [m EXCEPT !.state = "overflow"]
  OBVIOUS
<1>3. ObjectInv(t) /\ t.state = "overflow" /\ t.nodeIndex = m.nodeIndex /\ t.stack = m.stack
  BY <1>1, <1>2, StateObject
<1>4. m' = t
  BY <1>2 DEF Overflow
<1>5. Control' /\ ObjectInv(m)'
  BY <1>1, <1>3, <1>4, ControlFrame, ObjectFrame
<1>6. ~Searching'
  BY <1>3, <1>4 DEF Searching
<1>7. (l \in Locals)'
  BY LocalsFrame
<1> QED BY <1>1, <1>5, <1>6, <1>7, HitTimesFrame DEF StackInv, Boxed

(* A step that goes on to the next node.                                   *)
LEMMA OnStack ==
  ASSUME StackInv, UNCHANGED <<config, hitTime, pc>>, pc = "loop", m.state # "overflow",
         m.nodeIndex # InvalidValue, NEW r \in Locals, r.nodes = l.nodes, r.ray = l.ray,
         r.primNodes = l.primNodes, r.invD = l.invD, Advance(m, r)
  PROVE  StackInv' /\ (Boxed => Boxed')
<1>1. /\ config \in Configurations /\ ObjectInv(m) /\ HitTimes /\ InTree /\ m.stack # <<>>
      /\ m.state # "finished" /\ (m.state = "hit" => AnyHit)
  BY InLoop
<1>2. /\ ObjectInv(m)' /\ (l \in Locals)' /\ InTree'
      /\ m'.state = m.state /\ (m'.nodeIndex # InvalidValue => m'.stack # <<>>)
      /\ (Packets \/ r.invD = r.ray) => (Packets \/ l'.invD = l'.ray)
  BY <1>1, AdvanceStack
<1>3. PICK t : m' = t
  OBVIOUS
<1>4. Control'
  BY <1>1, <1>2, <1>3, ControlFrame
<1>5. Boxed => Boxed'
  BY <1>2 DEF Boxed, Searching, Packets
<1> QED BY <1>1, <1>2, <1>4, <1>5, HitTimesFrame DEF StackInv

(* A test of boxes that lets some children through.                        *)
LEMMA BoxIs ==
  ASSUME StackInv, TestBox
  PROVE  /\ UNCHANGED <<config, hitTime, pc, hits>> /\ pc = "loop" /\ m.state # "overflow"
         /\ m.nodeIndex # InvalidValue /\ m.nodeIndex \in DOMAIN Children[l.nodes]
         /\ \/ m' = Overflow /\ UNCHANGED l
            \/ /\ \E R \in Entered(m.nodeIndex) : R = {}
               /\ Advance(m, l)
            \/ /\ UNCHANGED l
               /\ \E R \in Entered(m.nodeIndex) : \E first \in R : \E rest \in Seq(R) :
                    /\ R \subseteq Children[l.nodes][m.nodeIndex] /\ Visits(R, first, rest)
                    /\ Len(m.stack) + Len(rest) <= config.stackSize
                    /\ m' = Into(m, first, rest)
<1>1. /\ UNCHANGED <<config, hitTime, pc, hits>> /\ pc = "loop" /\ m.state # "overflow"
      /\ m.nodeIndex # InvalidValue /\ m.nodeIndex \in DOMAIN Children[l.nodes]
  BY DEF TestBox, Running
<1>2. CASE vacancy(m) < BranchingFactor - 1
  BY <1>1, <1>2 DEF TestBox
<1>3. CASE ~(vacancy(m) < BranchingFactor - 1)
  <2>0. PICK R \in Entered(m.nodeIndex) : \E result \in SetToSeqs(R) :
           IF R = {} THEN Advance(m, l)
           ELSE /\ m' = [m EXCEPT !.stack = @ \o Reverse(Tail(result)),
                                  !.nodeIndex = Head(result), !.pair = 1]
                /\ UNCHANGED l
    BY <1>3 DEF TestBox
  <2>1. PICK result \in SetToSeqs(R) :
           IF R = {} THEN Advance(m, l)
           ELSE /\ m' = [m EXCEPT !.stack = @ \o Reverse(Tail(result)),
                                  !.nodeIndex = Head(result), !.pair = 1]
                /\ UNCHANGED l
    BY <2>0
  <2>2. CASE R = {}
    BY <1>1, <2>1, <2>2
  <2>3. CASE R # {}
    <3> DEFINE C == Children[l.nodes][m.nodeIndex]
    <3>1. R \subseteq C
      BY DEF Entered
    <3>2. IsFiniteSet(C) /\ Cardinality(C) \in Nat /\ Cardinality(C) <= BranchingFactor
      <4>1. l.nodes \in Trees
        BY <1>1, InLoop
      <4>2. IsFiniteSet(C) /\ Cardinality(C) <= BranchingFactor
        BY <1>1, <4>1, TreeAssumption
      <4> QED BY <4>2, FS_CardinalityType
    <3>3. IsFiniteSet(R) /\ Cardinality(R) <= Cardinality(C) /\ Cardinality(R) \in Nat
      <4> HIDE DEF C
      <4> QED BY <3>1, <3>2, FS_Subset, FS_CardinalityType
    <3>4. PICK rest : rest = Reverse(Tail(result))
      OBVIOUS
    <3>5. Visits(R, Head(result), rest) /\ Len(rest) = Cardinality(R) - 1
      BY <2>3, <3>3, <3>4, VisitedOnce
    <3>6. Len(m.stack) + Len(rest) <= config.stackSize
      <4>1. m.stack \in Seq(Entry) /\ config \in Configurations
        BY <1>1, InLoop
      <4>2. config.stackSize \in Nat /\ Len(m.stack) \in Nat /\ BranchingFactor \in Nat
        BY <4>1, LenProperties, ConfigurationAssumption, TreeAssumption
      <4>3. config.stackSize - Len(m.stack) >= BranchingFactor - 1
        BY <1>3, <4>2 DEF vacancy
      <4>4. Len(rest) = Cardinality(R) - 1
        BY <3>5
      <4> HIDE DEF C
      <4> QED BY <3>2, <3>3, <4>2, <4>3, <4>4
    <3>7. m' = Into(m, Head(result), rest) /\ UNCHANGED l
      BY <2>1, <2>3, <3>4 DEF Into
    <3>8. PICK first : first = Head(result)
      OBVIOUS
    <3> HIDE DEF C
    <3>9. /\ Visits(R, first, rest) /\ Len(m.stack) + Len(rest) <= config.stackSize
          /\ m' = Into(m, first, rest)
      BY <3>5, <3>6, <3>7, <3>8
    <3>10. R \subseteq Children[l.nodes][m.nodeIndex]
      BY <3>1 DEF C
    <3>11. first \in R /\ rest \in Seq(R)
      BY <3>9 DEF Visits
    <3>12. \E f \in R : \E z \in Seq(R) :
             /\ R \subseteq Children[l.nodes][m.nodeIndex] /\ Visits(R, f, z)
             /\ Len(m.stack) + Len(z) <= config.stackSize
             /\ m' = Into(m, f, z)
      BY <3>9, <3>10, <3>11, Zenon
    <3>13. UNCHANGED l
      BY <3>7
    <3> QED BY <1>1, <3>12, <3>13, Zenon
  <2> QED BY <2>2, <2>3
<1> QED BY <1>2, <1>3

LEMMA BoxStack ==
  ASSUME StackInv, TestBox
  PROVE  StackInv' /\ (Boxed => Boxed')
<1>1. /\ UNCHANGED <<config, hitTime, pc, hits>> /\ pc = "loop" /\ m.state # "overflow"
      /\ m.nodeIndex # InvalidValue /\ m.nodeIndex \in DOMAIN Children[l.nodes]
  BY BoxIs
<1>2. /\ config \in Configurations /\ ObjectInv(m) /\ l \in Locals /\ HitTimes /\ InTree
      /\ m.stack # <<>> /\ m.state # "finished" /\ (m.state = "hit" => AnyHit)
      /\ l.nodes = TreeOf(Path(m)) /\ l.nodes \in Trees
  BY <1>1, InLoop
<1>3. CASE m' = Overflow /\ UNCHANGED l
  BY <1>1, <1>2, <1>3, OverflowStack
<1>4. CASE Advance(m, l)
  BY <1>1, <1>2, <1>4, OnStack
<1>5. ASSUME UNCHANGED l, NEW R, NEW first \in R, NEW rest \in Seq(R),
             R \subseteq Children[l.nodes][m.nodeIndex],
             Len(m.stack) + Len(rest) <= config.stackSize,
             m' = Into(m, first, rest)
      PROVE  StackInv' /\ (Boxed => Boxed')
  <2>1. R \subseteq Nodes(TreeOf(Path(m)))
    BY <1>1, <1>2, <1>5, TreeAssumption
  <2>2. first \in Nodes(TreeOf(Path(m))) /\ rest \in Seq(Nodes(TreeOf(Path(m))))
    BY <2>1, SeqMonotonic
  <2>3. ~InLeaf(m)
    BY <1>1, <1>2, TreeAssumption DEF InLeaf
  <2>4. PICK t : t = Into(m, first, rest)
    OBVIOUS
  <2>5. /\ ObjectInv(t) /\ t.state = m.state /\ t.nodeIndex = first /\ t.stack # <<>>
        /\ Path(t) = Path(m) /\ instanceId(t) = instanceId(m)
    <3>1. /\ config \in Configurations /\ ObjectInv(m) /\ m.nodeIndex # InvalidValue /\ m.stack # <<>>
          /\ Len(m.stack) + Len(rest) <= config.stackSize
      BY <1>1, <1>2, <1>5
    <3> QED BY ONLY <2>2, <2>3, <2>4, <3>1, BoxObject
  <2>6. m' = t
    BY <1>5, <2>4
  <2>7. ObjectInv(m)' /\ Control'
    BY <1>1, <1>2, <2>5, <2>6, ObjectFrame, ControlFrame
  <2>8. InTree'
    <3>1. /\ l.nodes = TreeOf(Path(t)) /\ l.ray = Space(Path(t))
          /\ instanceId(t) # InvalidValue => l.primNodes = TreeOf(Path(t))
      BY <1>2, <2>5 DEF InTree
    <3>2. PICK r : r = l
      OBVIOUS
    <3> QED BY <1>1, <1>5, <2>6, <3>1, <3>2, InTreeFrame
  <2>9. (l \in Locals)'
    <3>1. PICK r \in Locals : r = l
      BY <1>2
    <3> QED BY <1>1, <1>5, <3>1, LocalsFrame
  <2>10. Boxed => Boxed'
    BY <1>1, <1>5, <2>5, <2>6 DEF Boxed, Searching, Packets
  <2> QED BY <1>1, <1>2, <2>7, <2>8, <2>9, <2>10, HitTimesFrame DEF StackInv
<1>6. CASE \E R \in Entered(m.nodeIndex) : \E first \in R : \E rest \in Seq(R) :
             /\ R \subseteq Children[l.nodes][m.nodeIndex]
             /\ Len(m.stack) + Len(rest) <= config.stackSize
             /\ m' = Into(m, first, rest)
             /\ UNCHANGED l
  BY <1>5, <1>6
<1> QED BY <1>3, <1>4, <1>6, BoxIs

-----------------------------------------------------------------------------
(* A leaf for any-hit: what the tests leave, and the stack.                *)
LEMMA LeafAnyIs ==
  ASSUME StackInv, TestLeafAny
  PROVE  /\ UNCHANGED <<config, hitTime>> /\ pc = "loop" /\ m.state # "overflow"
         /\ m.nodeIndex # InvalidValue /\ AnyHit
         /\ TreeOf(Path(m)) \in Trees \ Scenes /\ m.nodeIndex \in DOMAIN Contents[TreeOf(Path(m))]
         /\ Outcome(PairsOf(TreeOf(Path(m)), m.nodeIndex), m.pair, m.triangleMask, TestAny)
         /\ \/ TestAny.hit = InvalidValue /\ Advance(m, l) /\ UNCHANGED <<pc, hits>>
            \/ /\ TestAny.hit # InvalidValue /\ TestAny.mask = RangeEnd
               /\ m' = Unwound(Popped([[m EXCEPT !.state = "hit"] EXCEPT !.triangleMask = {}]))
               /\ hits' = Append(hits, <<Path(m), TestAny.hit>>) /\ pc' = "caller" /\ UNCHANGED l
            \/ /\ TestAny.hit # InvalidValue /\ TestAny.mask # RangeEnd /\ TreeOf(Path(m)) \notin Customs
               /\ m' = LeftOff(m, TestAny.pair, TestAny.mask)
               /\ hits' = Append(hits, <<Path(m), TestAny.hit>>) /\ pc' = "caller" /\ UNCHANGED l
<1>1. /\ UNCHANGED <<config, hitTime>> /\ pc = "loop" /\ m.state # "overflow"
      /\ m.nodeIndex # InvalidValue /\ AnyHit /\ instanceId(m) # InvalidValue
      /\ m.nodeIndex \in DOMAIN Contents[l.nodes]
  BY DEF TestLeafAny, AtLeaf, Running
<1>2. /\ TreeOf(Path(m)) \in Trees \ Scenes /\ l.nodes = TreeOf(Path(m)) /\ l.primNodes = TreeOf(Path(m))
      /\ ObjectInv(m) /\ HitTimes
  BY <1>1, InLoop
<1>3. m.nodeIndex \in DOMAIN Contents[TreeOf(Path(m))]
  BY <1>1, <1>2
<1>4. /\ Outcome(PairsOf(TreeOf(Path(m)), m.nodeIndex), m.pair, m.triangleMask, TestAny)
      /\ TreeOf(Path(m)) \in Customs => TestAny.mask = RangeEnd
  BY <1>1, <1>2, <1>3, LeafOutcome
<1>5. PICK out : out = TestAny
  OBVIOUS
<1>6. IF out.hit # InvalidValue THEN LeaveWith(out) ELSE Advance(m, l) /\ UNCHANGED <<pc, hits>>
  BY <1>5 DEF TestLeafAny
<1>7. CASE out.hit = InvalidValue
  <2>1. Advance(m, l) /\ UNCHANGED <<pc, hits>>
    BY <1>6, <1>7
  <2> QED BY <1>1, <1>2, <1>3, <1>4, <1>5, <1>7, <2>1
<1>8. CASE out.hit # InvalidValue
  <2>1. /\ hits' = Append(hits, <<Path(m), out.hit>>) /\ pc' = "caller" /\ UNCHANGED l
        /\ m' = IF out.mask = RangeEnd THEN Unwound(Popped([[m EXCEPT !.state = "hit"] EXCEPT !.triangleMask = {}]))
                ELSE LeftOff(m, out.pair, out.mask)
    BY <1>6, <1>8 DEF LeaveWith, LeftOff
  <2>2. CASE out.mask = RangeEnd
    <3>1. m' = Unwound(Popped([[m EXCEPT !.state = "hit"] EXCEPT !.triangleMask = {}]))
      BY <2>1, <2>2
    <3> QED BY <1>1, <1>2, <1>3, <1>4, <1>5, <1>8, <2>1, <2>2, <3>1
  <2>3. CASE out.mask # RangeEnd
    <3>1. m' = LeftOff(m, out.pair, out.mask)
      BY <2>1, <2>3
    <3> QED BY <1>1, <1>2, <1>3, <1>4, <1>5, <1>8, <2>1, <2>3, <3>1
  <2> QED BY <2>2, <2>3
<1> QED BY <1>7, <1>8

(* A leaf of a geometry is one that a call may leave off in.               *)
LEMMA ResumesIn ==
  ASSUME ObjectInv(m), m.nodeIndex # InvalidValue, TreeOf(Path(m)) \in Trees \ Scenes,
         m.nodeIndex \in DOMAIN Contents[TreeOf(Path(m))], TreeOf(Path(m)) \notin Customs
  PROVE  InLeaf(m)
<1>1. m.pair \in 1 .. Len(PairsOf(TreeOf(Path(m)), m.nodeIndex))
  <2>1. CASE InLeaf(m)
    BY <2>1 DEF InLeaf
  <2>2. CASE m.pair = 1
    BY <2>2, PairsType
  <2> QED BY <2>1, <2>2 DEF ObjectInv, Fits
<1> QED BY <1>1 DEF InLeaf

LEMMA LeafAnyStack ==
  ASSUME StackInv, TestLeafAny
  PROVE  StackInv' /\ (Boxed => Boxed')
<1>1. /\ UNCHANGED <<config, hitTime>> /\ pc = "loop" /\ m.state # "overflow"
      /\ m.nodeIndex # InvalidValue /\ AnyHit
      /\ TreeOf(Path(m)) \in Trees \ Scenes /\ m.nodeIndex \in DOMAIN Contents[TreeOf(Path(m))]
      /\ Outcome(PairsOf(TreeOf(Path(m)), m.nodeIndex), m.pair, m.triangleMask, TestAny)
  BY LeafAnyIs
<1>2. /\ config \in Configurations /\ ObjectInv(m) /\ l \in Locals /\ HitTimes /\ m.stack # <<>>
  BY <1>1, InLoop
<1>3. CASE TestAny.hit = InvalidValue /\ Advance(m, l) /\ UNCHANGED <<pc, hits>>
  BY <1>1, <1>2, <1>3, OnStack
<1>4. ASSUME NEW t, m' = t, ObjectInv(t), t.state = "hit", pc' = "caller", UNCHANGED l
      PROVE  StackInv' /\ (Boxed => Boxed')
  <2>1. ObjectInv(m)' /\ Control'
    BY <1>1, <1>4, ObjectFrame, ControlFrame
  <2>2. ~Searching'
    BY <1>4 DEF Searching
  <2>3. (l \in Locals)'
    <3>1. PICK r \in Locals : r = l
      BY <1>2
    <3> QED BY <1>1, <1>4, <3>1, LocalsFrame
  <2> QED BY <1>1, <1>2, <2>1, <2>2, <2>3, HitTimesFrame DEF StackInv, Boxed
<1>5. CASE /\ m' = Unwound(Popped([[m EXCEPT !.state = "hit"] EXCEPT !.triangleMask = {}]))
           /\ pc' = "caller" /\ UNCHANGED l
  <2>1. PICK o : o = [m EXCEPT !.state = "hit"]
    OBVIOUS
  <2>2. ObjectInv(o) /\ o.state = "hit" /\ o.nodeIndex = m.nodeIndex /\ o.stack = m.stack
    BY <1>2, <2>1, StateObject
  <2>3. PICK p : p = Popped([o EXCEPT !.triangleMask = {}])
    OBVIOUS
  <2>4. PICK t : t = Unwound(p)
    OBVIOUS
  <2>5. ObjectInv(t) /\ t.state = "hit"
    <3>1. o.nodeIndex # InvalidValue /\ o.stack # <<>>
      BY <1>1, <1>2, <2>2
    <3> QED BY <1>2, <2>2, <2>3, <2>4, <3>1, AdvanceObject
  <2>6. m' = t
    BY <1>5, <2>1, <2>3, <2>4
  <2> QED BY <1>4, <1>5, <2>5, <2>6
<1>6. CASE /\ TestAny.hit # InvalidValue /\ TestAny.mask # RangeEnd /\ TreeOf(Path(m)) \notin Customs
           /\ m' = LeftOff(m, TestAny.pair, TestAny.mask) /\ pc' = "caller" /\ UNCHANGED l
  <2>1. /\ TestAny.pair \in 1 .. Len(PairsOf(TreeOf(Path(m)), m.nodeIndex))
        /\ TestAny.mask \in {{}, {0}}
    BY <1>1, <1>6 DEF Outcome
  <2>2. InLeaf(m)
    BY <1>1, <1>2, <1>6, ResumesIn
  <2>3. PICK t : t = LeftOff(m, TestAny.pair, TestAny.mask)
    OBVIOUS
  <2>4. ObjectInv(t) /\ t.state = "hit"
    <3>1. PICK k, mask : k = TestAny.pair /\ mask = TestAny.mask
      OBVIOUS
    <3>2. /\ ObjectInv(m) /\ AnyHit /\ k \in 1 .. Len(PairsOf(TreeOf(Path(m)), m.nodeIndex))
          /\ mask \in {{}, {0}} /\ t = LeftOff(m, k, mask)
      BY <1>1, <1>2, <2>1, <2>3, <3>1
    <3> QED BY ONLY <2>2, <3>2, PairObject
  <2> QED BY <1>4, <1>6, <2>3, <2>4
<1> QED BY <1>3, <1>5, <1>6, LeafAnyIs

(* A leaf for closest-hit.                                                 *)
LEMMA LeafClosestIs ==
  ASSUME StackInv, TestLeafClosest
  PROVE  /\ UNCHANGED <<config, hitTime, pc, hits>> /\ pc = "loop" /\ m.state # "overflow"
         /\ m.nodeIndex # InvalidValue /\ ~AnyHit
         /\ TreeOf(Path(m)) \in Trees \ Scenes /\ m.nodeIndex \in DOMAIN Contents[TreeOf(Path(m))]
         /\ \/ /\ \A p \in PrimsOf(TreeOf(Path(m)), m.nodeIndex) : ~Found(p)
               /\ Advance(m, l)
            \/ \E p \in PrimsOf(TreeOf(Path(m)), m.nodeIndex) :
                 /\ Found(p)
                 /\ \A q \in PrimsOf(TreeOf(Path(m)), m.nodeIndex) :
                      Found(q) => hitTime[<<Path(m), p>>] <= hitTime[<<Path(m), q>>]
                 /\ Advance(m, [l EXCEPT !.maxT = hitTime[<<Path(m), p>>], !.result = <<Path(m), p>>])
<1>1. /\ UNCHANGED <<config, hitTime, pc, hits>> /\ pc = "loop" /\ m.state # "overflow"
      /\ m.nodeIndex # InvalidValue /\ ~AnyHit /\ instanceId(m) # InvalidValue
      /\ m.nodeIndex \in DOMAIN Contents[l.nodes]
  BY DEF TestLeafClosest, AtLeaf, Running
<1>2. /\ TreeOf(Path(m)) \in Trees \ Scenes /\ l.nodes = TreeOf(Path(m)) /\ l.primNodes = TreeOf(Path(m))
      /\ ObjectInv(m) /\ HitTimes
  BY <1>1, InLoop
<1> DEFINE b == TreeOf(Path(m))
           all == UNION {ToSet(pair) : pair \in ToSet(PairsOf(l.primNodes, m.nodeIndex))}
           found == {p \in all : Found(p)}
<1>3. b \in Trees \ Scenes /\ m.nodeIndex \in DOMAIN Contents[b]
  BY <1>1, <1>2
<1>4. PrimsOf(b, m.nodeIndex) = all \ {InvalidValue}
  BY <1>2 DEF PrimsOf
<1>5. ~Found(InvalidValue)
  BY <1>2, NoneFound
<1>6. \A p : p \in found <=> p \in PrimsOf(b, m.nodeIndex) /\ Found(p)
  <2> HIDE DEF all, b
  <2> QED BY <1>4, <1>5
<1>7. CASE found = {} /\ Advance(m, l)
  BY <1>1, <1>3, <1>6, <1>7
<1>8. CASE \E p \in found :
             /\ \A q \in found : hitTime[<<Path(m), p>>] <= hitTime[<<Path(m), q>>]
             /\ Advance(m, [l EXCEPT !.maxT = hitTime[<<Path(m), p>>], !.result = <<Path(m), p>>])
  <2> HIDE DEF found
  <2> QED BY <1>1, <1>3, <1>6, <1>8
<1> QED BY <1>7, <1>8 DEF TestLeafClosest

LEMMA LeafClosestStack ==
  ASSUME StackInv, TestLeafClosest
  PROVE  StackInv' /\ (Boxed => Boxed')
<1>1. /\ UNCHANGED <<config, hitTime, pc, hits>> /\ pc = "loop" /\ m.state # "overflow"
      /\ m.nodeIndex # InvalidValue
  BY LeafClosestIs
<1>2. l \in Locals /\ HitTimes
  BY DEF StackInv
<1>3. CASE Advance(m, l)
  BY <1>1, <1>2, <1>3, OnStack
<1>4. ASSUME NEW p, Found(p),
             Advance(m, [l EXCEPT !.maxT = hitTime[<<Path(m), p>>], !.result = <<Path(m), p>>])
      PROVE  StackInv' /\ (Boxed => Boxed')
  <2>1. PICK r : r = [l EXCEPT !.maxT = hitTime[<<Path(m), p>>], !.result = <<Path(m), p>>]
    OBVIOUS
  <2>2. <<Path(m), p>> \in Primitive /\ hitTime[<<Path(m), p>>] \in Int
    BY <1>2, <1>4 DEF Found, HitTimes
  <2>3. /\ r \in Locals /\ r.nodes = l.nodes /\ r.ray = l.ray
        /\ r.primNodes = l.primNodes /\ r.invD = l.invD
    BY ONLY <1>2, <2>1, <2>2 DEF Locals
  <2> QED BY <1>1, <1>4, <2>1, <2>3, OnStack
<1> QED BY <1>3, <1>4, LeafClosestIs

(* Into an instance, or past it.                                           *)
LEMMA InstanceIs ==
  ASSUME StackInv, TestInstance
  PROVE  /\ UNCHANGED <<config, hitTime, pc, hits>> /\ pc = "loop" /\ m.state # "overflow"
         /\ m.nodeIndex # InvalidValue /\ instanceId(m) = InvalidValue
         /\ m.scene = TreeOf(Path(m)) /\ m.scene \in Scenes /\ m.nodeIndex \in DOMAIN Contents[m.scene]
         /\ \E id \in Ids : \E r \in Locals :
              /\ id = Contents[m.scene][m.nodeIndex] /\ r.maxT = l.maxT /\ r.result = l.result
              /\ r.nodes = Instances[id] /\ r.ray = Space(Append(Path(m), id))
              /\ Instances[id] \notin Scenes => r.primNodes = Instances[id]
              /\ Packets \/ l.invD = l.ray => Packets \/ r.invD = r.ray
              /\ \/ /\ id \in config.masked \/ (Packets /\ id \notin config.identity /\ ~Promising(m.nodeIndex))
                    /\ Advance(m, l)
                 \/ /\ m' = Overflow /\ l'.maxT = l.maxT /\ l'.result = l.result
                    /\ \E u \in Locals : l' = u
                 \/ /\ id \notin config.masked /\ Len(m.stack) < config.stackSize
                    /\ m' = Within(m, id) /\ l' = r
<1>1. /\ UNCHANGED <<config, hitTime, pc, hits>> /\ pc = "loop" /\ m.state # "overflow"
      /\ m.nodeIndex # InvalidValue /\ instanceId(m) = InvalidValue
      /\ m.nodeIndex \in DOMAIN Contents[l.nodes]
  BY DEF TestInstance, AtLeaf, Running
<1>2. /\ m.scene = TreeOf(Path(m)) /\ m.scene \in Scenes /\ l.nodes = m.scene
      /\ l \in Locals /\ config \in Configurations /\ m.stack \in Seq(Entry)
      /\ Path(m) \in Seq(Ids) /\ l.ray = Space(Path(m))
  BY <1>1, InLoop
<1>3. PICK id : id = Contents[m.scene][m.nodeIndex]
  OBVIOUS
<1>4. /\ id \in Ids /\ m.nodeIndex \in DOMAIN Contents[m.scene]
      /\ Instances[id] \in Trees
  BY <1>1, <1>2, <1>3, LeafOfIs, InstanceAssumption
<1>5. PICK x : x = Transformed(l, id)
  OBVIOUS
<1>6. /\ x \in Locals /\ x.ray = Space(Append(Path(m), id)) /\ x.maxT = l.maxT /\ x.result = l.result
      /\ Packets \/ l.invD = l.ray => Packets \/ x.invD = x.ray
  <2>1. PICK g : g = l
    OBVIOUS
  <2>2. g \in Locals /\ g.ray = Space(Path(m)) /\ x = Transformed(g, id)
    BY <1>2, <1>5, <2>1
  <2>3. /\ x \in Locals /\ x.ray = Space(Append(Path(m), id)) /\ x.maxT = g.maxT /\ x.result = g.result
        /\ id \notin config.identity => Packets \/ x.invD = x.ray
        /\ id \in config.identity => x.invD = g.invD /\ x.ray = g.ray
    BY <1>2, <1>4, <2>2, TransformedIs
  <2> QED BY <2>1, <2>3
<1>7. PICK r : r = IF Instances[id] \in Scenes THEN [x EXCEPT !.nodes = Instances[id]]
                   ELSE [x EXCEPT !.nodes = Instances[id], !.primNodes = Instances[id]]
  OBVIOUS
<1>8. /\ r \in Locals /\ r.nodes = Instances[id] /\ r.ray = x.ray /\ r.invD = x.invD
      /\ r.maxT = x.maxT /\ r.result = x.result
      /\ Instances[id] \notin Scenes => r.primNodes = Instances[id]
  BY ONLY <1>4, <1>6, <1>7 DEF Locals
<1>9. /\ r.maxT = l.maxT /\ r.result = l.result /\ r.ray = Space(Append(Path(m), id))
      /\ Packets \/ l.invD = l.ray => Packets \/ r.invD = r.ray
  BY <1>6, <1>8
<1>10. \/ /\ id \in config.masked \/ (Packets /\ id \notin config.identity /\ ~Promising(m.nodeIndex))
          /\ Advance(m, l)
       \/ /\ id \notin config.masked
          /\ IF vacancy(m) < 1 THEN m' = Overflow /\ l' = x ELSE EnterTree(Entering(m, id), id, x)
  BY <1>3, <1>5 DEF TestInstance, Entering
<1>11. CASE /\ id \in config.masked \/ (Packets /\ id \notin config.identity /\ ~Promising(m.nodeIndex))
            /\ Advance(m, l)
  BY <1>1, <1>2, <1>3, <1>4, <1>8, <1>9, <1>11
<1>12. CASE m' = Overflow /\ l' = x
  BY <1>1, <1>2, <1>3, <1>4, <1>6, <1>8, <1>9, <1>12
<1>13. CASE id \notin config.masked /\ ~(vacancy(m) < 1) /\ EnterTree(Entering(m, id), id, x)
  <2>1. m' = Within(m, id) /\ l' = r
    BY <1>6, <1>7, <1>13 DEF EnterTree, Within
  <2>2. Len(m.stack) < config.stackSize
    <3>1. config.stackSize \in Nat /\ Len(m.stack) \in Nat
      BY <1>2, ConfigurationAssumption, LenProperties
    <3> QED BY <1>13, <3>1 DEF vacancy
  <2> QED BY <1>1, <1>2, <1>3, <1>4, <1>8, <1>9, <1>13, <2>1, <2>2
<1> QED BY <1>10, <1>11, <1>12, <1>13

LEMMA InstanceStack ==
  ASSUME StackInv, TestInstance
  PROVE  StackInv' /\ (Boxed => Boxed')
<1>1. /\ UNCHANGED <<config, hitTime, pc, hits>> /\ pc = "loop" /\ m.state # "overflow"
      /\ m.nodeIndex # InvalidValue /\ instanceId(m) = InvalidValue
      /\ m.scene = TreeOf(Path(m)) /\ m.scene \in Scenes /\ m.nodeIndex \in DOMAIN Contents[m.scene]
  BY InstanceIs
<1>2. /\ config \in Configurations /\ ObjectInv(m) /\ l \in Locals /\ HitTimes /\ m.stack # <<>>
      /\ m.state # "finished" /\ (m.state = "hit" => AnyHit)
  BY <1>1, InLoop
<1>3. CASE Advance(m, l)
  BY <1>1, <1>2, <1>3, OnStack
<1>4. CASE m' = Overflow /\ \E u \in Locals : l' = u
  BY <1>1, <1>4, OverflowStack
<1>5. ASSUME NEW id \in Ids, NEW r \in Locals, id = Contents[m.scene][m.nodeIndex],
             r.nodes = Instances[id], r.ray = Space(Append(Path(m), id)),
             Instances[id] \notin Scenes => r.primNodes = Instances[id],
             Packets \/ l.invD = l.ray => Packets \/ r.invD = r.ray,
             id \notin config.masked, Len(m.stack) < config.stackSize,
             m' = Within(m, id), l' = r
      PROVE  StackInv' /\ (Boxed => Boxed')
  <2>1. PICK t : t = Within(m, id)
    OBVIOUS
  <2>2. /\ ObjectInv(t) /\ t.state = m.state /\ t.nodeIndex = RootIndex /\ t.stack # <<>>
        /\ Path(t) = Append(Path(m), id) /\ TreeOf(Path(t)) = Instances[id]
        /\ instanceId(t) = InvalidValue <=> Instances[id] \in Scenes
    BY <1>1, <1>2, <1>5, <2>1, EnterObject
  <2>3. m' = t
    BY <1>5, <2>1
  <2>4. ObjectInv(m)' /\ Control'
    BY <1>1, <1>2, <2>2, <2>3, ObjectFrame, ControlFrame
  <2>5. InTree'
    BY <1>1, <1>5, <2>2, <2>3, InTreeFrame
  <2>6. (l \in Locals)'
    BY <1>1, <1>5, LocalsFrame
  <2>7. Boxed => Boxed'
    BY <1>1, <1>5, <2>2, <2>3 DEF Boxed, Searching, Packets
  <2> QED BY <1>1, <1>2, <2>4, <2>5, <2>6, <2>7, HitTimesFrame DEF StackInv
<1> QED BY <1>3, <1>4, <1>5, InstanceIs

(* The end of a call that has nothing to go on with.                       *)
LEMMA FinishIs ==
  ASSUME StackInv, Finish
  PROVE  /\ UNCHANGED <<config, hitTime, l>> /\ pc = "loop" /\ pc' = "caller"
         /\ hits' = IF l.result[2] = InvalidValue THEN hits ELSE Append(hits, l.result)
         /\ \/ m.state = "overflow" /\ UNCHANGED m
            \/ /\ m.state # "overflow" /\ m.nodeIndex = InvalidValue
               /\ m' = [m EXCEPT !.state = "finished"]
BY DEF Finish, Running

LEMMA FinishStack ==
  ASSUME StackInv, Finish
  PROVE  StackInv' /\ (Boxed => Boxed')
<1>1. UNCHANGED <<config, hitTime, l>> /\ pc = "loop" /\ pc' = "caller"
  BY FinishIs
<1>2. config \in Configurations /\ ObjectInv(m) /\ l \in Locals /\ HitTimes /\ Control
  BY DEF StackInv
<1>3. ASSUME NEW t, m' = t, ObjectInv(t), t.state # "init",
             t.state = "finished" => t.nodeIndex = InvalidValue, t.state = "hit" => AnyHit
      PROVE  StackInv' /\ (Boxed => Boxed')
  <2>1. ObjectInv(m)' /\ Control'
    BY <1>1, <1>3, ObjectFrame, ControlFrame
  <2>2. ~Searching'
    BY <1>1 DEF Searching
  <2>3. (l \in Locals)'
    <3>1. PICK r \in Locals : r = l
      BY <1>2
    <3> QED BY <1>1, <3>1, LocalsFrame
  <2> QED BY <1>1, <1>2, <2>1, <2>2, <2>3, HitTimesFrame DEF StackInv, Boxed
<1>4. CASE m.state = "overflow" /\ UNCHANGED m
  <2>1. PICK t : t = m
    OBVIOUS
  <2> QED BY <1>2, <1>3, <1>4, <2>1
<1>5. CASE m.nodeIndex = InvalidValue /\ m' = [m EXCEPT !.state = "finished"]
  <2>1. PICK t : t = [m EXCEPT !.state = "finished"]
    OBVIOUS
  <2>2. ObjectInv(t) /\ t.state = "finished" /\ t.nodeIndex = m.nodeIndex
    BY <1>2, <2>1, StateObject
  <2> QED BY <1>3, <1>5, <2>1, <2>2
<1> QED BY <1>4, <1>5, FinishIs

LEMMA StutterStack ==
  ASSUME StackInv, UNCHANGED vars
  PROVE  StackInv' /\ (Boxed => Boxed')
<1>1. UNCHANGED <<config, hitTime, m, pc, l, hits>>
  BY DEF vars
<1>2. ObjectInv(m)'
  <2>1. PICK t : t = m
    OBVIOUS
  <2>2. ObjectInv(t)
    BY <2>1 DEF StackInv
  <2> QED BY <1>1, <2>1, <2>2, ObjectFrame
<1>3. (l \in Locals)'
  <2>1. PICK r \in Locals : r = l
    BY DEF StackInv
  <2> QED BY <1>1, <2>1, LocalsFrame
<1>4. HitTimes'
  BY <1>1, HitTimesFrame DEF StackInv
<1>5. (Searching => InTree)'
  <2>1. PICK t : t = m
    OBVIOUS
  <2>2. PICK r : r = l
    OBVIOUS
  <2>3. CASE Searching
    <3>1. /\ r.nodes = TreeOf(Path(t)) /\ r.ray = Space(Path(t))
          /\ instanceId(t) # InvalidValue => r.primNodes = TreeOf(Path(t))
      BY <2>1, <2>2, <2>3 DEF StackInv, InTree
    <3> QED BY <1>1, <2>1, <2>2, <3>1, InTreeFrame
  <2>4. CASE ~Searching
    BY <1>1, <2>4 DEF Searching
  <2> QED BY <2>3, <2>4
<1>6. Control'
  BY <1>1 DEF StackInv, Control, AnyHit, instanceId
<1>7. Boxed => Boxed'
  BY <1>1 DEF Boxed, Searching, Packets
<1> QED BY <1>1, <1>2, <1>3, <1>4, <1>5, <1>6, <1>7 DEF StackInv

(* Every step keeps the stack as it should be, and the boxes are tested    *)
(* with the ray's own inverse.                                             *)
LEMMA StackStep ==
  ASSUME StackInv, [Next]_vars
  PROVE  StackInv' /\ (SoundConfigurations /\ Boxed => Boxed')
<1>1. CASE Call
  BY <1>1, CallStack
<1>2. CASE TestBox
  BY <1>2, BoxStack
<1>3. CASE TestLeafAny
  BY <1>3, LeafAnyStack
<1>4. CASE TestLeafClosest
  BY <1>4, LeafClosestStack
<1>5. CASE TestInstance
  BY <1>5, InstanceStack
<1>6. CASE Finish
  BY <1>6, FinishStack
<1>7. CASE UNCHANGED vars
  BY <1>7, StutterStack
<1> QED BY <1>1, <1>2, <1>3, <1>4, <1>5, <1>6, <1>7 DEF Next, Work

(* The fields of the traversal object and of getNextHit stay within their  *)
(* types, every index on the stack is one of the tree its mark stands for, *)
(* the instances on the path lead from the scene to the ray, and what was  *)
(* saved on entering a nested scene is what leaving it needs               *)
(* (hiprt_device_impl.h, SceneTraversal).                                  *)
THEOREM StackIsSound == Spec => []StackInv
<1>1. Init => StackInv
  BY StackInit
<1>2. StackInv /\ [Next]_vars => StackInv'
  BY StackStep
<1> QED BY <1>1, <1>2, PTL DEF Spec

(* The stack holds a mark for every tree the ray is in, and never more     *)
(* entries than it has room for, so a pop never takes an index of one tree *)
(* for that of another (hiprt_device_impl.h, the InvalidValue entries).    *)
THEOREM MarksAlwaysMatch == Spec => []MarksMatch
<1>1. StackInv => MarksMatch
  <2> SUFFICES ASSUME StackInv PROVE MarksMatch
    OBVIOUS
  <2>1. ObjectType(m) /\ Nested(m) /\ Planned(m)
    BY DEF StackInv, ObjectInv
  <2>2. Len(m.instanceIds) = Len(Outer(m)) + 1 /\ Len(Outer(m)) \in Nat
    BY <2>1, OuterIs
  <2>3. Len(m.instanceIds) = 1 + Len(m.instanceStack)
    BY <2>1, <2>2 DEF Nested
  <2>4. DOMAIN m.stack = 1 .. Len(m.stack)
    BY <2>1 DEF ObjectType
  <2>5. m.nodeIndex # InvalidValue /\ m.stack # <<>> => Marks = 1 + Len(Path(m))
    BY <2>1, <2>4 DEF Planned, Marked, Marks, MarksIn
  <2> QED BY <2>1, <2>3, <2>5 DEF MarksMatch, Planned
<1> QED BY <1>1, StackIsSound, PTL

(* Wherever the ray is, whatever it has entered and left and wherever a    *)
(* call has resumed, nodes are read from the arrays they belong to and     *)
(* tested with the ray in their space (hiprt_device_impl.h, transformRay   *)
(* and restoreRay), provided that no any-hit search of pairs meets an      *)
(* identity transform: continued there, it has no inverse direction.       *)
THEOREM RayAlwaysInSpace ==
  ASSUME SoundConfigurations
  PROVE  Spec => []RayInSpace
<1>1. Init => StackInv /\ Boxed
  BY StackInit
<1>2. (StackInv /\ Boxed) /\ [Next]_vars => (StackInv /\ Boxed)'
  BY StackStep
<1>3. StackInv /\ Boxed => RayInSpace
  BY DEF StackInv, Boxed, RayInSpace, InSpace, Running, Searching, InTree
<1> QED BY <1>1, <1>2, <1>3, PTL DEF Spec

-----------------------------------------------------------------------------
(* What is still to be found, and where: one step of an object.            *)

LEMMA HitIs ==
  ASSUME HitTimes, NEW c \in Hit
  PROVE  /\ c \in Primitive /\ c \in DOMAIN hitTime /\ hitTime[c] \in Int /\ hitTime[c] < Far
         /\ c[2] # InvalidValue /\ c = <<c[1], c[2]>> /\ c # NoHit
<1>1. c \in DOMAIN hitTime
  BY DEF Hit
<1>2. c \in Primitive /\ hitTime[c] \in Int /\ hitTime[c] < Far
  BY <1>1 DEF HitTimes
<1>3. c[2] # InvalidValue /\ c = <<c[1], c[2]>>
  BY <1>2, PrimitiveIs
<1>4. NoHit[2] = InvalidValue
  BY DEF NoHit
<1> QED BY <1>1, <1>2, <1>3, <1>4

(* What is below a leaf of a geometry.                                     *)
LEMMA BelowLeaf ==
  ASSUME NEW c, NEW path \in Seq(Ids), TreeOf(path) \notin Scenes,
         NEW i \in DOMAIN Contents[TreeOf(path)]
  PROVE  Below(c, path, i) <=> c[1] = path /\ c[2] \in PrimsOf(TreeOf(path), i)
<1>1. Cover[TreeOf(path)][i] = {i}
  BY TreeOfType, TreeAssumption
<1> QED BY <1>1 DEF Below

(* What is below a leaf of a scene.                                        *)
LEMMA BelowInstance ==
  ASSUME NEW c \in Primitive, NEW path \in Seq(Ids), TreeOf(path) \in Scenes,
         NEW i \in DOMAIN Contents[TreeOf(path)], Below(c, path, i)
  PROVE  Contents[TreeOf(path)][i] = c[1][Len(path) + 1] /\ Len(path) + 1 \in DOMAIN c[1]
<1> DEFINE b == TreeOf(path)
           n == Len(path) + 1
<1>1. Cover[b][i] = {i}
  BY TreeAssumption, InstanceAssumption
<1>2. Len(c[1]) > Len(path) /\ SubSeq(c[1], 1, Len(path)) = path /\ LeafOf(b, c[1][n]) = i
  BY <1>1 DEF Below
<1>3. c[1] \in Seq(Ids) /\ Len(c[1]) \in Nat /\ Len(path) \in Nat
  BY PrimitiveIs, LenProperties
<1>4. n \in 1 .. Len(c[1])
  BY <1>2, <1>3
<1>5. c[1][n] \in IdsOf(b)
  <2>1. c[1][n] \in IdsOf(TreeOf(Prefix(c[1], n - 1)))
    BY <1>4, PrimitiveIs
  <2>2. Prefix(c[1], n - 1) = path
    BY <1>2, <1>3 DEF Prefix
  <2> QED BY <2>1, <2>2
<1>6. Contents[b][LeafOf(b, c[1][n])] = c[1][n]
  BY <1>5, IdsOfLeaf
<1> QED BY <1>2, <1>3, <1>4, <1>6, LenProperties

(* A node that no call has left off at.                                    *)
LEMMA FreshNode ==
  ASSUME NEW c, NEW o, Path(o) \in Seq(Ids), o.nodeIndex # InvalidValue, o.pair = 1, o.triangleMask = {}
  PROVE  AtNode(o, c) <=> Below(c, Path(o), o.nodeIndex)
<1> DEFINE b == TreeOf(Path(o))
<1>1. ASSUME o.nodeIndex \in DOMAIN Contents[b], b \notin Scenes, Below(c, Path(o), o.nodeIndex)
      PROVE  Left(o, c[2])
  <2>1. b \in Trees \ Scenes
    BY <1>1, TreeOfType
  <2>2. c[2] \in PrimsOf(b, o.nodeIndex)
    BY <1>1, BelowLeaf
  <2>3. PICK k \in 1 .. Len(PairsOf(b, o.nodeIndex)), s \in 1 .. 2 : c[2] = PairsOf(b, o.nodeIndex)[k][s]
    <3> HIDE DEF b
    <3> QED BY <1>1, <2>1, <2>2, PrimsAre
  <2> QED BY <2>3 DEF Left, LeftIn
<1> QED BY <1>1 DEF AtNode

LEMMA PendingIs ==
  ASSUME NEW o, ObjectInv(o), NEW c
  PROVE  Pending(o, c) <=> Place(o, c, 0) \/ \E j \in 1 .. Len(o.stack) : Place(o, c, j)
<1>1. Len(o.stack) \in Nat
  BY LenProperties DEF ObjectInv, ObjectType
<1>2. \A j : j \in 0 .. Len(o.stack) <=> j = 0 \/ j \in 1 .. Len(o.stack)
  BY <1>1
<1> QED BY <1>2 DEF Pending

(* On to the next entry of the stack: what was at the node is forgotten.   *)
LEMMA AdvancePlaces ==
  ASSUME config \in Configurations, NEW o, ObjectInv(o), o.nodeIndex # InvalidValue, o.stack # <<>>,
         NEW p, p = Popped([o EXCEPT !.triangleMask = {}]),
         NEW t, t = Unwound(p), NEW c
  PROVE  /\ Pending(t, c) <=> \E j \in 1 .. Len(o.stack) : Place(o, c, j)
         /\ Once(o, c) => Once(t, c)
<1>1. /\ ObjectType(o) /\ Nested(o) /\ Marked(Path(o), o.stack) /\ o.stack \in Seq(Entry)
      /\ Path(o) \in Seq(Ids)
  BY OuterIs DEF ObjectInv, Planned, ObjectType
<1>2. PICK q \in 1 .. Len(o.stack) :
        /\ t.nodeIndex = o.stack[q] /\ t.stack = Prefix(o.stack, q - 1)
        /\ \A k \in q + 1 .. Len(o.stack) : o.stack[k] = InvalidValue
        /\ o.stack[q] = InvalidValue => q = 1
        /\ Path(t) = PathAt(Path(o), o.stack, q)
  BY <1>1, NextEntry
<1>3. t.pair = 1 /\ t.triangleMask = {}
  BY <1>1, NextEntry
<1>4. Len(o.stack) \in Nat /\ q \in Nat \ {0}
  <2>1. Len(o.stack) \in Nat
    BY <1>1, LenProperties
  <2> QED BY <2>1
<1>5. CASE o.stack[q] = InvalidValue
  <2>1. t.nodeIndex = InvalidValue /\ q = 1 /\ Len(t.stack) = 0
    BY <1>2, <1>5, PrefixEmpty
  <2>2. ~Place(t, c, 0)
    BY <2>1 DEF Place, AtNode
  <2>3. \A j \in 1 .. Len(o.stack) : ~Place(o, c, j)
    <3>1. \A j \in 1 .. Len(o.stack) : o.stack[j] = InvalidValue
      <4>1. \A j \in 1 .. Len(o.stack) : j = 1 \/ j \in q + 1 .. Len(o.stack)
        BY <1>4, <2>1
      <4> QED BY <1>2, <1>5, <2>1, <4>1
    <3>2. \A j \in 1 .. Len(o.stack) : j # 0
      OBVIOUS
    <3> QED BY <3>1, <3>2 DEF Place, AtEntry
  <2>4. \A j \in 0 .. Len(t.stack) : j = 0
    BY <2>1
  <2> QED BY <2>2, <2>3, <2>4 DEF Pending, Once
<1>6. CASE o.stack[q] # InvalidValue
  <2>1. /\ Len(t.stack) = q - 1 /\ PathAt(Path(o), o.stack, q) \in Seq(Ids)
        /\ \A k \in 1 .. q - 1 :
             /\ t.stack[k] = o.stack[k]
             /\ PathAt(Path(t), t.stack, k) = PathAt(Path(o), o.stack, k)
    <3>1. PICK x, s : x = PathAt(Path(o), o.stack, q) /\ s = Prefix(o.stack, q - 1)
      OBVIOUS
    <3>2. /\ Len(s) = q - 1
          /\ \A k \in 1 .. q - 1 : s[k] = o.stack[k] /\ PathAt(x, s, k) = PathAt(Path(o), o.stack, k)
      BY <1>1, <1>6, <3>1, MarkedBelow
    <3>3. x \in Seq(Ids)
      <4>1. q \in q .. Len(o.stack)
        BY <1>4
      <4> QED BY <1>1, <3>1, <4>1, PathsGrow
    <3>4. Path(t) = x /\ t.stack = s
      BY <1>2, <3>1
    <3> QED BY <3>1, <3>2, <3>3, <3>4
  <2>2. Place(t, c, 0) <=> Place(o, c, q)
    <3>1. AtNode(t, c) <=> Below(c, Path(t), t.nodeIndex)
      BY <1>2, <1>3, <1>6, <2>1, FreshNode
    <3> QED BY <1>2, <1>4, <1>6, <3>1 DEF Place, AtEntry
  <2>3. \A k \in 1 .. q - 1 : k # 0 /\ (Place(t, c, k) <=> Place(o, c, k))
    <3>1. \A k \in 1 .. q - 1 : k # 0
      BY <1>4
    <3>2. \A k \in 1 .. q - 1 : AtEntry(Path(t), t.stack, k, c) <=> AtEntry(Path(o), o.stack, k, c)
      BY <2>1, Zenon DEF AtEntry
    <3> QED BY <3>1, <3>2, Zenon DEF Place
  <2>4. \A k \in q + 1 .. Len(o.stack) : ~Place(o, c, k)
    <3>1. \A k \in q + 1 .. Len(o.stack) : k # 0
      BY <1>4
    <3> QED BY <1>2, <3>1 DEF Place, AtEntry
  <2>5. Pending(t, c) <=> \E j \in 1 .. Len(o.stack) : Place(o, c, j)
    <3>1. ASSUME NEW j \in 0 .. q - 1, Place(t, c, j)
          PROVE  \E k \in 1 .. Len(o.stack) : Place(o, c, k)
      <4>1. CASE j = 0
        BY <2>2, <3>1, <4>1
      <4>2. CASE j # 0
        <5>1. j \in 1 .. q - 1 /\ j \in 1 .. Len(o.stack)
          BY <1>4, <4>2
        <5> QED BY <2>3, <3>1, <5>1
      <4> QED BY <4>1, <4>2
    <3>2. ASSUME NEW j \in 1 .. Len(o.stack), Place(o, c, j)
          PROVE  \E k \in 0 .. q - 1 : Place(t, c, k)
      <4>1. j \in 1 .. q - 1 \/ j = q \/ j \in q + 1 .. Len(o.stack)
        BY <1>4
      <4>2. 0 \in 0 .. q - 1 /\ 1 .. q - 1 \subseteq 0 .. q - 1
        BY <1>4
      <4> QED BY <2>2, <2>3, <2>4, <3>2, <4>1, <4>2
    <3> QED BY <2>1, <3>1, <3>2 DEF Pending
  <2>6. ASSUME Once(o, c), NEW i \in 0 .. q - 1, NEW j \in 0 .. q - 1, Place(t, c, i), Place(t, c, j)
        PROVE  i = j
    <3> DEFINE f(n) == IF n = 0 THEN q ELSE n
    <3>1. \A n \in 0 .. q - 1 : f(n) \in 0 .. Len(o.stack) /\ (n # 0 => n \in 1 .. q - 1)
      BY <1>4
    <3>2. Place(o, c, f(i)) /\ Place(o, c, f(j))
      BY <2>2, <2>3, <2>6, <3>1
    <3>3. f(i) = f(j)
      <4> HIDE DEF f
      <4> QED BY <2>6, <3>1, <3>2 DEF Once
    <3> QED BY <1>4, <3>1, <3>3
  <2> QED BY <2>1, <2>5, <2>6 DEF Once
<1> QED BY <1>5, <1>6

(* Another state, a mark at the bottom: nothing moves.                     *)
LEMMA SamePlaces ==
  ASSUME NEW o, NEW t, t.nodeIndex = o.nodeIndex, t.pair = o.pair, t.triangleMask = o.triangleMask,
         t.stack = o.stack, Path(t) = Path(o), NEW c
  PROVE  /\ \A j \in 0 .. Len(o.stack) : Place(t, c, j) <=> Place(o, c, j)
         /\ Pending(t, c) <=> Pending(o, c)
         /\ Once(o, c) <=> Once(t, c)
<1>1. \A j : Place(t, c, j) <=> Place(o, c, j)
  BY Zenon DEF Place, AtNode, AtEntry, Left
<1> QED BY <1>1 DEF Pending, Once

LEMMA CallPlaces ==
  ASSUME NEW o, NEW t, t.nodeIndex = o.nodeIndex, t.pair = o.pair, t.triangleMask = o.triangleMask,
         o.stack = <<>>, Len(t.stack) = 1, t.stack[1] = InvalidValue, Path(t) = Path(o), NEW c
  PROVE  /\ Pending(t, c) <=> Pending(o, c)
         /\ Once(o, c) => Once(t, c)
<1>1. Place(t, c, 0) <=> Place(o, c, 0)
  BY Zenon DEF Place, AtNode, Left
<1>2. ~Place(t, c, 1)
  BY DEF Place, AtEntry
<1>3. \A j \in 0 .. Len(t.stack) : j = 0 \/ j = 1
  OBVIOUS
<1>4. \A j \in 0 .. Len(o.stack) : j = 0
  OBVIOUS
<1>5. 0 \in 0 .. Len(t.stack) /\ 0 \in 0 .. Len(o.stack)
  OBVIOUS
<1> QED BY <1>1, <1>2, <1>3, <1>4, <1>5 DEF Pending, Once

(* Into the tree of an instance: what was below the leaf is below the root.*)
LEMMA EnterPlaces ==
  ASSUME config \in Configurations, NEW o, ObjectInv(o), o.nodeIndex # InvalidValue, o.stack # <<>>,
         instanceId(o) = InvalidValue, o.nodeIndex \in DOMAIN Contents[o.scene],
         NEW id, id = Contents[o.scene][o.nodeIndex], id \notin config.masked,
         Len(o.stack) < config.stackSize,
         NEW t, t = Within(o, id), NEW c \in Primitive
  PROVE  /\ Pending(t, c) <=> Pending(o, c)
         /\ Once(o, c) => Once(t, c)
<1> DEFINE N == Len(o.stack)
           path == Path(o)
<1>1. /\ t.nodeIndex = RootIndex /\ t.pair = 1 /\ t.triangleMask = {}
      /\ t.stack = Append(o.stack, InvalidValue)
      /\ id \in Ids /\ Path(t) = Append(path, id) /\ RootIndex # InvalidValue
      /\ TreeOf(path) = o.scene /\ o.scene \in Scenes /\ path \in Seq(Ids)
  <2>1. /\ t.nodeIndex = RootIndex /\ t.stack = Append(o.stack, InvalidValue)
        /\ id \in Ids /\ Path(t) = Append(path, id) /\ RootIndex # InvalidValue
        /\ TreeOf(path) = o.scene /\ o.scene \in Scenes /\ path \in Seq(Ids)
    BY EnterObject
  <2>2. t.pair = 1
    BY EnterObject
  <2>3. t.triangleMask = {}
    BY EnterObject
  <2> QED BY <2>1, <2>2, <2>3
<1>2. Marked(path, o.stack) /\ o.stack \in Seq(Entry) /\ N \in Nat
  <2>1. o.stack \in Seq(Entry)
    BY DEF ObjectInv, ObjectType
  <2> QED BY <2>1, LenProperties DEF ObjectInv, Planned
<1>3. /\ Len(t.stack) = N + 1 /\ t.stack[N + 1] = InvalidValue
      /\ \A k \in 1 .. N : t.stack[k] = o.stack[k] /\ PathAt(Path(t), t.stack, k) = PathAt(path, o.stack, k)
  BY <1>1, <1>2, PushedMark
<1>4. Place(t, c, 0) <=> Place(o, c, 0)
  <2>1. AtNode(t, c) <=> Below(c, Append(path, id), RootIndex)
    <3>1. Path(t) \in Seq(Ids)
      BY <1>1, AppendProperties
    <3> QED BY <1>1, <3>1, FreshNode
  <2>2. AtNode(o, c) <=> Below(c, path, o.nodeIndex)
    BY <1>1 DEF AtNode
  <2>3. Below(c, Append(path, id), RootIndex) <=> Below(c, path, o.nodeIndex)
    <3> HIDE DEF path
    <3> QED BY <1>1, BelowRoot
  <2> QED BY <2>1, <2>2, <2>3 DEF Place
<1>5. \A k \in 1 .. N : Place(t, c, k) <=> Place(o, c, k)
  <2>1. \A k \in 1 .. N : k # 0
    OBVIOUS
  <2> QED BY <1>3, <2>1 DEF Place, AtEntry
<1>6. ~Place(t, c, N + 1)
  BY <1>2, <1>3 DEF Place, AtEntry
<1>7. \A k \in 0 .. N : Place(t, c, k) <=> Place(o, c, k)
  <2>1. \A k \in 0 .. N : k = 0 \/ k \in 1 .. N
    BY <1>2
  <2> QED BY <1>4, <1>5, <2>1
<1>8. \A k \in 0 .. Len(t.stack) : k \in 0 .. N \/ k = N + 1
  BY <1>2, <1>3
<1>9. 0 .. N \subseteq 0 .. Len(t.stack)
  BY <1>2, <1>3
<1> QED BY <1>6, <1>7, <1>8, <1>9 DEF Pending, Once

(* Down to some children: only what is below the others is forgotten.      *)
LEMMA BoxPlaces ==
  ASSUME config \in Configurations, NEW o, ObjectInv(o), o.nodeIndex # InvalidValue, o.stack # <<>>,
         o.nodeIndex \in DOMAIN Children[TreeOf(Path(o))],
         NEW R, R \subseteq Children[TreeOf(Path(o))][o.nodeIndex],
         NEW first, NEW rest, Visits(R, first, rest),
         Len(o.stack) + Len(rest) <= config.stackSize,
         NEW t, t = Into(o, first, rest), NEW c
  PROVE  /\ Once(o, c) => Once(t, c)
         /\ Pending(t, c) => Pending(o, c)
         /\ Pending(o, c) /\ (Below(c, Path(o), o.nodeIndex) => \E d \in R : Below(c, Path(o), d)) => Pending(t, c)
<1> USE DEF Visits
<1> DEFINE N == Len(o.stack)
           M == Len(rest)
           path == Path(o)
           b == TreeOf(path)
<1>1. /\ Marked(path, o.stack) /\ o.stack \in Seq(Entry) /\ N \in Nat /\ M \in Nat /\ path \in Seq(Ids)
      /\ b \in Trees
  <2>1. o.stack \in Seq(Entry) /\ ObjectType(o) /\ Nested(o)
    BY DEF ObjectInv, ObjectType
  <2>2. path \in Seq(Ids)
    BY <2>1, OuterIs
  <2>3. b \in Trees
    BY <2>2, TreeOfType
  <2> QED BY <2>1, <2>2, <2>3, LenProperties DEF ObjectInv, Planned
<1>2. R \subseteq Nodes(b) /\ o.nodeIndex \notin DOMAIN Contents[b]
  BY <1>1, TreeAssumption
<1>3. first \in Nodes(b) /\ rest \in Seq(Nodes(b)) /\ ~InLeaf(o)
  BY <1>2, SeqMonotonic DEF InLeaf
<1>4. /\ t.nodeIndex = first /\ t.pair = 1 /\ t.triangleMask = {} /\ t.stack = o.stack \o rest
      /\ Path(t) = path /\ first # InvalidValue
  BY <1>3, BoxObject
<1>5. /\ Len(t.stack) = N + M
      /\ \A k \in 1 .. N : t.stack[k] = o.stack[k] /\ PathAt(path, t.stack, k) = PathAt(path, o.stack, k)
      /\ \A k \in N + 1 .. N + M :
           /\ t.stack[k] = rest[k - N] /\ t.stack[k] # InvalidValue /\ PathAt(path, t.stack, k) = path
  <2>1. PICK s : s = o.stack \o rest
    OBVIOUS
  <2>2. o.stack # <<>> /\ rest \in Seq(Nodes(b))
    BY <1>3
  <2> HIDE DEF path
  <2>3. /\ Len(s) = N + M
        /\ \A k \in 1 .. N : s[k] = o.stack[k] /\ PathAt(path, s, k) = PathAt(path, o.stack, k)
        /\ \A k \in N + 1 .. N + M :
             /\ s[k] = rest[k - N] /\ s[k] # InvalidValue /\ PathAt(path, s, k) = path
    BY <1>1, <2>1, <2>2, PushedNodes
  <2>4. t.stack = s
    BY <1>4, <2>1
  <2> QED BY <2>3, <2>4
<1> DEFINE child(k) == IF k = 0 THEN first ELSE rest[k - N]
           New == {0} \cup (N + 1 .. N + M)
<1>6. /\ \A k \in New : child(k) \in R
      /\ \A j, k \in New : child(j) = child(k) => j = k
      /\ \A d \in R : \E k \in New : child(k) = d
  <2>1. \A k \in N + 1 .. N + M : k # 0 /\ k - N \in 1 .. M
    BY <1>1
  <2>2. \A k \in 1 .. M : rest[k] \in R
    BY ElementOfSeq
  <2>3. \A k \in 1 .. M : N + k \in N + 1 .. N + M /\ (N + k) - N = k /\ N + k # 0
    BY <1>1
  <2>4. \A j, k \in N + 1 .. N + M : j - N = k - N => j = k
    BY <1>1
  <2>5. \A k \in New : child(k) \in R
    BY <2>1, <2>2
  <2>6. ASSUME NEW j \in New, NEW k \in New, child(j) = child(k)
        PROVE  j = k
    <3>1. CASE j = 0
      BY <2>1, <2>6, <3>1
    <3>2. CASE k = 0
      BY <2>1, <2>6, <3>2
    <3>3. CASE j # 0 /\ k # 0
      BY <2>1, <2>4, <2>6, <3>3
    <3> QED BY <3>1, <3>2, <3>3
  <2>7. ASSUME NEW d \in R
        PROVE  \E k \in New : child(k) = d
    <3>1. CASE d = first
      BY <3>1
    <3>2. CASE \E k \in 1 .. M : rest[k] = d
      BY <2>3, <3>2
    <3> QED BY <3>1, <3>2
  <2> HIDE DEF New, child
  <2> QED BY <2>5, <2>6, <2>7
<1>7. \A k \in New : Place(t, c, k) <=> Below(c, path, child(k))
  <2>1. Place(t, c, 0) <=> Below(c, path, first)
    BY <1>1, <1>4, FreshNode DEF Place
  <2>2. \A k \in N + 1 .. N + M : k # 0
    BY <1>1
  <2>3. \A k \in N + 1 .. N + M : Place(t, c, k) <=> Below(c, path, rest[k - N])
    BY <1>4, <1>5, <2>2 DEF Place, AtEntry
  <2> QED BY <2>1, <2>2, <2>3
<1>8. \A k \in 1 .. N : Place(t, c, k) <=> Place(o, c, k)
  <2>1. \A k \in 1 .. N : k # 0
    OBVIOUS
  <2> QED BY <1>4, <1>5, <2>1 DEF Place, AtEntry
<1>9. Place(o, c, 0) <=> Below(c, path, o.nodeIndex)
  BY <1>2 DEF Place, AtNode
<1>10. Below(c, path, o.nodeIndex) <=> \E d \in Children[b][o.nodeIndex] : Below(c, path, d)
  BY <1>1, BelowChild
<1>11. \A d, e \in R : Below(c, path, d) /\ Below(c, path, e) => d = e
  BY <1>1, BelowOneChild
<1>12. /\ \A k \in 0 .. N + M : k \in New \/ k \in 1 .. N
       /\ New \subseteq 0 .. N + M /\ 1 .. N \subseteq 0 .. N + M /\ 1 .. N \subseteq 0 .. N
       /\ 0 \in 0 .. N /\ 0 \notin 1 .. N
       /\ \A k \in 0 .. N : k = 0 \/ k \in 1 .. N
  BY <1>1
<1>13. R \subseteq Children[b][o.nodeIndex]
  OBVIOUS
<1> HIDE DEF N, M, path, b, child, New
<1>14. \A k \in New : Place(t, c, k) => Place(o, c, 0)
  BY <1>6, <1>7, <1>9, <1>10, <1>13
<1>15. ASSUME Once(o, c), NEW i \in 0 .. N + M, NEW j \in 0 .. N + M, Place(t, c, i), Place(t, c, j)
       PROVE  i = j
  <2>1. \A x, y \in 0 .. N : Place(o, c, x) /\ Place(o, c, y) => x = y
    BY <1>15 DEF Once, N
  <2>2. CASE i \in New /\ j \in New
    BY <1>6, <1>7, <1>11, <1>15, <2>2
  <2>3. CASE i \in 1 .. N /\ j \in 1 .. N
    BY <1>8, <1>12, <1>15, <2>1, <2>3
  <2>4. CASE i \in New /\ j \in 1 .. N
    BY <1>8, <1>12, <1>14, <1>15, <2>1, <2>4
  <2>5. CASE i \in 1 .. N /\ j \in New
    BY <1>8, <1>12, <1>14, <1>15, <2>1, <2>5
  <2> QED BY <1>12, <2>2, <2>3, <2>4, <2>5
<1>16. ASSUME NEW k \in 0 .. N + M, Place(t, c, k)
       PROVE  \E j \in 0 .. N : Place(o, c, j)
  BY <1>8, <1>12, <1>14, <1>16
<1>17. ASSUME NEW j \in 0 .. N, Place(o, c, j), Below(c, path, o.nodeIndex) => \E d \in R : Below(c, path, d)
       PROVE  \E k \in 0 .. N + M : Place(t, c, k)
  <2>1. CASE j = 0
    BY <1>6, <1>7, <1>9, <1>12, <1>17, <2>1
  <2>2. CASE j \in 1 .. N
    BY <1>8, <1>12, <1>17, <2>2
  <2> QED BY <1>12, <2>1, <2>2
<1> QED BY <1>5, <1>15, <1>16, <1>17 DEF Pending, Once, N, path

-----------------------------------------------------------------------------
(* The hits: what each action does to what is found and what is pending.   *)

LEMMA HitFrame ==
  ASSUME UNCHANGED <<config, hitTime>>, NEW t, m' = t
  PROVE  /\ Hit' = Hit /\ AnyHit' = AnyHit
         /\ \A c : (Pending(m, c)' <=> Pending(t, c)) /\ (Once(m, c)' <=> Once(t, c))
<1>1. Hit' = Hit /\ AnyHit' = AnyHit
  BY DEF Hit, AnyHit
<1> QED BY <1>1, PlaceFrame

(* A step within a call that finds nothing, and forgets nothing that is    *)
(* not further away than what has been found.                              *)
LEMMA HitsKept ==
  ASSUME HitsInv, HitTimes, pc = "loop", UNCHANGED <<config, hitTime, pc, hits>>,
         l'.maxT = l.maxT, l'.result = l.result, NEW t, m' = t,
         \A c \in Hit : /\ Once(m, c) => Once(t, c)
                        /\ Pending(t, c) => Pending(m, c)
                        /\ Pending(m, c) /\ hitTime[c] <= l.maxT => Pending(t, c)
  PROVE  HitsInv'
<1>1. /\ Hit' = Hit /\ AnyHit' = AnyHit
      /\ \A c : (Pending(m, c)' <=> Pending(t, c)) /\ (Once(m, c)' <=> Once(t, c))
  BY HitFrame
<1>2. \A c : Given(c)' <=> Given(c)
  BY DEF Given
<1>3. (hits \in Seq(Hit))' /\ (\A j, k \in DOMAIN hits : hits[j] = hits[k] => j = k)'
  BY <1>1 DEF HitsInv
<1>4. (\A c \in Hit : Once(m, c))'
  BY <1>1 DEF HitsInv
<1>5. CASE AnyHit
  <2>1. AnyInv
    BY <1>5 DEF HitsInv
  <2>2. \A c \in Hit : hitTime[c] <= l.maxT
    BY <2>1, HitIs, ConfigurationAssumption DEF AnyInv
  <2>3. AnyInv'
    BY <1>1, <1>2, <2>1, <2>2 DEF AnyInv
  <2> QED BY <1>1, <1>3, <1>4, <1>5, <2>3 DEF HitsInv
<1>6. CASE ~AnyHit
  <2>1. ClosestInv
    BY <1>6 DEF HitsInv
  <2>2. (\A c \in Hit : hitTime[c] >= l.maxT \/ Pending(m, c))'
    <3>1. l.maxT \in Int
      BY <2>1, HitIs, ConfigurationAssumption DEF ClosestInv
    <3>2. ASSUME NEW c \in Hit
          PROVE  hitTime[c] >= l.maxT \/ Pending(t, c)
      <4>1. hitTime[c] \in Int
        BY HitIs
      <4>2. hitTime[c] >= l.maxT \/ Pending(m, c)
        BY <2>1 DEF ClosestInv
      <4>3. hitTime[c] <= l.maxT \/ hitTime[c] >= l.maxT
        BY <3>1, <4>1
      <4> QED BY <4>2, <4>3
    <3> QED BY <1>1, <3>2
  <2>3. ClosestInv'
    BY <1>1, <2>1, <2>2 DEF ClosestInv
  <2> QED BY <1>1, <1>3, <1>4, <1>6, <2>3 DEF HitsInv
<1> QED BY <1>5, <1>6

(* Running out of stack.                                                   *)
LEMMA OverflowHits ==
  ASSUME StackInv, HitsInv, UNCHANGED <<config, hitTime, pc, hits>>, pc = "loop",
         m' = Overflow, l'.maxT = l.maxT, l'.result = l.result
  PROVE  HitsInv'
<1>1. PICK t : t = [m EXCEPT !.state = "overflow"]
  OBVIOUS
<1>2. /\ t.nodeIndex = m.nodeIndex /\ t.pair = m.pair /\ t.triangleMask = m.triangleMask
      /\ t.stack = m.stack /\ Path(t) = Path(m)
  BY <1>1, StateObject DEF StackInv
<1>3. m' = t
  BY <1>1 DEF Overflow
<1>4. \A c : (Pending(t, c) <=> Pending(m, c)) /\ (Once(m, c) <=> Once(t, c))
  BY <1>2, SamePlaces
<1> QED BY <1>3, <1>4, HitsKept DEF StackInv

(* On to the next node, when nothing that is near enough is at this one.   *)
LEMMA AdvanceHits ==
  ASSUME StackInv, HitsInv, UNCHANGED <<config, hitTime, pc, hits>>, pc = "loop", m.state # "overflow",
         m.nodeIndex # InvalidValue, Advance(m, l),
         \A c \in Hit : Place(m, c, 0) => ~(hitTime[c] <= l.maxT)
  PROVE  HitsInv'
<1>1. /\ config \in Configurations /\ ObjectInv(m) /\ l \in Locals /\ HitTimes /\ InTree /\ m.stack # <<>>
  BY InLoop
<1>2. /\ m' = Unwound(Popped([m EXCEPT !.triangleMask = {}]))
      /\ l'.maxT = l.maxT /\ l'.result = l.result
  BY <1>1, AdvanceStack
<1>3. PICK p : p = Popped([m EXCEPT !.triangleMask = {}])
  OBVIOUS
<1>4. PICK t : t = Unwound(p)
  OBVIOUS
<1>5. \A c : /\ Pending(t, c) <=> \E j \in 1 .. Len(m.stack) : Place(m, c, j)
             /\ Once(m, c) => Once(t, c)
  BY <1>1, <1>3, <1>4, AdvancePlaces
<1>6. \A c : Pending(m, c) <=> Place(m, c, 0) \/ \E j \in 1 .. Len(m.stack) : Place(m, c, j)
  BY <1>1, PendingIs
<1>7. m' = t
  BY <1>2, <1>3, <1>4
<1>8. \A c \in Hit : /\ Once(m, c) => Once(t, c)
                     /\ Pending(t, c) => Pending(m, c)
                     /\ Pending(m, c) /\ hitTime[c] <= l.maxT => Pending(t, c)
  BY <1>5, <1>6
<1> QED BY <1>1, <1>2, <1>7, <1>8, HitsKept

LEMMA BoxHits ==
  ASSUME StackInv, Boxed, HitsInv, TestBox
  PROVE  HitsInv'
<1>1. /\ UNCHANGED <<config, hitTime, pc, hits>> /\ pc = "loop" /\ m.state # "overflow"
      /\ m.nodeIndex # InvalidValue /\ m.nodeIndex \in DOMAIN Children[l.nodes]
  BY BoxIs
<1>2. /\ config \in Configurations /\ ObjectInv(m) /\ HitTimes /\ InTree
      /\ m.stack # <<>> /\ l.nodes = TreeOf(Path(m)) /\ Path(m) \in Seq(Ids)
  BY <1>1, InLoop
<1>3. InSpace
  BY <1>1, <1>2 DEF Boxed, Searching, InSpace, InTree
<1>4. ASSUME NEW R \in Entered(m.nodeIndex), NEW c \in Hit, hitTime[c] <= l.maxT,
             Below(c, Path(m), m.nodeIndex)
      PROVE  \E d \in R : Below(c, Path(m), d)
  <2>1. PICK d \in Children[l.nodes][m.nodeIndex] : Below(c, Path(m), d)
    BY <1>1, <1>2, <1>4, BelowChild
  <2>2. Promising(d)
    BY <1>2, <1>4, <2>1, HitIs DEF Promising
  <2>3. d \in R
    BY <1>3, <2>2 DEF Entered
  <2> QED BY <2>1, <2>3
<1>5. CASE m' = Overflow /\ UNCHANGED l
  BY <1>1, <1>5, OverflowHits
<1>6. CASE (\E R \in Entered(m.nodeIndex) : R = {}) /\ Advance(m, l)
  <2>1. m.nodeIndex \notin DOMAIN Contents[l.nodes]
    BY <1>1, <1>2, TreeOfType, TreeAssumption
  <2>2. ASSUME NEW c \in Hit, Place(m, c, 0), hitTime[c] <= l.maxT
        PROVE  FALSE
    <3>1. Below(c, Path(m), m.nodeIndex)
      BY <2>2 DEF Place, AtNode
    <3> QED BY <1>4, <1>6, <2>2, <3>1
  <2> QED BY <1>1, <1>6, <2>2, AdvanceHits
<1>7. ASSUME UNCHANGED l, NEW R \in Entered(m.nodeIndex), NEW first \in R, NEW rest \in Seq(R),
             R \subseteq Children[l.nodes][m.nodeIndex], Visits(R, first, rest),
             Len(m.stack) + Len(rest) <= config.stackSize,
             m' = Into(m, first, rest)
      PROVE  HitsInv'
  <2>1. PICK t : t = Into(m, first, rest)
    OBVIOUS
  <2>2. m.nodeIndex \in DOMAIN Children[TreeOf(Path(m))] /\ R \subseteq Children[TreeOf(Path(m))][m.nodeIndex]
    BY <1>1, <1>2, <1>7
  <2>3. \A c : /\ Once(m, c) => Once(t, c)
               /\ Pending(t, c) => Pending(m, c)
               /\ Pending(m, c) /\ (Below(c, Path(m), m.nodeIndex) => \E d \in R : Below(c, Path(m), d)) => Pending(t, c)
    <3>1. /\ config \in Configurations /\ ObjectInv(m) /\ m.nodeIndex # InvalidValue /\ m.stack # <<>>
          /\ Visits(R, first, rest) /\ Len(m.stack) + Len(rest) <= config.stackSize
      BY <1>1, <1>2, <1>7
    <3> QED BY ONLY <2>1, <2>2, <3>1, BoxPlaces
  <2>4. \A c \in Hit : /\ Once(m, c) => Once(t, c)
                       /\ Pending(t, c) => Pending(m, c)
                       /\ Pending(m, c) /\ hitTime[c] <= l.maxT => Pending(t, c)
    BY <1>4, <1>7, <2>3
  <2>5. m' = t
    BY <1>7, <2>1
  <2> QED BY <1>1, <1>2, <1>7, <2>4, <2>5, HitsKept
<1>8. CASE /\ UNCHANGED l
           /\ \E R \in Entered(m.nodeIndex) : \E first \in R : \E rest \in Seq(R) :
                /\ R \subseteq Children[l.nodes][m.nodeIndex] /\ Visits(R, first, rest)
                /\ Len(m.stack) + Len(rest) <= config.stackSize
                /\ m' = Into(m, first, rest)
  BY <1>7, <1>8
<1> QED BY <1>5, <1>6, <1>8, BoxIs

LEMMA InstanceHits ==
  ASSUME StackInv, HitsInv, TestInstance
  PROVE  HitsInv'
<1>1. /\ UNCHANGED <<config, hitTime, pc, hits>> /\ pc = "loop" /\ m.state # "overflow"
      /\ m.nodeIndex # InvalidValue /\ instanceId(m) = InvalidValue
      /\ m.scene = TreeOf(Path(m)) /\ m.scene \in Scenes /\ m.nodeIndex \in DOMAIN Contents[m.scene]
  BY InstanceIs
<1>2. /\ config \in Configurations /\ ObjectInv(m) /\ HitTimes /\ m.stack # <<>>
      /\ Path(m) \in Seq(Ids)
  BY <1>1, InLoop
<1>3. ASSUME NEW id \in Ids, id = Contents[m.scene][m.nodeIndex], Advance(m, l),
             id \in config.masked \/ (Packets /\ id \notin config.identity /\ ~Promising(m.nodeIndex))
      PROVE  HitsInv'
  <2>1. ASSUME NEW c \in Hit, Place(m, c, 0), hitTime[c] <= l.maxT
        PROVE  FALSE
    <3>1. Below(c, Path(m), m.nodeIndex)
      BY <2>1 DEF Place, AtNode
    <3>2. c \in Primitive /\ c \in DOMAIN hitTime
      BY <1>2, HitIs
    <3>3. Promising(m.nodeIndex)
      BY <2>1, <3>1, <3>2 DEF Promising
    <3>4. id \in config.masked
      BY <1>3, <3>3
    <3>5. id = c[1][Len(Path(m)) + 1] /\ Len(Path(m)) + 1 \in DOMAIN c[1]
      BY <1>1, <1>2, <1>3, <3>1, <3>2, BelowInstance
    <3> QED BY <2>1, <3>4, <3>5 DEF Hit
  <2> QED BY <1>1, <1>3, <2>1, AdvanceHits
<1>4. CASE m' = Overflow /\ l'.maxT = l.maxT /\ l'.result = l.result
  BY <1>1, <1>4, OverflowHits
<1>5. ASSUME NEW id \in Ids, NEW r \in Locals, id = Contents[m.scene][m.nodeIndex],
             r.maxT = l.maxT, r.result = l.result,
             id \notin config.masked, Len(m.stack) < config.stackSize, m' = Within(m, id), l' = r
      PROVE  HitsInv'
  <2>1. PICK t : t = Within(m, id)
    OBVIOUS
  <2>2. \A c \in Primitive : (Pending(t, c) <=> Pending(m, c)) /\ (Once(m, c) => Once(t, c))
    BY <1>1, <1>2, <1>5, <2>1, EnterPlaces
  <2>3. \A c \in Hit : c \in Primitive
    BY <1>2, HitIs
  <2>4. m' = t /\ l'.maxT = l.maxT /\ l'.result = l.result
    BY <1>5, <2>1
  <2> QED BY <1>1, <1>2, <2>2, <2>3, <2>4, HitsKept
<1> QED BY <1>3, <1>4, <1>5, InstanceIs

(* A hit of any-hit goes to the caller and is not found again.             *)
LEMMA HitGiven ==
  ASSUME HitsInv, AnyHit, UNCHANGED <<config, hitTime, l>>, NEW t, m' = t,
         NEW h \in Hit, Pending(m, h), hits' = Append(hits, h),
         \A c \in Hit : /\ Once(m, c) => Once(t, c)
                        /\ Pending(t, c) <=> Pending(m, c) /\ c # h
  PROVE  HitsInv'
<1>1. /\ Hit' = Hit /\ AnyHit' = AnyHit
      /\ \A c : (Pending(m, c)' <=> Pending(t, c)) /\ (Once(m, c)' <=> Once(t, c))
  BY HitFrame
<1>2. hits \in Seq(Hit) /\ AnyInv /\ Len(hits) \in Nat /\ DOMAIN hits = 1 .. Len(hits)
  BY LenProperties DEF HitsInv
<1>3. PICK z : z = Append(hits, h)
  OBVIOUS
<1>4. /\ z \in Seq(Hit) /\ Len(z) = Len(hits) + 1 /\ DOMAIN z = 1 .. Len(hits) + 1
      /\ z[Len(hits) + 1] = h /\ \A k \in 1 .. Len(hits) : z[k] = hits[k]
  <2>1. z \in Seq(Hit) /\ Len(z) = Len(hits) + 1
    BY <1>2, <1>3, AppendProperties
  <2>2. z[Len(hits) + 1] = h /\ \A k \in 1 .. Len(hits) : z[k] = hits[k]
    BY <1>2, <1>3, AppendProperties
  <2>3. DOMAIN z = 1 .. Len(z)
    BY <2>1, LenProperties
  <2> QED BY <2>1, <2>2, <2>3
<1>5. \A k \in 1 .. Len(hits) + 1 : k \in 1 .. Len(hits) \/ k = Len(hits) + 1
  BY <1>2
<1>6. \A k \in 1 .. Len(hits) : hits[k] # h
  BY <1>2 DEF AnyInv, Given
<1>7. \A j, k \in DOMAIN z : z[j] = z[k] => j = k
  <2>1. \A j, k \in 1 .. Len(hits) : hits[j] = hits[k] => j = k
    BY <1>2 DEF HitsInv
  <2> QED BY <1>4, <1>5, <1>6, <2>1
<1>8. \A c : (\E k \in DOMAIN z : z[k] = c) <=> Given(c) \/ c = h
  <2>1. Len(hits) + 1 \in DOMAIN z /\ \A k \in 1 .. Len(hits) : k \in DOMAIN z
    BY <1>2, <1>4
  <2> QED BY <1>2, <1>4, <1>5, <2>1 DEF Given
<1>9. hits' = z
  BY <1>3
<1>10. \A c : Given(c)' <=> Given(c) \/ c = h
  BY <1>8, <1>9 DEF Given
<1>11. (hits \in Seq(Hit))' /\ (\A j, k \in DOMAIN hits : hits[j] = hits[k] => j = k)'
  BY <1>1, <1>4, <1>7, <1>9
<1>12. (\A c \in Hit : Once(m, c))'
  BY <1>1 DEF HitsInv
<1>13. AnyInv'
  <2>1. \A c \in Hit : (Given(c) \/ c = h) \/ Pending(t, c)
    BY <1>2 DEF AnyInv
  <2>2. \A c \in Hit : ~((Given(c) \/ c = h) /\ Pending(t, c))
    BY <1>2 DEF AnyInv
  <2>3. l'.result = NoHit /\ l'.maxT = Far
    BY <1>2 DEF AnyInv
  <2> QED BY <1>1, <1>10, <2>1, <2>2, <2>3 DEF AnyInv
<1> QED BY <1>1, <1>11, <1>12, <1>13 DEF HitsInv

(* A primitive that the ray hits in the tree it is in.                     *)
LEMMA FoundIs ==
  ASSUME ObjectInv(m), NEW p, Found(p)
  PROVE  <<Path(m), p>> \in Hit /\ hitTime[<<Path(m), p>>] <= l.maxT
<1>1. Path(m) \in Seq(Ids) /\ Reached(Path(m))
  BY OuterIs DEF ObjectInv, Nested
<1>2. \A k \in DOMAIN Path(m) : Path(m)[k] \notin config.masked
  BY <1>1, LenProperties DEF Reached
<1> QED BY <1>2 DEF Found, Hit

(* What is at a leaf of a geometry.                                        *)
LEMMA AtLeafIs ==
  ASSUME NEW o, Path(o) \in Seq(Ids), o.nodeIndex # InvalidValue, TreeOf(Path(o)) \in Trees \ Scenes,
         o.nodeIndex \in DOMAIN Contents[TreeOf(Path(o))], NEW c
  PROVE  Place(o, c, 0) <=> /\ c[1] = Path(o) /\ c[2] \in PrimsOf(TreeOf(Path(o)), o.nodeIndex)
                            /\ Left(o, c[2])
<1>1. Below(c, Path(o), o.nodeIndex) <=> c[1] = Path(o) /\ c[2] \in PrimsOf(TreeOf(Path(o)), o.nodeIndex)
  BY BelowLeaf
<1> QED BY <1>1 DEF Place, AtNode

LEMMA LeafAnyHits ==
  ASSUME StackInv, HitsInv, TestLeafAny
  PROVE  HitsInv'
<1> DEFINE b == TreeOf(Path(m))
           pairs == PairsOf(b, m.nodeIndex)
<1>1. /\ UNCHANGED <<config, hitTime>> /\ pc = "loop" /\ m.state # "overflow"
      /\ m.nodeIndex # InvalidValue /\ AnyHit
      /\ b \in Trees \ Scenes /\ m.nodeIndex \in DOMAIN Contents[b]
      /\ Outcome(pairs, m.pair, m.triangleMask, TestAny)
  BY LeafAnyIs
<1>2. /\ config \in Configurations /\ ObjectInv(m) /\ HitTimes /\ m.stack # <<>> /\ Path(m) \in Seq(Ids)
  BY <1>1, InLoop
<1>3. AnyInv
  BY <1>1 DEF HitsInv
<1>4. \A c : Place(m, c, 0) <=> /\ c[1] = Path(m) /\ c[2] \in PrimsOf(b, m.nodeIndex)
                                /\ LeftIn(pairs, m.pair, m.triangleMask, c[2])
  <2>1. \A c : Place(m, c, 0) <=> /\ c[1] = Path(m) /\ c[2] \in PrimsOf(b, m.nodeIndex) /\ Left(m, c[2])
    BY <1>1, <1>2, AtLeafIs
  <2> QED BY <2>1, Zenon DEF Left
<1>5. \A c \in Hit : c[1] = Path(m) => Found(c[2]) /\ c = <<Path(m), c[2]>>
  <2> SUFFICES ASSUME NEW c \in Hit, c[1] = Path(m)
               PROVE  Found(c[2]) /\ c = <<Path(m), c[2]>>
    OBVIOUS
  <2>1. c = <<Path(m), c[2]>> /\ c \in DOMAIN hitTime /\ hitTime[c] \in Int /\ hitTime[c] < Far
    BY <1>2, HitIs
  <2>2. hitTime[c] <= l.maxT
    BY <1>3, <2>1, ConfigurationAssumption DEF AnyInv
  <2> QED BY <2>1, <2>2 DEF Found
<1>6. CASE TestAny.hit = InvalidValue /\ Advance(m, l) /\ UNCHANGED <<pc, hits>>
  <2>1. \A p : LeftIn(pairs, m.pair, m.triangleMask, p) => ~Found(p)
    BY <1>1, <1>6 DEF Outcome
  <2>2. \A c \in Hit : ~Place(m, c, 0)
    <3> HIDE DEF pairs, b
    <3> QED BY <1>4, <1>5, <2>1
  <2> QED BY <1>1, <1>6, <2>2, AdvanceHits
<1>7. ASSUME TestAny.hit # InvalidValue, hits' = Append(hits, <<Path(m), TestAny.hit>>), UNCHANGED l,
             NEW t, m' = t,
             \A c \in Hit : Once(m, c) => Once(t, c),
             \A c \in Hit : Pending(t, c) <=>
                              \/ Place(m, c, 0) /\ c # <<Path(m), TestAny.hit>>
                              \/ \E j \in 1 .. Len(m.stack) : Place(m, c, j)
      PROVE  HitsInv'
  <2>1. PICK p : p = TestAny.hit
    OBVIOUS
  <2>2. LeftIn(pairs, m.pair, m.triangleMask, p) /\ Found(p) /\ p # InvalidValue
    BY <1>1, <1>7, <2>1 DEF Outcome
  <2>3. PICK h : h = <<Path(m), p>>
    OBVIOUS
  <2>4. h \in Hit /\ h[1] = Path(m) /\ h[2] = p
    BY <1>2, <2>2, <2>3, FoundIs
  <2>5. p \in PrimsOf(b, m.nodeIndex)
    <3>1. PICK j \in m.pair .. Len(pairs), s \in 1 .. 2 : p = pairs[j][s]
      BY <2>2 DEF LeftIn
    <3>2. j \in 1 .. Len(pairs)
      <4>1. m.pair \in Nat \ {0}
        BY <1>2 DEF ObjectInv, ObjectType
      <4>2. Len(pairs) \in Nat
        BY <1>1, PairsType
      <4> HIDE DEF pairs
      <4> QED BY <3>1, <4>1, <4>2
    <3> HIDE DEF b
    <3> QED BY <1>1, <2>2, <3>1, <3>2, PrimsAre
  <2>6. Place(m, h, 0)
    <3> HIDE DEF b, pairs
    <3> QED BY <1>4, <2>2, <2>4, <2>5
  <2>7. \A c : Pending(m, c) <=> Place(m, c, 0) \/ \E j \in 1 .. Len(m.stack) : Place(m, c, j)
    BY <1>2, PendingIs
  <2>8. \A j \in 1 .. Len(m.stack) : ~Place(m, h, j)
    <3>1. Once(m, h)
      BY <2>4 DEF HitsInv
    <3>2. Len(m.stack) \in Nat
      BY <1>2, LenProperties DEF ObjectInv, ObjectType
    <3>3. 0 \in 0 .. Len(m.stack) /\ \A j \in 1 .. Len(m.stack) : j \in 0 .. Len(m.stack) /\ j # 0
      BY <3>2
    <3> QED BY <2>6, <3>1, <3>3 DEF Once
  <2>9. \A c \in Hit : Pending(t, c) <=> Pending(m, c) /\ c # h
    BY <1>7, <2>1, <2>3, <2>7, <2>8
  <2>10. Pending(m, h)
    BY <2>6, <2>7
  <2>11. hits' = Append(hits, h)
    BY <1>7, <2>1, <2>3
  <2>12. \A c \in Hit : /\ Once(m, c) => Once(t, c)
                        /\ Pending(t, c) <=> Pending(m, c) /\ c # h
    BY <1>7, <2>9
  <2>13. UNCHANGED <<config, hitTime, l>> /\ m' = t /\ AnyHit /\ HitsInv
    BY <1>1, <1>7
  <2> HIDE DEF b, pairs
  <2> QED BY ONLY <2>4, <2>10, <2>11, <2>12, <2>13, HitGiven
<1>8. CASE /\ TestAny.hit # InvalidValue /\ TestAny.mask = RangeEnd
           /\ m' = Unwound(Popped([[m EXCEPT !.state = "hit"] EXCEPT !.triangleMask = {}]))
           /\ hits' = Append(hits, <<Path(m), TestAny.hit>>) /\ UNCHANGED l
  <2>1. PICK o : o = [m EXCEPT !.state = "hit"]
    OBVIOUS
  <2>2. /\ ObjectInv(o) /\ o.nodeIndex = m.nodeIndex /\ o.pair = m.pair
        /\ o.triangleMask = m.triangleMask /\ o.stack = m.stack /\ Path(o) = Path(m)
    BY <1>2, <2>1, StateObject
  <2>3. PICK p : p = Popped([o EXCEPT !.triangleMask = {}])
    OBVIOUS
  <2>4. PICK t : t = Unwound(p)
    OBVIOUS
  <2>5. \A c : /\ Pending(t, c) <=> \E j \in 1 .. Len(o.stack) : Place(o, c, j)
               /\ Once(o, c) => Once(t, c)
    <3>1. o.nodeIndex # InvalidValue /\ o.stack # <<>>
      BY <1>1, <1>2, <2>2
    <3> QED BY <1>2, <2>2, <2>3, <2>4, <3>1, AdvancePlaces
  <2>6. \A c : /\ \A j \in 0 .. Len(m.stack) : Place(o, c, j) <=> Place(m, c, j)
               /\ Once(m, c) <=> Once(o, c)
    BY <2>2, SamePlaces
  <2>7. \A j \in 1 .. Len(m.stack) : j \in 0 .. Len(m.stack)
    BY <1>2, LenProperties DEF ObjectInv, ObjectType
  <2>8. \A c \in Hit : Place(m, c, 0) => c = <<Path(m), TestAny.hit>>
    <3>1. \A p1 : LeftIn(pairs, m.pair, m.triangleMask, p1) /\ Found(p1) => p1 = TestAny.hit
      BY <1>1, <1>8 DEF Outcome
    <3> HIDE DEF pairs, b
    <3> QED BY <1>4, <1>5, <3>1
  <2>9. \A c \in Hit : Pending(t, c) <=>
                         \/ Place(m, c, 0) /\ c # <<Path(m), TestAny.hit>>
                         \/ \E j \in 1 .. Len(m.stack) : Place(m, c, j)
    BY <2>2, <2>5, <2>6, <2>7, <2>8
  <2>10. \A c \in Hit : Once(m, c) => Once(t, c)
    BY <2>5, <2>6
  <2>11. m' = t
    BY <1>8, <2>1, <2>3, <2>4
  <2> QED BY <1>7, <1>8, <2>9, <2>10, <2>11
<1>9. CASE /\ TestAny.hit # InvalidValue /\ TestAny.mask # RangeEnd /\ b \notin Customs
           /\ m' = LeftOff(m, TestAny.pair, TestAny.mask)
           /\ hits' = Append(hits, <<Path(m), TestAny.hit>>) /\ UNCHANGED l
  <2>1. PICK k, mask, p : k = TestAny.pair /\ mask = TestAny.mask /\ p = TestAny.hit
    OBVIOUS
  <2>2. /\ k \in 1 .. Len(pairs) /\ mask \in {{}, {0}}
        /\ \A p1 : Found(p1) => (LeftIn(pairs, k, mask, p1) <=> LeftIn(pairs, m.pair, m.triangleMask, p1) /\ p1 # p)
    BY <1>1, <1>9, <2>1 DEF Outcome
  <2>3. InLeaf(m)
    BY <1>1, <1>2, <1>9, ResumesIn
  <2>4. PICK t : t = LeftOff(m, k, mask)
    OBVIOUS
  <2>5. /\ t.nodeIndex = m.nodeIndex /\ t.pair = k
        /\ t.stack = m.stack /\ Path(t) = Path(m)
    BY <1>1, <1>2, <2>2, <2>3, <2>4, PairObject
  <2>6. t.triangleMask = mask
    BY <1>1, <1>2, <2>2, <2>3, <2>4, PairObject
  <2>7. \A c : Place(t, c, 0) <=> /\ c[1] = Path(m) /\ c[2] \in PrimsOf(b, m.nodeIndex)
                                  /\ LeftIn(pairs, k, mask, c[2])
    <3>1. \A c : Place(t, c, 0) <=> /\ c[1] = Path(t) /\ c[2] \in PrimsOf(TreeOf(Path(t)), t.nodeIndex)
                                    /\ Left(t, c[2])
      <4>1. /\ Path(t) \in Seq(Ids) /\ t.nodeIndex # InvalidValue /\ TreeOf(Path(t)) \in Trees \ Scenes
            /\ t.nodeIndex \in DOMAIN Contents[TreeOf(Path(t))]
        BY <1>1, <1>2, <2>5
      <4> QED BY <4>1, AtLeafIs
    <3>2. \A p1 : Left(t, p1) <=> LeftIn(pairs, k, mask, p1)
      BY <2>5, <2>6, Zenon DEF Left
    <3> QED BY <2>5, <3>1, <3>2
  <2>8. \A c \in Hit : Place(t, c, 0) <=> Place(m, c, 0) /\ c # <<Path(m), p>>
    <3> SUFFICES ASSUME NEW c \in Hit, c[1] = Path(m)
                 PROVE  Place(t, c, 0) <=> Place(m, c, 0) /\ c # <<Path(m), p>>
      BY <1>4, <2>7
    <3>1. Found(c[2]) /\ c = <<Path(m), c[2]>>
      BY <1>5
    <3>2. LeftIn(pairs, k, mask, c[2]) <=> LeftIn(pairs, m.pair, m.triangleMask, c[2]) /\ c[2] # p
      BY <2>2, <3>1
    <3>3. c # <<Path(m), p>> <=> c[2] # p
      BY <3>1
    <3> HIDE DEF pairs, b
    <3> QED BY <1>4, <2>7, <3>2, <3>3
  <2>9. \A c : \A j \in 1 .. Len(m.stack) : Place(t, c, j) <=> Place(m, c, j)
    <3>1. \A j \in 1 .. Len(m.stack) : j # 0
      OBVIOUS
    <3> QED BY <2>5, <3>1 DEF Place
  <2>10. Len(m.stack) \in Nat
    BY <1>2, LenProperties DEF ObjectInv, ObjectType
  <2>11. \A j \in 0 .. Len(m.stack) : j = 0 \/ j \in 1 .. Len(m.stack)
    BY <2>10
  <2>12. \A c \in Hit : Once(m, c) => Once(t, c)
    <3>1. \A c \in Hit : \A j \in 0 .. Len(m.stack) : Place(t, c, j) => Place(m, c, j)
      BY <2>8, <2>9, <2>11
    <3> QED BY <2>5, <3>1 DEF Once
  <2>13. \A c \in Hit : Pending(t, c) <=>
                         \/ Place(m, c, 0) /\ c # <<Path(m), p>>
                         \/ \E j \in 1 .. Len(m.stack) : Place(m, c, j)
    <3>1. 0 \in 0 .. Len(m.stack) /\ \A j \in 1 .. Len(m.stack) : j \in 0 .. Len(m.stack)
      BY <2>10
    <3> QED BY <2>5, <2>8, <2>9, <2>11, <3>1 DEF Pending
  <2>14. m' = t
    BY <1>9, <2>1, <2>4
  <2> QED BY <1>7, <1>9, <2>1, <2>12, <2>13, <2>14
<1> QED BY <1>6, <1>8, <1>9, LeafAnyIs

LEMMA LeafClosestHits ==
  ASSUME StackInv, HitsInv, TestLeafClosest
  PROVE  HitsInv'
<1> DEFINE b == TreeOf(Path(m))
           prims == PrimsOf(b, m.nodeIndex)
<1>1. /\ UNCHANGED <<config, hitTime, pc, hits>> /\ pc = "loop" /\ m.state # "overflow"
      /\ m.nodeIndex # InvalidValue /\ ~AnyHit
      /\ b \in Trees \ Scenes /\ m.nodeIndex \in DOMAIN Contents[b]
  BY LeafClosestIs
<1>2. /\ config \in Configurations /\ ObjectInv(m) /\ HitTimes /\ InTree /\ m.stack # <<>>
      /\ Path(m) \in Seq(Ids) /\ l \in Locals
  BY <1>1, InLoop
<1>3. ClosestInv
  BY <1>1 DEF HitsInv
<1>4. \A c \in Hit : Place(m, c, 0) => c = <<Path(m), c[2]>> /\ c[2] \in prims
  <2>1. \A c : Place(m, c, 0) => c[1] = Path(m) /\ c[2] \in prims
    BY <1>1, <1>2, AtLeafIs
  <2>2. \A c \in Hit : c = <<c[1], c[2]>>
    BY <1>2, HitIs
  <2> HIDE DEF prims
  <2> QED BY <2>1, <2>2
<1>5. CASE (\A p \in prims : ~Found(p)) /\ Advance(m, l)
  <2>1. ASSUME NEW c \in Hit, Place(m, c, 0), hitTime[c] <= l.maxT
        PROVE  FALSE
    <3>1. c = <<Path(m), c[2]>> /\ c[2] \in prims /\ c \in DOMAIN hitTime
      BY <1>2, <1>4, <2>1, HitIs
    <3>2. Found(c[2])
      BY <2>1, <3>1 DEF Found
    <3> QED BY <1>5, <3>1, <3>2
  <2> QED BY <1>1, <1>5, <2>1, AdvanceHits
<1>6. ASSUME NEW p \in prims, Found(p),
             \A q \in prims : Found(q) => hitTime[<<Path(m), p>>] <= hitTime[<<Path(m), q>>],
             Advance(m, [l EXCEPT !.maxT = hitTime[<<Path(m), p>>], !.result = <<Path(m), p>>])
      PROVE  HitsInv'
  <2>1. PICK h : h = <<Path(m), p>>
    OBVIOUS
  <2>2. PICK r : r = [l EXCEPT !.maxT = hitTime[h], !.result = h]
    OBVIOUS
  <2>3. h \in Hit /\ hitTime[h] <= l.maxT
    BY <1>2, <1>6, <2>1, FoundIs
  <2>4. h \in Primitive /\ hitTime[h] \in Int /\ h # NoHit /\ l.maxT \in Int
    BY <1>2, <2>3, HitIs DEF Locals
  <2>5. /\ r \in Locals /\ r.nodes = l.nodes /\ r.ray = l.ray
        /\ r.primNodes = l.primNodes /\ r.invD = l.invD /\ r.maxT = hitTime[h] /\ r.result = h
    BY ONLY <1>2, <2>2, <2>4 DEF Locals
  <2>6. Advance(m, r)
    BY <1>6, <2>1, <2>2
  <2>7. /\ m' = Unwound(Popped([m EXCEPT !.triangleMask = {}]))
        /\ l'.maxT = hitTime[h] /\ l'.result = h
    BY <1>1, <1>2, <2>5, <2>6, AdvanceStack
  <2>8. PICK x : x = Popped([m EXCEPT !.triangleMask = {}])
    OBVIOUS
  <2>9. PICK t : t = Unwound(x)
    OBVIOUS
  <2>10. \A c : /\ Pending(t, c) <=> \E j \in 1 .. Len(m.stack) : Place(m, c, j)
                /\ Once(m, c) => Once(t, c)
    BY <1>1, <1>2, <2>8, <2>9, AdvancePlaces
  <2>11. m' = t
    BY <2>7, <2>8, <2>9
  <2>12. /\ Hit' = Hit /\ AnyHit' = AnyHit
         /\ \A c : (Pending(m, c)' <=> Pending(t, c)) /\ (Once(m, c)' <=> Once(t, c))
    BY <1>1, <2>11, HitFrame
  <2>13. ASSUME NEW c \in Hit
         PROVE  hitTime[c] >= hitTime[h] \/ Pending(t, c)
    <3>1. c \in DOMAIN hitTime /\ hitTime[c] \in Int
      BY <1>2, HitIs
    <3>2. CASE hitTime[c] >= l.maxT
      BY <2>3, <2>4, <3>1, <3>2
    <3>3. CASE Pending(m, c)
      <4>1. Place(m, c, 0) \/ Pending(t, c)
        BY <1>2, <2>10, <3>3, PendingIs
      <4>2. ASSUME Place(m, c, 0)
            PROVE  hitTime[c] >= hitTime[h]
        <5>1. c = <<Path(m), c[2]>> /\ c[2] \in prims
          BY <1>4, <4>2
        <5>2. CASE Found(c[2])
          <6>1. hitTime[h] <= hitTime[c]
            BY <1>6, <2>1, <5>1, <5>2
          <6> QED BY <2>4, <3>1, <6>1
        <5>3. CASE ~Found(c[2])
          <6>1. ~(hitTime[c] <= l.maxT)
            BY <3>1, <5>1, <5>3 DEF Found
          <6> QED BY <2>3, <2>4, <3>1, <6>1
        <5> QED BY <5>2, <5>3
      <4> QED BY <4>1, <4>2
    <3> QED BY <1>3, <3>2, <3>3 DEF ClosestInv
  <2>14. (hits \in Seq(Hit))' /\ (\A j, k \in DOMAIN hits : hits[j] = hits[k] => j = k)'
    BY <1>1, <2>12 DEF HitsInv
  <2>15. (\A c \in Hit : Once(m, c))'
    BY <2>10, <2>12 DEF HitsInv
  <2>16. ClosestInv'
    <3>1. (\A c \in Hit : hitTime[c] >= l.maxT \/ Pending(m, c))'
      BY <1>1, <2>7, <2>12, <2>13
    <3>2. (l.result = NoHit => l.maxT = Far)' /\ (l.result # NoHit => l.result \in Hit /\ l.maxT = hitTime[l.result])'
      BY <1>1, <2>3, <2>4, <2>7, <2>12
    <3>3. pc' = "loop" /\ hits' = <<>>
      BY <1>1, <1>3 DEF ClosestInv
    <3> QED BY <3>1, <3>2, <3>3 DEF ClosestInv
  <2> QED BY <1>1, <2>12, <2>14, <2>15, <2>16 DEF HitsInv
<1>7. CASE \E p \in prims :
             /\ Found(p)
             /\ \A q \in prims : Found(q) => hitTime[<<Path(m), p>>] <= hitTime[<<Path(m), q>>]
             /\ Advance(m, [l EXCEPT !.maxT = hitTime[<<Path(m), p>>], !.result = <<Path(m), p>>])
  <2> HIDE DEF prims
  <2> QED BY <1>6, <1>7
<1> QED BY <1>5, <1>7, LeafClosestIs

(* A call starts with the whole ray; what is pending stays so.             *)
LEMMA CallHits ==
  ASSUME StackInv, HitsInv, Call
  PROVE  HitsInv'
<1>1. /\ UNCHANGED <<config, hitTime, hits>> /\ pc = "caller" /\ pc' = "loop" /\ m.state \in {"init", "hit"}
      /\ m' = IF m.stack = <<>> THEN Push(m, InvalidValue) ELSE m
      /\ l' = IF AnyHit /\ instanceId(m) # InvalidValue THEN Resumed(Fresh) ELSE Fresh
  BY DEF Call
<1>2. config \in Configurations /\ ObjectInv(m) /\ HitTimes /\ Control
  BY DEF StackInv
<1>3. l'.maxT = Far /\ l'.result = NoHit
  <2>1. PICK f : f = Fresh
    OBVIOUS
  <2>2. f.maxT = Far /\ f.result = NoHit
    BY <2>1 DEF Fresh
  <2>3. Resumed(f).maxT = Far /\ Resumed(f).result = NoHit
    <3>1. PICK id : id = Contents[m.scene][m.instanceIndex]
      OBVIOUS
    <3>2. PICK x : x = Transformed(f, id)
      OBVIOUS
    <3>3. x.maxT = Far /\ x.result = NoHit
      BY <2>1, <2>2, <3>2 DEF Transformed, Fresh
    <3>4. Resumed(f) = [x EXCEPT !.nodes = Instances[id], !.primNodes = Instances[id]]
      BY <3>1, <3>2 DEF Resumed
    <3> QED BY <3>3, <3>4
  <2> QED BY <1>1, <2>1, <2>2, <2>3
<1>4. PICK t : t = IF m.stack = <<>> THEN Push(m, InvalidValue) ELSE m
  OBVIOUS
<1>5. \A c : (Pending(t, c) <=> Pending(m, c)) /\ (Once(m, c) => Once(t, c))
  <2>1. CASE m.stack = <<>>
    <3>1. t = Push(m, InvalidValue)
      BY <1>4, <2>1
    <3>2. /\ t.nodeIndex = m.nodeIndex /\ t.pair = m.pair
          /\ t.triangleMask = m.triangleMask /\ t.stack[1] = InvalidValue /\ Len(t.stack) = 1
          /\ Path(t) = Path(m)
      BY <1>2, <2>1, <3>1, CallObject
    <3> QED BY <2>1, <3>2, CallPlaces
  <2>2. CASE m.stack # <<>>
    BY <1>4, <2>2
  <2> QED BY <2>1, <2>2
<1>6. m' = t
  BY <1>1, <1>4
<1>7. /\ Hit' = Hit /\ AnyHit' = AnyHit
      /\ \A c : (Pending(m, c)' <=> Pending(t, c)) /\ (Once(m, c)' <=> Once(t, c))
  BY <1>1, <1>6, HitFrame
<1>8. \A c : Given(c)' <=> Given(c)
  BY <1>1 DEF Given
<1>9. (hits \in Seq(Hit))' /\ (\A j, k \in DOMAIN hits : hits[j] = hits[k] => j = k)'
  BY <1>1, <1>7 DEF HitsInv
<1>10. (\A c \in Hit : Once(m, c))'
  BY <1>5, <1>7 DEF HitsInv
<1>11. CASE AnyHit
  <2>1. AnyInv
    BY <1>11 DEF HitsInv
  <2>2. AnyInv'
    BY <1>3, <1>5, <1>7, <1>8, <2>1 DEF AnyInv
  <2> QED BY <1>7, <1>9, <1>10, <1>11, <2>2 DEF HitsInv
<1>12. CASE ~AnyHit
  <2>1. ClosestInv /\ m.state = "init"
    BY <1>1, <1>2, <1>12 DEF HitsInv, Control
  <2>2. hits = <<>> /\ l.maxT = Far
    BY <1>1, <2>1 DEF ClosestInv
  <2>3. (\A c \in Hit : hitTime[c] >= l.maxT \/ Pending(m, c))'
    BY <1>1, <1>3, <1>5, <1>7, <2>1, <2>2 DEF ClosestInv
  <2>4. ClosestInv'
    BY <1>1, <1>3, <2>2, <2>3 DEF ClosestInv
  <2> QED BY <1>7, <1>9, <1>10, <1>12, <2>4 DEF HitsInv
<1> QED BY <1>11, <1>12

(* The end of the search: the closest hit goes to the caller.              *)
LEMMA FinishHits ==
  ASSUME StackInv, HitsInv, Finish
  PROVE  HitsInv'
<1>1. /\ UNCHANGED <<config, hitTime, l>> /\ pc = "loop" /\ pc' = "caller"
      /\ hits' = IF l.result[2] = InvalidValue THEN hits ELSE Append(hits, l.result)
  BY FinishIs
<1>2. config \in Configurations /\ ObjectInv(m) /\ HitTimes /\ Control
  BY DEF StackInv
<1>3. PICK t : /\ m' = t /\ t.state # "init"
               /\ \A c : (Pending(t, c) <=> Pending(m, c)) /\ (Once(m, c) <=> Once(t, c))
  <2>1. CASE m.state = "overflow" /\ UNCHANGED m
    <3>1. PICK t : t = m
      OBVIOUS
    <3> QED BY <2>1, <3>1
  <2>2. CASE m' = [m EXCEPT !.state = "finished"]
    <3>1. PICK t : t = [m EXCEPT !.state = "finished"]
      OBVIOUS
    <3>2. /\ t.nodeIndex = m.nodeIndex /\ t.pair = m.pair /\ t.triangleMask = m.triangleMask
          /\ t.stack = m.stack /\ Path(t) = Path(m) /\ t.state = "finished"
      BY <1>2, <3>1, StateObject
    <3>3. \A c : (Pending(t, c) <=> Pending(m, c)) /\ (Once(m, c) <=> Once(t, c))
      BY <3>2, SamePlaces
    <3> QED BY <2>2, <3>1, <3>2, <3>3
  <2> QED BY <2>1, <2>2, FinishIs
<1>4. /\ Hit' = Hit /\ AnyHit' = AnyHit
      /\ \A c : (Pending(m, c)' <=> Pending(t, c)) /\ (Once(m, c)' <=> Once(t, c))
  BY <1>1, <1>3, HitFrame
<1>5. (\A c \in Hit : Once(m, c))'
  BY <1>3, <1>4 DEF HitsInv
<1>6. NoHit[2] = InvalidValue
  BY DEF NoHit
<1>7. CASE AnyHit
  <2>1. AnyInv
    BY <1>7 DEF HitsInv
  <2>2. hits' = hits
    BY <1>1, <1>6, <2>1 DEF AnyInv
  <2>3. \A c : Given(c)' <=> Given(c)
    BY <2>2 DEF Given
  <2>4. (hits \in Seq(Hit))' /\ (\A j, k \in DOMAIN hits : hits[j] = hits[k] => j = k)'
    BY <1>4, <2>2 DEF HitsInv
  <2>5. AnyInv'
    BY <1>1, <1>3, <1>4, <2>1, <2>3 DEF AnyInv
  <2> QED BY <1>4, <1>5, <1>7, <2>4, <2>5 DEF HitsInv
<1>8. CASE ~AnyHit
  <2>1. ClosestInv
    BY <1>8 DEF HitsInv
  <2>2. hits = <<>>
    BY <1>1, <2>1 DEF ClosestInv
  <2>3. hits' = IF l.result = NoHit THEN <<>> ELSE <<l.result>>
    <3>1. CASE l.result = NoHit
      BY <1>1, <1>6, <2>2, <3>1
    <3>2. CASE l.result # NoHit
      <4>1. l.result[2] # InvalidValue
        BY <1>2, <2>1, <3>2, HitIs DEF ClosestInv
      <4>2. hits' = Append(<<>>, l.result)
        BY <1>1, <2>2, <4>1
      <4> QED BY <3>2, <4>2
    <3> QED BY <3>1, <3>2
  <2>4. (hits \in Seq(Hit))' /\ (\A j, k \in DOMAIN hits : hits[j] = hits[k] => j = k)'
    <3>1. CASE l.result = NoHit
      BY <2>3, <3>1
    <3>2. CASE l.result # NoHit
      <4>1. l.result \in Hit
        BY <2>1, <3>2 DEF ClosestInv
      <4> QED BY <1>4, <2>3, <3>2, <4>1
    <3> QED BY <3>1, <3>2
  <2>5. ClosestInv'
    <3>1. (\A c \in Hit : hitTime[c] >= l.maxT \/ Pending(m, c))'
      BY <1>1, <1>3, <1>4, <2>1 DEF ClosestInv
    <3>2. (l.result = NoHit => l.maxT = Far)' /\ (l.result # NoHit => l.result \in Hit /\ l.maxT = hitTime[l.result])'
      BY <1>1, <1>4, <2>1 DEF ClosestInv
    <3>3. (pc = "caller" /\ m.state # "init" => hits = IF l.result = NoHit THEN <<>> ELSE <<l.result>>)'
      BY <1>1, <2>3
    <3> QED BY <1>1, <1>3, <3>1, <3>2, <3>3 DEF ClosestInv
  <2> QED BY <1>4, <1>5, <1>8, <2>4, <2>5 DEF HitsInv
<1> QED BY <1>7, <1>8

LEMMA StutterHits ==
  ASSUME HitsInv, UNCHANGED vars
  PROVE  HitsInv'
<1>1. UNCHANGED <<config, hitTime, m, pc, l, hits>>
  BY DEF vars
<1>2. PICK t : t = m
  OBVIOUS
<1>3. /\ Hit' = Hit /\ AnyHit' = AnyHit
      /\ \A c : (Pending(m, c)' <=> Pending(t, c)) /\ (Once(m, c)' <=> Once(t, c))
  BY <1>1, <1>2, HitFrame
<1>4. \A c : Given(c)' <=> Given(c)
  BY <1>1 DEF Given
<1>5. AnyInv' <=> AnyInv
  BY <1>1, <1>2, <1>3, <1>4 DEF AnyInv
<1>6. ClosestInv' <=> ClosestInv
  BY <1>1, <1>2, <1>3 DEF ClosestInv
<1> QED BY <1>1, <1>2, <1>3, <1>5, <1>6 DEF HitsInv

LEMMA HitsInit ==
  ASSUME Init
  PROVE  HitsInv
<1>1. /\ m.stack = <<>> /\ m.nodeIndex = RootIndex /\ m.instanceIds = <<InvalidValue>>
      /\ m.state = "init" /\ pc = "caller" /\ hits = <<>> /\ l.maxT = Far /\ l.result = NoHit
  BY DEF Init
<1>2. StackInv
  BY StackInit
<1>3. Path(m) = <<>>
  <2>1. instanceId(m) = InvalidValue
    BY <1>1, <1>2 DEF StackInv, Control
  <2>2. Path(m) = Outer(m) /\ Len(m.instanceIds) = Len(Outer(m)) + 1 /\ Len(Outer(m)) \in Nat /\ Path(m) \in Seq(Ids)
    BY <1>2, <2>1, OuterIs DEF StackInv, ObjectInv
  <2>3. Len(m.instanceIds) = 1
    <3>1. Len(<<InvalidValue>>) = 1
      OBVIOUS
    <3> QED BY <1>1, <3>1
  <2>4. Len(Path(m)) = 0
    <3>1. PICK n : n = Len(Outer(m))
      OBVIOUS
    <3>2. n \in Nat /\ n + 1 = 1
      BY <2>2, <2>3, <3>1
    <3> QED BY <2>2, <3>1, <3>2
  <2> QED BY <2>2, <2>4, EmptySeq
<1>4. TopScene \in Scenes /\ TopScene \in Trees /\ RootIndex # InvalidValue
  BY InstanceAssumption, RootIs
<1>5. \A c \in Hit : Place(m, c, 0)
  <2>1. \A c \in Hit : c \in Primitive
    BY <1>2, HitIs DEF StackInv
  <2>2. TreeOf(<<>>) = TopScene
    BY DEF TreeOf
  <2> QED BY <1>1, <1>3, <1>4, <2>1, <2>2, BelowTop DEF Place, AtNode
<1>6. \A j \in 0 .. Len(m.stack) : j = 0
  BY <1>1
<1>7. 0 \in 0 .. Len(m.stack)
  BY <1>1
<1>8. \A c : ~Given(c)
  BY <1>1 DEF Given
<1>9. AnyInv
  BY <1>1, <1>5, <1>7, <1>8 DEF AnyInv, Pending
<1>10. ClosestInv
  BY <1>1, <1>5, <1>7 DEF ClosestInv, Pending
<1>11. hits \in Seq(Hit) /\ \A j, k \in DOMAIN hits : hits[j] = hits[k] => j = k
  BY <1>1
<1> QED BY <1>6, <1>9, <1>10, <1>11 DEF HitsInv, Once

LEMMA HitsStep ==
  ASSUME StackInv, Boxed, HitsInv, [Next]_vars
  PROVE  HitsInv'
<1>1. CASE Call
  BY <1>1, CallHits
<1>2. CASE TestBox
  BY <1>2, BoxHits
<1>3. CASE TestLeafAny
  BY <1>3, LeafAnyHits
<1>4. CASE TestLeafClosest
  BY <1>4, LeafClosestHits
<1>5. CASE TestInstance
  BY <1>5, InstanceHits
<1>6. CASE Finish
  BY <1>6, FinishHits
<1>7. CASE UNCHANGED vars
  BY <1>7, StutterHits
<1> QED BY <1>1, <1>2, <1>3, <1>4, <1>5, <1>6, <1>7 DEF Next, Work

(* With nothing left on the stack nothing is pending.                      *)
LEMMA NothingPending ==
  ASSUME NEW o, ObjectInv(o), o.nodeIndex = InvalidValue, NEW c
  PROVE  ~Pending(o, c)
<1>1. ~Place(o, c, 0)
  BY DEF Place, AtNode
<1>2. \A j \in 1 .. Len(o.stack) : o.stack[j] = InvalidValue
  BY DEF ObjectInv, Planned
<1>3. \A j \in 1 .. Len(o.stack) : ~Place(o, c, j)
  <2>1. \A j \in 1 .. Len(o.stack) : j # 0
    OBVIOUS
  <2> QED BY <1>2, <2>1 DEF Place, AtEntry
<1> QED BY <1>1, <1>3, PendingIs

LEMMA HitsAreExact ==
  ASSUME StackInv, HitsInv
  PROVE  HitsExact
<1>1. HitTimes /\ ObjectInv(m) /\ Control
  BY DEF StackInv
<1>2. hits \in Seq(Hit) /\ \A j, k \in DOMAIN hits : hits[j] = hits[k] => j = k
  BY DEF HitsInv
<1>3. \A k \in DOMAIN hits : hits[k] \in Hit
  <2>1. DOMAIN hits = 1 .. Len(hits)
    BY <1>2, LenProperties
  <2> QED BY <1>2, <2>1, ElementOfSeq
<1>4. ASSUME m.state = "finished", pc = "caller"
      PROVE  IF AnyHit THEN ToSet(hits) = Hit
             ELSE /\ hits = <<>> => Hit = {}
                  /\ \A k \in DOMAIN hits : \A c \in Hit : hitTime[hits[k]] <= hitTime[c]
  <2>1. \A c : ~Pending(m, c)
    BY <1>1, <1>4, NothingPending DEF Control
  <2>2. CASE AnyHit
    <3>1. \A c \in Hit : Given(c)
      BY <2>1, <2>2 DEF HitsInv, AnyInv
    <3> QED BY <1>3, <2>2, <3>1 DEF Given, ToSet
  <2>3. CASE ~AnyHit
    <3>1. ClosestInv
      BY <2>3 DEF HitsInv
    <3>2. hits = IF l.result = NoHit THEN <<>> ELSE <<l.result>>
      BY <1>4, <3>1 DEF ClosestInv
    <3>3. \A c \in Hit : hitTime[c] >= l.maxT
      BY <2>1, <3>1 DEF ClosestInv
    <3>4. \A c \in Hit : hitTime[c] \in Int /\ hitTime[c] < Far
      BY <1>1, HitIs
    <3>5. CASE l.result = NoHit
      <4>1. hits = <<>> /\ l.maxT = Far
        BY <3>1, <3>2, <3>5 DEF ClosestInv
      <4>2. Hit = {}
        BY <3>3, <3>4, <4>1, ConfigurationAssumption
      <4> QED BY <2>3, <4>1, <4>2
    <3>6. CASE l.result # NoHit
      <4>1. hits = <<l.result>> /\ l.result \in Hit /\ l.maxT = hitTime[l.result]
        BY <3>1, <3>2, <3>6 DEF ClosestInv
      <4>2. \A k \in DOMAIN hits : hits[k] = l.result
        BY <4>1
      <4>3. hits # <<>>
        BY <4>1
      <4>4. \A c \in Hit : hitTime[l.result] <= hitTime[c]
        BY <3>3, <3>4, <4>1
      <4> QED BY <2>3, <4>2, <4>3, <4>4
    <3> QED BY <3>5, <3>6
  <2> QED BY <2>2, <2>3
<1> QED BY <1>2, <1>3, <1>4 DEF HitsExact

(* What the caller is given are hits of the ray, none of them twice; when  *)
(* the search is over any-hit has given all of them and closest-hit one    *)
(* that is nearest, or none only if there is none (hiprt_device_impl.h,    *)
(* getNextHit), for every scene, ray and order in which boxes let their    *)
(* children through, with the provision of RayAlwaysInSpace.               *)
THEOREM HitsAlwaysExact ==
  ASSUME SoundConfigurations
  PROVE  Spec => []HitsExact
<1>1. Init => IInv
  BY StackInit, HitsInit DEF IInv
<1>2. IInv /\ [Next]_vars => IInv'
  BY StackStep, HitsStep DEF IInv
<1>3. IInv => HitsExact
  BY HitsAreExact DEF IInv
<1> QED BY <1>1, <1>2, <1>3, PTL DEF Spec
=============================================================================
