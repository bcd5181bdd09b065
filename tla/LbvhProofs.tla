----------------------------- MODULE LbvhProofs -----------------------------
(***************************************************************************)
(* Proofs about the LBVH topology kernel, for any number of codes and any  *)
(* interleaving: the links it leaves are the radix tree of the codes,      *)
(* nodes are fitted children first, and where stores stay in order every   *)
(* box is complete.  And about the kernels behind it, which count the      *)
(* codes below each node and flag the fat leaves.                          *)
(***************************************************************************)
EXTENDS FatLeaves, FiniteSetTheorems, WellFoundedInduction, TLAPS

(* A set of naturals that is not empty has a smallest element, for the     *)
(* intervals below its elements are ordered like the elements.             *)
LEMMA Smallest ==
  ASSUME NEW U \in SUBSET Nat, U # {}
  PROVE  \E n \in U : \A m \in U : n <= m
<1>1. PICK top \in U : TRUE
  OBVIOUS
<1> DEFINE below(n) == 0 .. n - 1
           T == {below(n) : n \in {u \in U : u <= top}}
<1>2. IsFiniteSet(0 .. top)
  BY FS_Interval
<1>3. IsWellFoundedOn(StrictSubsetOrdering(0 .. top), SUBSET (0 .. top))
  BY <1>2, FS_StrictSubsetOrderingWellFounded, FS_FiniteSubsetsOfFinite, Zenon
<1>4. T \in SUBSET SUBSET (0 .. top) /\ T # {}
  <2>1. \A n \in U : n <= top => below(n) \subseteq 0 .. top
    OBVIOUS
  <2>2. top \in {u \in U : u <= top}
    BY <1>1
  <2> HIDE DEF below
  <2> QED BY <2>1, <2>2
<1> HIDE DEF T
<1>5. PICK x \in T : \A y \in T : <<y, x>> \notin StrictSubsetOrdering(0 .. top)
  BY <1>3, <1>4, WFMin
<1>6. PICK n \in U : n <= top /\ x = below(n)
  BY <1>5 DEF T
<1>7. ASSUME NEW m \in U, m < n
      PROVE  FALSE
  <2>1. m \in {u \in U : u <= top}
    BY <1>6, <1>7
  <2>2. below(m) \in T
    BY <2>1 DEF T
  <2>3. below(m) \subseteq below(n) /\ m \in below(n) /\ m \notin below(m)
    BY <1>7
  <2>4. <<below(m), below(n)>> \in StrictSubsetOrdering(0 .. top)
    BY <2>2, <2>3, <1>4, <1>5, <1>6 DEF StrictSubsetOrdering
  <2> QED BY <2>2, <2>4, <1>5, <1>6
<1> QED BY <1>7

(* And a bounded one has a largest.                                        *)
LEMMA Largest ==
  ASSUME NEW U \in SUBSET Nat, U # {}, NEW b \in Nat, \A u \in U : u <= b
  PROVE  \E n \in U : \A m \in U : m <= n
<1> DEFINE V == {b - u : u \in U}
<1>1. V \in SUBSET Nat /\ V # {}
  <2>1. \A u \in U : b - u \in Nat
    OBVIOUS
  <2>2. PICK u \in U : TRUE
    OBVIOUS
  <2>3. b - u \in V
    BY <2>2
  <2> QED BY <2>1, <2>3
<1>2. PICK v \in V : \A w \in V : v <= w
  BY <1>1, Smallest
<1>3. PICK n \in U : v = b - n
  BY <1>2
<1>4. \A m \in U : v <= b - m
  BY <1>2
<1> QED BY <1>3, <1>4

-----------------------------------------------------------------------------
(* Powers of two, as numbers of subsets.                                   *)
LEMMA PowerCounts ==
  ASSUME NEW k \in Nat
  PROVE  /\ IsFiniteSet(SUBSET (1 .. k))
         /\ Cardinality(SUBSET (1 .. k)) = 2 ^ k
         /\ 2 ^ k \in Nat
<1>1. IsFiniteSet(1 .. k) /\ Cardinality(1 .. k) = k
  BY FS_Interval
<1>2. IsFiniteSet(SUBSET (1 .. k)) /\ Cardinality(SUBSET (1 .. k)) = 2 ^ k
  BY <1>1, FS_SUBSET
<1>3. Cardinality(SUBSET (1 .. k)) \in Nat
  BY <1>2, FS_CardinalityType
<1> QED BY <1>2, <1>3

LEMMA PowerLarge ==
  ASSUME NEW k \in Nat
  PROVE  k < 2 ^ k
<1> DEFINE S == 1 .. k
           T == (SUBSET S) \ {{}}
           f == [x \in S |-> {x}]
<1>1. IsFiniteSet(SUBSET S) /\ Cardinality(SUBSET S) = 2 ^ k /\ 2 ^ k \in Nat
  BY PowerCounts
<1>2. {} \in SUBSET S
  OBVIOUS
<1>3. IsFiniteSet(T) /\ Cardinality(T) = 2 ^ k - 1
  <2> HIDE DEF S
  <2> QED BY <1>1, <1>2, FS_RemoveElement
<1>4. f \in Injection(S, T)
  <2> HIDE DEF S
  <2> QED BY DEF Injection, IsInjective
<1>5. Cardinality(S) <= Cardinality(T)
  <2> HIDE DEF f, S, T
  <2> QED BY <1>3, <1>4, FS_Injection
<1>6. Cardinality(S) = k
  BY FS_Interval
<1> QED BY <1>1, <1>3, <1>5, <1>6

LEMMA PowerStep ==
  ASSUME NEW k \in Nat
  PROVE  2 ^ (k + 1) = 2 * 2 ^ k
<1> DEFINE S == 1 .. k
           x == k + 1
           U == {A \cup {x} : A \in SUBSET S}
           g == [A \in SUBSET S |-> A \cup {x}]
<1>1. IsFiniteSet(SUBSET S) /\ Cardinality(SUBSET S) = 2 ^ k /\ 2 ^ k \in Nat
  BY PowerCounts
<1>2. Cardinality(SUBSET (1 .. k + 1)) = 2 ^ (k + 1)
  <2>1. k + 1 \in Nat
    OBVIOUS
  <2> QED BY <2>1, PowerCounts
<1>3. 1 .. k + 1 = S \cup {x} /\ x \notin S
  OBVIOUS
<1> HIDE DEF S, x
<1>4. SUBSET (S \cup {x}) = (SUBSET S) \cup U
  <2>1. ASSUME NEW A \in SUBSET (S \cup {x}), x \in A
        PROVE  A \in U
    <3>1. A = (A \ {x}) \cup {x} /\ A \ {x} \in SUBSET S
      BY <2>1
    <3> QED BY <3>1
  <2>2. ASSUME NEW A \in SUBSET (S \cup {x}), x \notin A
        PROVE  A \in SUBSET S
    BY <2>2
  <2>3. U \subseteq SUBSET (S \cup {x})
    OBVIOUS
  <2> QED BY <2>1, <2>2, <2>3
<1>5. (SUBSET S) \cap U = {}
  BY <1>3
<1>6. g \in Bijection(SUBSET S, U)
  <2>1. g \in Injection(SUBSET S, U)
    <3>1. \A A, B \in SUBSET S : A \cup {x} = B \cup {x} => A = B
      BY <1>3
    <3>2. g \in [SUBSET S -> U]
      OBVIOUS
    <3>3. \A A \in SUBSET S : g[A] = A \cup {x}
      OBVIOUS
    <3>4. \A A, B \in SUBSET S : g[A] = g[B] => A = B
      BY <3>1, <3>3
    <3> HIDE DEF g, U
    <3> QED BY <3>2, <3>4 DEF Injection, IsInjective
  <2>2. g \in Surjection(SUBSET S, U)
    BY DEF Surjection
  <2> QED BY <2>1, <2>2 DEF Bijection
<1> HIDE DEF g, U
<1>7. IsFiniteSet(U) /\ Cardinality(U) = 2 ^ k
  BY <1>1, <1>6, FS_Bijection DEF ExistsBijection
<1>8. Cardinality((SUBSET S) \cup U) = 2 ^ k + 2 ^ k - Cardinality({})
  BY <1>1, <1>5, <1>7, FS_Union
<1>9. Cardinality({}) = 0
  BY FS_EmptySet
<1>10. 2 ^ (k + 1) = 2 ^ k + 2 ^ k - 0
  BY <1>2, <1>3, <1>4, <1>8, <1>9
<1> QED BY <1>1, <1>10

LEMMA PowerPositive == \A k \in Nat : 2 ^ k \in Nat \ {0}
BY PowerCounts, PowerLarge

(* A number below m is less than the m-th power, m times over.             *)
LEMMA PowerSum ==
  ASSUME NEW k \in Nat, NEW m \in Nat
  PROVE  (m + 1) * 2 ^ k <= 2 ^ (k + m)
<1> DEFINE U == {n \in Nat : ~((n + 1) * 2 ^ k <= 2 ^ (k + n))}
<1> SUFFICES ASSUME U # {} PROVE FALSE
  OBVIOUS
<1>1. PICK n \in U : \A l \in U : n <= l
  BY Smallest
<1>2. 2 ^ k \in Nat /\ 2 ^ (k + n) \in Nat
  BY PowerPositive
<1>3. CASE n = 0
  BY <1>1, <1>2, <1>3
<1>4. CASE n # 0
  <2>1. n - 1 \in Nat /\ n - 1 \notin U
    BY <1>1, <1>4
  <2>2. (n - 1 + 1) * 2 ^ k <= 2 ^ (k + (n - 1))
    BY <2>1
  <2>3. 2 ^ (k + n) = 2 * 2 ^ (k + (n - 1)) /\ 2 ^ (k + (n - 1)) \in Nat
    <3>1. k + (n - 1) \in Nat /\ (k + (n - 1)) + 1 = k + n
      BY <2>1
    <3> QED BY <3>1, PowerStep, PowerPositive
  <2> DEFINE p == 2 ^ k
             q == 2 ^ (k + (n - 1))
  <2>4. n * p <= q
    BY <2>2
  <2>5. p \in Nat /\ q \in Nat /\ n * p \in Nat /\ (n + 1) * p = n * p + p /\ p <= n * p
    BY <1>2, <1>4, <2>3
  <2> HIDE DEF p, q
  <2>6. (n + 1) * p <= 2 * q
    BY <2>4, <2>5
  <2>7. ~((n + 1) * p <= 2 * q)
    BY <1>1, <2>3 DEF p, q
  <2> QED BY <2>6, <2>7
<1> QED BY <1>3, <1>4

-----------------------------------------------------------------------------
(* The highest bit in which two keys differ.                               *)
LEMMA HalvesAgree ==
  ASSUME NEW a \in Nat, NEW p \in Nat \ {0}
  PROVE  a \div (2 * p) = (a \div p) \div 2
<1> DEFINE q == a \div p
           r == a % p
           h == q \div 2
           e == q % 2
<1>1. q \in Nat /\ r \in 0 .. p - 1 /\ a = p * q + r
  OBVIOUS
<1>2. h \in Nat /\ e \in {0, 1} /\ q = 2 * h + e
  BY <1>1
<1> HIDE DEF q, r, h, e
<1>3. p * q = (2 * p) * h + p * e
  BY <1>1, <1>2
<1>4. p * e + r \in 0 .. 2 * p - 1
  BY <1>1, <1>2
<1>5. a = (2 * p) * h + (p * e + r)
  BY <1>1, <1>3, <1>4, <1>2
<1> DEFINE P == 2 * p
           R == p * e + r
<1>6. P \in Nat \ {0} /\ R \in 0 .. P - 1 /\ a = P * h + R
  BY <1>4, <1>5
<1> HIDE DEF P, R
<1>7. a \div P = h
  BY <1>2, <1>6
<1> QED BY <1>7 DEF P, h, q

LEMMA QuotientGrows ==
  ASSUME NEW p \in Nat \ {0}, NEW x \in Nat, NEW y \in Nat, x <= y
  PROVE  x \div p <= y \div p
<1> DEFINE u == x \div p
           v == y \div p
           e == x % p
           f == y % p
<1>1. u \in Nat /\ e \in 0 .. p - 1 /\ x = p * u + e
  OBVIOUS
<1>2. v \in Nat /\ f \in 0 .. p - 1 /\ y = p * v + f
  OBVIOUS
<1> HIDE DEF u, v, e, f
<1>3. p * u \in Nat /\ p * v \in Nat /\ (u > v => p * u >= p * v + p)
  BY <1>1, <1>2
<1> DEFINE s == p * u
           t == p * v
<1>4. s \in Nat /\ t \in Nat /\ x = s + e /\ y = t + f /\ (u > v => s >= t + p)
  BY <1>1, <1>2, <1>3
<1> HIDE DEF s, t
<1>5. ~(u > v)
  BY <1>1, <1>2, <1>4
<1> QED BY <1>1, <1>2, <1>5 DEF u, v

LEMMA AgreeAbove ==
  ASSUME NEW a \in Nat, NEW b \in Nat, NEW k \in Nat, NEW l \in Nat, k <= l,
         a \div 2 ^ k = b \div 2 ^ k
  PROVE  a \div 2 ^ l = b \div 2 ^ l
<1> DEFINE U == {n \in Nat : k <= n /\ a \div 2 ^ n # b \div 2 ^ n}
<1> SUFFICES ASSUME U # {} PROVE FALSE
  OBVIOUS
<1>1. PICK n \in U : \A m \in U : n <= m
  BY Smallest
<1>2. n # k /\ k <= n /\ n \in Nat
  BY <1>1
<1>3. n - 1 \in Nat /\ n - 1 \notin U /\ k <= n - 1
  BY <1>1, <1>2
<1>4. a \div 2 ^ (n - 1) = b \div 2 ^ (n - 1)
  BY <1>3
<1>5. 2 ^ n = 2 * 2 ^ (n - 1) /\ 2 ^ (n - 1) \in Nat \ {0}
  <2>1. (n - 1) + 1 = n
    BY <1>2
  <2> QED BY <1>3, <2>1, PowerStep, PowerPositive
<1>6. a \div 2 ^ n = b \div 2 ^ n
  <2> DEFINE p == 2 ^ (n - 1)
  <2>1. p \in Nat \ {0} /\ 2 ^ n = 2 * p /\ a \div p = b \div p
    BY <1>4, <1>5
  <2> HIDE DEF p
  <2>2. a \div (2 * p) = (a \div p) \div 2 /\ b \div (2 * p) = (b \div p) \div 2
    BY <2>1, HalvesAgree
  <2> QED BY <2>1, <2>2
<1> QED BY <1>1, <1>6

KeyBits == MaxCode + primCount + 1

LEMMA KeyBitsNat == KeyBits \in Nat /\ primCount \in Nat /\ primCount > 1 /\ MaxCode \in Nat
BY CountAssumption, CodeAssumption DEF KeyBits

(* The bit HighestBit chooses exists for keys of KeyBits bits.             *)
LEMMA BitFound ==
  ASSUME NEW a \in Nat, NEW b \in Nat, a < 2 ^ KeyBits, b < 2 ^ KeyBits
  PROVE  LET k == HighestBit(a, b)
         IN /\ k \in 0 .. KeyBits
            /\ a \div 2 ^ k = b \div 2 ^ k
            /\ k = 0 \/ a \div 2 ^ (k - 1) # b \div 2 ^ (k - 1)
<1> DEFINE U == {n \in 0 .. KeyBits : a \div 2 ^ n = b \div 2 ^ n}
<1>1. KeyBits \in U
  <2>1. a \div 2 ^ KeyBits = 0 /\ b \div 2 ^ KeyBits = 0
    <3> DEFINE p == 2 ^ KeyBits
    <3>1. p \in Nat \ {0} /\ a < p /\ b < p
      BY KeyBitsNat, PowerPositive
    <3> HIDE DEF p
    <3>2. a \div p = 0 /\ b \div p = 0
      BY <3>1
    <3> QED BY <3>2 DEF p
  <2> QED BY <2>1, KeyBitsNat
<1>2. PICK k \in U : \A m \in U : k <= m
  <2>1. U \in SUBSET Nat
    BY KeyBitsNat
  <2> QED BY <1>1, <2>1, Smallest
<1>3. k \in 0 .. KeyBits /\ a \div 2 ^ k = b \div 2 ^ k
  BY <1>2
<1>4. k = 0 \/ a \div 2 ^ (k - 1) # b \div 2 ^ (k - 1)
  <2>1. k # 0 => k - 1 \in 0 .. KeyBits /\ k - 1 \notin U
    BY <1>2, KeyBitsNat
  <2> QED BY <2>1
<1>5. \E n \in 0 .. MaxCode + primCount + 1 :
        a \div 2 ^ n = b \div 2 ^ n /\ (n = 0 \/ a \div 2 ^ (n - 1) # b \div 2 ^ (n - 1))
  BY <1>3, <1>4 DEF KeyBits
<1> QED BY <1>5 DEF HighestBit, KeyBits

(* Widened keys grow strictly and fit into KeyBits bits.                   *)
LEMMA KeysGrow ==
  ASSUME NEW s \in Sorted
  PROVE  /\ \A i \in Leaf : Widened(s, i) \in Nat /\ Widened(s, i) < 2 ^ KeyBits
         /\ \A i, j \in Leaf : i < j => Widened(s, i) < Widened(s, j)
<1> DEFINE p == 2 ^ primCount
<1>1. p \in Nat \ {0} /\ primCount < p
  BY KeyBitsNat, PowerPositive, PowerLarge
<1>2. /\ \A i \in Leaf : s[i] \in 0 .. MaxCode
      /\ \A i, j \in Leaf : i < j => s[i] <= s[j]
  BY DEF Sorted
<1>3. (MaxCode + 1) * p <= 2 ^ (primCount + MaxCode)
  BY KeyBitsNat, PowerSum
<1>4. 2 ^ KeyBits = 2 * 2 ^ (primCount + MaxCode) /\ 2 ^ (primCount + MaxCode) \in Nat
  <2>1. primCount + MaxCode \in Nat /\ KeyBits = (primCount + MaxCode) + 1
    BY KeyBitsNat DEF KeyBits
  <2> QED BY <2>1, PowerStep, PowerPositive
<1>5. \A i \in Leaf : Widened(s, i) = s[i] * p + i
  BY DEF Widened
<1> HIDE DEF p
<1>6. \A i \in Leaf : i \in Nat /\ i < primCount
  BY KeyBitsNat DEF Leaf
<1>7. ASSUME NEW i \in Leaf
      PROVE  Widened(s, i) \in Nat /\ Widened(s, i) < 2 ^ KeyBits
  <2>1. s[i] \in Nat /\ s[i] <= MaxCode
    BY <1>2, KeyBitsNat
  <2>2. s[i] * p \in Nat /\ s[i] * p <= MaxCode * p /\ MaxCode * p \in Nat
    BY <1>1, <2>1, KeyBitsNat
  <2>3. (MaxCode + 1) * p = MaxCode * p + p
    BY <1>1, KeyBitsNat
  <2> DEFINE u == s[i] * p
             v == MaxCode * p
             w == 2 ^ (primCount + MaxCode)
  <2>4. u \in Nat /\ v \in Nat /\ w \in Nat /\ u <= v /\ v + p <= w
    BY <1>3, <1>4, <2>2, <2>3
  <2>5. Widened(s, i) = u + i /\ 2 ^ KeyBits = 2 * w
    BY <1>4, <1>5
  <2> HIDE DEF u, v, w
  <2> QED BY <1>1, <1>6, <2>4, <2>5, KeyBitsNat
<1>8. ASSUME NEW i \in Leaf, NEW j \in Leaf, i < j
      PROVE  Widened(s, i) < Widened(s, j)
  <2>1. s[i] \in Nat /\ s[j] \in Nat /\ s[i] <= s[j]
    BY <1>2, <1>8, KeyBitsNat
  <2>2. s[i] * p \in Nat /\ s[j] * p \in Nat /\ s[i] * p <= s[j] * p
    BY <1>1, <2>1
  <2> DEFINE u == s[i] * p
             v == s[j] * p
  <2>3. Widened(s, i) = u + i /\ Widened(s, j) = v + j
    BY <1>5
  <2> HIDE DEF u, v
  <2> QED BY <1>6, <1>8, <2>2, <2>3 DEF u, v
<1> QED BY <1>7, <1>8

(* What the climb relies on: the ends differ more than any two keys, and   *)
(* between two boundaries that differ alike is one that differs more.      *)
Graded(D) ==
  /\ \A b \in 0 .. primCount : D[b] \in Nat
  /\ D[0] = D[primCount]
  /\ \A b \in 1 .. primCount - 1 : D[b] < D[0]
  /\ \A b, c \in 1 .. primCount - 1 :
       b < c /\ D[b] = D[c] => \E m \in b + 1 .. c - 1 : D[m] > D[b]

LEMMA DifferencesGraded ==
  ASSUME NEW s \in Sorted
  PROVE  Graded(Differences(s))
<1> DEFINE D == Differences(s)
           W(i) == Widened(s, i)
<1>1. \A b \in 0 .. primCount :
        D[b] = IF b \in 1 .. primCount - 1 THEN HighestBit(W(b - 1), W(b)) ELSE KeyBits + 1
  <2>1. \A b \in 0 .. primCount : {b - 1, b} \subseteq Leaf <=> b \in 1 .. primCount - 1
    BY KeyBitsNat DEF Leaf
  <2>2. KeyBits + 1 = MaxCode + primCount + 2
    BY KeyBitsNat DEF KeyBits
  <2> QED BY <2>1, <2>2 DEF Differences, findHighestDifferentBit
<1>2. \A b \in 1 .. primCount - 1 : b - 1 \in Leaf /\ b \in Leaf /\ b \in 0 .. primCount /\ b - 1 < b
  BY KeyBitsNat DEF Leaf
<1>3. ASSUME NEW b \in 1 .. primCount - 1
      PROVE  /\ D[b] \in 1 .. KeyBits
             /\ W(b - 1) \div 2 ^ D[b] = W(b) \div 2 ^ D[b]
             /\ W(b - 1) \div 2 ^ (D[b] - 1) # W(b) \div 2 ^ (D[b] - 1)
  <2>1. /\ W(b - 1) \in Nat /\ W(b) \in Nat /\ W(b - 1) < W(b)
        /\ W(b - 1) < 2 ^ KeyBits /\ W(b) < 2 ^ KeyBits
    BY <1>2, KeysGrow
  <2>2. /\ D[b] \in 0 .. KeyBits
        /\ W(b - 1) \div 2 ^ D[b] = W(b) \div 2 ^ D[b]
        /\ D[b] = 0 \/ W(b - 1) \div 2 ^ (D[b] - 1) # W(b) \div 2 ^ (D[b] - 1)
    <3>1. D[b] = HighestBit(W(b - 1), W(b))
      BY <1>1, <1>2
    <3> HIDE DEF D, W
    <3> QED BY <2>1, <3>1, BitFound
  <2>3. D[b] # 0
    <3>1. 2 ^ 0 = 1
      <4>1. 1 .. 0 = {}
        OBVIOUS
      <4>2. SUBSET (1 .. 0) = {{}}
        BY <4>1
      <4>3. Cardinality(SUBSET (1 .. 0)) = 1
        BY <4>2, FS_Singleton
      <4> QED BY <4>3, PowerCounts
    <3>2. \A x \in Nat : x \div 1 = x
      OBVIOUS
    <3> HIDE DEF D, W
    <3>3. W(b - 1) \div 1 = W(b - 1) /\ W(b) \div 1 = W(b) /\ W(b - 1) # W(b)
      BY <2>1, <3>2
    <3> QED BY <2>2, <3>1, <3>3
  <2> HIDE DEF D, W
  <2> QED BY <2>2, <2>3, KeyBitsNat
<1>4. D[0] = KeyBits + 1 /\ D[primCount] = KeyBits + 1
  BY <1>1, KeyBitsNat
<1> HIDE DEF D, W
<1>5. ASSUME NEW b \in 1 .. primCount - 1, NEW c \in 1 .. primCount - 1, b < c, D[b] = D[c],
             \A m \in b + 1 .. c - 1 : ~(D[m] > D[b])
      PROVE  FALSE
  <2> DEFINE k == D[b]
             q(i) == W(i) \div 2 ^ (k - 1)
  <2>1. k \in Nat /\ k - 1 \in Nat /\ k >= 1
    BY <1>3, KeyBitsNat
  <2>2. \A i \in Leaf : W(i) \in Nat
    BY KeysGrow DEF W
  <2>3. \A m \in b .. c : W(m - 1) \div 2 ^ k = W(m) \div 2 ^ k
    <3> SUFFICES ASSUME NEW m \in b .. c
                 PROVE  W(m - 1) \div 2 ^ k = W(m) \div 2 ^ k
      OBVIOUS
    <3>1. m \in 1 .. primCount - 1
      BY KeyBitsNat
    <3>2. D[m] \in Nat /\ D[m] <= k
      BY <1>3, <1>5, <3>1, KeyBitsNat
    <3>3. W(m - 1) \div 2 ^ D[m] = W(m) \div 2 ^ D[m]
      BY <1>3, <3>1
    <3>4. W(m - 1) \in Nat /\ W(m) \in Nat
      BY <1>2, <2>2, <3>1
    <3> HIDE DEF k
    <3> QED BY <2>1, <3>2, <3>3, <3>4, AgreeAbove
  <2>4. \A m \in b .. c : W(m) \div 2 ^ k = W(b) \div 2 ^ k
    <3> DEFINE U == {m \in b .. c : W(m) \div 2 ^ k # W(b) \div 2 ^ k}
    <3> SUFFICES ASSUME U # {} PROVE FALSE
      OBVIOUS
    <3>1. U \in SUBSET Nat
      BY KeyBitsNat
    <3>2. PICK n \in U : \A m \in U : n <= m
      BY <3>1, Smallest
    <3>3. n - 1 \in b .. c /\ n - 1 \notin U
      BY <3>1, <3>2
    <3>4. W(n - 1) \div 2 ^ k = W(n) \div 2 ^ k
      BY <2>3
    <3> QED BY <3>2, <3>3, <3>4
  <2>5. 2 ^ k = 2 * 2 ^ (k - 1) /\ 2 ^ (k - 1) \in Nat \ {0}
    <3>1. (k - 1) + 1 = k
      BY <2>1
    <3> QED BY <2>1, <3>1, PowerStep, PowerPositive
  <2>6. \A i \in Leaf : W(i) \div 2 ^ k = q(i) \div 2 /\ q(i) \in Nat
    <3> DEFINE p == 2 ^ (k - 1)
    <3>1. p \in Nat \ {0} /\ 2 ^ k = 2 * p /\ \A i : q(i) = W(i) \div p
      BY <2>5
    <3> HIDE DEF p, q, k
    <3>2. \A i \in Leaf : W(i) \div (2 * p) = (W(i) \div p) \div 2 /\ W(i) \div p \in Nat
      <4> SUFFICES ASSUME NEW i \in Leaf
                   PROVE  W(i) \div (2 * p) = (W(i) \div p) \div 2 /\ W(i) \div p \in Nat
        OBVIOUS
      <4>1. W(i) \in Nat
        BY <2>2
      <4>2. W(i) \div p \in Nat
        BY <3>1, <4>1
      <4> QED BY <3>1, <4>1, <4>2, HalvesAgree
    <3> QED BY <3>1, <3>2
  <2>7. \A i, j \in Leaf : i <= j => q(i) <= q(j)
    <3>1. \A i, j \in Leaf : i <= j => W(i) <= W(j)
      <4>1. \A i, j \in Leaf : i < j => W(i) < W(j)
        BY KeysGrow DEF W
      <4>2. \A i, j \in Leaf : i <= j => i < j \/ i = j
        BY KeyBitsNat DEF Leaf
      <4> QED BY <2>2, <4>1, <4>2
    <3>2. 2 ^ (k - 1) \in Nat \ {0}
      BY <2>5
    <3> QED BY <2>2, <3>1, <3>2, QuotientGrows
  <2>8. q(b - 1) # q(b) /\ q(c - 1) # q(c)
    BY <1>3, <1>5
  <2>9. q(b - 1) \div 2 = q(b) \div 2 /\ q(b) \div 2 = q(c - 1) \div 2 /\ q(c - 1) \div 2 = q(c) \div 2
    <3>1. b - 1 \in Leaf /\ b \in Leaf /\ c - 1 \in Leaf /\ c \in Leaf
      BY <1>2
    <3>2. b \in b .. c /\ c \in b .. c /\ c - 1 \in b .. c
      BY <1>5
    <3> QED BY <2>3, <2>4, <2>6, <3>1, <3>2
  <2>10. /\ q(b - 1) <= q(b) /\ q(b) <= q(c - 1) /\ q(c - 1) <= q(c)
         /\ q(b - 1) \in Nat /\ q(b) \in Nat /\ q(c - 1) \in Nat /\ q(c) \in Nat
    <3>1. b - 1 \in Leaf /\ b \in Leaf /\ c - 1 \in Leaf /\ c \in Leaf
      BY <1>2
    <3>2. b - 1 <= b /\ b <= c - 1 /\ c - 1 <= c
      BY <1>5
    <3> QED BY <2>6, <2>7, <3>1, <3>2
  <2> HIDE DEF q, k
  <2> QED BY <2>8, <2>9, <2>10
<1>6. \A b \in 0 .. primCount : D[b] \in Nat
  <2>1. \A b \in 0 .. primCount : b \in 1 .. primCount - 1 \/ b = 0 \/ b = primCount
    BY KeyBitsNat
  <2> QED BY <1>3, <1>4, <2>1, KeyBitsNat
<1>7. \A b \in 1 .. primCount - 1 : D[b] < D[0]
  BY <1>3, <1>4, KeyBitsNat
<1>8. Graded(D)
  BY <1>4, <1>5, <1>6, <1>7 DEF Graded
<1> QED BY <1>8 DEF D

-----------------------------------------------------------------------------
(* The ranges of the radix tree: inside of one, all boundaries differ less *)
(* than at its ends.                                                       *)
IsRange(D, i, j) ==
  /\ i \in 0 .. primCount - 1 /\ j \in i + 1 .. primCount
  /\ \A m \in i + 1 .. j - 1 : D[m] < D[i] /\ D[m] < D[j]

LEMMA NodeEnds ==
  ASSUME Graded(differ), NEW n \in Node
  PROVE  /\ Lo(n) \in 0 .. n /\ Hi(n) \in n + 1 .. primCount - 1
         /\ \A m \in Lo(n) + 1 .. Hi(n) : m # n + 1 => differ[m] < differ[n + 1]
         /\ differ[Lo(n)] > differ[n + 1] /\ differ[Hi(n) + 1] > differ[n + 1]
         /\ IsRange(differ, Lo(n), Hi(n) + 1)
         /\ IsRange(differ, Lo(n), n + 1) /\ IsRange(differ, n + 1, Hi(n) + 1)
<1>1. n \in Nat /\ n + 1 \in 1 .. primCount - 1
  BY KeyBitsNat DEF Node
<1>2. \E l \in 0 .. n : Weaker(l, n, n) /\ differ[l] > differ[n + 1]
  <2> DEFINE U == {l \in 0 .. n : differ[l] >= differ[n + 1]}
  <2>1. 0 \in U
    BY <1>1, KeyBitsNat DEF Graded
  <2>2. PICK l \in U : \A m \in U : m <= l
    <3>1. U \in SUBSET Nat /\ \A u \in U : u <= n
      BY <1>1
    <3> QED BY <1>1, <2>1, <3>1, Largest
  <2>3. l \in 0 .. n /\ \A m \in l + 1 .. n : ~(differ[m] >= differ[n + 1])
    BY <1>1, <2>2
  <2>4. \A m \in 0 .. primCount : differ[m] \in Int
    BY DEF Graded
  <2>5. \A m \in l + 1 .. n : differ[m] < differ[n + 1]
    BY <1>1, <2>3, <2>4, KeyBitsNat
  <2>6. differ[l] # differ[n + 1]
    <3>1. CASE l = 0
      <4>1. differ[n + 1] < differ[0]
        BY <1>1 DEF Graded
      <4> QED BY <1>1, <2>3, <2>4, <3>1, <4>1, KeyBitsNat
    <3>2. CASE l # 0
      <4>1. l \in 1 .. primCount - 1 /\ l < n + 1
        BY <1>1, <2>3, <3>2, KeyBitsNat
      <4>2. ASSUME differ[l] = differ[n + 1] PROVE FALSE
        <5>1. PICK m \in l + 1 .. (n + 1) - 1 : differ[m] > differ[l]
          BY <1>1, <4>1, <4>2 DEF Graded
        <5>2. differ[m] < differ[n + 1]
          BY <1>1, <2>3, <2>5, <5>1
        <5> QED BY <1>1, <2>3, <2>4, <4>2, <5>1, <5>2, KeyBitsNat
      <4> QED BY <4>2
    <3> QED BY <3>1, <3>2
  <2>7. differ[l] > differ[n + 1]
    BY <1>1, <2>2, <2>4, <2>6, KeyBitsNat
  <2>8. Weaker(l, n, n)
    BY <1>1, <2>3, <2>5 DEF Weaker
  <2> QED BY <2>3, <2>7, <2>8
<1>3. \E h \in n + 1 .. primCount - 1 : Weaker(n, h - 1, n) /\ differ[h + 1] > differ[n + 1]
  <2> DEFINE U == {h \in n + 2 .. primCount : differ[h] >= differ[n + 1]}
  <2>1. primCount \in U
    BY <1>1, KeyBitsNat DEF Graded
  <2>2. PICK h \in U : \A m \in U : h <= m
    <3>1. U \in SUBSET Nat
      BY <1>1
    <3> QED BY <2>1, <3>1, Smallest
  <2>3. h \in n + 2 .. primCount /\ \A m \in n + 2 .. h - 1 : ~(differ[m] >= differ[n + 1])
    BY <1>1, <2>2, KeyBitsNat
  <2>4. \A m \in 0 .. primCount : differ[m] \in Int
    BY DEF Graded
  <2>5. \A m \in n + 2 .. h - 1 : differ[m] < differ[n + 1]
    BY <1>1, <2>3, <2>4, KeyBitsNat
  <2>6. differ[h] # differ[n + 1]
    <3>1. CASE h = primCount
      BY <1>1, <3>1 DEF Graded
    <3>2. CASE h # primCount
      <4>1. h \in 1 .. primCount - 1 /\ n + 1 < h
        BY <1>1, <2>3, <3>2, KeyBitsNat
      <4>2. ASSUME differ[h] = differ[n + 1] PROVE FALSE
        <5>1. PICK m \in (n + 1) + 1 .. h - 1 : differ[m] > differ[n + 1]
          BY <1>1, <4>1, <4>2 DEF Graded
        <5>2. differ[m] < differ[n + 1]
          BY <1>1, <2>3, <2>5, <5>1
        <5> QED BY <1>1, <2>3, <2>4, <4>2, <5>1, <5>2, KeyBitsNat
      <4> QED BY <4>2
    <3> QED BY <3>1, <3>2
  <2>7. differ[h] > differ[n + 1]
    BY <1>1, <2>2, <2>4, <2>6, KeyBitsNat
  <2>8. Weaker(n, (h - 1) - 1, n) /\ h - 1 \in n + 1 .. primCount - 1 /\ (h - 1) + 1 = h
    BY <1>1, <2>3, <2>5, KeyBitsNat DEF Weaker
  <2> QED BY <2>7, <2>8
<1>4. Lo(n) \in 0 .. n /\ Weaker(Lo(n), n, n) /\ differ[Lo(n)] > differ[n + 1]
  BY <1>2 DEF Lo
<1>5. Hi(n) \in n + 1 .. primCount - 1 /\ Weaker(n, Hi(n) - 1, n) /\ differ[Hi(n) + 1] > differ[n + 1]
  BY <1>3 DEF Hi
<1> DEFINE a == Lo(n)
           c == Hi(n)
<1>6. a \in 0 .. n /\ c \in n + 1 .. primCount - 1 /\ differ[a] > differ[n + 1] /\ differ[c + 1] > differ[n + 1]
  BY <1>4, <1>5
<1>7. \A m \in a + 1 .. c : m # n + 1 => differ[m] < differ[n + 1]
  <2> SUFFICES ASSUME NEW m \in a + 1 .. c, m # n + 1
               PROVE  differ[m] < differ[n + 1]
    OBVIOUS
  <2>1. m - 1 \in a .. n \/ m - 1 \in n .. c - 1
    BY <1>1, <1>6
  <2>2. m - 1 # n /\ (m - 1) + 1 = m
    BY <1>1, <1>6
  <2>3. \A l \in a .. n : l # n => differ[l + 1] < differ[n + 1]
    BY <1>4 DEF Weaker
  <2>4. \A l \in n .. c - 1 : l # n => differ[l + 1] < differ[n + 1]
    BY <1>5 DEF Weaker
  <2> HIDE DEF a, c
  <2> QED BY <2>1, <2>2, <2>3, <2>4
<1> HIDE DEF a, c
<1>8. \A m \in 0 .. primCount : differ[m] \in Int
  BY DEF Graded
<1>9. IsRange(differ, a, c + 1)
  BY <1>1, <1>6, <1>7, <1>8, KeyBitsNat DEF IsRange
<1>10. IsRange(differ, a, n + 1)
  BY <1>1, <1>6, <1>7, <1>8, KeyBitsNat DEF IsRange
<1>11. IsRange(differ, n + 1, c + 1)
  BY <1>1, <1>6, <1>7, <1>8, KeyBitsNat DEF IsRange
<1> QED BY <1>6, <1>7, <1>9, <1>10, <1>11 DEF a, c

(* The climb takes a range to the node whose range it is a half of.        *)
Root == [i |-> 0, j |-> primCount]

RangeOf(n) == [i |-> Lo(n), j |-> Hi(n) + 1]

Halves(n) == {[i |-> Lo(n), j |-> n + 1], [i |-> n + 1, j |-> Hi(n) + 1]}

TreeRange == {r \in [i : 0 .. primCount - 1, j : 1 .. primCount] : IsRange(differ, r.i, r.j)}

Inside(r, q) == q.i <= r.i /\ r.j <= q.j

LEMMA ParentOfRange ==
  ASSUME Graded(differ), NEW r \in TreeRange, r # Root
  PROVE  /\ Parent(r) \in Node
         /\ r \in Halves(Parent(r))
         /\ FarEnd(r) = IF Parent(r) = r.j - 1 THEN Lo(Parent(r)) ELSE Hi(Parent(r)) + 1
<1> DEFINE i == r.i
           j == r.j
           n == Parent(r)
<1>1. r = [i |-> i, j |-> j] /\ i \in 0 .. primCount - 1 /\ j \in i + 1 .. primCount
  BY DEF TreeRange, IsRange
<1>2. \A m \in i + 1 .. j - 1 : differ[m] < differ[i] /\ differ[m] < differ[j]
  BY DEF TreeRange, IsRange
<1>3. ~(i = 0 /\ j = primCount)
  BY <1>1 DEF Root
<1>4. n = IF JoinsRight(i, j) THEN j - 1 ELSE i - 1
  BY <1>3 DEF Parent
<1> HIDE DEF i, j, n
<1>5. \A m \in 0 .. primCount : differ[m] \in Int
  BY DEF Graded
<1>6. differ[i] # differ[j]
  <2>1. CASE i = 0
    <3>1. j \in 1 .. primCount - 1
      BY <1>1, <1>3, <2>1, KeyBitsNat
    <3>2. differ[j] < differ[0]
      BY <3>1 DEF Graded
    <3> QED BY <1>1, <1>5, <2>1, <3>1, <3>2, KeyBitsNat
  <2>2. CASE i # 0 /\ j = primCount
    <3>1. i \in 1 .. primCount - 1
      BY <1>1, <2>2, KeyBitsNat
    <3>2. differ[i] < differ[0] /\ differ[j] = differ[0]
      BY <2>2, <3>1 DEF Graded
    <3> QED BY <1>1, <1>5, <3>1, <3>2, KeyBitsNat
  <2>3. CASE i # 0 /\ j # primCount
    <3>1. i \in 1 .. primCount - 1 /\ j \in 1 .. primCount - 1 /\ i < j
      BY <1>1, <2>3, KeyBitsNat
    <3>2. ASSUME differ[i] = differ[j] PROVE FALSE
      <4>1. PICK m \in i + 1 .. j - 1 : differ[m] > differ[i]
        BY <3>1, <3>2 DEF Graded
      <4> QED BY <1>1, <1>2, <1>5, <4>1, KeyBitsNat
    <3> QED BY <3>2
  <2> QED BY <2>1, <2>2, <2>3
<1>7. CASE JoinsRight(i, j)
  <2>1. n = j - 1 /\ j # primCount /\ differ[j] < differ[i]
    <3>1. j # primCount
      BY <1>1, <1>3, <1>7 DEF JoinsRight
    <3>2. differ[j] < differ[i]
      <4>1. j \in 1 .. primCount - 1
        BY <1>1, <3>1, KeyBitsNat
      <4>2. differ[j] < differ[0]
        BY <4>1 DEF Graded
      <4> QED BY <1>7, <4>2 DEF JoinsRight
    <3> QED BY <1>4, <1>7, <3>1, <3>2
  <2>2. n \in Node /\ n \in Nat /\ n + 1 = j
    BY <1>1, <2>1, KeyBitsNat DEF Node
  <2>3. Lo(n) = i
    <3> DEFINE a == Lo(n)
    <3>1. /\ a \in 0 .. n /\ differ[a] > differ[j] /\ Hi(n) \in Nat /\ n <= Hi(n)
          /\ \A m \in a + 1 .. Hi(n) : m # j => differ[m] < differ[j]
      BY <2>2, NodeEnds
    <3> HIDE DEF a
    <3>2. ~(a < i)
      BY <1>1, <1>5, <2>1, <2>2, <3>1, KeyBitsNat
    <3>3. ~(i < a)
      BY <1>1, <1>2, <1>5, <2>1, <2>2, <3>1, KeyBitsNat
    <3> QED BY <1>1, <2>2, <3>1, <3>2, <3>3 DEF a
  <2>4. FarEnd(r) = i
    BY <1>1, <2>1 DEF FarEnd, i, j, n
  <2> QED BY <1>1, <2>1, <2>2, <2>3, <2>4 DEF Halves, i, j, n
<1>8. CASE ~JoinsRight(i, j)
  <2>1. n = i - 1 /\ i # 0 /\ differ[i] < differ[j]
    <3>1. i # 0
      BY <1>8 DEF JoinsRight
    <3>2. differ[i] < differ[j]
      <4>1. CASE j = primCount
        <5>1. i \in 1 .. primCount - 1
          BY <1>1, <3>1, KeyBitsNat
        <5>2. differ[i] < differ[0] /\ differ[j] = differ[0]
          BY <4>1, <5>1 DEF Graded
        <5> QED BY <5>2
      <4>2. CASE j # primCount
        <5>1. ~(differ[j] < differ[i])
          BY <1>8, <4>2 DEF JoinsRight
        <5>2. differ[i] \in Int /\ differ[j] \in Int
          BY <1>1, <1>5, KeyBitsNat
        <5> QED BY <1>6, <5>1, <5>2
      <4> QED BY <4>1, <4>2
    <3> QED BY <1>4, <1>8, <3>1, <3>2
  <2>2. n \in Node /\ n \in Nat /\ n + 1 = i
    BY <1>1, <2>1, KeyBitsNat DEF Node
  <2>3. Hi(n) + 1 = j
    <3> DEFINE c == Hi(n) + 1
    <3>1. /\ c \in n + 2 .. primCount /\ differ[c] > differ[i] /\ Lo(n) \in Nat /\ Lo(n) <= n
          /\ \A m \in Lo(n) + 1 .. c - 1 : m # i => differ[m] < differ[i]
      <4>1. /\ Lo(n) \in 0 .. n /\ Hi(n) \in n + 1 .. primCount - 1
            /\ \A m \in Lo(n) + 1 .. Hi(n) : m # n + 1 => differ[m] < differ[n + 1]
            /\ differ[Hi(n) + 1] > differ[n + 1]
        BY <2>2, NodeEnds
      <4>2. c - 1 = Hi(n)
        BY <2>2, <4>1
      <4> QED BY <2>2, <4>1, <4>2, KeyBitsNat
    <3> HIDE DEF c
    <3>2. ~(j < c)
      BY <1>1, <1>5, <2>1, <2>2, <3>1, KeyBitsNat
    <3>3. ~(c < j)
      BY <1>1, <1>2, <1>5, <2>1, <2>2, <3>1, KeyBitsNat
    <3> QED BY <1>1, <2>2, <3>1, <3>2, <3>3, KeyBitsNat DEF c
  <2>4. Parent(r) = r.i - 1 /\ r.i - 1 # r.j - 1
    BY <1>1, <2>1 DEF i, j, n
  <2>5. FarEnd(r) = j
    BY <2>4 DEF FarEnd, j
  <2> QED BY <1>1, <2>1, <2>2, <2>3, <2>4, <2>5 DEF Halves, i, j, n
<1> QED BY <1>7, <1>8

ItemOf(r) ==
  IF r.j = r.i + 1 THEN <<"leaf", r.i>> ELSE <<"node", Strongest(r.i, r.j - 2)>>

LEMMA NodeRange ==
  ASSUME Graded(differ), NEW n \in Node
  PROVE  /\ RangeOf(n) \in TreeRange
         /\ RangeOf(n).j # RangeOf(n).i + 1
         /\ ItemOf(RangeOf(n)) = <<"node", n>>
         /\ Halves(n) \subseteq TreeRange
<1>1. /\ n \in Nat /\ n <= primCount - 2
      /\ Lo(n) \in 0 .. n /\ Hi(n) \in n + 1 .. primCount - 1
      /\ \A m \in Lo(n) + 1 .. Hi(n) : m # n + 1 => differ[m] < differ[n + 1]
      /\ IsRange(differ, Lo(n), Hi(n) + 1)
      /\ IsRange(differ, Lo(n), n + 1) /\ IsRange(differ, n + 1, Hi(n) + 1)
  BY NodeEnds, KeyBitsNat DEF Node
<1> DEFINE a == Lo(n)
           c == Hi(n)
<1>2. Weaker(a, c - 1, n)
  <2> SUFFICES ASSUME NEW m \in a .. c - 1, m # n
               PROVE  differ[m + 1] < differ[n + 1]
    BY DEF Weaker
  <2>1. m + 1 \in a + 1 .. c /\ m + 1 # n + 1
    BY <1>1
  <2> QED BY <1>1, <2>1
<1>3. \A m \in a .. c - 1 : Weaker(a, c - 1, m) => m = n
  <2> SUFFICES ASSUME NEW m \in a .. c - 1, Weaker(a, c - 1, m), m # n
               PROVE  FALSE
    OBVIOUS
  <2>1. n \in a .. c - 1 /\ m + 1 \in 0 .. primCount /\ n + 1 \in 0 .. primCount
    BY <1>1, KeyBitsNat
  <2>2. differ[n + 1] < differ[m + 1] /\ differ[m + 1] < differ[n + 1]
    BY <1>2, <2>1 DEF Weaker
  <2>3. differ[n + 1] \in Int /\ differ[m + 1] \in Int
    BY <2>1 DEF Graded
  <2> QED BY <2>2, <2>3
<1>4. Strongest(a, c - 1) = n
  <2>1. n \in a .. c - 1
    BY <1>1
  <2> HIDE DEF a, c
  <2> QED BY <1>2, <1>3, <2>1 DEF Strongest
<1>5. (c + 1) - 2 = c - 1
  BY <1>1
<1>6. RangeOf(n).i = a /\ RangeOf(n).j = c + 1 /\ c + 1 # a + 1
  BY <1>1 DEF RangeOf
<1>7. ItemOf(RangeOf(n)) = <<"node", n>>
  BY <1>4, <1>5, <1>6 DEF ItemOf
<1>8. /\ a \in 0 .. primCount - 1 /\ n + 1 \in 0 .. primCount - 1
      /\ n + 1 \in 1 .. primCount /\ c + 1 \in 1 .. primCount
  BY <1>1, KeyBitsNat
<1> QED BY <1>1, <1>6, <1>7, <1>8 DEF TreeRange, RangeOf, Halves

(* The halves of a node are the ranges that climb to it.                   *)
LEMMA HalvesClimb ==
  ASSUME Graded(differ), NEW n \in Node, NEW r \in Halves(n)
  PROVE  r \in TreeRange /\ r # Root /\ Parent(r) = n
<1>1. /\ n \in Nat /\ n <= primCount - 2
      /\ Lo(n) \in 0 .. n /\ Hi(n) \in n + 1 .. primCount - 1
      /\ differ[Lo(n)] > differ[n + 1] /\ differ[Hi(n) + 1] > differ[n + 1]
  BY NodeEnds, KeyBitsNat DEF Node
<1>2. \A m \in 0 .. primCount : differ[m] \in Int
  BY DEF Graded
<1>3. r \in TreeRange
  BY NodeRange
<1>4. CASE r = [i |-> Lo(n), j |-> n + 1]
  <2>1. r.i = Lo(n) /\ r.j = n + 1 /\ r.j # primCount
    BY <1>1, <1>4, KeyBitsNat
  <2>2. JoinsRight(r.i, r.j)
    BY <1>1, <1>2, <2>1, KeyBitsNat DEF JoinsRight
  <2>3. Parent(r) = r.j - 1
    BY <2>1, <2>2 DEF Parent
  <2> QED BY <1>1, <1>3, <2>1, <2>3 DEF Root
<1>5. CASE r = [i |-> n + 1, j |-> Hi(n) + 1]
  <2>1. r.i = n + 1 /\ r.j = Hi(n) + 1 /\ r.i # 0
    BY <1>1, <1>5
  <2>2. ~(differ[Hi(n) + 1] < differ[n + 1])
    BY <1>1, <1>2, KeyBitsNat
  <2>3. ~JoinsRight(r.i, r.j)
    BY <2>1, <2>2 DEF JoinsRight
  <2>4. Parent(r) = r.i - 1
    BY <2>1, <2>3 DEF Parent
  <2> QED BY <1>1, <1>3, <2>1, <2>4 DEF Root
<1> QED BY <1>4, <1>5 DEF Halves

(* Both halves of a node, seen from one.                                   *)
LEMMA HalvesMeet ==
  ASSUME Graded(differ), NEW n \in Node, NEW r \in Halves(n), NEW q \in Halves(n)
  PROVE  /\ Inside(r, RangeOf(n)) /\ r # RangeOf(n)
         /\ r # q => FarEnd(r) # FarEnd(q) /\ Grown(r, FarEnd(q)) = RangeOf(n)
         /\ FarEnd(r) \in 0 .. primCount
<1>1. /\ n \in Nat /\ n <= primCount - 2
      /\ Lo(n) \in 0 .. n /\ Hi(n) \in n + 1 .. primCount - 1
  BY NodeEnds, KeyBitsNat DEF Node
<1>2. Parent(r) = n /\ Parent(q) = n
  BY HalvesClimb
<1> DEFINE left  == [i |-> Lo(n), j |-> n + 1]
           right == [i |-> n + 1, j |-> Hi(n) + 1]
<1>3. \A h : h = left /\ Parent(h) = n =>
        /\ FarEnd(h) = Lo(n) /\ Grown(h, Hi(n) + 1) = RangeOf(n)
  <2>1. left.i = Lo(n) /\ left.j = n + 1 /\ n # left.i - 1
    BY <1>1
  <2>2. [left EXCEPT !.j = Hi(n) + 1] = RangeOf(n)
    BY DEF RangeOf
  <2> HIDE DEF left
  <2> QED BY <2>1, <2>2 DEF FarEnd, Grown
<1>4. \A h : h = right /\ Parent(h) = n =>
        /\ FarEnd(h) = Hi(n) + 1 /\ Grown(h, Lo(n)) = RangeOf(n)
  <2>1. right.i = n + 1 /\ right.j = Hi(n) + 1 /\ n = right.i - 1
    BY <1>1
  <2>2. [right EXCEPT !.i = Lo(n)] = RangeOf(n)
    BY DEF RangeOf
  <2> HIDE DEF right
  <2> QED BY <2>1, <2>2 DEF FarEnd, Grown
<1>5. Lo(n) # Hi(n) + 1 /\ Lo(n) \in 0 .. primCount /\ Hi(n) + 1 \in 0 .. primCount
  BY <1>1, KeyBitsNat
<1>6. /\ Inside(left, RangeOf(n)) /\ Inside(right, RangeOf(n))
      /\ left # RangeOf(n) /\ right # RangeOf(n)
  BY <1>1 DEF Inside, RangeOf
<1>7. Halves(n) = {left, right}
  BY DEF Halves
<1> HIDE DEF left, right
<1> QED BY <1>2, <1>3, <1>4, <1>5, <1>6, <1>7

(* A range that holds a half of a node and more holds the whole node, and  *)
(* one in a node that is not the whole node is in a half.                  *)
LEMMA AboveHalf ==
  ASSUME Graded(differ), NEW n \in Node, NEW r \in Halves(n), NEW q \in TreeRange,
         Inside(r, q), q # r
  PROVE  Inside(RangeOf(n), q)
<1>1. /\ n \in Nat /\ n <= primCount - 2
      /\ Lo(n) \in 0 .. n /\ Hi(n) \in n + 1 .. primCount - 1
      /\ \A m \in Lo(n) + 1 .. Hi(n) : m # n + 1 => differ[m] < differ[n + 1]
      /\ differ[Lo(n)] > differ[n + 1] /\ differ[Hi(n) + 1] > differ[n + 1]
  BY NodeEnds, KeyBitsNat DEF Node
<1> DEFINE a == Lo(n)
           c == Hi(n) + 1
           k == q.i
           l == q.j
<1>2. /\ q = [i |-> k, j |-> l] /\ k \in 0 .. primCount - 1 /\ l \in k + 1 .. primCount
      /\ \A m \in k + 1 .. l - 1 : differ[m] < differ[k] /\ differ[m] < differ[l]
  BY DEF TreeRange, IsRange
<1>3. \A m \in 0 .. primCount : differ[m] \in Int
  BY DEF Graded
<1>4. /\ a \in 0 .. n /\ c \in n + 2 .. primCount
      /\ \A m \in a + 1 .. c - 1 : m # n + 1 => differ[m] < differ[n + 1]
      /\ differ[a] > differ[n + 1] /\ differ[c] > differ[n + 1]
  BY <1>1, KeyBitsNat
<1>5. r = [i |-> a, j |-> n + 1] \/ r = [i |-> n + 1, j |-> c]
  BY DEF Halves
<1> HIDE DEF a, c, k, l
<1>6. CASE r = [i |-> a, j |-> n + 1]
  <2>1. k <= a /\ n + 1 <= l /\ ~(k = a /\ l = n + 1)
    BY <1>2, <1>6 DEF Inside, k, l
  <2>2. l >= c
    BY <1>1, <1>2, <1>3, <1>4, <2>1, KeyBitsNat
  <2> QED BY <2>1, <2>2 DEF Inside, RangeOf, a, c, k, l
<1>7. CASE r = [i |-> n + 1, j |-> c]
  <2>1. k <= n + 1 /\ c <= l /\ ~(k = n + 1 /\ l = c)
    BY <1>2, <1>7 DEF Inside, k, l
  <2>2. k <= a
    BY <1>1, <1>2, <1>3, <1>4, <2>1, KeyBitsNat
  <2> QED BY <2>1, <2>2 DEF Inside, RangeOf, a, c, k, l
<1> QED BY <1>5, <1>6, <1>7

LEMMA BelowNode ==
  ASSUME Graded(differ), NEW n \in Node, NEW q \in TreeRange,
         Inside(q, RangeOf(n)), q # RangeOf(n)
  PROVE  \E h \in Halves(n) : Inside(q, h)
<1>1. /\ n \in Nat /\ n <= primCount - 2
      /\ Lo(n) \in 0 .. n /\ Hi(n) \in n + 1 .. primCount - 1
      /\ \A m \in Lo(n) + 1 .. Hi(n) : m # n + 1 => differ[m] < differ[n + 1]
  BY NodeEnds, KeyBitsNat DEF Node
<1> DEFINE a == Lo(n)
           c == Hi(n) + 1
           k == q.i
           l == q.j
<1>2. /\ q = [i |-> k, j |-> l] /\ k \in 0 .. primCount - 1 /\ l \in k + 1 .. primCount
      /\ \A m \in k + 1 .. l - 1 : differ[m] < differ[k] /\ differ[m] < differ[l]
  BY DEF TreeRange, IsRange
<1>3. \A m \in 0 .. primCount : differ[m] \in Int
  BY DEF Graded
<1>4. /\ a \in 0 .. n /\ c \in n + 2 .. primCount
      /\ \A m \in a + 1 .. c - 1 : m # n + 1 => differ[m] < differ[n + 1]
  BY <1>1, KeyBitsNat
<1>5. a <= k /\ l <= c /\ ~(k = a /\ l = c)
  BY <1>2 DEF Inside, RangeOf
<1> HIDE DEF a, c, k, l
<1>6. l <= n + 1 \/ n + 1 <= k
  BY <1>1, <1>2, <1>3, <1>4, <1>5, KeyBitsNat
<1>7. /\ [i |-> a, j |-> n + 1] \in Halves(n) /\ [i |-> n + 1, j |-> c] \in Halves(n)
  BY DEF Halves, a, c
<1>8. /\ l <= n + 1 => Inside(q, [i |-> a, j |-> n + 1])
      /\ n + 1 <= k => Inside(q, [i |-> n + 1, j |-> c])
  BY <1>5 DEF Inside, k, l
<1> QED BY <1>6, <1>7, <1>8

(* A half of a node is that child of the node in the radix tree.           *)
LEMMA HalfIsChild ==
  ASSUME Graded(differ), NEW n \in Node
  PROVE  /\ RadixChild(n, 0) = ItemOf([i |-> Lo(n), j |-> n + 1])
         /\ RadixChild(n, 1) = ItemOf([i |-> n + 1, j |-> Hi(n) + 1])
<1>1. /\ n \in Nat /\ n <= primCount - 2
      /\ Lo(n) \in 0 .. n /\ Hi(n) \in n + 1 .. primCount - 1
  BY NodeEnds, KeyBitsNat DEF Node
<1> DEFINE a == Lo(n)
           c == Hi(n)
<1>2. /\ (n + 1 = a + 1) <=> (a = n)
      /\ (c + 1 = n + 1 + 1) <=> (c = n + 1)
      /\ n + 1 - 2 = n - 1 /\ c + 1 - 2 = c - 1
      /\ a \in Nat /\ c \in Nat /\ n \in Nat
  BY <1>1
<1> HIDE DEF a, c
<1>3. ItemOf([i |-> a, j |-> n + 1]) = IF a = n THEN <<"leaf", n>> ELSE <<"node", Strongest(a, n - 1)>>
  BY <1>2 DEF ItemOf
<1>4. ItemOf([i |-> n + 1, j |-> c + 1])
        = IF c = n + 1 THEN <<"leaf", n + 1>> ELSE <<"node", Strongest(n + 1, c - 1)>>
  BY <1>2 DEF ItemOf
<1> QED BY <1>3, <1>4 DEF RadixChild, a, c

(* Every range of more than one code is that of a node.                    *)
LEMMA RangeHasNode ==
  ASSUME Graded(differ), NEW r \in TreeRange, r.j # r.i + 1
  PROVE  \E n \in Node : RangeOf(n) = r
<1> DEFINE i == r.i
           j == r.j
           U == {differ[m] : m \in i + 1 .. j - 1}
<1>1. r = [i |-> i, j |-> j] /\ i \in 0 .. primCount - 1 /\ j \in i + 2 .. primCount
  <2>1. r = [i |-> i, j |-> j] /\ i \in 0 .. primCount - 1 /\ j \in i + 1 .. primCount /\ j # i + 1
    BY DEF TreeRange, IsRange
  <2> HIDE DEF i, j
  <2> QED BY <2>1, KeyBitsNat
<1>2. \A m \in i + 1 .. j - 1 : differ[m] < differ[i] /\ differ[m] < differ[j]
  BY DEF TreeRange, IsRange
<1> HIDE DEF i, j
<1>3. \A m \in 0 .. primCount : differ[m] \in Nat
  BY DEF Graded
<1>4. \A m \in i + 1 .. j - 1 : m \in 1 .. primCount - 1 /\ m \in 0 .. primCount
  BY <1>1, KeyBitsNat
<1>5. U \in SUBSET Nat /\ U # {} /\ differ[i] \in Nat /\ \A u \in U : u <= differ[i]
  <2>1. i + 1 \in i + 1 .. j - 1 /\ i \in 0 .. primCount
    BY <1>1, KeyBitsNat
  <2>2. \A m \in i + 1 .. j - 1 : differ[m] \in Nat /\ differ[i] \in Nat /\ differ[m] <= differ[i]
    BY <1>2, <1>3, <1>4, <2>1
  <2> QED BY <2>1, <2>2
<1>6. PICK u \in U : \A v \in U : v <= u
  BY <1>5, Largest
<1>7. PICK b \in i + 1 .. j - 1 : u = differ[b]
  BY <1>6
<1>8. \A m \in i + 1 .. j - 1 : differ[m] <= differ[b]
  BY <1>6, <1>7
<1>9. \A m \in i + 1 .. j - 1 : m # b => differ[m] < differ[b]
  <2> SUFFICES ASSUME NEW m \in i + 1 .. j - 1, m # b, ~(differ[m] < differ[b])
               PROVE  FALSE
    OBVIOUS
  <2>1. differ[m] = differ[b]
    BY <1>3, <1>4, <1>7, <1>8
  <2>2. CASE m < b
    <3>1. PICK l \in m + 1 .. b - 1 : differ[l] > differ[m]
      BY <1>4, <1>7, <2>1, <2>2 DEF Graded
    <3>2. l \in i + 1 .. j - 1
      BY <1>1, <1>7
    <3> QED BY <1>3, <1>4, <1>8, <2>1, <3>1, <3>2
  <2>3. CASE b < m
    <3>1. PICK l \in b + 1 .. m - 1 : differ[l] > differ[b]
      BY <1>4, <1>7, <2>1, <2>3 DEF Graded
    <3>2. l \in i + 1 .. j - 1
      BY <1>1, <1>7
    <3> QED BY <1>3, <1>4, <1>8, <3>1, <3>2
  <2> QED BY <1>1, <1>7, <2>2, <2>3
<1> DEFINE n == b - 1
<1>10. n \in Node /\ n \in Nat /\ n + 1 = b
  BY <1>1, <1>7, KeyBitsNat DEF Node
<1> HIDE DEF n
<1> DEFINE a == Lo(n)
           c == Hi(n) + 1
<1>11. /\ a \in 0 .. n /\ c \in n + 2 .. primCount
       /\ \A m \in a + 1 .. c - 1 : m # b => differ[m] < differ[b]
       /\ differ[a] > differ[b] /\ differ[c] > differ[b]
  <2>1. /\ Lo(n) \in 0 .. n /\ Hi(n) \in n + 1 .. primCount - 1
        /\ \A m \in Lo(n) + 1 .. Hi(n) : m # n + 1 => differ[m] < differ[n + 1]
        /\ differ[Lo(n)] > differ[n + 1] /\ differ[Hi(n) + 1] > differ[n + 1]
    BY <1>10, NodeEnds
  <2>2. c - 1 = Hi(n)
    BY <1>10, <2>1
  <2> QED BY <1>10, <2>1, <2>2, KeyBitsNat
<1> HIDE DEF a, c
<1>12. a = i
  <2>1. ~(a < i)
    BY <1>1, <1>2, <1>3, <1>7, <1>10, <1>11, KeyBitsNat
  <2>2. ~(i < a)
    BY <1>1, <1>3, <1>7, <1>9, <1>10, <1>11, KeyBitsNat
  <2> QED BY <1>1, <1>10, <1>11, <2>1, <2>2
<1>13. c = j
  <2>1. ~(j < c)
    BY <1>1, <1>2, <1>3, <1>7, <1>10, <1>11, KeyBitsNat
  <2>2. ~(c < j)
    BY <1>1, <1>3, <1>7, <1>9, <1>10, <1>11, KeyBitsNat
  <2> QED BY <1>1, <1>10, <1>11, <2>1, <2>2, KeyBitsNat
<1>14. RangeOf(n) = r
  BY <1>1, <1>12, <1>13 DEF RangeOf, a, c
<1> QED BY <1>10, <1>14

(* The tree depends on nothing but the codes.                              *)
LEMMA TreeFrame ==
  ASSUME UNCHANGED differ
  PROVE  /\ Graded(differ)' <=> Graded(differ)
         /\ \A n : RangeOf(n)' = RangeOf(n) /\ Halves(n)' = Halves(n)
         /\ TreeRange' = TreeRange
         /\ \A r : Parent(r)' = Parent(r) /\ FarEnd(r)' = FarEnd(r) /\ ItemOf(r)' = ItemOf(r)
         /\ \A n, k : RadixChild(n, k)' = RadixChild(n, k)
         /\ \A n : InternalChildren(n)' = InternalChildren(n)
         /\ \A n : Lo(n)' = Lo(n) /\ Hi(n)' = Hi(n)
         /\ \A l, h : Strongest(l, h)' = Strongest(l, h)
<1>1. \A n : Lo(n)' = Lo(n)
  BY DEF Lo, Weaker
<1>2. \A n : Hi(n)' = Hi(n)
  BY DEF Hi, Weaker
<1>3. \A l, h : Strongest(l, h)' = Strongest(l, h)
  BY DEF Strongest, Weaker
<1>4. \A r : Parent(r)' = Parent(r)
  BY DEF Parent, JoinsRight
<1>5. \A r : FarEnd(r)' = FarEnd(r) /\ ItemOf(r)' = ItemOf(r)
  BY <1>3, <1>4 DEF FarEnd, ItemOf
<1>6. \A n, k : RadixChild(n, k)' = RadixChild(n, k)
  BY <1>1, <1>2, <1>3 DEF RadixChild
<1>7. \A n : InternalChildren(n)' = InternalChildren(n)
  BY <1>6 DEF InternalChildren
<1>8. \A n : RangeOf(n)' = RangeOf(n) /\ Halves(n)' = Halves(n)
  BY <1>1, <1>2 DEF RangeOf, Halves
<1>9. TreeRange' = TreeRange
  BY DEF TreeRange, IsRange
<1>10. Graded(differ)' <=> Graded(differ)
  BY DEF Graded
<1> QED BY <1>1, <1>2, <1>3, <1>4, <1>5, <1>6, <1>7, <1>8, <1>9, <1>10

-----------------------------------------------------------------------------
(* The climb.  A thread that climbs is alone in its range; of a node that  *)
(* nobody has entered either no half has been left or exactly one, whose   *)
(* far end is in the counter.                                              *)
Places == {"start", "meet", "fit", "link", "fence", "done"}

Entered(n) == \E t \in Leaf : Inside(RangeOf(n), range[t])

Left(t, n) == pc[t] = "done" /\ range[t] \in Halves(n)

Untouched(n) == updateCounters[n] = InvalidValue /\ \A t \in Leaf : ~Left(t, n)

Halved(n) ==
  /\ \E t \in Leaf : Left(t, n)
  /\ \A t \in Leaf : Left(t, n) => updateCounters[n] = FarEnd(range[t])

PlaceInv(t) ==
  /\ range[t].i <= t /\ t < range[t].j
  /\ pc[t] = "start" => range[t] = [i |-> t, j |-> t + 1]
  /\ pc[t] \in {"fit", "link", "fence"} => range[t].j # range[t].i + 1
  /\ pc[t] \in {"start", "meet", "fence"} => range[t] # Root
  /\ pc[t] = "done" /\ range[t] = Root => updateCounters[primCount - 1] = Strongest(0, primCount - 2)

ClimbTyped ==
  /\ Graded(differ)
  /\ pc \in [Leaf -> Places]
  /\ range \in [Leaf -> TreeRange]
  /\ index = [t \in Leaf |-> ItemOf(range[t])]
  /\ updateCounters \in [Leaf -> (0 .. primCount) \cup {InvalidValue}]

ClimbInv ==
  /\ ClimbTyped
  /\ \A t \in Leaf : PlaceInv(t)
  /\ \A t, u \in Leaf : t # u /\ pc[t] # "done" => ~Inside(range[t], range[u])
  /\ \A n \in Node : Entered(n) \/ Untouched(n) \/ Halved(n)

LEMMA LeafRange ==
  ASSUME NEW t \in Leaf
  PROVE  [i |-> t, j |-> t + 1] \in TreeRange /\ [i |-> t, j |-> t + 1] # Root
BY KeyBitsNat DEF Leaf, TreeRange, IsRange, Root

LEMMA ClimbInit == Init => ClimbInv
<1> SUFFICES ASSUME Init PROVE ClimbInv
  OBVIOUS
<1> DEFINE leaf(t) == [i |-> t, j |-> t + 1]
<1>1. /\ pc = [t \in Leaf |-> "start"] /\ range = [t \in Leaf |-> leaf(t)]
      /\ index = [t \in Leaf |-> <<"leaf", t>>] /\ updateCounters = [a \in Leaf |-> InvalidValue]
  BY DEF Init, FreshCounter
<1>2. Graded(differ)
  <2>1. PICK s \in Sorted : differ = Differences(s)
    BY DEF Init
  <2> QED BY <2>1, DifferencesGraded
<1>3. \A t \in Leaf : leaf(t) \in TreeRange /\ leaf(t) # Root /\ ItemOf(leaf(t)) = <<"leaf", t>>
  BY LeafRange DEF ItemOf
<1>4. ClimbTyped
  BY <1>1, <1>2, <1>3 DEF ClimbTyped, Places
<1>5. \A t \in Leaf : PlaceInv(t)
  <2> SUFFICES ASSUME NEW t \in Leaf PROVE PlaceInv(t)
    OBVIOUS
  <2>1. pc[t] = "start" /\ range[t] = [i |-> t, j |-> t + 1] /\ range[t] # Root
    BY <1>1, <1>3
  <2>2. range[t].i <= t /\ t < range[t].j
    BY <2>1 DEF Leaf
  <2> QED BY <2>1, <2>2 DEF PlaceInv
<1>6. \A t, u \in Leaf : t # u => ~Inside(range[t], range[u])
  BY <1>1, KeyBitsNat DEF Inside, Leaf
<1>7. \A n \in Node : Untouched(n)
  BY <1>1, KeyBitsNat DEF Untouched, Left, Node, Leaf
<1> QED BY <1>4, <1>5, <1>6, <1>7 DEF ClimbInv

(* A step that leaves ranges and meeting counters alone.                   *)
LEMMA QuietClimb ==
  ASSUME ClimbInv, UNCHANGED <<differ, range, index>>,
         pc' \in [Leaf -> Places], updateCounters' \in [Leaf -> (0 .. primCount) \cup {InvalidValue}],
         \A n \in Node : updateCounters'[n] = updateCounters[n],
         \A t \in Leaf : pc[t] = "done" => pc'[t] = "done",
         \A t \in Leaf : pc'[t] = "done" => pc[t] = "done" \/ range[t] = Root,
         \A t \in Leaf : PlaceInv(t)'
  PROVE  ClimbInv'
<1>1. ClimbTyped'
  BY TreeFrame DEF ClimbInv, ClimbTyped
<1>2. \A t, u \in Leaf : t # u /\ pc'[t] # "done" => ~Inside(range'[t], range'[u])
  BY DEF ClimbInv
<1>3. ASSUME NEW n \in Node
      PROVE  (Entered(n) \/ Untouched(n) \/ Halved(n))'
  <2>1. \A t \in Leaf : Left(t, n)' <=> Left(t, n)
    <3>1. Halves(n)' = Halves(n) /\ \A r \in Halves(n) : r # Root
      BY TreeFrame, HalvesClimb DEF ClimbInv, ClimbTyped
    <3> QED BY <3>1 DEF Left
  <2>2. Entered(n)' <=> Entered(n)
    BY TreeFrame DEF Entered, Inside
  <2>3. \A t \in Leaf : FarEnd(range[t])' = FarEnd(range[t])
    BY TreeFrame
  <2>4. Entered(n) \/ Untouched(n) \/ Halved(n)
    BY DEF ClimbInv
  <2> QED BY <2>1, <2>2, <2>3, <2>4 DEF Untouched, Halved
<1> QED BY <1>1, <1>2, <1>3 DEF ClimbInv, Inside

(* Where two siblings meet, the first leaves its far end, and the second   *)
(* goes on with the range of the node.                                     *)
LEMMA MeetsSibling ==
  ASSUME ClimbInv, NEW t \in Leaf, pc[t] = "meet"
  PROVE  LET p == Parent(range[t])
             k == updateCounters[p]
         IN /\ p \in Node /\ range[t] \in Halves(p) /\ ~Entered(p)
            /\ FarEnd(range[t]) \in 0 .. primCount
            /\ k = InvalidValue => Untouched(p)
            /\ k # InvalidValue =>
                 /\ Grown(range[t], k) = RangeOf(p)
                 /\ \E v \in Leaf : Left(v, p) /\ range[v] # range[t]
<1> DEFINE r == range[t]
           p == Parent(r)
           k == updateCounters[p]
<1>1. r \in TreeRange /\ r # Root /\ Graded(differ)
  BY DEF ClimbInv, ClimbTyped, PlaceInv
<1>2. p \in Node /\ r \in Halves(p)
  BY <1>1, ParentOfRange
<1> HIDE DEF p
<1>3. FarEnd(r) \in 0 .. primCount /\ Inside(r, RangeOf(p)) /\ r # RangeOf(p)
  BY <1>1, <1>2, HalvesMeet
<1>4. RangeOf(p) \in TreeRange
  BY <1>1, <1>2, NodeRange
<1>5. ~Entered(p)
  <2> SUFFICES ASSUME NEW u \in Leaf, Inside(RangeOf(p), range[u])
               PROVE  FALSE
    BY DEF Entered
  <2>1. range[u] \in TreeRange
    BY DEF ClimbInv, ClimbTyped
  <2>2. Inside(r, range[u])
    BY <1>1, <1>3, <1>4, <2>1, KeyBitsNat DEF Inside, TreeRange
  <2>3. u = t
    BY <2>2 DEF ClimbInv
  <2>4. r = RangeOf(p)
    BY <1>1, <1>3, <1>4, <2>3, KeyBitsNat DEF Inside, TreeRange
  <2> QED BY <1>3, <2>4
<1>6. Untouched(p) \/ Halved(p)
  BY <1>2, <1>5 DEF ClimbInv
<1>7. \A v \in Leaf : Left(v, p) =>
        range[v] # r /\ FarEnd(range[v]) \in Nat /\ Grown(r, FarEnd(range[v])) = RangeOf(p)
  <2> SUFFICES ASSUME NEW v \in Leaf, Left(v, p)
               PROVE  range[v] # r /\ FarEnd(range[v]) \in Nat /\ Grown(r, FarEnd(range[v])) = RangeOf(p)
    OBVIOUS
  <2>1. v # t /\ range[v] \in Halves(p)
    BY DEF Left
  <2>2. range[v] # r
    <3>1. ~Inside(r, range[v])
      BY <2>1 DEF ClimbInv
    <3>2. Inside(r, r)
      BY <1>1, KeyBitsNat DEF Inside, TreeRange
    <3> QED BY <3>1, <3>2
  <2>3. FarEnd(range[v]) \in 0 .. primCount
    BY <1>1, <1>2, <2>1, HalvesMeet
  <2>4. Grown(r, FarEnd(range[v])) = RangeOf(p)
    BY <1>1, <1>2, <2>1, <2>2, HalvesMeet
  <2> QED BY <2>2, <2>3, <2>4, KeyBitsNat
<1>8. k = InvalidValue => Untouched(p)
  BY <1>6, <1>7, InvalidAssumption DEF Halved
<1>9. k # InvalidValue =>
        Grown(r, k) = RangeOf(p) /\ \E v \in Leaf : Left(v, p) /\ range[v] # r
  BY <1>6, <1>7 DEF Untouched, Halved
<1> QED BY <1>2, <1>3, <1>5, <1>8, <1>9 DEF p

LEMMA MeetKeepsClimb ==
  ASSUME ClimbInv, NEW t \in Leaf, Meet(t)
  PROVE  ClimbInv'
<1> DEFINE r == range[t]
           p == Parent(r)
           k == updateCounters[p]
<1>1. /\ Graded(differ) /\ r \in TreeRange /\ PlaceInv(t) /\ pc[t] = "meet"
      /\ pc \in [Leaf -> Places] /\ range \in [Leaf -> TreeRange]
      /\ updateCounters \in [Leaf -> (0 .. primCount) \cup {InvalidValue}]
      /\ index = [u \in Leaf |-> ItemOf(range[u])]
      /\ \A u \in Leaf : PlaceInv(u)
  BY DEF ClimbInv, ClimbTyped, Meet
<1>2. /\ p \in Node /\ r \in Halves(p) /\ ~Entered(p)
      /\ FarEnd(r) \in 0 .. primCount
      /\ k = InvalidValue => Untouched(p)
      /\ k # InvalidValue =>
           Grown(r, k) = RangeOf(p) /\ \E v \in Leaf : Left(v, p) /\ range[v] # r
  BY <1>1, MeetsSibling
<1>3. /\ UNCHANGED differ
      /\ updateCounters' = [updateCounters EXCEPT ![p] = FarEnd(r)]
  BY DEF Meet
<1>4. p \in Leaf /\ p # primCount - 1 /\ primCount - 1 \notin Node /\ Node \subseteq Leaf
  BY <1>2, KeyBitsNat DEF Node, Leaf
<1>5. /\ updateCounters' \in [Leaf -> (0 .. primCount) \cup {InvalidValue}]
      /\ updateCounters'[p] = FarEnd(r) /\ updateCounters'[primCount - 1] = updateCounters[primCount - 1]
      /\ \A n \in Node : n # p => updateCounters'[n] = updateCounters[n]
  <2> HIDE DEF p, r
  <2> QED BY <1>1, <1>2, <1>3, <1>4
<1>6. Graded(differ)'
  BY <1>1, <1>3, TreeFrame
<1>7. r # Root
  BY <1>1 DEF PlaceInv
<1>8. \A n \in Node : r \in Halves(n) => n = p
  BY <1>1, HalvesClimb
<1> HIDE DEF p
<1>9. CASE k = InvalidValue
  <2>1. pc' = [pc EXCEPT ![t] = "done"] /\ UNCHANGED <<range, index>>
    BY <1>9 DEF Meet, p
  <2>2. ClimbTyped'
    BY <1>1, <1>3, <1>5, <1>6, <2>1, TreeFrame DEF ClimbTyped, Places
  <2>3. \A u \in Leaf : PlaceInv(u)'
    <3> SUFFICES ASSUME NEW u \in Leaf PROVE PlaceInv(u)'
      OBVIOUS
    <3>1. Strongest(0, primCount - 2)' = Strongest(0, primCount - 2)
      BY <1>3, TreeFrame
    <3>2. range'[u] = range[u] /\ PlaceInv(u)
      BY <1>1, <2>1
    <3>3. CASE u = t
      BY <1>1, <1>7, <2>1, <3>2, <3>3 DEF PlaceInv, Root
    <3>4. CASE u # t
      BY <1>1, <1>5, <2>1, <3>1, <3>2, <3>4 DEF PlaceInv, Root
    <3> QED BY <3>3, <3>4
  <2>4. \A u, v \in Leaf : u # v /\ pc'[u] # "done" => ~Inside(range'[u], range'[v])
    BY <1>1, <2>1 DEF ClimbInv
  <2>5. ASSUME NEW n \in Node
        PROVE  (Entered(n) \/ Untouched(n) \/ Halved(n))'
    <3>1. \A u \in Leaf : FarEnd(range[u])' = FarEnd(range[u]) /\ range'[u] = range[u]
      BY <1>3, <2>1, TreeFrame
    <3>2. Halves(n)' = Halves(n) /\ (Entered(n)' <=> Entered(n))
      BY <1>3, <2>1, TreeFrame DEF Entered, Inside
    <3>3. CASE n = p
      <4>1. Untouched(p)
        BY <1>2, <1>9
      <4>2. \A u \in Leaf : Left(u, n)' <=> u = t
        BY <1>1, <1>2, <2>1, <3>1, <3>2, <3>3, <4>1 DEF Left, Untouched
      <4>3. \A u \in Leaf : Left(u, n)' => updateCounters'[n] = FarEnd(range[u])'
        BY <1>5, <3>1, <3>3, <4>2
      <4> QED BY <3>3, <4>2, <4>3 DEF Halved
    <3>4. CASE n # p
      <4>1. \A u \in Leaf : Left(u, n)' <=> Left(u, n)
        BY <1>1, <1>8, <2>1, <3>1, <3>2, <3>4 DEF Left
      <4>2. Entered(n) \/ Untouched(n) \/ Halved(n)
        BY DEF ClimbInv
      <4> QED BY <1>5, <3>1, <3>2, <3>4, <4>1, <4>2 DEF Untouched, Halved
    <3> QED BY <3>3, <3>4
  <2> QED BY <2>2, <2>3, <2>4, <2>5 DEF ClimbInv, Inside
<1>10. CASE k # InvalidValue
  <2>1. /\ pc' = [pc EXCEPT ![t] = "fit"]
        /\ range' = [range EXCEPT ![t] = Grown(@, k)]
        /\ index' = [index EXCEPT ![t] = <<"node", p>>]
    BY <1>10 DEF Meet, p
  <2>2. PICK v \in Leaf : Left(v, p) /\ range[v] # r
    BY <1>2, <1>10
  <2>3. RangeOf(p) \in TreeRange /\ RangeOf(p).j # RangeOf(p).i + 1 /\ ItemOf(RangeOf(p)) = <<"node", p>>
    BY <1>1, <1>2, NodeRange
  <2>4. /\ \A u \in Leaf : u # t => range'[u] = range[u] /\ pc'[u] = pc[u] /\ index'[u] = index[u]
        /\ range'[t] = RangeOf(p) /\ pc'[t] = "fit" /\ index'[t] = ItemOf(RangeOf(p))
        /\ range' \in [Leaf -> TreeRange] /\ pc' \in [Leaf -> Places]
        /\ index' = [u \in Leaf |-> ItemOf(range'[u])]
    <3>1. Grown(r, k) = RangeOf(p)
      BY <1>2, <1>10 DEF p
    <3>2. range' = [range EXCEPT ![t] = RangeOf(p)]
      BY <2>1, <3>1
    <3> HIDE DEF k, r
    <3>3. index' = [u \in Leaf |-> ItemOf(range'[u])]
      BY <1>1, <2>1, <2>3, <3>2
    <3> QED BY <1>1, <2>1, <2>3, <3>2, <3>3 DEF Places
  <2>5. Inside(r, RangeOf(p)) /\ r # RangeOf(p)
    BY <1>1, <1>2, HalvesMeet
  <2>6. ClimbTyped'
    BY <1>3, <1>5, <1>6, <2>4, TreeFrame DEF ClimbTyped
  <2>7. \A u \in Leaf : PlaceInv(u)'
    <3> SUFFICES ASSUME NEW u \in Leaf PROVE PlaceInv(u)'
      OBVIOUS
    <3>1. Strongest(0, primCount - 2)' = Strongest(0, primCount - 2)
      BY <1>3, TreeFrame
    <3>2. PlaceInv(u)
      BY <1>1
    <3>3. CASE u = t
      <4>1. range'[t].i <= t /\ t < range'[t].j
        <5>1. r.i <= t /\ t < r.j
          BY <1>1 DEF PlaceInv
        <5>2. RangeOf(p).i <= r.i /\ r.j <= RangeOf(p).j
          BY <2>5 DEF Inside
        <5>3. r.i \in Int /\ r.j \in Int /\ RangeOf(p).i \in Int /\ RangeOf(p).j \in Int /\ t \in Int
          BY <1>1, <2>3, KeyBitsNat DEF TreeRange, Leaf
        <5> HIDE DEF r
        <5> QED BY <2>4, <5>1, <5>2, <5>3
      <4> QED BY <2>3, <2>4, <3>3, <4>1 DEF PlaceInv
    <3>4. CASE u # t
      BY <1>5, <2>4, <3>1, <3>2, <3>4 DEF PlaceInv, Root
    <3> QED BY <3>3, <3>4
  <2>8. ASSUME NEW u \in Leaf, NEW w \in Leaf, u # w, pc'[u] # "done", Inside(range'[u], range'[w])
        PROVE  FALSE
    <3>1. range[u] \in TreeRange /\ range[w] \in TreeRange /\ range[v] \in Halves(p)
      BY <1>1, <2>2 DEF Left
    <3>2. CASE u # t /\ w # t
      BY <2>4, <2>8, <3>2 DEF ClimbInv
    <3>3. CASE u = t
      <4>1. Inside(RangeOf(p), range[w])
        BY <2>4, <2>8, <3>3
      <4> QED BY <1>2, <4>1 DEF Entered
    <3>4. CASE w = t
      <4>1. Inside(range[u], RangeOf(p)) /\ pc[u] # "done" /\ u # t
        BY <2>4, <2>8, <3>4
      <4>2. range[u] # RangeOf(p)
        <5>1. Inside(RangeOf(p), RangeOf(p))
          BY <2>3, KeyBitsNat DEF Inside, TreeRange
        <5> QED BY <1>2, <5>1 DEF Entered
      <4>3. PICK h \in Halves(p) : Inside(range[u], h)
        BY <1>1, <1>2, <3>1, <4>1, <4>2, BelowNode
      <4>4. h = r \/ h = range[v]
        BY <1>2, <2>2, <3>1, <4>3 DEF Halves
      <4>5. v # u
        BY <2>2, <4>1 DEF Left
      <4>6. ~Inside(range[u], r) /\ ~Inside(range[u], range[v])
        BY <4>1, <4>5 DEF ClimbInv
      <4> QED BY <4>3, <4>4, <4>6
    <3> QED BY <3>2, <3>3, <3>4
  <2>9. ASSUME NEW n \in Node
        PROVE  (Entered(n) \/ Untouched(n) \/ Halved(n))'
    <3>1. Halves(n)' = Halves(n) /\ RangeOf(n)' = RangeOf(n)
      BY <1>3, TreeFrame
    <3>2. CASE n = p
      <4>1. Inside(RangeOf(p), RangeOf(p))
        BY <2>3, KeyBitsNat DEF Inside, TreeRange
      <4>2. Inside(RangeOf(n)', range'[t])
        BY <2>4, <3>1, <3>2, <4>1
      <4> QED BY <4>2 DEF Entered, Inside
    <3>3. CASE Entered(n)
      <4>1. PICK u \in Leaf : Inside(RangeOf(n), range[u])
        BY <3>3 DEF Entered
      <4>2. Inside(RangeOf(n), range'[u])
        <5>1. RangeOf(n) \in TreeRange
          BY <1>1, NodeRange
        <5>2. CASE u = t
          BY <1>1, <2>3, <2>4, <2>5, <4>1, <5>1, <5>2, KeyBitsNat DEF Inside, TreeRange
        <5>3. CASE u # t
          BY <2>4, <4>1, <5>3
        <5> QED BY <5>2, <5>3
      <4> QED BY <3>1, <4>2 DEF Entered, Inside
    <3>4. CASE n # p /\ ~Entered(n)
      <4>1. \A u \in Leaf : Left(u, n)' <=> Left(u, n)
        BY <1>1, <2>4, <3>1 DEF Left
      <4>2. \A u \in Leaf : Left(u, n) => FarEnd(range[u])' = FarEnd(range[u])
        <5> SUFFICES ASSUME NEW u \in Leaf, Left(u, n)
                     PROVE  FarEnd(range[u])' = FarEnd(range[u])
          OBVIOUS
        <5>1. u # t
          BY <1>1 DEF Left
        <5> QED BY <1>3, <2>4, <5>1, TreeFrame DEF FarEnd
      <4>3. Untouched(n) \/ Halved(n)
        BY <3>4 DEF ClimbInv
      <4> QED BY <1>5, <3>4, <4>1, <4>2, <4>3 DEF Untouched, Halved
    <3> QED BY <3>2, <3>3, <3>4
  <2> QED BY <2>6, <2>7, <2>8, <2>9 DEF ClimbInv, Inside
<1> QED BY <1>9, <1>10

LEMMA ClimbStep == ClimbInv /\ [Next]_vars => ClimbInv'
<1> SUFFICES ASSUME ClimbInv, [Next]_vars PROVE ClimbInv'
  OBVIOUS
<1>1. /\ pc \in [Leaf -> Places] /\ \A t \in Leaf : PlaceInv(t)
      /\ updateCounters \in [Leaf -> (0 .. primCount) \cup {InvalidValue}]
      /\ range \in [Leaf -> TreeRange] /\ Graded(differ)
      /\ index = [t \in Leaf |-> ItemOf(range[t])]
  BY DEF ClimbInv, ClimbTyped
<1>2. UNCHANGED differ => Strongest(0, primCount - 2)' = Strongest(0, primCount - 2)
  BY TreeFrame
<1>3. ASSUME NEW t \in Leaf, Start(t) \/ Fit(t) \/ Fence(t)
      PROVE  ClimbInv'
  <2>1. /\ UNCHANGED <<differ, range, index, updateCounters>>
        /\ pc[t] \in {"start", "fit", "fence"}
        /\ pc' = [pc EXCEPT ![t] = IF pc[t] = "fit" THEN "link" ELSE "meet"]
    BY <1>1, <1>3 DEF Start, Fit, Fence
  <2>2. pc' \in [Leaf -> Places]
    BY <1>1, <2>1 DEF Places
  <2>3. \A u \in Leaf : pc'[u] = "done" <=> pc[u] = "done"
    BY <1>1, <2>1
  <2>4. \A u \in Leaf : PlaceInv(u)'
    <3> SUFFICES ASSUME NEW u \in Leaf PROVE PlaceInv(u)'
      OBVIOUS
    <3>1. PlaceInv(u)
      BY <1>1
    <3>2. CASE u = t
      BY <1>1, <2>1, <3>1, <3>2 DEF PlaceInv, Root
    <3>3. CASE u # t
      BY <1>1, <1>2, <2>1, <3>1, <3>3 DEF PlaceInv, Root
    <3> QED BY <3>2, <3>3
  <2> QED BY <1>1, <2>1, <2>2, <2>3, <2>4, QuietClimb
<1>4. ASSUME NEW t \in Leaf, Link(t)
      PROVE  ClimbInv'
  <2> DEFINE root == Parent(range[t]) = InvalidValue
  <2>1. /\ UNCHANGED <<differ, range, index>> /\ pc[t] = "link"
        /\ pc' = [pc EXCEPT ![t] = IF root THEN "done" ELSE "fence"]
        /\ updateCounters' = IF root THEN [updateCounters EXCEPT ![primCount - 1] = index[t][2]] ELSE updateCounters
    BY <1>4 DEF Link
  <2>2. root <=> range[t] = Root
    <3>1. range[t] # Root => ~root
      <4>1. range[t] # Root => Parent(range[t]) \in Node
        BY <1>1, ParentOfRange
      <4> QED BY <4>1, InvalidAssumption, KeyBitsNat DEF Node
    <3>2. range[t] = Root => root
      BY DEF Root, Parent
    <3> QED BY <3>1, <3>2
  <2>3. range[t] = Root => index[t][2] = Strongest(0, primCount - 2)
    <3>1. index[t] = ItemOf(range[t]) /\ range[t].j # range[t].i + 1
      BY <1>1, <2>1 DEF PlaceInv
    <3> QED BY <3>1 DEF ItemOf, Root
  <2>4. range[t] = Root => index[t][2] \in 0 .. primCount
    <3>1. range[t] = Root => range[t].j # range[t].i + 1
      BY <1>1, <2>1 DEF PlaceInv
    <3>2. range[t] = Root => \E n \in Node : RangeOf(n) = range[t]
      BY <1>1, <3>1, RangeHasNode
    <3>3. \A n \in Node : ItemOf(RangeOf(n)) = <<"node", n>>
      BY <1>1, NodeRange
    <3>4. range[t] = Root => \E n \in Node : index[t] = <<"node", n>>
      BY <1>1, <3>2, <3>3
    <3> QED BY <3>4, KeyBitsNat DEF Node
  <2> HIDE DEF root
  <2>5. primCount - 1 \in Leaf /\ primCount - 1 \notin Node /\ Node \subseteq Leaf
    BY KeyBitsNat DEF Node, Leaf
  <2>6. updateCounters' \in [Leaf -> (0 .. primCount) \cup {InvalidValue}]
    BY <1>1, <2>1, <2>2, <2>4
  <2>7. \A n \in Node : updateCounters'[n] = updateCounters[n]
    BY <1>1, <2>1, <2>5
  <2>8. pc' \in [Leaf -> Places] /\ \A u \in Leaf : pc[u] = "done" => pc'[u] = "done"
    BY <1>1, <2>1 DEF Places
  <2>9. \A u \in Leaf : pc'[u] = "done" => pc[u] = "done" \/ range[u] = Root
    BY <1>1, <2>1, <2>2
  <2>10. \A u \in Leaf : PlaceInv(u)'
    <3> SUFFICES ASSUME NEW u \in Leaf PROVE PlaceInv(u)'
      OBVIOUS
    <3>1. PlaceInv(u) /\ range'[u] = range[u] /\ Root' = Root
      BY <1>1, <2>1 DEF Root
    <3>2. range[u] = Root /\ root => updateCounters'[primCount - 1] = Strongest(0, primCount - 2)
      BY <1>1, <2>1, <2>2, <2>3, <2>5
    <3>3. CASE u = t
      <4>1. pc'[u] = IF root THEN "done" ELSE "fence"
        BY <1>1, <2>1, <3>3
      <4> QED BY <1>2, <2>1, <2>2, <3>1, <3>2, <3>3, <4>1 DEF PlaceInv
    <3>4. CASE u # t
      <4>1. pc'[u] = pc[u]
        BY <1>1, <2>1, <3>4
      <4>2. ~root => updateCounters' = updateCounters
        BY <2>1
      <4> QED BY <1>2, <2>1, <3>1, <3>2, <4>1, <4>2 DEF PlaceInv
    <3> QED BY <3>3, <3>4
  <2> QED BY <2>1, <2>6, <2>7, <2>8, <2>9, <2>10, QuietClimb
<1>5. ASSUME UNCHANGED <<differ, pc, range, index, updateCounters>>
      PROVE  ClimbInv'
  <2>1. \A u \in Leaf : PlaceInv(u)'
    BY <1>1, <1>2, <1>5 DEF PlaceInv, Root
  <2> QED BY <1>1, <1>5, <2>1, QuietClimb
<1>6. ASSUME NEW t \in Leaf, Arrive(t)
      PROVE  ClimbInv'
  BY <1>5, <1>6 DEF Arrive
<1>7. ASSUME NEW t \in Leaf, Meet(t)
      PROVE  ClimbInv'
  BY <1>7, MeetKeepsClimb
<1>8. ASSUME UNCHANGED vars
      PROVE  ClimbInv'
  BY <1>5, <1>8 DEF vars
<1> QED BY <1>3, <1>4, <1>6, <1>7, <1>8 DEF Next, Step, Terminated

-----------------------------------------------------------------------------
(* The ranges whose item has been stored, and those a sibling may have     *)
(* been told of.                                                           *)
Passed(r) ==
  \E t \in Leaf : Inside(r, range[t]) /\ (range[t] = r => pc[t] \notin {"start", "fit", "link"})

Published(r) ==
  \E t \in Leaf : Inside(r, range[t]) /\ (range[t] = r => pc[t] \in {"meet", "done"})

LEMMA PassedStep ==
  ASSUME ClimbInv, NEW t \in Leaf, Step(t), NEW r \in TreeRange
  PROVE  /\ Passed(r) => Passed(r)'
         /\ Passed(r)' => Passed(r) \/ (r = range[t] /\ pc[t] \in {"start", "link"})
         /\ Published(r)' => \/ Published(r)
                             \/ r = range[t] /\ pc[t] \in {"start", "fence"}
                             \/ r = Root
<1>1. /\ pc \in [Leaf -> Places] /\ range \in [Leaf -> TreeRange] /\ Graded(differ)
      /\ \A u \in Leaf : PlaceInv(u)
  BY DEF ClimbInv, ClimbTyped
<1>2. CASE Start(t) \/ Fit(t) \/ Fence(t)
  <2>1. /\ UNCHANGED range
        /\ pc[t] \in {"start", "fit", "fence"}
        /\ pc' = [pc EXCEPT ![t] = IF pc[t] = "fit" THEN "link" ELSE "meet"]
    BY <1>1, <1>2 DEF Start, Fit, Fence
  <2> QED BY <1>1, <2>1 DEF Passed, Published, Inside
<1>3. CASE Link(t)
  <2>1. /\ UNCHANGED range /\ pc[t] = "link"
        /\ \E x \in {"done", "fence"} :
             /\ pc' = [pc EXCEPT ![t] = x]
             /\ x = "done" => Parent(range[t]) = InvalidValue
    BY <1>3 DEF Link
  <2>2. PICK x \in {"done", "fence"} :
             /\ pc' = [pc EXCEPT ![t] = x]
             /\ x = "done" => Parent(range[t]) = InvalidValue
    BY <2>1
  <2>3. x = "done" => range[t] = Root
    <3>1. range[t] # Root => Parent(range[t]) \in Node
      BY <1>1, ParentOfRange
    <3> QED BY <2>2, <3>1, InvalidAssumption, KeyBitsNat DEF Node
  <2>4. \A u \in Leaf : pc'[u] = IF u = t THEN x ELSE pc[u]
    BY <1>1, <2>2
  <2> QED BY <2>1, <2>3, <2>4 DEF Passed, Published, Inside
<1>4. CASE Meet(t)
  <2> DEFINE p == Parent(range[t])
             k == updateCounters[p]
  <2>1. /\ p \in Node /\ range[t] \in Halves(p) /\ ~Entered(p) /\ pc[t] = "meet"
        /\ k # InvalidValue =>
             Grown(range[t], k) = RangeOf(p) /\ \E v \in Leaf : Left(v, p) /\ range[v] # range[t]
    BY <1>4, MeetsSibling DEF Meet
  <2>2. CASE k = InvalidValue
    <3>1. UNCHANGED range /\ pc' = [pc EXCEPT ![t] = "done"]
      BY <1>4, <2>2 DEF Meet
    <3> QED BY <1>1, <2>1, <3>1 DEF Passed, Published, Inside
  <2>3. CASE k # InvalidValue
    <3>1. pc' = [pc EXCEPT ![t] = "fit"] /\ range' = [range EXCEPT ![t] = Grown(@, k)]
      BY <1>4, <2>3 DEF Meet
    <3>2. /\ \A u \in Leaf : u # t => pc'[u] = pc[u] /\ range'[u] = range[u]
          /\ pc'[t] = "fit" /\ range'[t] = RangeOf(p)
      BY <1>1, <2>1, <2>3, <3>1
    <3>3. PICK v \in Leaf : Left(v, p) /\ range[v] # range[t]
      BY <2>1, <2>3
    <3> HIDE DEF k, p
    <3>4. Inside(range[t], RangeOf(p)) /\ range[t] # RangeOf(p) /\ RangeOf(p) \in TreeRange
      BY <1>1, <2>1, HalvesMeet, NodeRange
    <3>5. Inside(r, range[t]) => Inside(r, RangeOf(p)) /\ r # RangeOf(p)
      <4>1. Inside(r, range[t]) => Inside(r, RangeOf(p))
        BY <1>1, <3>4, KeyBitsNat DEF Inside, TreeRange
      <4>2. ~Inside(RangeOf(p), range[t])
        BY <2>1 DEF Entered
      <4> QED BY <4>1, <4>2
    <3>6. Inside(r, RangeOf(p)) /\ r # RangeOf(p) => Inside(r, range[t]) \/ Inside(r, range[v])
      <4>1. Inside(r, RangeOf(p)) /\ r # RangeOf(p) => \E h \in Halves(p) : Inside(r, h)
        BY <1>1, <2>1, BelowNode
      <4>2. \A h \in Halves(p) : h = range[t] \/ h = range[v]
        BY <2>1, <3>3 DEF Halves, Left
      <4> QED BY <4>1, <4>2
    <3>7. pc[v] = "done" /\ v # t
      BY <2>1, <3>3 DEF Left
    <3>8. Passed(r) => Passed(r)'
      BY <3>2, <3>5 DEF Passed, Inside
    <3>9. Passed(r)' => Passed(r)
      BY <2>1, <3>2, <3>6, <3>7 DEF Passed, Inside
    <3>10. Published(r)' => Published(r)
      BY <2>1, <3>2, <3>6, <3>7 DEF Published, Inside
    <3> QED BY <3>8, <3>9, <3>10
  <2> QED BY <2>2, <2>3
<1> QED BY <1>2, <1>3, <1>4 DEF Step

-----------------------------------------------------------------------------
(* What has been stored, whether it has reached memory or not.             *)
HasLoc(l) == l \in DOMAIN memory \/ \E t \in Leaf : \E s \in pending[t] : s.loc = l

Written(l, v) ==
  \/ l \in DOMAIN memory /\ memory[l] = v
  \/ \E t \in Leaf : \E s \in pending[t] : s.loc = l /\ s.val = v

LEMMA Locations ==
  /\ \A i, j : Ref(i) = Ref(j) => i = j
  /\ \A m, n : BoxOf(m) = BoxOf(n) => m = n
  /\ \A m, n, k, l : Child(m, k) = Child(n, l) => m = n /\ k = l
  /\ \A i, n, k : Ref(i) # BoxOf(n) /\ Ref(i) # Child(n, k)
  /\ \A m, n, k : BoxOf(m) # Child(n, k)
BY DEF Ref, BoxOf, Child

Updated(m, S) ==
  /\ DOMAIN m = DOMAIN memory \cup {s.loc : s \in S}
  /\ \A l \in DOMAIN m :
       IF \E s \in S : s.loc = l THEN \E s \in S : s.loc = l /\ m[l] = s.val
       ELSE m[l] = memory[l]

LEMMA Applied == \A S : Updated(Apply(memory, S), S)
<1> TAKE S
<1> DEFINE m == Apply(memory, S)
           pick(l) == CHOOSE s \in S : s.loc = l
<1>1. m = [l \in DOMAIN memory \cup {s.loc : s \in S} |->
             IF \E s \in S : s.loc = l THEN pick(l).val ELSE memory[l]]
  BY DEF Apply
<1>2. \A l : (\E s \in S : s.loc = l) => pick(l) \in S /\ pick(l).loc = l
  OBVIOUS
<1> HIDE DEF m, pick
<1>3. DOMAIN m = DOMAIN memory \cup {s.loc : s \in S}
  BY <1>1
<1>4. \A l \in DOMAIN m : m[l] = IF \E s \in S : s.loc = l THEN pick(l).val ELSE memory[l]
  BY <1>1
<1>5. Updated(m, S)
  BY <1>2, <1>3, <1>4 DEF Updated
<1> QED BY <1>5 DEF m

PendingIsFunction == pending = [t \in Leaf |-> pending[t]]

LEMMA IssueEffect ==
  ASSUME PendingIsFunction, NEW t \in Leaf, NEW S, Issue(t, S)
  PROVE  /\ PendingIsFunction'
         /\ \A l : HasLoc(l)' <=> HasLoc(l) \/ \E s \in S : s.loc = l
         /\ \A l, v : Written(l, v)' => Written(l, v) \/ \E s \in S : s.loc = l /\ s.val = v
         /\ DOMAIN memory \subseteq DOMAIN memory'
         /\ \A u \in Leaf : u # t => pending'[u] = pending[u]
         /\ storesInOrder => /\ pending' = pending
                             /\ memory' = Apply(memory, S)
         /\ ~storesInOrder => memory' = memory /\ pending'[t] = pending[t] \cup S
<1>1. CASE storesInOrder
  <2>1. memory' = Apply(memory, S) /\ pending' = pending
    BY <1>1 DEF Issue
  <2>2. /\ DOMAIN memory' = DOMAIN memory \cup {s.loc : s \in S}
        /\ \A l \in DOMAIN memory' :
             IF \E s \in S : s.loc = l THEN \E s \in S : s.loc = l /\ memory'[l] = s.val
             ELSE memory'[l] = memory[l]
    <3>1. Updated(memory', S)
      BY <2>1, Applied
    <3> QED BY <3>1 DEF Updated
  <2>3. \A l : HasLoc(l)' <=> HasLoc(l) \/ \E s \in S : s.loc = l
    BY <2>1, <2>2 DEF HasLoc
  <2>4. \A l, v : Written(l, v)' => Written(l, v) \/ \E s \in S : s.loc = l /\ s.val = v
    BY <2>1, <2>2 DEF Written
  <2> QED BY <1>1, <2>1, <2>2, <2>3, <2>4 DEF PendingIsFunction
<1>2. CASE ~storesInOrder
  <2>1. pending' = [pending EXCEPT ![t] = @ \cup S] /\ memory' = memory
    BY <1>2 DEF Issue
  <2>2. PendingIsFunction' /\ \A u \in Leaf : pending'[u] = IF u = t THEN pending[t] \cup S ELSE pending[u]
    BY <2>1 DEF PendingIsFunction
  <2>3. \A l : HasLoc(l)' <=> HasLoc(l) \/ \E s \in S : s.loc = l
    BY <2>1, <2>2 DEF HasLoc
  <2>4. \A l, v : Written(l, v)' => Written(l, v) \/ \E s \in S : s.loc = l /\ s.val = v
    BY <2>1, <2>2 DEF Written
  <2> QED BY <1>2, <2>1, <2>2, <2>3, <2>4
<1> QED BY <1>1, <1>2

LEMMA ArriveEffect ==
  ASSUME PendingIsFunction, NEW t \in Leaf, Arrive(t)
  PROVE  /\ PendingIsFunction'
         /\ \A l : HasLoc(l)' <=> HasLoc(l)
         /\ \A l, v : Written(l, v)' => Written(l, v)
         /\ \E s \in pending[t] :
              /\ DOMAIN memory' = DOMAIN memory \cup {s.loc}
              /\ \A u \in Leaf : pending'[u] = IF u = t THEN pending[t] \ {s} ELSE pending[u]
<1>1. PICK s \in pending[t] :
        /\ pending' = [pending EXCEPT ![t] = @ \ {s}]
        /\ memory' = Apply(memory, {s})
  BY DEF Arrive
<1>2. PendingIsFunction' /\ \A u \in Leaf : pending'[u] = IF u = t THEN pending[t] \ {s} ELSE pending[u]
  BY <1>1 DEF PendingIsFunction
<1>3. /\ DOMAIN memory' = DOMAIN memory \cup {s.loc}
      /\ \A l \in DOMAIN memory' : memory'[l] = IF s.loc = l THEN s.val ELSE memory[l]
  <2>1. /\ DOMAIN memory' = DOMAIN memory \cup {q.loc : q \in {s}}
        /\ \A l \in DOMAIN memory' :
             IF \E q \in {s} : q.loc = l THEN \E q \in {s} : q.loc = l /\ memory'[l] = q.val
             ELSE memory'[l] = memory[l]
    <3>1. Updated(memory', {s})
      BY <1>1, Applied
    <3> QED BY <3>1 DEF Updated
  <2> QED BY <2>1
<1>4. \A l : HasLoc(l)' <=> HasLoc(l)
  BY <1>2, <1>3 DEF HasLoc
<1>5. \A l, v : Written(l, v)' => Written(l, v)
  BY <1>2, <1>3 DEF Written
<1> QED BY <1>2, <1>3, <1>4, <1>5

(* The links and boxes of the items passed, and when the boxes are there.  *)
Side(n, r) == IF n = r.j - 1 THEN 0 ELSE 1

Arrived(n) == BoxOf(n) \in DOMAIN memory

BoxStores(t, n) == {s \in pending[t] : s.loc = BoxOf(n)}

LinksRight == \A n \in Node, k \in {0, 1} : \A v : Written(Child(n, k), v) => v = RadixChild(n, k)

LinksStored == \A n \in Node : \A h \in Halves(n) : Passed(h) => HasLoc(Child(n, Side(n, h)))

BoxesPassed == \A n \in Node : HasLoc(BoxOf(n)) => Passed(RangeOf(n))

BoxesPublished == \A n \in Node : Published(RangeOf(n)) /\ RangeOf(n) # Root => Arrived(n)

BoxesFenced ==
  \A t \in Leaf, n \in Node :
    pc[t] = "fence" /\ range[t] = RangeOf(n) => Arrived(n) \/ BoxStores(t, n) # {}

BoxesPending ==
  \A t \in Leaf, n \in Node : BoxStores(t, n) # {} =>
    /\ ~Arrived(n)
    /\ \A m \in InternalChildren(n) : Arrived(m)
    /\ \A u \in Leaf : BoxStores(u, n) # {} => u = t
    /\ \A s, q \in BoxStores(t, n) : s = q

StoreInv ==
  /\ PendingIsFunction
  /\ storesInOrder => \A t \in Leaf : pending[t] = {}
  /\ LinksRight /\ LinksStored
  /\ BoxesPassed /\ BoxesPublished /\ BoxesFenced /\ BoxesPending

LEMMA IssueBoxes ==
  ASSUME PendingIsFunction, NEW t \in Leaf, NEW S, Issue(t, S)
  PROVE  /\ \A n : Arrived(n)' <=> Arrived(n) \/ (storesInOrder /\ \E s \in S : s.loc = BoxOf(n))
         /\ \A u \in Leaf : \A n :
              BoxStores(u, n)' = IF u = t /\ ~storesInOrder
                                 THEN BoxStores(u, n) \cup {s \in S : s.loc = BoxOf(n)}
                                 ELSE BoxStores(u, n)
<1>1. CASE storesInOrder
  <2>1. memory' = Apply(memory, S) /\ pending' = pending
    BY <1>1 DEF Issue
  <2>2. DOMAIN memory' = DOMAIN memory \cup {s.loc : s \in S}
    <3>1. Updated(memory', S)
      BY <2>1, Applied
    <3> QED BY <3>1 DEF Updated
  <2> QED BY <1>1, <2>1, <2>2 DEF Arrived, BoxStores
<1>2. CASE ~storesInOrder
  <2>1. pending' = [pending EXCEPT ![t] = @ \cup S] /\ memory' = memory
    BY <1>2 DEF Issue
  <2>2. \A u \in Leaf : pending'[u] = IF u = t THEN pending[t] \cup S ELSE pending[u]
    BY <2>1 DEF PendingIsFunction
  <2> QED BY <1>2, <2>1, <2>2 DEF Arrived, BoxStores
<1> QED BY <1>1, <1>2

LEMMA ChildNodes ==
  ASSUME Graded(differ), NEW n \in Node, NEW m \in InternalChildren(n)
  PROVE  m \in Node /\ RangeOf(m) \in Halves(n)
<1>1. PICK k \in {0, 1} : RadixChild(n, k)[1] = "node" /\ m = RadixChild(n, k)[2]
  BY DEF InternalChildren
<1>2. PICK h \in Halves(n) : RadixChild(n, k) = ItemOf(h)
  BY HalfIsChild DEF Halves
<1>3. h \in TreeRange
  BY HalvesClimb
<1>4. h.j # h.i + 1
  BY <1>1, <1>2 DEF ItemOf
<1>5. PICK l \in Node : RangeOf(l) = h
  BY <1>3, <1>4, RangeHasNode
<1>6. ItemOf(h) = <<"node", l>>
  BY <1>5, NodeRange
<1> QED BY <1>1, <1>2, <1>5, <1>6

(* The link a thread stores is that of its item.                           *)
LEMMA LinkIsRight ==
  ASSUME Graded(differ), NEW r \in TreeRange
  PROVE  /\ r = Root => LinkStore(r, ItemOf(r)) = {}
         /\ r # Root =>
              /\ Parent(r) \in Node /\ r \in Halves(Parent(r)) /\ Side(Parent(r), r) \in {0, 1}
              /\ LinkStore(r, ItemOf(r)) = {[loc |-> Child(Parent(r), Side(Parent(r), r)), val |-> ItemOf(r)]}
              /\ ItemOf(r) = RadixChild(Parent(r), Side(Parent(r), r))
<1>1. CASE r = Root
  <2>1. Parent(r) = InvalidValue
    BY <1>1 DEF Root, Parent
  <2> QED BY <1>1, <2>1 DEF LinkStore
<1>2. CASE r # Root
  <2> DEFINE p == Parent(r)
  <2>1. p \in Node /\ r \in Halves(p)
    BY <1>2, ParentOfRange
  <2> HIDE DEF p
  <2>2. p # InvalidValue
    BY <2>1, InvalidAssumption, KeyBitsNat DEF Node
  <2>3. /\ Lo(p) \in 0 .. p /\ Hi(p) \in p + 1 .. primCount - 1 /\ p \in Nat
    BY <1>1, <2>1, NodeEnds, KeyBitsNat DEF Node
  <2>4. ItemOf(r) = RadixChild(p, Side(p, r))
    <3>1. CASE r = [i |-> Lo(p), j |-> p + 1]
      <4>1. p = r.j - 1
        BY <2>3, <3>1
      <4>2. Side(p, r) = 0
        BY <4>1 DEF Side
      <4> QED BY <2>1, <3>1, <4>2, HalfIsChild
    <3>2. CASE r = [i |-> p + 1, j |-> Hi(p) + 1]
      <4>1. p # r.j - 1
        BY <2>3, <3>2
      <4>2. Side(p, r) = 1
        BY <4>1 DEF Side
      <4> QED BY <2>1, <3>2, <4>2, HalfIsChild
    <3> QED BY <2>1, <3>1, <3>2 DEF Halves
  <2> QED BY <1>2, <2>1, <2>2, <2>4 DEF LinkStore, Side, p
<1> QED BY <1>1, <1>2

LEMMA StoreInit == Init /\ ClimbInv => StoreInv
<1> SUFFICES ASSUME Init, ClimbInv PROVE StoreInv
  OBVIOUS
<1>1. /\ DOMAIN memory = {} /\ pending = [t \in Leaf |-> {}] /\ pc = [t \in Leaf |-> "start"]
  BY DEF Init
<1>2. \A l, v : ~HasLoc(l) /\ ~Written(l, v)
  BY <1>1 DEF HasLoc, Written
<1>3. \A t \in Leaf : range[t] = [i |-> t, j |-> t + 1]
  BY DEF Init
<1>4. ASSUME NEW n \in Node, NEW h \in Halves(n) \cup {RangeOf(n)}, NEW t \in Leaf, Inside(h, range[t])
      PROVE  range[t] = h
  <2>1. h \in TreeRange
    BY <1>4, HalvesClimb, NodeRange DEF ClimbInv, ClimbTyped
  <2>2. h = [i |-> h.i, j |-> h.j] /\ h.i \in Int /\ h.j \in Int /\ h.i < h.j
    BY <2>1, KeyBitsNat DEF TreeRange, IsRange
  <2>3. range[t] = [i |-> t, j |-> t + 1] /\ t \in Int
    BY <1>3, KeyBitsNat DEF Leaf
  <2>4. t <= h.i /\ h.j <= t + 1
    BY <1>4, <2>3 DEF Inside
  <2>5. h.i = t /\ h.j = t + 1
    BY <2>2, <2>3, <2>4
  <2> QED BY <2>2, <2>3, <2>5
<1>5. \A n \in Node : \A h \in Halves(n) \cup {RangeOf(n)} : ~Passed(h) /\ ~Published(h)
  BY <1>1, <1>4 DEF Passed, Published
<1> QED BY <1>1, <1>2, <1>5 
  DEF StoreInv, PendingIsFunction, BoxStores, LinksRight, LinksStored, BoxesPassed, BoxesPublished,
      BoxesFenced, BoxesPending

(* The items whose halves have been left behind are published.             *)
LEMMA ChildrenArrived ==
  ASSUME ClimbInv, StoreInv, NEW t \in Leaf, NEW n \in Node, range[t] = RangeOf(n),
         NEW m \in InternalChildren(n)
  PROVE  Arrived(m)
<1>1. m \in Node /\ RangeOf(m) \in Halves(n) /\ Graded(differ)
  BY ChildNodes DEF ClimbInv, ClimbTyped
<1>2. RangeOf(m) # Root /\ Inside(RangeOf(m), RangeOf(n)) /\ RangeOf(m) # RangeOf(n)
  BY <1>1, HalvesClimb, HalvesMeet
<1>3. Published(RangeOf(m))
  BY <1>2 DEF Published
<1> QED BY <1>1, <1>2, <1>3 DEF StoreInv, BoxesPublished

(* A step that stores no box.                                              *)
LEMMA QuietStores ==
  ASSUME ClimbInv, StoreInv, NEW t \in Leaf, Start(t) \/ Meet(t) \/ Fit(t) \/ Fence(t)
  PROVE  /\ StoreInv'
         /\ \A n : Arrived(n)' <=> Arrived(n)
<1>1. /\ pc \in [Leaf -> Places] /\ range \in [Leaf -> TreeRange] /\ Graded(differ)
      /\ index = [u \in Leaf |-> ItemOf(range[u])] /\ PlaceInv(t)
      /\ PendingIsFunction /\ UNCHANGED <<storesInOrder, differ>>
  BY DEF ClimbInv, ClimbTyped, StoreInv, Start, Meet, Fit, Fence
<1>2. /\ PendingIsFunction'
      /\ \A n : Arrived(n)' <=> Arrived(n)
      /\ \A u \in Leaf : \A n : BoxStores(u, n)' = BoxStores(u, n)
      /\ \A n : HasLoc(BoxOf(n))' => HasLoc(BoxOf(n))
      /\ \A l : HasLoc(l) => HasLoc(l)'
      /\ storesInOrder => pending' = pending
      /\ LinksRight'
      /\ pc[t] = "start" =>
           \A n \in Node : \A h \in Halves(n) : h = range[t] => HasLoc(Child(n, Side(n, h)))'
  <2>1. CASE Start(t)
    <3> DEFINE S == {[loc |-> Ref(t), val |-> {t}]} \cup LinkStore(range[t], index[t])
    <3>1. Issue(t, S) /\ range[t] # Root /\ index[t] = ItemOf(range[t])
      BY <1>1, <2>1 DEF Start, PlaceInv
    <3>2. PICK p \in Node, k \in {0, 1} :
            /\ S = {[loc |-> Ref(t), val |-> {t}], [loc |-> Child(p, k), val |-> RadixChild(p, k)]}
            /\ p = Parent(range[t]) /\ k = Side(p, range[t])
      <4>1. /\ Parent(range[t]) \in Node /\ Side(Parent(range[t]), range[t]) \in {0, 1}
            /\ LinkStore(range[t], index[t]) =
                 {[loc |-> Child(Parent(range[t]), Side(Parent(range[t]), range[t])),
                   val |-> RadixChild(Parent(range[t]), Side(Parent(range[t]), range[t]))]}
        BY <1>1, <3>1, LinkIsRight
      <4> QED BY <4>1
    <3> HIDE DEF S
    <3>3. \A s \in S : \A n : s.loc # BoxOf(n)
      BY <3>2, Locations
    <3>4. \A n \in Node, l \in {0, 1} : \A v :
            (\E s \in S : s.loc = Child(n, l) /\ s.val = v) => v = RadixChild(n, l)
      BY <3>2, Locations
    <3>5. \E s \in S : s.loc = Child(p, k)
      BY <3>2
    <3>6. \A n \in Node : range[t] \in Halves(n) => n = p
      BY <1>1, <3>2, HalvesClimb
    <3>7. LinksRight'
      BY <1>1, <3>1, <3>4, IssueEffect, TreeFrame DEF StoreInv, LinksRight
    <3>8. \A n : {s \in S : s.loc = BoxOf(n)} = {}
      BY <3>3
    <3>9. \A n : Arrived(n)' <=> Arrived(n)
      BY <1>1, <3>1, <3>3, IssueBoxes
    <3>10. \A u \in Leaf : \A n : BoxStores(u, n)' = BoxStores(u, n)
      BY <1>1, <3>1, <3>8, IssueBoxes
    <3>11. /\ PendingIsFunction'
           /\ \A l : HasLoc(l)' <=> HasLoc(l) \/ \E s \in S : s.loc = l
           /\ storesInOrder => pending' = pending
      BY <1>1, <3>1, IssueEffect
    <3>12. \A n : HasLoc(BoxOf(n))' => HasLoc(BoxOf(n))
      BY <3>3, <3>11
    <3>13. ASSUME NEW n \in Node, NEW h \in Halves(n), h = range[t]
           PROVE  HasLoc(Child(n, Side(n, h)))'
      <4>1. HasLoc(Child(p, k))'
        BY <3>5, <3>11
      <4>2. n = p /\ Side(n, h) = k
        BY <3>2, <3>6, <3>13
      <4> QED BY <4>1, <4>2
    <3> QED BY <3>7, <3>9, <3>10, <3>11, <3>12, <3>13
  <2>2. CASE Meet(t) \/ Fit(t) \/ Fence(t)
    <3>1. UNCHANGED <<memory, pending>> /\ pc[t] # "start"
      BY <2>2 DEF Meet, Fit, Fence
    <3> QED BY <1>1, <3>1, TreeFrame
      DEF StoreInv, LinksRight, PendingIsFunction, Arrived, BoxStores, HasLoc, Written
  <2> QED BY <2>1, <2>2
<1>3. /\ Node' = Node /\ Root' = Root
      /\ \A n : RangeOf(n)' = RangeOf(n) /\ Halves(n)' = Halves(n)
      /\ \A n : InternalChildren(n)' = InternalChildren(n)
  BY <1>1, TreeFrame DEF Node, Root
<1>4. \A n \in Node : RangeOf(n) \in TreeRange /\ \A h \in Halves(n) : h \in TreeRange
  BY <1>1, NodeRange
<1>5. /\ \A r \in TreeRange : Passed(r) => Passed(r)'
      /\ \A r \in TreeRange : Passed(r)' => Passed(r) \/ (r = range[t] /\ pc[t] \in {"start", "link"})
      /\ \A r \in TreeRange :
           Published(r)' => Published(r) \/ r = Root \/ (r = range[t] /\ pc[t] \in {"start", "fence"})
  BY PassedStep DEF Step
<1>6. pc[t] # "link"
  BY DEF Start, Meet, Fit, Fence
<1>7. LinksStored'
  <2> SUFFICES ASSUME NEW n \in Node, NEW h \in Halves(n), Passed(h)'
               PROVE  HasLoc(Child(n, Side(n, h)))'
    BY <1>3 DEF LinksStored
  <2>1. Passed(h) \/ (h = range[t] /\ pc[t] = "start")
    BY <1>4, <1>5, <1>6
  <2> QED BY <1>2, <2>1 DEF StoreInv, LinksStored
<1>8. BoxesPassed'
  <2> SUFFICES ASSUME NEW n \in Node, HasLoc(BoxOf(n))' PROVE Passed(RangeOf(n))'
    BY <1>3 DEF BoxesPassed
  <2>1. Passed(RangeOf(n))
    BY <1>2 DEF StoreInv, BoxesPassed
  <2> QED BY <1>3, <1>4, <1>5, <2>1 DEF Passed
<1>9. BoxesPublished'
  <2> SUFFICES ASSUME NEW n \in Node, Published(RangeOf(n))', RangeOf(n) # Root
               PROVE  Arrived(n)
    BY <1>2, <1>3 DEF BoxesPublished
  <2>1. Published(RangeOf(n)) \/ (RangeOf(n) = range[t] /\ pc[t] \in {"start", "fence"})
    BY <1>3, <1>4, <1>5 DEF Published
  <2>2. pc[t] = "start" => RangeOf(n) # range[t]
    BY <1>1, NodeRange DEF PlaceInv
  <2>3. pc[t] = "fence" => pending[t] = {}
    BY DEF Start, Meet, Fit, Fence
  <2> QED BY <2>1, <2>2, <2>3 DEF StoreInv, BoxesPublished, BoxesFenced, BoxStores
<1>10. BoxesFenced'
  <2> SUFFICES ASSUME NEW u \in Leaf, NEW n \in Node, pc'[u] = "fence", range'[u] = RangeOf(n)
               PROVE  Arrived(n) \/ BoxStores(u, n) # {}
    BY <1>2, <1>3 DEF BoxesFenced
  <2>1. pc[u] = "fence" /\ range[u] = RangeOf(n)
    BY <1>1 DEF Start, Meet, Fit, Fence
  <2> QED BY <2>1 DEF StoreInv, BoxesFenced
<1>11. BoxesPending'
  BY <1>2, <1>3 DEF StoreInv, BoxesPending
<1>12. storesInOrder' => \A u \in Leaf : pending'[u] = {}
  BY <1>1, <1>2 DEF StoreInv
<1> QED BY <1>2, <1>7, <1>8, <1>9, <1>10, <1>11, <1>12 DEF StoreInv

(* A step after which one more node is fitted, its children before it.     *)
Fits(n) ==
  /\ ~Arrived(n)
  /\ \A m \in InternalChildren(n) : Arrived(m)
  /\ \A m \in Node : Arrived(m)' <=> Arrived(m) \/ m = n

LEMMA LinkStores ==
  ASSUME ClimbInv, StoreInv, NEW t \in Leaf, Link(t)
  PROVE  /\ StoreInv'
         /\ (\A n \in Node : Arrived(n)' <=> Arrived(n)) \/ \E n \in Node : Fits(n)
<1>1. /\ pc \in [Leaf -> Places] /\ range \in [Leaf -> TreeRange] /\ Graded(differ)
      /\ index[t] = ItemOf(range[t]) /\ PlaceInv(t) /\ pc[t] = "link"
      /\ PendingIsFunction /\ UNCHANGED <<storesInOrder, differ, range>>
      /\ \A u \in Leaf : u # t => pc'[u] = pc[u]
      /\ pc'[t] \in {"done", "fence"}
  BY DEF ClimbInv, ClimbTyped, StoreInv, Link
<1>2. PICK m \in Node : RangeOf(m) = range[t]
  <2>1. range[t].j # range[t].i + 1
    BY <1>1 DEF PlaceInv
  <2> QED BY <1>1, <2>1, RangeHasNode
<1>3. index[t] = <<"node", m>>
  BY <1>1, <1>2, NodeRange
<1> DEFINE S == {[loc |-> BoxOf(m), val |-> box[t]]} \cup LinkStore(range[t], index[t])
<1>4. Issue(t, S)
  BY <1>3 DEF Link
<1>5. /\ \A s \in LinkStore(range[t], index[t]) :
           \E n \in Node, k \in {0, 1} : s.loc = Child(n, k) /\ s.val = RadixChild(n, k)
      /\ \A n \in Node : range[t] \in Halves(n) =>
           \E s \in LinkStore(range[t], index[t]) : s.loc = Child(n, Side(n, range[t]))
  <2>1. CASE range[t] = Root
    <3>1. LinkStore(range[t], index[t]) = {}
      BY <1>1, <2>1, LinkIsRight
    <3> QED BY <1>1, <2>1, <3>1, HalvesClimb
  <2>2. CASE range[t] # Root
    <3> DEFINE p == Parent(range[t])
    <3>1. /\ p \in Node /\ Side(p, range[t]) \in {0, 1}
          /\ LinkStore(range[t], index[t]) =
               {[loc |-> Child(p, Side(p, range[t])), val |-> RadixChild(p, Side(p, range[t]))]}
      BY <1>1, <2>2, LinkIsRight
    <3>2. \A n \in Node : range[t] \in Halves(n) => n = p
      BY <1>1, HalvesClimb
    <3> HIDE DEF p
    <3> QED BY <3>1, <3>2
  <2> QED BY <2>1, <2>2
<1>6. /\ \A n \in Node : \A s \in S : s.loc = BoxOf(n) => n = m /\ s = [loc |-> BoxOf(m), val |-> box[t]]
      /\ \E s \in S : s.loc = BoxOf(m)
      /\ \A n \in Node, k \in {0, 1} : \A v : (\E s \in S : s.loc = Child(n, k) /\ s.val = v) => v = RadixChild(n, k)
      /\ \A n \in Node : \A h \in Halves(n) : h = range[t] => \E s \in S : s.loc = Child(n, Side(n, h))
  <2> DEFINE b == [loc |-> BoxOf(m), val |-> box[t]]
             L == LinkStore(range[t], index[t])
  <2>1. \A s : s \in S <=> s = b \/ s \in L
    OBVIOUS
  <2>2. b.loc = BoxOf(m)
    OBVIOUS
  <2> HIDE DEF S, b, L
  <2>3. \A s \in L : \A n : s.loc # BoxOf(n)
    BY <1>5, Locations DEF L
  <2>4. \A n \in Node, k \in {0, 1} : \A v : (\E s \in S : s.loc = Child(n, k) /\ s.val = v) => v = RadixChild(n, k)
    BY <1>5, <2>1, <2>2, Locations DEF L
  <2>5. \A n \in Node : \A h \in Halves(n) : h = range[t] => \E s \in S : s.loc = Child(n, Side(n, h))
    BY <1>5, <2>1 DEF L
  <2>6. \A n \in Node : \A s \in S : s.loc = BoxOf(n) => n = m /\ s = b
    BY <2>1, <2>2, <2>3, Locations
  <2> QED BY <2>1, <2>2, <2>4, <2>5, <2>6 DEF b
<1> HIDE DEF S
<1>7. /\ PendingIsFunction'
      /\ \A l : HasLoc(l)' <=> HasLoc(l) \/ \E s \in S : s.loc = l
      /\ \A l, v : Written(l, v)' => Written(l, v) \/ \E s \in S : s.loc = l /\ s.val = v
      /\ storesInOrder => pending' = pending
  BY <1>1, <1>4, IssueEffect
<1>8. /\ \A n : Arrived(n)' <=> Arrived(n) \/ (storesInOrder /\ \E s \in S : s.loc = BoxOf(n))
      /\ \A u \in Leaf : \A n :
           BoxStores(u, n)' = IF u = t /\ ~storesInOrder
                              THEN BoxStores(u, n) \cup {s \in S : s.loc = BoxOf(n)}
                              ELSE BoxStores(u, n)
  BY <1>1, <1>4, IssueBoxes
<1>9. ~HasLoc(BoxOf(m))
  <2> SUFFICES ASSUME NEW u \in Leaf, Inside(RangeOf(m), range[u]),
                      range[u] = RangeOf(m) => pc[u] \notin {"start", "fit", "link"}
               PROVE  FALSE
    BY DEF StoreInv, BoxesPassed, Passed
  <2>1. u = t
    BY <1>1, <1>2 DEF ClimbInv
  <2> QED BY <1>1, <1>2, <2>1
<1>10. ~Arrived(m) /\ \A u \in Leaf : BoxStores(u, m) = {}
  BY <1>9 DEF HasLoc, Arrived, BoxStores
<1>11. \A c \in InternalChildren(m) : Arrived(c)
  BY <1>2, ChildrenArrived
<1>12. /\ Node' = Node /\ Root' = Root
       /\ \A n : RangeOf(n)' = RangeOf(n) /\ Halves(n)' = Halves(n)
       /\ \A n : InternalChildren(n)' = InternalChildren(n)
       /\ \A n, k : RadixChild(n, k)' = RadixChild(n, k)
  BY <1>1, TreeFrame DEF Node, Root
<1>13. \A n \in Node : RangeOf(n) \in TreeRange /\ \A h \in Halves(n) : h \in TreeRange
  BY <1>1, NodeRange
<1>14. /\ \A r \in TreeRange : Passed(r) => Passed(r)'
       /\ \A r \in TreeRange : Passed(r)' => Passed(r) \/ r = range[t]
       /\ \A r \in TreeRange : Published(r)' => Published(r) \/ r = Root
  BY <1>1, PassedStep DEF Step
<1>15. LinksRight'
  BY <1>6, <1>7, <1>12 DEF StoreInv, LinksRight
<1>16. LinksStored'
  <2> SUFFICES ASSUME NEW n \in Node, NEW h \in Halves(n), Passed(h)'
               PROVE  HasLoc(Child(n, Side(n, h)))'
    BY <1>12 DEF LinksStored
  <2>1. Passed(h) \/ h = range[t]
    BY <1>13, <1>14
  <2> QED BY <1>6, <1>7, <2>1 DEF StoreInv, LinksStored
<1>17. BoxesPassed'
  <2> SUFFICES ASSUME NEW n \in Node, HasLoc(BoxOf(n))' PROVE Passed(RangeOf(n))'
    BY <1>12 DEF BoxesPassed
  <2>1. CASE n = m
    <3>1. Inside(RangeOf(m), RangeOf(m))
      BY <1>13, KeyBitsNat DEF Inside, TreeRange
    <3> QED BY <1>1, <1>2, <1>12, <2>1, <3>1 DEF Passed, Inside
  <2>2. CASE n # m
    <3>1. Passed(RangeOf(n))
      BY <1>6, <1>7, <2>2 DEF StoreInv, BoxesPassed
    <3> QED BY <1>12, <1>13, <1>14, <3>1 DEF Passed
  <2> QED BY <2>1, <2>2
<1>18. BoxesPublished'
  <2> SUFFICES ASSUME NEW n \in Node, Published(RangeOf(n))', RangeOf(n) # Root
               PROVE  Arrived(n)'
    BY <1>12 DEF BoxesPublished
  <2>1. Published(RangeOf(n))
    BY <1>12, <1>13, <1>14 DEF Published
  <2> QED BY <1>8, <2>1 DEF StoreInv, BoxesPublished
<1>19. BoxesFenced'
  <2> SUFFICES ASSUME NEW u \in Leaf, NEW n \in Node, pc'[u] = "fence", range'[u] = RangeOf(n)
               PROVE  Arrived(n)' \/ BoxStores(u, n)' # {}
    BY <1>12 DEF BoxesFenced
  <2>1. CASE u = t
    <3>1. n = m
      <4>1. ItemOf(RangeOf(n)) = <<"node", n>> /\ ItemOf(RangeOf(m)) = <<"node", m>>
        BY <1>1, NodeRange
      <4> QED BY <1>1, <1>2, <2>1, <4>1
    <3>2. {s \in S : s.loc = BoxOf(m)} # {}
      BY <1>6
    <3> QED BY <1>6, <1>8, <2>1, <3>1, <3>2
  <2>2. CASE u # t
    <3>1. Arrived(n) \/ BoxStores(u, n) # {}
      BY <1>1, <2>2 DEF StoreInv, BoxesFenced
    <3> QED BY <1>8, <2>2, <3>1
  <2> QED BY <2>1, <2>2
<1>20. BoxesPending'
  <2>1. CASE storesInOrder
    <3>1. \A u \in Leaf : \A n : BoxStores(u, n)' = {}
      BY <1>7, <2>1 DEF StoreInv, BoxStores
    <3> QED BY <3>1 DEF BoxesPending
  <2>2. CASE ~storesInOrder
    <3>1. \A n : Arrived(n)' <=> Arrived(n)
      BY <1>8, <2>2
    <3>2. \A n \in Node : n # m => \A u \in Leaf : BoxStores(u, n)' = BoxStores(u, n)
      <4>1. \A n \in Node : n # m => {s \in S : s.loc = BoxOf(n)} = {}
        BY <1>6
      <4> QED BY <1>8, <4>1
    <3>3. \A u \in Leaf : BoxStores(u, m)' = IF u = t THEN {s \in S : s.loc = BoxOf(m)} ELSE {}
      BY <1>8, <1>10, <2>2
    <3> SUFFICES ASSUME NEW u \in Leaf, NEW n \in Node, BoxStores(u, n)' # {}
                 PROVE  /\ ~Arrived(n)
                        /\ \A c \in InternalChildren(n) : Arrived(c)
                        /\ \A v \in Leaf : BoxStores(v, n)' # {} => v = u
                        /\ \A s, q \in BoxStores(u, n)' : s = q
      BY <1>12, <3>1 DEF BoxesPending
    <3>4. CASE n = m
      BY <1>6, <1>10, <1>11, <3>3, <3>4
    <3>5. CASE n # m
      BY <3>2, <3>5 DEF StoreInv, BoxesPending
    <3> QED BY <3>4, <3>5
  <2> QED BY <2>1, <2>2
<1>21. storesInOrder' => \A u \in Leaf : pending'[u] = {}
  BY <1>1, <1>7 DEF StoreInv
<1>22. (\A n \in Node : Arrived(n)' <=> Arrived(n)) \/ \E n \in Node : Fits(n)
  BY <1>6, <1>8, <1>10, <1>11 DEF Fits
<1> QED BY <1>7, <1>15, <1>16, <1>17, <1>18, <1>19, <1>20, <1>21, <1>22 DEF StoreInv

LEMMA ArriveStores ==
  ASSUME ClimbInv, StoreInv, NEW t \in Leaf, Arrive(t)
  PROVE  /\ StoreInv'
         /\ (\A n \in Node : Arrived(n)' <=> Arrived(n)) \/ \E n \in Node : Fits(n)
<1>1. PendingIsFunction /\ UNCHANGED <<storesInOrder, differ, pc, range>>
  BY DEF StoreInv, Arrive
<1>2. PICK s \in pending[t] :
        /\ DOMAIN memory' = DOMAIN memory \cup {s.loc}
        /\ \A u \in Leaf : pending'[u] = IF u = t THEN pending[t] \ {s} ELSE pending[u]
  BY <1>1, ArriveEffect
<1>3. /\ PendingIsFunction'
      /\ \A l : HasLoc(l)' <=> HasLoc(l)
      /\ \A l, v : Written(l, v)' => Written(l, v)
  BY <1>1, ArriveEffect
<1>4. ~storesInOrder
  BY <1>2 DEF StoreInv
<1>5. /\ \A n : Arrived(n)' <=> Arrived(n) \/ s.loc = BoxOf(n)
      /\ \A u \in Leaf : \A n : BoxStores(u, n)' = IF u = t THEN BoxStores(u, n) \ {s} ELSE BoxStores(u, n)
  BY <1>2 DEF Arrived, BoxStores
<1>6. /\ Node' = Node /\ Root' = Root
      /\ \A n : RangeOf(n)' = RangeOf(n) /\ Halves(n)' = Halves(n)
      /\ \A n : InternalChildren(n)' = InternalChildren(n)
      /\ \A n, k : RadixChild(n, k)' = RadixChild(n, k)
  BY <1>1, TreeFrame DEF Node, Root
<1>7. \A r : (Passed(r)' <=> Passed(r)) /\ (Published(r)' <=> Published(r))
  BY <1>1 DEF Passed, Published, Inside
<1>8. \A n \in Node : s.loc = BoxOf(n) =>
        ~Arrived(n) /\ (\A c \in InternalChildren(n) : Arrived(c)) /\ \A u \in Leaf : BoxStores(u, n)' = {}
  <2> SUFFICES ASSUME NEW n \in Node, s.loc = BoxOf(n)
               PROVE  ~Arrived(n) /\ (\A c \in InternalChildren(n) : Arrived(c)) /\ \A u \in Leaf : BoxStores(u, n)' = {}
    OBVIOUS
  <2>1. s \in BoxStores(t, n)
    BY DEF BoxStores
  <2> QED BY <1>5, <2>1 DEF StoreInv, BoxesPending
<1>9. LinksRight' /\ LinksStored' /\ BoxesPassed'
  <2>1. LinksRight'
    BY <1>3, <1>6 DEF StoreInv, LinksRight
  <2>2. LinksStored'
    BY <1>3, <1>6, <1>7 DEF StoreInv, LinksStored, Passed
  <2>3. BoxesPassed'
    BY <1>3, <1>6, <1>7 DEF StoreInv, BoxesPassed, Passed
  <2> QED BY <2>1, <2>2, <2>3
<1>10. BoxesPublished'
  BY <1>5, <1>6, <1>7 DEF StoreInv, BoxesPublished, Published
<1>11. BoxesFenced'
  <2> SUFFICES ASSUME NEW u \in Leaf, NEW n \in Node, pc[u] = "fence", range[u] = RangeOf(n)
               PROVE  Arrived(n)' \/ BoxStores(u, n)' # {}
    BY <1>1, <1>6 DEF BoxesFenced
  <2>1. Arrived(n) \/ BoxStores(u, n) # {}
    BY DEF StoreInv, BoxesFenced
  <2>2. s \in BoxStores(u, n) => s.loc = BoxOf(n)
    BY DEF BoxStores
  <2> QED BY <1>5, <2>1, <2>2
<1>12. BoxesPending'
  <2> SUFFICES ASSUME NEW u \in Leaf, NEW n \in Node, BoxStores(u, n)' # {}
               PROVE  /\ ~Arrived(n)'
                      /\ \A c \in InternalChildren(n) : Arrived(c)'
                      /\ \A v \in Leaf : BoxStores(v, n)' # {} => v = u
                      /\ \A x, q \in BoxStores(u, n)' : x = q
    BY <1>6 DEF BoxesPending
  <2>1. s.loc # BoxOf(n)
    BY <1>8
  <2>2. BoxStores(u, n) # {} /\ BoxStores(u, n)' \subseteq BoxStores(u, n)
    BY <1>5
  <2>3. \A v \in Leaf : BoxStores(v, n)' # {} => BoxStores(v, n) # {}
    BY <1>5
  <2> QED BY <1>5, <2>1, <2>2, <2>3 DEF StoreInv, BoxesPending
<1>13. storesInOrder' => \A u \in Leaf : pending'[u] = {}
  BY <1>1, <1>4
<1>14. (\A n \in Node : Arrived(n)' <=> Arrived(n)) \/ \E n \in Node : Fits(n)
  BY <1>5, <1>8, Locations DEF Fits
<1> QED BY <1>3, <1>9, <1>10, <1>11, <1>12, <1>13, <1>14 DEF StoreInv

LEMMA StoreStep ==
  ASSUME ClimbInv, StoreInv, [Next]_vars
  PROVE  /\ StoreInv'
         /\ (\A n \in Node : Arrived(n)' <=> Arrived(n)) \/ \E n \in Node : Fits(n)
<1>1. ASSUME UNCHANGED vars
      PROVE  StoreInv' /\ \A n \in Node : Arrived(n)' <=> Arrived(n)
  <2>1. \A l, v : (HasLoc(l)' <=> HasLoc(l)) /\ (Written(l, v)' <=> Written(l, v))
    BY <1>1 DEF vars, HasLoc, Written
  <2>2. /\ \A n : RangeOf(n)' = RangeOf(n) /\ Halves(n)' = Halves(n)
        /\ \A n : InternalChildren(n)' = InternalChildren(n)
        /\ \A n, k : RadixChild(n, k)' = RadixChild(n, k)
    BY <1>1, TreeFrame DEF vars
  <2>3. \A r : (Passed(r)' <=> Passed(r)) /\ (Published(r)' <=> Published(r))
    BY <1>1 DEF vars, Passed, Published, Inside
  <2>4. \A n : (Arrived(n)' <=> Arrived(n)) /\ \A t : BoxStores(t, n)' = BoxStores(t, n)
    BY <1>1 DEF vars, Arrived, BoxStores
  <2>5. LinksRight' /\ LinksStored' /\ BoxesPassed' /\ BoxesPublished'
    BY <2>1, <2>2, <2>3, <2>4 DEF StoreInv, LinksRight, LinksStored, BoxesPassed, BoxesPublished, Root, Passed, Published
  <2>6. BoxesFenced' /\ BoxesPending'
    BY <1>1, <2>2, <2>4 DEF vars, StoreInv, BoxesFenced, BoxesPending
  <2> QED BY <1>1, <2>4, <2>5, <2>6 DEF vars, StoreInv, PendingIsFunction
<1> QED BY <1>1, QuietStores, LinkStores, ArriveStores DEF Next, Step, Terminated

LEMMA Invariants == Spec => [](ClimbInv /\ StoreInv)
<1>1. ClimbInv /\ StoreInv /\ [Next]_vars => (ClimbInv /\ StoreInv)'
  BY ClimbStep, StoreStep
<1>2. Init => ClimbInv /\ StoreInv
  BY ClimbInit, StoreInit
<1> QED BY <1>1, <1>2, PTL DEF Spec

-----------------------------------------------------------------------------
(* When all threads have left, every node has been entered: of the         *)
(* smallest that was not, both halves would have been left, with different *)
(* far ends, and there is one counter for the two.                         *)
LEMMA AllEntered ==
  ASSUME ClimbInv, \A t \in Leaf : pc[t] = "done", NEW n \in Node
  PROVE  Entered(n)
<1> DEFINE size(m) == Hi(m) - Lo(m)
           U == {size(m) : m \in {l \in Node : ~Entered(l)}}
<1> SUFFICES ASSUME ~Entered(n) PROVE FALSE
  OBVIOUS
<1>1. Graded(differ) /\ range \in [Leaf -> TreeRange] /\ \A t \in Leaf : PlaceInv(t)
  BY DEF ClimbInv, ClimbTyped
<1>2. \A m \in Node : Lo(m) \in 0 .. m /\ Hi(m) \in m + 1 .. primCount - 1 /\ m \in Nat
  BY <1>1, NodeEnds, KeyBitsNat DEF Node
<1>3. \A m \in Node : size(m) \in Nat
  BY <1>2, KeyBitsNat
<1> HIDE DEF size
<1>4. PICK u \in U : \A x \in U : u <= x
  <2>1. U \subseteq Nat /\ size(n) \in U
    BY <1>3
  <2> QED BY <2>1, Smallest
<1>5. PICK m \in Node : ~Entered(m) /\ u = size(m)
  OBVIOUS
<1>6. \A l \in Node : ~Entered(l) => size(m) <= size(l)
  BY <1>4, <1>5
<1> HIDE DEF U
<1>7. \A h \in Halves(m) : \E t \in Leaf : range[t] = h
  <2> SUFFICES ASSUME NEW h \in Halves(m) PROVE \E t \in Leaf : range[t] = h
    OBVIOUS
  <2>1. h \in TreeRange /\ Inside(h, RangeOf(m)) /\ h # RangeOf(m)
    BY <1>1, HalvesClimb, HalvesMeet
  <2>2. \E t \in Leaf : Inside(h, range[t])
    <3>1. CASE h.j = h.i + 1
      <4>1. h.i \in Leaf /\ h.i \in Int
        BY <2>1, KeyBitsNat DEF TreeRange, Leaf
      <4>2. range[h.i].i <= h.i /\ h.i < range[h.i].j /\ range[h.i].j \in Int
        BY <1>1, <4>1, KeyBitsNat DEF PlaceInv, TreeRange
      <4> QED BY <3>1, <4>1, <4>2 DEF Inside
    <3>2. CASE h.j # h.i + 1
      <4>1. PICK l \in Node : RangeOf(l) = h
        BY <1>1, <2>1, <3>2, RangeHasNode
      <4>2. size(l) < size(m)
        <5>1. Lo(m) <= Lo(l) /\ Hi(l) + 1 <= Hi(m) + 1 /\ ~(Lo(m) = Lo(l) /\ Hi(l) + 1 = Hi(m) + 1)
          BY <2>1, <4>1 DEF RangeOf, Inside
        <5> QED BY <1>2, <5>1, KeyBitsNat DEF size
      <4>3. Entered(l)
        BY <1>3, <1>6, <4>2
      <4> QED BY <4>1, <4>3 DEF Entered
    <3> QED BY <3>1, <3>2
  <2>3. PICK t \in Leaf : Inside(h, range[t])
    BY <2>2
  <2>4. range[t] \in TreeRange /\ ~Inside(RangeOf(m), range[t])
    BY <1>1, <1>5 DEF Entered
  <2> QED BY <1>1, <2>3, <2>4, AboveHalf
<1> DEFINE left  == [i |-> Lo(m), j |-> m + 1]
           right == [i |-> m + 1, j |-> Hi(m) + 1]
<1>8. left \in Halves(m) /\ right \in Halves(m) /\ left # right
  <2>1. Lo(m) # m + 1
    BY <1>2
  <2> QED BY <2>1 DEF Halves
<1> HIDE DEF left, right
<1>9. PICK t \in Leaf : range[t] = left
  BY <1>7, <1>8
<1>10. PICK v \in Leaf : range[v] = right
  BY <1>7, <1>8
<1>11. Left(t, m) /\ Left(v, m)
  BY <1>8, <1>9, <1>10 DEF Left
<1>12. FarEnd(range[t]) # FarEnd(range[v])
  BY <1>1, <1>8, <1>9, <1>10, HalvesMeet
<1> QED BY <1>5, <1>11, <1>12 DEF ClimbInv, Untouched, Halved

LEMMA RootRange ==
  ASSUME Graded(differ)
  PROVE  Root \in TreeRange /\ Root.j # Root.i + 1 /\ \A r \in TreeRange : Inside(r, Root)
<1>1. IsRange(differ, 0, primCount)
  BY KeyBitsNat DEF IsRange, Graded
<1>2. 0 \in 0 .. primCount - 1 /\ primCount \in 1 .. primCount /\ primCount # 0 + 1
  BY KeyBitsNat
<1>3. \A r \in TreeRange : 0 <= r.i /\ r.j <= primCount
  BY KeyBitsNat DEF TreeRange
<1> QED BY <1>1, <1>2, <1>3 DEF TreeRange, Root, Inside

LEMMA TreeIsBuilt == ClimbInv /\ StoreInv => RadixTree
<1> SUFFICES ASSUME ClimbInv, StoreInv, Finished
             PROVE  /\ \A n \in Node, k \in {0, 1} :
                         Child(n, k) \in DOMAIN memory /\ memory[Child(n, k)] = RadixChild(n, k)
                    /\ updateCounters[primCount - 1] = Strongest(0, primCount - 2)
  BY DEF RadixTree
<1>1. Graded(differ) /\ range \in [Leaf -> TreeRange] /\ \A t \in Leaf : PlaceInv(t)
  BY DEF ClimbInv, ClimbTyped
<1>2. \A t \in Leaf : pc[t] = "done" /\ pending[t] = {}
  BY DEF Finished
<1>3. PICK t \in Leaf : range[t] = Root
  <2>1. PICK n \in Node : RangeOf(n) = Root
    BY <1>1, RootRange, RangeHasNode
  <2>2. PICK t \in Leaf : Inside(Root, range[t])
    BY <1>2, <2>1, AllEntered DEF Entered
  <2>3. range[t] \in TreeRange
    BY <1>1
  <2>4. range[t] = Root
    BY <2>2, <2>3, KeyBitsNat DEF TreeRange, Inside, Root
  <2> QED BY <2>4
<1>4. ASSUME NEW n \in Node, NEW k \in {0, 1}
      PROVE  Child(n, k) \in DOMAIN memory /\ memory[Child(n, k)] = RadixChild(n, k)
  <2>1. Lo(n) \in 0 .. n /\ Hi(n) \in n + 1 .. primCount - 1 /\ n \in Nat
    BY <1>1, NodeEnds, KeyBitsNat DEF Node
  <2>2. PICK h \in Halves(n) : Side(n, h) = k
    <3> DEFINE left  == [i |-> Lo(n), j |-> n + 1]
               right == [i |-> n + 1, j |-> Hi(n) + 1]
    <3>1. Side(n, left) = 0 /\ Side(n, right) = 1
      BY <2>1, KeyBitsNat DEF Side
    <3>2. left \in Halves(n) /\ right \in Halves(n)
      BY DEF Halves
    <3> HIDE DEF left, right
    <3> QED BY <3>1, <3>2
  <2>3. Inside(h, Root)
    BY <1>1, HalvesClimb, RootRange
  <2>4. HasLoc(Child(n, k))
    BY <1>2, <1>3, <2>2, <2>3 DEF Passed, StoreInv, LinksStored
  <2>5. Child(n, k) \in DOMAIN memory
    BY <1>2, <2>4 DEF HasLoc
  <2>6. Written(Child(n, k), memory[Child(n, k)])
    BY <2>5 DEF Written
  <2> QED BY <2>5, <2>6 DEF StoreInv, LinksRight
<1>5. updateCounters[primCount - 1] = Strongest(0, primCount - 2)
  BY <1>1, <1>2, <1>3 DEF PlaceInv
<1> QED BY <1>4, <1>5

(* Whatever the order in which the threads run and their stores arrive,    *)
(* EmitTopologyAndFitBounds leaves the radix tree of the codes behind, and *)
(* its root where the host reads it.                                       *)
THEOREM RadixTreeBuilt == Spec => []RadixTree
BY Invariants, TreeIsBuilt, PTL

(* Every node is fitted once, and none before its internal children, on    *)
(* whatever schedule.                                                      *)
THEOREM FitsBottomUp == Spec => ImplementsBottomUp
<1>1. Init => Tree!Init
  BY DEF Init, Tree!Init
<1>2. ClimbInv /\ StoreInv /\ [Next]_vars
        => [Tree!Next]_<<{n \in Node : BoxOf(n) \in DOMAIN memory}, [n \in Node |-> InternalChildren(n)]>>
  <2> SUFFICES ASSUME ClimbInv, StoreInv, [Next]_vars
               PROVE  [Tree!Next]_<<{n \in Node : BoxOf(n) \in DOMAIN memory}, [n \in Node |-> InternalChildren(n)]>>
    OBVIOUS
  <2>1. UNCHANGED differ /\ Node' = Node /\ Graded(differ)
    BY DEF Next, vars, Step, Start, Meet, Fit, Link, Fence, Arrive, Terminated, Node, ClimbInv, ClimbTyped
  <2>2. [n \in Node |-> InternalChildren(n)]' = [n \in Node |-> InternalChildren(n)]
    BY <2>1, TreeFrame
  <2>3. CASE \A n \in Node : Arrived(n)' <=> Arrived(n)
    BY <2>1, <2>2, <2>3 DEF Arrived
  <2>4. CASE \E n \in Node : Fits(n)
    <3>1. PICK n \in Node : Fits(n)
      BY <2>4
    <3>2. InternalChildren(n) \subseteq Node
      BY <2>1, ChildNodes
    <3> DEFINE fitted == {m \in Node : BoxOf(m) \in DOMAIN memory}
    <3>3. n \notin fitted /\ InternalChildren(n) \subseteq fitted
      BY <3>1, <3>2 DEF Fits, Arrived
    <3>4. fitted' = fitted \cup {n}
      BY <2>1, <3>1 DEF Fits, Arrived
    <3>5. Tree!Fit(n)
      BY <2>2, <3>3, <3>4 DEF Tree!Fit
    <3> QED BY <3>5 DEF Tree!Next
  <2> QED BY <2>3, <2>4, StoreStep
<1> QED BY <1>1, <1>2, Invariants, PTL DEF Spec, ImplementsBottomUp, Tree!Spec

-----------------------------------------------------------------------------
(* The boxes, on a device that keeps a thread's stores in order.           *)
Codes(r) == r.i .. r.j - 1

LeafOf(i) == [i |-> i, j |-> i + 1]

RefsStored ==
  \A i \in Leaf :
    /\ \A v : Written(Ref(i), v) => v = {i}
    /\ Passed(LeafOf(i)) => HasLoc(Ref(i))

BoxesStored == \A n \in Node : Passed(RangeOf(n)) => HasLoc(BoxOf(n))

BoxInv ==
  /\ RefsStored /\ BoxesStored
  /\ box = [t \in Leaf |-> box[t]]
  /\ storesInOrder =>
       /\ \A t \in Leaf : pc[t] = "link" => box[t] = Codes(range[t])
       /\ \A n \in Node : \A v : Written(BoxOf(n), v) => v = Codes(RangeOf(n))

(* The box read from a half of the node a thread is at.                    *)
LEMMA HalfBox ==
  ASSUME ClimbInv, StoreInv, BoxInv, storesInOrder, NEW t \in Leaf, NEW n \in Node,
         range[t] = RangeOf(n), NEW h \in Halves(n)
  PROVE  Side(n, h) \in {0, 1} => ChildBox(Child(n, Side(n, h))) = Codes(h)
<1> SUFFICES ASSUME Side(n, h) \in {0, 1} PROVE ChildBox(Child(n, Side(n, h))) = Codes(h)
  OBVIOUS
<1> DEFINE l == Child(n, Side(n, h))
<1>1. Graded(differ) /\ \A u \in Leaf : pending[u] = {}
  BY DEF ClimbInv, ClimbTyped, StoreInv
<1>2. \A x : HasLoc(x) => x \in DOMAIN memory /\ Written(x, memory[x])
  BY <1>1 DEF HasLoc, Written
<1>3. h \in TreeRange /\ Parent(h) = n /\ h # Root
  BY <1>1, HalvesClimb
<1>4. Passed(h)
  <2>1. Inside(h, RangeOf(n)) /\ h # RangeOf(n)
    BY <1>1, HalvesMeet
  <2> QED BY <2>1 DEF Passed
<1>5. l \in DOMAIN memory /\ memory[l] = ItemOf(h)
  <2>1. HasLoc(l)
    BY <1>4 DEF StoreInv, LinksStored
  <2>2. memory[l] = RadixChild(n, Side(n, h))
    BY <1>2, <2>1 DEF StoreInv, LinksRight
  <2>3. ItemOf(h) = RadixChild(n, Side(n, h))
    BY <1>1, <1>3, LinkIsRight
  <2> QED BY <1>2, <2>1, <2>2, <2>3
<1> HIDE DEF l
<1>6. CASE h.j = h.i + 1
  <2>1. ItemOf(h) = <<"leaf", h.i>>
    BY <1>6 DEF ItemOf
  <2>2. h.i \in Leaf /\ h = LeafOf(h.i) /\ Codes(h) = {h.i}
    <3>1. h.i \in Leaf /\ h = [i |-> h.i, j |-> h.j] /\ h.i \in Int
      BY <1>3, KeyBitsNat DEF TreeRange, Leaf
    <3>2. h.i .. (h.i + 1) - 1 = {h.i}
      BY <3>1
    <3> QED BY <1>6, <3>1, <3>2 DEF LeafOf, Codes
  <2>3. Ref(h.i) \in DOMAIN memory /\ memory[Ref(h.i)] = {h.i}
    BY <1>2, <1>4, <2>2 DEF BoxInv, RefsStored
  <2>4. ChildBox(l) = Seen(Ref(h.i))
    BY <1>5, <2>1 DEF ChildBox
  <2> QED BY <2>2, <2>3, <2>4 DEF Seen, l
<1>7. CASE h.j # h.i + 1
  <2>1. PICK m \in Node : RangeOf(m) = h
    BY <1>1, <1>3, <1>7, RangeHasNode
  <2>2. ItemOf(h) = <<"node", m>>
    BY <1>1, <2>1, NodeRange
  <2>3. BoxOf(m) \in DOMAIN memory /\ memory[BoxOf(m)] = Codes(h)
    BY <1>2, <1>4, <2>1 DEF BoxInv, BoxesStored
  <2>4. ChildBox(l) = Seen(BoxOf(m))
    BY <1>5, <2>2 DEF ChildBox
  <2> QED BY <2>3, <2>4 DEF Seen, l
<1> QED BY <1>6, <1>7

LEMMA FitBox ==
  ASSUME ClimbInv, StoreInv, BoxInv, storesInOrder, NEW t \in Leaf, Fit(t)
  PROVE  box'[t] = Codes(range[t])
<1>1. /\ Graded(differ) /\ range \in [Leaf -> TreeRange] /\ index[t] = ItemOf(range[t])
      /\ PlaceInv(t) /\ pc[t] = "fit"
  BY DEF ClimbInv, ClimbTyped, Fit
<1>2. PICK n \in Node : RangeOf(n) = range[t]
  <2>1. range[t].j # range[t].i + 1
    BY <1>1 DEF PlaceInv
  <2> QED BY <1>1, <2>1, RangeHasNode
<1>3. index[t][2] = n
  <2>1. index[t] = <<"node", n>>
    BY <1>1, <1>2, NodeRange
  <2> QED BY <2>1
<1>4. box'[t] = ChildBox(Child(n, 0)) \cup ChildBox(Child(n, 1))
  BY <1>3 DEF Fit, BoxInv
<1>5. Lo(n) \in 0 .. n /\ Hi(n) \in n + 1 .. primCount - 1 /\ n \in Nat
  BY <1>1, NodeEnds, KeyBitsNat DEF Node
<1> DEFINE left  == [i |-> Lo(n), j |-> n + 1]
           right == [i |-> n + 1, j |-> Hi(n) + 1]
<1>6. /\ Side(n, left) = 0 /\ Side(n, right) = 1
      /\ Codes(left) = Lo(n) .. n /\ Codes(right) = n + 1 .. Hi(n) /\ Codes(RangeOf(n)) = Lo(n) .. Hi(n)
  BY <1>5, KeyBitsNat DEF Side, Codes, RangeOf
<1>7. left \in Halves(n) /\ right \in Halves(n)
  BY DEF Halves
<1> HIDE DEF left, right
<1>8. ChildBox(Child(n, 0)) = Lo(n) .. n
  BY <1>2, <1>6, <1>7, HalfBox
<1>9. ChildBox(Child(n, 1)) = n + 1 .. Hi(n)
  BY <1>2, <1>6, <1>7, HalfBox
<1>10. (Lo(n) .. n) \cup (n + 1 .. Hi(n)) = Lo(n) .. Hi(n)
  BY <1>5, KeyBitsNat
<1> QED BY <1>2, <1>4, <1>6, <1>8, <1>9, <1>10

LEMMA BoxInit == Init /\ ClimbInv => BoxInv
<1> SUFFICES ASSUME Init, ClimbInv PROVE BoxInv
  OBVIOUS
<1>1. /\ DOMAIN memory = {} /\ pending = [t \in Leaf |-> {}] /\ pc = [t \in Leaf |-> "start"]
      /\ box = [t \in Leaf |-> {t}] /\ range = [t \in Leaf |-> [i |-> t, j |-> t + 1]]
      /\ Graded(differ)
  BY DEF Init, ClimbInv, ClimbTyped
<1>2. \A l, v : ~Written(l, v)
  BY <1>1 DEF Written
<1>3. \A i \in Leaf : ~Passed(LeafOf(i))
  <2> SUFFICES ASSUME NEW i \in Leaf, NEW t \in Leaf, Inside(LeafOf(i), range[t])
               PROVE  range[t] = LeafOf(i)
    BY <1>1 DEF Passed
  <2>1. range[t] = LeafOf(t) /\ i \in Int /\ t \in Int
    BY <1>1, KeyBitsNat DEF LeafOf, Leaf
  <2>2. t <= i /\ i + 1 <= t + 1
    BY <2>1 DEF Inside, LeafOf
  <2>3. i = t
    BY <2>1, <2>2
  <2> QED BY <2>1, <2>3
<1>4. \A n \in Node : ~Passed(RangeOf(n))
  <2> SUFFICES ASSUME NEW n \in Node, NEW t \in Leaf, Inside(RangeOf(n), range[t])
               PROVE  FALSE
    BY DEF Passed
  <2>1. Lo(n) \in 0 .. n /\ Hi(n) \in n + 1 .. primCount - 1 /\ n \in Nat /\ t \in Int
    BY <1>1, NodeEnds, KeyBitsNat DEF Node, Leaf
  <2>2. t <= Lo(n) /\ Hi(n) + 1 <= t + 1
    BY <1>1 DEF Inside, RangeOf
  <2> QED BY <2>1, <2>2, KeyBitsNat
<1> QED BY <1>1, <1>2, <1>3, <1>4 DEF BoxInv, RefsStored, BoxesStored

(* What a step must do to the stores and the boxes to keep the invariant.  *)
LEMMA BoxKept ==
  ASSUME ClimbInv, BoxInv, [Next]_vars,
         \A i \in Leaf : \A v : Written(Ref(i), v)' => v = {i},
         \A n \in Node : \A v : storesInOrder /\ Written(BoxOf(n), v)' => v = Codes(RangeOf(n)),
         \A l : HasLoc(l) => HasLoc(l)',
         \A i \in Leaf : Passed(LeafOf(i))' => Passed(LeafOf(i)) \/ HasLoc(Ref(i))',
         \A n \in Node : Passed(RangeOf(n))' => Passed(RangeOf(n)) \/ HasLoc(BoxOf(n))',
         box' = [t \in Leaf |-> box'[t]],
         \A t \in Leaf : storesInOrder /\ pc'[t] = "link" => box'[t] = Codes(range[t]) /\ range'[t] = range[t]
  PROVE  BoxInv'
<1>1. UNCHANGED <<storesInOrder, differ>>
  BY DEF Next, vars, Step, Start, Meet, Fit, Link, Fence, Arrive, Terminated
<1>2. Node' = Node /\ Leaf' = Leaf /\ \A n : RangeOf(n)' = RangeOf(n)
  BY <1>1, TreeFrame DEF Node, Leaf
<1>3. RefsStored'
  BY <1>2 DEF BoxInv, RefsStored
<1>4. BoxesStored'
  BY <1>2 DEF BoxInv, BoxesStored
<1>5. \A r : Codes(r)' = Codes(r)
  BY DEF Codes
<1> QED BY <1>1, <1>2, <1>3, <1>4, <1>5 DEF BoxInv, Codes

LEMMA BoxStep == ClimbInv /\ StoreInv /\ BoxInv /\ [Next]_vars => BoxInv'
<1> SUFFICES ASSUME ClimbInv, StoreInv, BoxInv, [Next]_vars PROVE BoxInv'
  OBVIOUS
<1>1. /\ Graded(differ) /\ range \in [Leaf -> TreeRange] /\ pc \in [Leaf -> Places]
      /\ \A u \in Leaf : PlaceInv(u) /\ index[u] = ItemOf(range[u])
      /\ PendingIsFunction
  BY DEF ClimbInv, ClimbTyped, StoreInv
<1>2. /\ \A i \in Leaf : \A v : Written(Ref(i), v) => v = {i}
      /\ \A n \in Node : \A v : storesInOrder /\ Written(BoxOf(n), v) => v = Codes(RangeOf(n))
      /\ box = [u \in Leaf |-> box[u]]
      /\ \A u \in Leaf : storesInOrder /\ pc[u] = "link" => box[u] = Codes(range[u])
  BY DEF BoxInv, RefsStored
<1>3. UNCHANGED differ => \A n : RangeOf(n)' = RangeOf(n)
  BY TreeFrame
<1>4. (\A i \in Leaf : LeafOf(i) \in TreeRange) /\ \A n \in Node : RangeOf(n) \in TreeRange
  BY <1>1, LeafRange, NodeRange DEF LeafOf
<1>5. ASSUME NEW t \in Leaf, Start(t)
      PROVE  BoxInv'
  <2> DEFINE S == {[loc |-> Ref(t), val |-> {t}]} \cup LinkStore(range[t], index[t])
  <2>1. /\ Issue(t, S) /\ UNCHANGED <<differ, range, box>> /\ pc[t] = "start"
        /\ pc' = [pc EXCEPT ![t] = "meet"] /\ range[t] = LeafOf(t)
    BY <1>1, <1>5 DEF Start, PlaceInv, LeafOf
  <2>2. \A s \in LinkStore(range[t], index[t]) : \E n, k : s.loc = Child(n, k)
    BY DEF LinkStore
  <2>3. /\ \A s \in S : \A n : s.loc # BoxOf(n)
        /\ \A s \in S : \A i : s.loc = Ref(i) => i = t /\ s.val = {t}
        /\ \E s \in S : s.loc = Ref(t)
    <3> DEFINE a == [loc |-> Ref(t), val |-> {t}]
               L == LinkStore(range[t], index[t])
    <3>1. \A s : s \in S <=> s = a \/ s \in L
      OBVIOUS
    <3>2. a.loc = Ref(t) /\ a.val = {t}
      OBVIOUS
    <3> HIDE DEF S, a, L
    <3> QED BY <2>2, <3>1, <3>2, Locations DEF L
  <2> HIDE DEF S
  <2>4. /\ \A l : HasLoc(l)' <=> HasLoc(l) \/ \E s \in S : s.loc = l
        /\ \A l, v : Written(l, v)' => Written(l, v) \/ \E s \in S : s.loc = l /\ s.val = v
    BY <1>1, <2>1, IssueEffect
  <2>5. \A r \in TreeRange : Passed(r)' => Passed(r) \/ r = range[t]
    BY <1>5, PassedStep DEF Step
  <2>6. \A i \in Leaf : LeafOf(i) = LeafOf(t) => i = t
    BY DEF LeafOf
  <2>7. \A n \in Node : RangeOf(n) # LeafOf(t)
    BY <1>1, NodeRange DEF LeafOf
  <2>8. HasLoc(Ref(t))'
    BY <2>3, <2>4
  <2>9. \A i \in Leaf : Passed(LeafOf(i))' => Passed(LeafOf(i)) \/ HasLoc(Ref(i))'
    BY <1>4, <2>1, <2>5, <2>6, <2>8
  <2>10. \A n \in Node : Passed(RangeOf(n))' => Passed(RangeOf(n))
    <3> SUFFICES ASSUME NEW n \in Node, Passed(RangeOf(n))' PROVE Passed(RangeOf(n))
      OBVIOUS
    <3>1. PICK r : r = RangeOf(n)
      OBVIOUS
    <3>2. Passed(r)'
      BY <1>3, <2>1, <3>1 DEF Passed
    <3> QED BY <1>4, <2>1, <2>5, <2>7, <3>1, <3>2
  <2>11. \A i \in Leaf : \A v : Written(Ref(i), v)' => v = {i}
    BY <1>2, <2>3, <2>4
  <2>12. \A n \in Node : \A v : storesInOrder /\ Written(BoxOf(n), v)' => v = Codes(RangeOf(n))
    BY <1>2, <2>3, <2>4
  <2>13. \A u \in Leaf : storesInOrder /\ pc'[u] = "link" => box'[u] = Codes(range[u]) /\ range'[u] = range[u]
    BY <1>1, <1>2, <2>1
  <2> QED BY <1>2, <2>1, <2>4, <2>9, <2>10, <2>11, <2>12, <2>13, BoxKept
<1>6. ASSUME NEW t \in Leaf, Link(t)
      PROVE  BoxInv'
  <2>1. /\ UNCHANGED <<differ, range, box>> /\ pc[t] = "link"
        /\ \A u \in Leaf : pc'[u] = "link" => pc[u] = "link"
    BY <1>1, <1>6 DEF Link
  <2>2. range[t].j # range[t].i + 1
    BY <1>1, <2>1 DEF PlaceInv
  <2>3. PICK m \in Node : RangeOf(m) = range[t]
    BY <1>1, <2>2, RangeHasNode
  <2>4. index[t] = <<"node", m>>
    BY <1>1, <2>3, NodeRange
  <2> DEFINE S == {[loc |-> BoxOf(m), val |-> box[t]]} \cup LinkStore(range[t], index[t])
  <2>5. Issue(t, S)
    BY <1>6, <2>4 DEF Link
  <2>6. \A s \in LinkStore(range[t], index[t]) : \E n, k : s.loc = Child(n, k)
    BY DEF LinkStore
  <2>7. /\ \A s \in S : \A i : s.loc # Ref(i)
        /\ \A s \in S : \A n : s.loc = BoxOf(n) => n = m /\ s.val = box[t]
        /\ \E s \in S : s.loc = BoxOf(m)
    <3> DEFINE a == [loc |-> BoxOf(m), val |-> box[t]]
               L == LinkStore(range[t], index[t])
    <3>1. \A s : s \in S <=> s = a \/ s \in L
      OBVIOUS
    <3>2. a.loc = BoxOf(m) /\ a.val = box[t]
      OBVIOUS
    <3> HIDE DEF S, a, L
    <3> QED BY <2>6, <3>1, <3>2, Locations DEF L
  <2> HIDE DEF S
  <2>8. /\ \A l : HasLoc(l)' <=> HasLoc(l) \/ \E s \in S : s.loc = l
        /\ \A l, v : Written(l, v)' => Written(l, v) \/ \E s \in S : s.loc = l /\ s.val = v
    BY <1>1, <2>5, IssueEffect
  <2>9. \A r \in TreeRange : Passed(r)' => Passed(r) \/ r = range[t]
    BY <1>6, PassedStep DEF Step
  <2>10. HasLoc(BoxOf(m))'
    BY <2>7, <2>8
  <2>11. \A i \in Leaf : Passed(LeafOf(i))' => Passed(LeafOf(i))
    <3>1. \A i \in Leaf : LeafOf(i) # range[t]
      BY <2>2 DEF LeafOf
    <3> QED BY <1>4, <2>9, <3>1
  <2>12. \A n \in Node : Passed(RangeOf(n))' => Passed(RangeOf(n)) \/ HasLoc(BoxOf(n))'
    <3> SUFFICES ASSUME NEW n \in Node, Passed(RangeOf(n))', ~Passed(RangeOf(n)) PROVE HasLoc(BoxOf(n))'
      OBVIOUS
    <3>1. PICK r : r = RangeOf(n)
      OBVIOUS
    <3>2. Passed(r)'
      BY <1>3, <2>1, <3>1 DEF Passed
    <3>3. RangeOf(n) = RangeOf(m)
      BY <1>4, <2>3, <2>9, <3>1, <3>2
    <3>4. ItemOf(RangeOf(n)) = <<"node", n>> /\ ItemOf(RangeOf(m)) = <<"node", m>>
      BY <1>1, NodeRange
    <3>5. n = m
      BY <3>3, <3>4
    <3> QED BY <2>10, <3>5
  <2>13. \A i \in Leaf : \A v : Written(Ref(i), v)' => v = {i}
    BY <1>2, <2>7, <2>8
  <2>14. \A n \in Node : \A v : storesInOrder /\ Written(BoxOf(n), v)' => v = Codes(RangeOf(n))
    <3>1. storesInOrder => box[t] = Codes(RangeOf(m))
      BY <1>2, <2>1, <2>3
    <3> QED BY <1>2, <2>7, <2>8, <3>1
  <2>15. \A u \in Leaf : storesInOrder /\ pc'[u] = "link" => box'[u] = Codes(range[u]) /\ range'[u] = range[u]
    BY <1>2, <2>1
  <2> QED BY <1>2, <2>1, <2>8, <2>11, <2>12, <2>13, <2>14, <2>15, BoxKept
<1>7. ASSUME NEW t \in Leaf, Meet(t) \/ Fit(t) \/ Fence(t)
      PROVE  BoxInv'
  <2>1. /\ UNCHANGED <<differ, memory, pending>> /\ pc[t] \notin {"start", "link"}
        /\ box' = [u \in Leaf |-> box'[u]]
    BY <1>2, <1>7 DEF Meet, Fit, Fence
  <2>2. \A l, v : (HasLoc(l)' <=> HasLoc(l)) /\ (Written(l, v)' <=> Written(l, v))
    BY <2>1 DEF HasLoc, Written
  <2>3. \A r \in TreeRange : Passed(r)' => Passed(r)
    BY <1>7, <2>1, PassedStep DEF Step
  <2>4. \A n \in Node : Passed(RangeOf(n))' => Passed(RangeOf(n))
    <3> SUFFICES ASSUME NEW n \in Node, Passed(RangeOf(n))' PROVE Passed(RangeOf(n))
      OBVIOUS
    <3>1. PICK r : r = RangeOf(n)
      OBVIOUS
    <3>2. Passed(r)'
      BY <1>3, <2>1, <3>1 DEF Passed
    <3> QED BY <1>4, <2>3, <3>1, <3>2
  <2>5. \A u \in Leaf : storesInOrder /\ pc'[u] = "link" => box'[u] = Codes(range[u]) /\ range'[u] = range[u]
    <3>1. CASE Fit(t)
      <4>1. storesInOrder => box'[t] = Codes(range[t])
        BY <3>1, FitBox
      <4>2. range' = range /\ \A u \in Leaf : u # t => box'[u] = box[u] /\ pc'[u] = pc[u]
        BY <1>1, <1>2, <3>1 DEF Fit
      <4> QED BY <1>2, <4>1, <4>2
    <3>2. CASE Meet(t) \/ Fence(t)
      <4>1. box' = box /\ pc'[t] # "link" /\ \A u \in Leaf : u # t => pc'[u] = pc[u] /\ range'[u] = range[u]
        BY <1>1, <3>2 DEF Meet, Fence
      <4> QED BY <1>2, <4>1
    <3> QED BY <1>7, <3>1, <3>2
  <2> QED BY <1>2, <1>4, <2>1, <2>2, <2>3, <2>4, <2>5, BoxKept
<1>8. ASSUME NEW t \in Leaf, Arrive(t)
      PROVE  BoxInv'
  <2>1. UNCHANGED <<differ, pc, range, box>>
    BY <1>8 DEF Arrive
  <2>2. /\ \A l : HasLoc(l)' <=> HasLoc(l)
        /\ \A l, v : Written(l, v)' => Written(l, v)
    BY <1>1, <1>8, ArriveEffect
  <2>3. \A r : Passed(r)' <=> Passed(r)
    BY <2>1 DEF Passed, Inside
  <2>4. \A n \in Node : Passed(RangeOf(n))' <=> Passed(RangeOf(n))
    BY <1>3, <2>1 DEF Passed, Inside
  <2> QED BY <1>2, <2>1, <2>2, <2>3, <2>4, BoxKept
<1>9. ASSUME UNCHANGED vars
      PROVE  BoxInv'
  <2>1. \A l, v : (HasLoc(l)' <=> HasLoc(l)) /\ (Written(l, v)' <=> Written(l, v))
    BY <1>9 DEF vars, HasLoc, Written
  <2>2. UNCHANGED <<differ, pc, range, box>>
    BY <1>9 DEF vars
  <2>3. \A r : Passed(r)' <=> Passed(r)
    BY <2>2 DEF Passed, Inside
  <2>4. \A n \in Node : Passed(RangeOf(n))' <=> Passed(RangeOf(n))
    BY <1>3, <2>2 DEF Passed, Inside
  <2> QED BY <1>2, <2>1, <2>2, <2>3, <2>4, BoxKept
<1> QED BY <1>5, <1>6, <1>7, <1>8, <1>9 DEF Next, Step, Terminated

LEMMA BoxesAreComplete == ClimbInv /\ BoxInv => BoxesFit
<1> SUFFICES ASSUME ClimbInv, BoxInv, storesInOrder, NEW n \in Node, BoxOf(n) \in DOMAIN memory
             PROVE  memory[BoxOf(n)] = Lo(n) .. Hi(n)
  BY DEF BoxesFit
<1>1. Hi(n) \in Int
  <2>1. Hi(n) \in n + 1 .. primCount - 1
    BY NodeEnds DEF ClimbInv, ClimbTyped
  <2> QED BY <2>1, KeyBitsNat DEF Node
<1>2. Written(BoxOf(n), memory[BoxOf(n)])
  BY DEF Written
<1>3. memory[BoxOf(n)] = Codes(RangeOf(n))
  BY <1>2 DEF BoxInv
<1>4. (Hi(n) + 1) - 1 = Hi(n)
  BY <1>1
<1> QED BY <1>3, <1>4 DEF Codes, RangeOf

(* On a device that keeps a thread's stores in order, a box that can be    *)
(* read covers every leaf of its node.                                     *)
THEOREM BoxesAlwaysFit == Spec => []BoxesFit
<1>1. Init => ClimbInv /\ StoreInv /\ BoxInv
  BY ClimbInit, StoreInit, BoxInit
<1>2. ClimbInv /\ StoreInv /\ BoxInv /\ [Next]_vars => (ClimbInv /\ StoreInv /\ BoxInv)'
  BY ClimbStep, StoreStep, BoxStep
<1>3. ClimbInv /\ StoreInv /\ BoxInv => BoxesFit
  BY BoxesAreComplete
<1> QED BY <1>1, <1>2, <1>3, PTL DEF Spec

-----------------------------------------------------------------------------
(* The kernels behind it.  A step of the build is one of this kernel, or   *)
(* leaves its state alone.                                                 *)
LEMMA BuildSteps == [BuildNext]_<<vars, fatVars>> => [Next]_vars
BY DEF BuildNext, Emit, LaunchParents, LaunchFat, FatStep, ComputeParentAddrs, StartThread,
       CountTriangles, ArriveCount, LeaveRoot, ClimbOn, Built, Next, fatVars, vars

LEMMA BuildInvariants == BuildSpec => [](ClimbInv /\ StoreInv)
<1>1. ClimbInv /\ StoreInv /\ [BuildNext]_<<vars, fatVars>> => (ClimbInv /\ StoreInv)'
  BY BuildSteps, ClimbStep, StoreStep
<1>2. BuildInit => ClimbInv /\ StoreInv
  BY ClimbInit, StoreInit DEF BuildInit
<1> QED BY <1>1, <1>2, PTL DEF BuildSpec

(* The codes of a node, and its parent in the tree.                        *)
Size(n) == Hi(n) - Lo(n) + 1

root == Strongest(0, primCount - 2)

Above(n) == Parent(RangeOf(n))

Sides(n) == {k \in {0, 1} : RadixChild(n, k)[1] = "node"}

LEMMA SidesSplit ==
  ASSUME Graded(differ), NEW n \in Node
  PROVE  /\ Size(n) \in Nat \ {0} /\ n \in Nat
         /\ \A k \in {0, 1} : RadixChild(n, k)[1] \in {"leaf", "node"}
         /\ \A k \in Sides(n) : RadixChild(n, k)[2] \in InternalChildren(n)
         /\ InternalChildren(n) = {RadixChild(n, k)[2] : k \in Sides(n)}
         /\ 0 \in Sides(n) /\ 1 \in Sides(n) => RadixChild(n, 0)[2] # RadixChild(n, 1)[2]
         /\ Size(n) = TrianglesBelow(RadixChild(n, 0)) + TrianglesBelow(RadixChild(n, 1))
<1>1. /\ n \in Nat /\ n <= primCount - 2
      /\ Lo(n) \in 0 .. n /\ Hi(n) \in n + 1 .. primCount - 1
  BY NodeEnds, KeyBitsNat DEF Node
<1> DEFINE left  == [i |-> Lo(n), j |-> n + 1]
           right == [i |-> n + 1, j |-> Hi(n) + 1]
<1>2. left \in Halves(n) /\ right \in Halves(n)
  BY DEF Halves
<1>3. RadixChild(n, 0) = ItemOf(left) /\ RadixChild(n, 1) = ItemOf(right)
  BY HalfIsChild
<1>4. ASSUME NEW h \in Halves(n)
      PROVE  /\ ItemOf(h)[1] \in {"leaf", "node"}
             /\ TrianglesBelow(ItemOf(h)) = h.j - h.i
             /\ ItemOf(h)[1] = "node" => /\ ItemOf(h)[2] \in Node
                                         /\ RangeOf(ItemOf(h)[2]) = h
  <2>1. h \in TreeRange
    BY HalvesClimb
  <2>2. h.i \in Int /\ h.j \in Int
    BY <2>1 DEF TreeRange
  <2>3. CASE h.j = h.i + 1
    <3>1. ItemOf(h) = <<"leaf", h.i>>
      BY <2>3 DEF ItemOf
    <3> QED BY <2>2, <2>3, <3>1 DEF TrianglesBelow
  <2>4. CASE h.j # h.i + 1
    <3>1. PICK l \in Node : RangeOf(l) = h
      BY <2>1, <2>4, RangeHasNode
    <3>2. ItemOf(h) = <<"node", l>>
      BY <3>1, NodeRange
    <3>3. h.i = Lo(l) /\ h.j = Hi(l) + 1 /\ Lo(l) \in Int /\ Hi(l) \in Int
      BY <3>1, NodeEnds, KeyBitsNat DEF RangeOf, Node
    <3> QED BY <3>1, <3>2, <3>3 DEF TrianglesBelow
  <2> QED BY <2>3, <2>4
<1>5. left.i = Lo(n) /\ left.j = n + 1 /\ right.i = n + 1 /\ right.j = Hi(n) + 1
  OBVIOUS
<1>6. left # right
  BY <1>1, <1>5
<1> HIDE DEF left, right
<1>7. Size(n) = TrianglesBelow(RadixChild(n, 0)) + TrianglesBelow(RadixChild(n, 1)) /\ Size(n) \in Nat \ {0}
  BY <1>1, <1>2, <1>3, <1>4, <1>5 DEF Size
<1>8. 0 \in Sides(n) /\ 1 \in Sides(n) => RadixChild(n, 0)[2] # RadixChild(n, 1)[2]
  BY <1>2, <1>3, <1>4, <1>6 DEF Sides
<1>9. \A k \in {0, 1} : RadixChild(n, k)[1] \in {"leaf", "node"}
  BY <1>2, <1>3, <1>4
<1>10. InternalChildren(n) = {RadixChild(n, k)[2] : k \in Sides(n)}
  BY DEF InternalChildren, Sides
<1> QED BY <1>1, <1>7, <1>8, <1>9, <1>10

LEMMA RootIsTop ==
  ASSUME Graded(differ)
  PROVE  root \in Node /\ RangeOf(root) = Root
<1>1. PICK n \in Node : RangeOf(n) = Root
  BY RootRange, RangeHasNode
<1>2. ItemOf(Root) = <<"node", n>>
  BY <1>1, NodeRange
<1>3. ItemOf(Root) = <<"node", root>>
  BY RootRange DEF ItemOf, root, Root
<1> QED BY <1>1, <1>2, <1>3

(* Every node but the root is an internal child of exactly one other.      *)
LEMMA OneParent ==
  ASSUME Graded(differ)
  PROVE  /\ \A n \in Node : \A m \in InternalChildren(n) :
              m \in Node /\ m # root /\ Above(m) = n /\ Size(m) < Size(n)
         /\ \A n \in Node \ {root} : Above(n) \in Node /\ n \in InternalChildren(Above(n))
<1>1. ASSUME NEW n \in Node, NEW m \in InternalChildren(n)
      PROVE  m \in Node /\ m # root /\ Above(m) = n /\ Size(m) < Size(n)
  <2>1. m \in Node /\ RangeOf(m) \in Halves(n)
    BY <1>1, ChildNodes
  <2>2. RangeOf(m) # Root /\ Parent(RangeOf(m)) = n
    BY <2>1, HalvesClimb
  <2>3. Inside(RangeOf(m), RangeOf(n)) /\ RangeOf(m) # RangeOf(n)
    BY <2>1, HalvesMeet
  <2>4. Lo(n) <= Lo(m) /\ Hi(m) + 1 <= Hi(n) + 1 /\ ~(Lo(n) = Lo(m) /\ Hi(m) = Hi(n))
    BY <2>3 DEF Inside, RangeOf
  <2>5. /\ Lo(n) \in Int /\ Lo(m) \in Int /\ Hi(n) \in Int /\ Hi(m) \in Int
    BY <2>1, NodeEnds, KeyBitsNat DEF Node
  <2>6. Size(m) < Size(n)
    BY <2>4, <2>5 DEF Size
  <2> QED BY <2>1, <2>2, <2>6, RootIsTop DEF Above
<1>2. ASSUME NEW n \in Node \ {root}
      PROVE  Above(n) \in Node /\ n \in InternalChildren(Above(n))
  <2>1. RangeOf(n) \in TreeRange /\ ItemOf(RangeOf(n)) = <<"node", n>>
    BY NodeRange
  <2>2. RangeOf(n) # Root
    <3>1. ASSUME RangeOf(n) = Root PROVE FALSE
      <4>1. ItemOf(Root) = <<"node", n>> /\ ItemOf(Root) = <<"node", root>>
        BY <2>1, <3>1, RootIsTop, NodeRange
      <4> QED BY <4>1
    <3> QED BY <3>1
  <2>3. Above(n) \in Node /\ RangeOf(n) \in Halves(Above(n))
    BY <2>1, <2>2, ParentOfRange DEF Above
  <2>4. PICK k \in {0, 1} : RadixChild(Above(n), k) = <<"node", n>>
    BY <2>1, <2>3, HalfIsChild DEF Halves
  <2> QED BY <2>3, <2>4 DEF InternalChildren
<1> QED BY <1>1, <1>2
-----------------------------------------------------------------------------
(* The two kernels: what was read and written in the first, and then a     *)
(* walk upwards in which each node is taken by the thread that is the last *)
(* to come from its internal children.                                     *)
FatTyped ==
  /\ kernel \in {"emit", "parents", "fat"} /\ waiting \subseteq Node
  /\ parentAddrs \in [Node -> Node \cup {InvalidValue}]
  /\ triangleCounts \in [Node -> Nat] /\ arrivals \in [Node -> Nat]
  /\ fatLeaves \subseteq Node \X {0, 1}
  /\ at \in [Node -> Node] /\ doing \in [Node -> {"nothing", "count", "climb"}]
  /\ unseen \in [Node -> SUBSET [node : Node, count : Nat]]

FatFresh ==
  /\ \A n \in Node : triangleCounts[n] = 0 /\ arrivals[n] = 0
  /\ fatLeaves = {}
  /\ \A t \in Node : at[t] = t /\ doing[t] = "nothing" /\ unseen[t] = {}

ParentsInv ==
  \A n \in Node :
    /\ n = root /\ (kernel = "fat" \/ n \notin waiting) => parentAddrs[n] = InvalidValue
    /\ n # root /\ (kernel = "fat" \/ Above(n) \notin waiting) => parentAddrs[n] = Above(n)

PhaseInv ==
  /\ kernel # "emit" => Finished /\ ParentsInv
  /\ kernel # "fat" => FatFresh

Stored(n) == triangleCounts[n] # 0 \/ \E t \in Node : \E s \in unseen[t] : s.node = n

Visits(t, n) == at[t] = n /\ doing[t] # "nothing"

Visited(n) == \E t \in Node : Visits(t, n)

Counted(n) == Stored(n) /\ ~Visited(n)

CountedChildren(n) == {m \in InternalChildren(n) : Counted(m)}

ThreadInv(t) ==
  /\ t \in waiting => at[t] = t /\ doing[t] = "nothing" /\ unseen[t] = {}
  /\ doing[t] = "count" => ~Stored(at[t])
  /\ doing[t] = "climb" => Stored(at[t])
  /\ \A s \in unseen[t] :
       /\ s = [node |-> at[t], count |-> Size(at[t])]
       /\ triangleCounts[at[t]] = 0
       /\ doing[t] = "climb" \/ at[t] = root

ApartInv ==
  \A t, u \in Node :
    /\ t # u /\ at[t] = at[u] => doing[t] = "nothing" \/ doing[u] = "nothing"
    /\ t # u /\ at[t] = at[u] => unseen[t] = {} \/ unseen[u] = {}

NodeInv(n) ==
  /\ triangleCounts[n] \in {0, Size(n)}
  /\ arrivals[n] = Cardinality(CountedChildren(n))
  /\ Stored(n) \/ Visited(n) => CountedChildren(n) = InternalChildren(n)
  /\ IF InternalChildren(n) = {} THEN n \in waiting <=> ~Stored(n) /\ ~Visited(n)
     ELSE CountedChildren(n) = InternalChildren(n) => Stored(n) \/ Visited(n)
  /\ \A k \in {0, 1} :
       <<n, k>> \in fatLeaves <=> Stored(n) /\ TrianglesBelow(RadixChild(n, k)) <= MaxFatLeafSize

CountInv ==
  kernel = "fat" =>
    /\ \A t \in Node : ThreadInv(t)
    /\ ApartInv
    /\ \A n \in Node : NodeInv(n)

FatInv == FatTyped /\ PhaseInv /\ CountInv

LEMMA FatFrame ==
  ASSUME UNCHANGED differ
  PROVE  /\ Graded(differ)' <=> Graded(differ)
         /\ root' = root
         /\ \A n : /\ Size(n)' = Size(n) /\ Above(n)' = Above(n)
                   /\ InternalChildren(n)' = InternalChildren(n)
                   /\ \A k : RadixChild(n, k)' = RadixChild(n, k)
         /\ \A c : TrianglesBelow(c)' = TrianglesBelow(c)
<1>1. ASSUME NEW n PROVE Size(n)' = Size(n) /\ Above(n)' = Above(n)
  <2>1. Lo(n)' = Lo(n) /\ Hi(n)' = Hi(n) /\ RangeOf(n)' = RangeOf(n)
    BY TreeFrame
  <2>2. Parent(RangeOf(n))' = Parent(RangeOf(n))
    BY <2>1 DEF Parent, JoinsRight
  <2> QED BY <2>1, <2>2 DEF Size, Above
<1>2. ASSUME NEW c PROVE TrianglesBelow(c)' = TrianglesBelow(c)
  <2>1. Lo(c[2])' = Lo(c[2]) /\ Hi(c[2])' = Hi(c[2])
    BY TreeFrame
  <2> QED BY <2>1 DEF TrianglesBelow
<1> QED BY <1>1, <1>2, TreeFrame DEF root

(* What the first kernel left is the tree.                                 *)
LEMMA LinksKnown ==
  ASSUME ClimbInv, StoreInv, Finished
  PROVE  /\ Graded(differ) /\ rootAddr = root
         /\ \A n \in Node : /\ InternalSides(n) = Sides(n)
                            /\ Starts(n) <=> InternalChildren(n) = {}
                            /\ \A k \in {0, 1} : Linked(n, k) = RadixChild(n, k)
<1>1. Graded(differ)
  BY DEF ClimbInv, ClimbTyped
<1>2. /\ \A n \in Node, k \in {0, 1} : Linked(n, k) = RadixChild(n, k)
      /\ rootAddr = root
  BY TreeIsBuilt DEF RadixTree, Linked, rootAddr, root
<1>3. \A n \in Node : InternalSides(n) = Sides(n)
  BY <1>2 DEF InternalSides, Sides
<1>4. \A n \in Node : Starts(n) <=> InternalChildren(n) = {}
  BY <1>1, <1>3, SidesSplit DEF Starts
<1> QED BY <1>1, <1>2, <1>3, <1>4

LEMMA FatInit == BuildInit => FatInv
<1> SUFFICES ASSUME BuildInit PROVE FatInv
  OBVIOUS
<1>1. 0 \in Node
  BY KeyBitsNat DEF Node
<1>2. FatTyped
  BY <1>1 DEF BuildInit, FatTyped
<1>3. FatFresh
  BY DEF BuildInit, FatFresh
<1> QED BY <1>2, <1>3 DEF BuildInit, FatInv, PhaseInv, CountInv

LEMMA EmitKeepsFat ==
  ASSUME FatInv, Emit
  PROVE  FatInv'
<1>1. UNCHANGED fatVars /\ kernel = "emit" /\ Node' = Node
  BY DEF Emit, Node
<1>2. FatTyped' /\ FatFresh'
  BY <1>1 DEF FatInv, FatTyped, FatFresh, PhaseInv, fatVars
<1> QED BY <1>1, <1>2 DEF FatInv, PhaseInv, CountInv, fatVars

LEMMA LaunchParentsKeepsFat ==
  ASSUME FatInv, ClimbInv, StoreInv, LaunchParents
  PROVE  FatInv'
<1> USE DEF LaunchParents
<1>1. Graded(differ) /\ UNCHANGED differ
  BY DEF ClimbInv, ClimbTyped, vars
<1>2. FatTyped' /\ FatFresh'
  BY DEF FatInv, FatTyped, FatFresh, PhaseInv
<1>3. Finished'
  BY DEF Finished, vars
<1>4. ParentsInv'
  <2>1. kernel' = "parents" /\ waiting' = Node
    OBVIOUS
  <2>2. \A n \in Node : n # root => Above(n) \in Node
    BY <1>1, OneParent
  <2>3. root' = root /\ \A n \in Node : Above(n)' = Above(n)
    BY <1>1, FatFrame
  <2> QED BY <2>1, <2>2, <2>3 DEF ParentsInv
<1> QED BY <1>2, <1>3, <1>4 DEF FatInv, PhaseInv, CountInv

LEMMA ParentsKeepFat ==
  ASSUME FatInv, ClimbInv, StoreInv, NEW t \in Node, ComputeParentAddrs(t)
  PROVE  FatInv'
<1>0. /\ kernel = "parents" /\ t \in waiting /\ waiting' = waiting \ {t}
      /\ parentAddrs' = ParentsWritten(t)
      /\ UNCHANGED <<vars, kernel, triangleCounts, arrivals, fatLeaves, at, doing, unseen>>
  BY DEF ComputeParentAddrs
<1>1. Graded(differ) /\ UNCHANGED differ /\ Finished /\ Finished'
  BY <1>0 DEF ClimbInv, ClimbTyped, vars, FatInv, PhaseInv, Finished
<1>2. rootAddr = root /\ root \in Node
  BY <1>1, LinksKnown, RootIsTop
<1>3. \A n \in Node : (\E k \in InternalSides(t) : Linked(t, k)[2] = n) <=> n \in InternalChildren(t)
  BY <1>1, LinksKnown, SidesSplit DEF Sides
<1>4. /\ parentAddrs' = [n \in Node |-> parentAddrs'[n]]
      /\ \A n \in Node : parentAddrs'[n] = IF n = t /\ n = root THEN InvalidValue
                                           ELSE IF n \in InternalChildren(t) THEN t ELSE parentAddrs[n]
  BY <1>0, <1>2, <1>3 DEF ParentsWritten
<1>5. FatFresh'
  BY <1>0 DEF FatInv, FatFresh, PhaseInv
<1>6. FatTyped'
  BY <1>0, <1>4 DEF FatInv, FatTyped
<1>7. ParentsInv'
  <2> SUFFICES ASSUME NEW n \in Node
               PROVE  /\ n = root /\ n \notin waiting' => parentAddrs'[n] = InvalidValue
                      /\ n # root /\ Above(n) \notin waiting' => parentAddrs'[n] = Above(n)
    BY <1>0, <1>1, FatFrame DEF ParentsInv
  <2>1. ParentsInv
    BY <1>0 DEF FatInv, PhaseInv
  <2>2. n = root => n \notin InternalChildren(t)
    BY <1>1, OneParent
  <2>3. n # root => (n \in InternalChildren(t) <=> Above(n) = t)
    BY <1>1, OneParent
  <2> QED BY <1>0, <1>4, <2>1, <2>2, <2>3 DEF ParentsInv
<1> QED BY <1>0, <1>1, <1>5, <1>6, <1>7 DEF FatInv, PhaseInv, CountInv

(* When the second kernel starts, nothing has been stored or counted, and  *)
(* all threads are ahead.                                                  *)
LEMMA LaunchFatKeepsFat ==
  ASSUME FatInv, ClimbInv, StoreInv, LaunchFat
  PROVE  FatInv'
<1>0. /\ kernel = "parents" /\ waiting = {} /\ kernel' = "fat" /\ waiting' = Node
      /\ UNCHANGED <<vars, parentAddrs, triangleCounts, arrivals, fatLeaves, at, doing, unseen>>
  BY DEF LaunchFat
<1>1. Graded(differ) /\ UNCHANGED differ /\ Finished /\ Finished'
  BY <1>0 DEF ClimbInv, ClimbTyped, vars, FatInv, PhaseInv, Finished
<1>2. FatTyped'
  BY <1>0 DEF FatInv, FatTyped
<1>3. ParentsInv'
  BY <1>0, <1>1, FatFrame DEF FatInv, PhaseInv, ParentsInv
<1>4. FatFresh
  BY <1>0 DEF FatInv, PhaseInv
<1>5. \A n \in Node : ~Stored(n)' /\ ~Visited(n)'
  BY <1>0, <1>4 DEF FatFresh, Stored, Visited, Visits
<1>6. \A n \in Node : InternalChildren(n)' = InternalChildren(n) /\ InternalChildren(n) \subseteq Node
  BY <1>1, FatFrame, OneParent
<1>7. \A n \in Node : CountedChildren(n)' = {}
  BY <1>5, <1>6 DEF CountedChildren, Counted
<1>8. ASSUME NEW n \in Node PROVE NodeInv(n)'
  <2>1. Cardinality({}) = 0
    BY FS_EmptySet
  <2>2. arrivals'[n] = 0 /\ triangleCounts'[n] = 0 /\ fatLeaves' = {} /\ n \in waiting'
    BY <1>0, <1>4 DEF FatFresh
  <2> QED BY <1>5, <1>6, <1>7, <2>1, <2>2 DEF NodeInv
<1>9. ASSUME NEW t \in Node PROVE ThreadInv(t)'
  BY <1>0, <1>4 DEF ThreadInv, FatFresh
<1>10. ApartInv'
  BY <1>0, <1>4 DEF ApartInv, FatFresh
<1> QED BY <1>0, <1>1, <1>2, <1>3, <1>8, <1>9, <1>10 DEF FatInv, PhaseInv, CountInv

LEMMA ChildrenCounted ==
  ASSUME Graded(differ), NEW p \in Node
  PROVE  /\ IsFiniteSet(InternalChildren(p))
         /\ Cardinality(InternalChildren(p)) = Cardinality(Sides(p))
<1> DEFINE f == [k \in Sides(p) |-> RadixChild(p, k)[2]]
<1>1. IsFiniteSet(Sides(p)) /\ Sides(p) \subseteq {0, 1}
  <2>1. IsFiniteSet({0, 1}) /\ Sides(p) \subseteq {0, 1}
    <3>1. IsFiniteSet({0}) /\ IsFiniteSet({1})
      BY FS_Singleton, Zenon
    <3>2. {0, 1} = {0} \cup {1}
      OBVIOUS
    <3>3. IsFiniteSet({0, 1})
      BY <3>1, <3>2, FS_Union, Zenon
    <3> QED BY <3>3 DEF Sides
  <2> QED BY <2>1, FS_Subset
<1>2. f \in Bijection(Sides(p), InternalChildren(p))
  <2>1. InternalChildren(p) = {f[k] : k \in Sides(p)}
    BY SidesSplit
  <2>2. \A k, l \in Sides(p) : f[k] = f[l] => k = l
    BY <1>1, SidesSplit
  <2> QED BY <2>1, <2>2 DEF Bijection, Injection, Surjection, IsInjective
<1>3. ExistsBijection(Sides(p), InternalChildren(p))
  BY <1>2 DEF ExistsBijection
<1> QED BY <1>1, <1>3, FS_Bijection

(* The facts every step of the last kernel needs.                          *)
LEMMA FatContext ==
  ASSUME FatInv, ClimbInv, StoreInv, kernel = "fat", UNCHANGED vars
  PROVE  /\ Graded(differ) /\ UNCHANGED differ /\ Finished /\ Finished' /\ ParentsInv
         /\ root' = root
         /\ \A n \in Node : /\ Size(n)' = Size(n) /\ Size(n) \in Nat \ {0}
                            /\ InternalChildren(n)' = InternalChildren(n)
                            /\ InternalChildren(n) \subseteq Node \ {root}
                            /\ \A k : RadixChild(n, k)' = RadixChild(n, k)
         /\ \A c : TrianglesBelow(c)' = TrianglesBelow(c)
<1>1. Graded(differ) /\ UNCHANGED differ /\ Finished /\ Finished' /\ ParentsInv
  BY DEF ClimbInv, ClimbTyped, vars, FatInv, PhaseInv, Finished
<1> QED BY <1>1, FatFrame, SidesSplit, OneParent

LEMMA FatKept ==
  ASSUME FatInv, ClimbInv, StoreInv, kernel = "fat", UNCHANGED <<vars, kernel, parentAddrs>>,
         FatTyped', ApartInv', \A t \in Node : ThreadInv(t)', \A n \in Node : NodeInv(n)'
  PROVE  FatInv'
<1>1. UNCHANGED differ /\ Finished' /\ ParentsInv
  BY FatContext DEF vars
<1>2. ParentsInv'
  BY <1>1, FatFrame DEF ParentsInv
<1> QED BY <1>1, <1>2 DEF FatInv, PhaseInv, CountInv

LEMMA StartKeepsFat ==
  ASSUME FatInv, ClimbInv, StoreInv, NEW t \in Node, StartThread(t)
  PROVE  FatInv'
<1>0. /\ kernel = "fat" /\ t \in waiting /\ waiting' = waiting \ {t}
      /\ doing' = [doing EXCEPT ![t] = IF Starts(t) THEN "count" ELSE "nothing"]
      /\ UNCHANGED <<vars, kernel, parentAddrs, triangleCounts, arrivals, fatLeaves, at, unseen>>
  BY DEF StartThread
<1>1. /\ \A u \in Node : ThreadInv(u)
      /\ ApartInv /\ \A n \in Node : NodeInv(n)
  BY <1>0 DEF FatInv, CountInv
<1>2. at[t] = t /\ doing[t] = "nothing" /\ unseen[t] = {}
  BY <1>0, <1>1 DEF ThreadInv
<1>3. Starts(t) <=> InternalChildren(t) = {}
  BY <1>0, LinksKnown, FatContext
<1>4. Starts(t) => ~Stored(t) /\ ~Visited(t)
  BY <1>0, <1>1, <1>3 DEF NodeInv
<1>5. /\ doing' \in [Node -> {"nothing", "count", "climb"}]
      /\ \A u \in Node : doing'[u] = IF u = t /\ Starts(t) THEN "count" ELSE doing[u]
  BY <1>0, <1>2 DEF FatInv, FatTyped
<1>6. FatTyped'
  BY <1>0, <1>5 DEF FatInv, FatTyped
<1>7. \A n \in Node : Stored(n)' <=> Stored(n)
  BY <1>0 DEF Stored
<1>8. \A n \in Node : Visited(n)' <=> Visited(n) \/ (n = t /\ Starts(t))
  BY <1>0, <1>2, <1>5 DEF Visited, Visits
<1>9. \A n \in Node : Counted(n)' <=> Counted(n)
  BY <1>4, <1>7, <1>8 DEF Counted
<1>10. \A n \in Node : CountedChildren(n)' = CountedChildren(n)
  BY <1>0, <1>9, FatContext DEF CountedChildren
<1>11. ASSUME NEW u \in Node PROVE ThreadInv(u)'
  <2>1. at[u] \in Node
    BY DEF FatInv, FatTyped
  <2>2. Stored(at[u])' <=> Stored(at[u])
    BY <1>0 DEF Stored
  <2>3. Size(at[u])' = Size(at[u])
    BY <1>0, FatContext, FatFrame
  <2> QED BY <1>0, <1>1, <1>2, <1>4, <1>5, <2>1, <2>2, <2>3, FatContext DEF ThreadInv
<1>12. ApartInv'
  BY <1>0, <1>1, <1>2, <1>4, <1>5 DEF ApartInv, Visited, Visits
<1>13. ASSUME NEW n \in Node PROVE NodeInv(n)'
  <2>1. /\ Size(n)' = Size(n) /\ InternalChildren(n)' = InternalChildren(n)
        /\ \A k \in {0, 1} : TrianglesBelow(RadixChild(n, k))' = TrianglesBelow(RadixChild(n, k))
    BY <1>0, FatContext
  <2>2. NodeInv(n) /\ (Stored(n)' <=> Stored(n)) /\ CountedChildren(n)' = CountedChildren(n)
    BY <1>1, <1>7, <1>10
  <2>3. UNCHANGED <<triangleCounts, arrivals, fatLeaves>>
    BY <1>0
  <2>4. n \in waiting' <=> n \in waiting /\ n # t
    BY <1>0
  <2>5. Visited(n)' <=> Visited(n) \/ (n = t /\ InternalChildren(t) = {})
    BY <1>3, <1>8
  <2>6. CASE n = t
    <3>1. InternalChildren(t) = {} => t \in waiting /\ t \notin waiting'
      BY <1>0
    <3>2. InternalChildren(t) # {} => (Visited(t)' <=> Visited(t))
      BY <2>5, <2>6
    <3>3. InternalChildren(t) = {} => Visited(t)' /\ CountedChildren(t) = {}
      BY <2>5, <2>6 DEF CountedChildren
    <3> QED BY <2>1, <2>2, <2>3, <2>6, <3>1, <3>2, <3>3 DEF NodeInv
  <2>7. CASE n # t
    <3>1. (Visited(n)' <=> Visited(n)) /\ (n \in waiting' <=> n \in waiting)
      BY <2>4, <2>5, <2>7
    <3> QED BY <2>1, <2>2, <2>3, <3>1 DEF NodeInv
  <2> QED BY <2>6, <2>7
<1> QED BY <1>0, <1>6, <1>11, <1>12, <1>13, FatKept

(* A counted child is known to everybody.                                  *)
LEMMA CountsArrived ==
  ASSUME FatInv, kernel = "fat", NEW n \in Node, Counted(n), n # root
  PROVE  triangleCounts[n] = Size(n) /\ triangleCounts[n] # 0
<1>1. triangleCounts[n] \in {0, Size(n)}
  BY DEF FatInv, CountInv, NodeInv
<1>2. ASSUME triangleCounts[n] = 0 PROVE FALSE
  <2>1. PICK t \in Node : \E s \in unseen[t] : s.node = n
    BY <1>2 DEF Counted, Stored
  <2>2. at[t] = n /\ doing[t] = "climb"
    BY <2>1 DEF FatInv, CountInv, ThreadInv
  <2> QED BY <2>2 DEF Counted, Visited, Visits
<1> QED BY <1>1, <1>2

LEMMA CountKeepsFat ==
  ASSUME FatInv, ClimbInv, StoreInv, kernel = "fat", NEW t \in Node, CountTriangles(t)
  PROVE  /\ FatInv'
         /\ at[t] \in Node /\ triangleCounts[at[t]] = 0
         /\ InternalChildren(at[t]) \subseteq {n \in Node : triangleCounts[n] # 0}
         /\ \/ UNCHANGED triangleCounts
            \/ \A n \in Node : triangleCounts'[n] # 0 <=> triangleCounts[n] # 0 \/ n = at[t]
<1> DEFINE n0 == at[t]
           count == TrianglesOf(n0, 0) + TrianglesOf(n0, 1)
<1>0. /\ doing[t] = "count"
      /\ fatLeaves' = fatLeaves \cup {<<n0, k>> : k \in {l \in {0, 1} : SmallEnough(TrianglesOf(n0, l))}}
      /\ IF storesInOrder
         THEN triangleCounts' = [triangleCounts EXCEPT ![n0] = count] /\ UNCHANGED unseen
         ELSE unseen' = [unseen EXCEPT ![t] = {[node |-> n0, count |-> count]}] /\ UNCHANGED triangleCounts
      /\ doing' = [doing EXCEPT ![t] = "climb"]
      /\ UNCHANGED <<vars, kernel, waiting, parentAddrs, arrivals, at>>
  BY DEF CountTriangles
<1>1. /\ \A u \in Node : ThreadInv(u)
      /\ ApartInv /\ \A n \in Node : NodeInv(n) /\ n0 \in Node
  BY DEF FatInv, CountInv, FatTyped
<1>2. ~Stored(n0) /\ Visited(n0) /\ triangleCounts[n0] = 0 /\ unseen[t] = {}
  BY <1>0, <1>1 DEF ThreadInv, Stored, Visited, Visits
<1>3. CountedChildren(n0) = InternalChildren(n0)
  BY <1>1, <1>2 DEF NodeInv
<1>4. \A m \in InternalChildren(n0) : m \in Node /\ triangleCounts[m] = Size(m) /\ triangleCounts[m] # 0
  BY <1>0, <1>1, <1>3, CountsArrived, FatContext DEF CountedChildren
<1>5. /\ \A k \in {0, 1} : TrianglesOf(n0, k) = TrianglesBelow(RadixChild(n0, k))
      /\ count = Size(n0) /\ Size(n0) \in Nat \ {0}
  <2>1. Graded(differ) /\ Finished
    BY <1>0, FatContext
  <2>2. \A k \in {0, 1} : /\ k \in InternalSides(n0) <=> k \in Sides(n0)
                          /\ Linked(n0, k) = RadixChild(n0, k)
    BY <1>1, <2>1, LinksKnown
  <2>3. ASSUME NEW k \in {0, 1}
        PROVE  TrianglesOf(n0, k) = TrianglesBelow(RadixChild(n0, k))
    <3>1. CASE k \in Sides(n0)
      <4>1. RadixChild(n0, k)[2] \in InternalChildren(n0) /\ RadixChild(n0, k)[1] # "leaf"
        BY <1>1, <2>1, <3>1, SidesSplit DEF Sides
      <4> QED BY <1>4, <2>2, <3>1, <4>1 DEF TrianglesOf, TrianglesBelow, Size
    <3>2. CASE k \notin Sides(n0)
      <4>1. RadixChild(n0, k)[1] = "leaf"
        BY <1>1, <2>1, <3>2, SidesSplit DEF Sides
      <4> QED BY <2>2, <3>2, <4>1 DEF TrianglesOf, TrianglesBelow
    <3> QED BY <3>1, <3>2
  <2> QED BY <1>1, <2>1, <2>3, SidesSplit
<1> HIDE DEF n0, count
<1>6. /\ at' = at /\ doing' \in [Node -> {"nothing", "count", "climb"}]
      /\ \A u \in Node : doing'[u] = IF u = t THEN "climb" ELSE doing[u]
  BY <1>0 DEF FatInv, FatTyped
<1>7. /\ triangleCounts' \in [Node -> Nat]
      /\ \A n \in Node : triangleCounts'[n] = IF n = n0 /\ storesInOrder THEN Size(n0) ELSE triangleCounts[n]
  BY <1>0, <1>5 DEF FatInv, FatTyped
<1>8. /\ unseen' \in [Node -> SUBSET [node : Node, count : Nat]]
      /\ \A u \in Node : unseen'[u] = IF u = t /\ ~storesInOrder
                                      THEN {[node |-> n0, count |-> Size(n0)]} ELSE unseen[u]
  <2> DEFINE own == {[node |-> n0, count |-> Size(n0)]}
             Late == SUBSET [node : Node, count : Nat]
  <2>1. unseen \in [Node -> Late] /\ own \in Late
    BY <1>1, <1>5 DEF FatInv, FatTyped
  <2>2. unseen' = IF storesInOrder THEN unseen ELSE [unseen EXCEPT ![t] = own]
    BY <1>0, <1>5
  <2> HIDE DEF own, Late
  <2>3. /\ unseen' \in [Node -> Late]
        /\ \A u \in Node : unseen'[u] = IF u = t /\ ~storesInOrder THEN own ELSE unseen[u]
    BY <2>1, <2>2
  <2> QED BY <2>3 DEF own, Late
<1>9. /\ fatLeaves' \subseteq Node \X {0, 1}
      /\ \A n \in Node, k \in {0, 1} :
           <<n, k>> \in fatLeaves' <=>
             <<n, k>> \in fatLeaves \/ (n = n0 /\ TrianglesBelow(RadixChild(n0, k)) <= MaxFatLeafSize)
  BY <1>0, <1>1, <1>5 DEF FatInv, FatTyped, SmallEnough
<1>10. FatTyped'
  BY <1>0, <1>6, <1>7, <1>8, <1>9 DEF FatInv, FatTyped
<1>11. \A n \in Node : Stored(n)' <=> Stored(n) \/ n = n0
  <2> SUFFICES ASSUME NEW n \in Node PROVE Stored(n)' <=> Stored(n) \/ n = n0
    OBVIOUS
  <2>1. CASE storesInOrder
    BY <1>2, <1>5, <1>7, <1>8, <2>1 DEF Stored
  <2>2. CASE ~storesInOrder
    <3>1. (\E u \in Node : \E s \in unseen'[u] : s.node = n)
            <=> (\E u \in Node : \E s \in unseen[u] : s.node = n) \/ n = n0
      <4>1. unseen'[t] = {[node |-> n0, count |-> Size(n0)]} /\ \A u \in Node : u # t => unseen'[u] = unseen[u]
        BY <1>8, <2>2
      <4>2. (\E s \in unseen'[t] : s.node = n) <=> n = n0
        BY <4>1
      <4>3. \A s \in unseen[t] : FALSE
        BY <1>2
      <4> QED BY <4>1, <4>2, <4>3
    <3> QED BY <1>7, <2>2, <3>1 DEF Stored
  <2> QED BY <2>1, <2>2
<1>12. \A n \in Node : Visited(n)' <=> Visited(n)
  BY <1>0, <1>6 DEF Visited, Visits
<1>13. \A n \in Node : CountedChildren(n)' = CountedChildren(n)
  <2>1. \A n \in Node : Counted(n)' <=> Counted(n)
    BY <1>2, <1>11, <1>12 DEF Counted
  <2> QED BY <1>0, <2>1, FatContext DEF CountedChildren
<1>14. ASSUME NEW u \in Node PROVE ThreadInv(u)'
  <2>1. at[u] \in Node /\ at'[u] = at[u] /\ n0 = at[t]
    BY <1>6 DEF FatInv, FatTyped, n0
  <2>2. Stored(at[u])' <=> Stored(at[u]) \/ at[u] = n0
    BY <1>11, <2>1
  <2>3. Size(at[u])' = Size(at[u]) /\ root' = root
    BY <1>0, <2>1, FatContext
  <2>4. u # t /\ at[u] = n0 => doing[u] = "nothing" /\ unseen[u] = {}
    <3> SUFFICES ASSUME u # t, at[u] = n0 PROVE doing[u] = "nothing" /\ unseen[u] = {}
      OBVIOUS
    <3>1. doing[u] = "nothing"
      BY <1>0, <1>1, <2>1 DEF ApartInv
    <3>2. \A s \in unseen[u] : s.node = n0
      BY <1>1 DEF ThreadInv
    <3> QED BY <1>2, <3>1, <3>2 DEF Stored
  <2>5. u = t => u \notin waiting
    BY <1>0, <1>1 DEF ThreadInv
  <2>6. CASE u = t
    BY <1>0, <1>2, <1>6, <1>7, <1>8, <2>1, <2>2, <2>3, <2>5, <2>6 DEF ThreadInv
  <2>7. CASE u # t
    BY <1>0, <1>1, <1>6, <1>7, <1>8, <2>1, <2>2, <2>3, <2>4, <2>7 DEF ThreadInv
  <2> QED BY <2>6, <2>7
<1>15. ApartInv'
  <2>1. \A u \in Node : u # t /\ at[u] = at[t] => unseen[u] = {}
    <3> SUFFICES ASSUME NEW u \in Node, u # t, at[u] = at[t] PROVE unseen[u] = {}
      OBVIOUS
    <3>1. \A s \in unseen[u] : s.node = n0
      BY <1>1 DEF ThreadInv, n0
    <3> QED BY <1>2, <3>1 DEF Stored
  <2> QED BY <1>0, <1>1, <1>6, <1>8, <2>1 DEF ApartInv
<1>16. ASSUME NEW n \in Node PROVE NodeInv(n)'
  <2>1. /\ Size(n)' = Size(n) /\ InternalChildren(n)' = InternalChildren(n)
        /\ \A k \in {0, 1} : TrianglesBelow(RadixChild(n, k))' = TrianglesBelow(RadixChild(n, k))
    BY <1>0, FatContext
  <2>2. /\ triangleCounts'[n] \in {0, Size(n)} /\ arrivals' = arrivals /\ waiting' = waiting
    BY <1>0, <1>1, <1>7 DEF NodeInv
  <2>3. \A k \in {0, 1} : <<n, k>> \in fatLeaves' <=> Stored(n)' /\ TrianglesBelow(RadixChild(n, k)) <= MaxFatLeafSize
    BY <1>1, <1>2, <1>9, <1>11 DEF NodeInv
  <2> QED BY <1>1, <1>2, <1>3, <1>11, <1>12, <1>13, <2>1, <2>2, <2>3 DEF NodeInv
<1>17. FatInv'
  BY <1>0, <1>10, <1>14, <1>15, <1>16, FatKept
<1>18. UNCHANGED triangleCounts \/ \A n \in Node : triangleCounts'[n] # 0 <=> triangleCounts[n] # 0 \/ n = n0
  BY <1>0, <1>5, <1>7
<1> QED BY <1>1, <1>2, <1>4, <1>17, <1>18 DEF n0

LEMMA ArriveKeepsFat ==
  ASSUME FatInv, ClimbInv, StoreInv, kernel = "fat", NEW t \in Node, ArriveCount(t)
  PROVE  /\ FatInv'
         /\ at[t] \in Node /\ triangleCounts[at[t]] = 0
         /\ InternalChildren(at[t]) \subseteq {n \in Node : triangleCounts[n] # 0}
         /\ \A n \in Node : triangleCounts'[n] # 0 <=> triangleCounts[n] # 0 \/ n = at[t]
<1> DEFINE n0 == at[t]
<1>1. /\ \A u \in Node : ThreadInv(u)
      /\ ApartInv /\ \A n \in Node : NodeInv(n) /\ n0 \in Node
      /\ Size(n0) \in Nat \ {0}
  BY FatContext, SidesSplit DEF FatInv, CountInv, FatTyped, ArriveCount
<1>2. PICK s \in unseen[t] : triangleCounts' = [triangleCounts EXCEPT ![s.node] = s.count]
  BY DEF ArriveCount
<1>3. s.node = n0 /\ s.count = Size(n0) /\ triangleCounts[n0] = 0 /\ Stored(n0)
  BY <1>1 DEF ThreadInv, Stored
<1>4. /\ unseen' = [unseen EXCEPT ![t] = {}]
      /\ UNCHANGED <<vars, kernel, waiting, parentAddrs, arrivals, fatLeaves, at, doing>>
  BY DEF ArriveCount
<1> HIDE DEF n0
<1>5. /\ triangleCounts' \in [Node -> Nat]
      /\ \A n \in Node : triangleCounts'[n] = IF n = n0 THEN Size(n0) ELSE triangleCounts[n]
  BY <1>1, <1>2, <1>3 DEF FatInv, FatTyped
<1>6. /\ unseen' \in [Node -> SUBSET [node : Node, count : Nat]]
      /\ \A u \in Node : unseen'[u] = IF u = t THEN {} ELSE unseen[u]
  BY <1>4 DEF FatInv, FatTyped
<1>7. FatTyped'
  BY <1>4, <1>5, <1>6 DEF FatInv, FatTyped
<1>8. \A r \in unseen[t] : r.node = n0
  BY <1>1 DEF ThreadInv, n0
<1>9. \A n \in Node : Stored(n)' <=> Stored(n)
  <2> SUFFICES ASSUME NEW n \in Node PROVE Stored(n)' <=> Stored(n)
    OBVIOUS
  <2>1. CASE n = n0
    BY <1>1, <1>3, <1>5, <2>1 DEF Stored
  <2>2. CASE n # n0
    <3>1. (\E u \in Node : \E r \in unseen'[u] : r.node = n) <=> (\E u \in Node : \E r \in unseen[u] : r.node = n)
      BY <1>6, <1>8, <2>2
    <3> QED BY <1>5, <2>2, <3>1 DEF Stored
  <2> QED BY <2>1, <2>2
<1>10. \A n \in Node : Visited(n)' <=> Visited(n)
  BY <1>4 DEF Visited, Visits
<1>11. \A n \in Node : CountedChildren(n)' = CountedChildren(n)
  <2>1. \A n \in Node : Counted(n)' <=> Counted(n)
    BY <1>9, <1>10 DEF Counted
  <2> QED BY <1>4, <2>1, FatContext DEF CountedChildren
<1>12. ASSUME NEW u \in Node PROVE ThreadInv(u)'
  <2>1. at[u] \in Node /\ at'[u] = at[u] /\ n0 = at[t] /\ at' = at
    BY <1>4 DEF FatInv, FatTyped, n0
  <2>2. Stored(at[u])' <=> Stored(at[u])
    BY <1>9, <2>1
  <2>3. Size(at[u])' = Size(at[u]) /\ root' = root
    BY <1>4, <2>1, FatContext
  <2>4. u # t /\ at[u] = n0 => unseen[u] = {}
    BY <1>1, <2>1 DEF ApartInv
  <2> QED BY <1>1, <1>4, <1>5, <1>6, <2>1, <2>2, <2>3, <2>4 DEF ThreadInv
<1>13. ApartInv'
  BY <1>1, <1>4, <1>6 DEF ApartInv
<1>14. ASSUME NEW n \in Node PROVE NodeInv(n)'
  <2>1. /\ Size(n)' = Size(n) /\ InternalChildren(n)' = InternalChildren(n)
        /\ \A k \in {0, 1} : TrianglesBelow(RadixChild(n, k))' = TrianglesBelow(RadixChild(n, k))
    BY <1>4, FatContext
  <2>2. triangleCounts'[n] \in {0, Size(n)} /\ arrivals' = arrivals /\ waiting' = waiting /\ fatLeaves' = fatLeaves
    BY <1>1, <1>4, <1>5 DEF NodeInv
  <2> QED BY <1>1, <1>9, <1>10, <1>11, <2>1, <2>2 DEF NodeInv
<1>15. FatInv'
  BY <1>4, <1>7, <1>12, <1>13, <1>14, FatKept
<1>16. \A m \in InternalChildren(n0) : m \in Node /\ triangleCounts[m] # 0
  BY <1>1, <1>3, <1>4, CountsArrived, FatContext DEF CountedChildren, NodeInv
<1> QED BY <1>1, <1>3, <1>5, <1>15, <1>16 DEF n0

(* Neither store nor count: a thread leaves its node.                      *)
LEMMA LeaveKeepsFat ==
  ASSUME FatInv, ClimbInv, StoreInv, kernel = "fat", NEW t \in Node, LeaveRoot(t)
  PROVE  FatInv'
<1>0. /\ doing[t] = "climb" /\ parentAddrs[at[t]] = InvalidValue
      /\ doing' = [doing EXCEPT ![t] = "nothing"]
      /\ UNCHANGED <<vars, kernel, waiting, parentAddrs, triangleCounts, arrivals, fatLeaves, at, unseen>>
  BY DEF LeaveRoot
<1>1. /\ \A u \in Node : ThreadInv(u)
      /\ ApartInv /\ \A n \in Node : NodeInv(n) /\ at[t] \in Node
  BY DEF FatInv, CountInv, FatTyped
<1>2. at[t] = root
  <2>1. Graded(differ) /\ ParentsInv
    BY <1>0, FatContext
  <2>2. at[t] # root => parentAddrs[at[t]] = Above(at[t]) /\ Above(at[t]) \in Node
    BY <1>1, <2>1, OneParent DEF ParentsInv
  <2> QED BY <1>0, <2>2, InvalidAssumption, KeyBitsNat DEF Node
<1>3. /\ doing' \in [Node -> {"nothing", "count", "climb"}]
      /\ \A u \in Node : doing'[u] = IF u = t THEN "nothing" ELSE doing[u]
  BY <1>0 DEF FatInv, FatTyped
<1>4. FatTyped'
  BY <1>0, <1>3 DEF FatInv, FatTyped
<1>5. Stored(root) /\ Visited(root) /\ root \in Node
  BY <1>0, <1>1, <1>2 DEF ThreadInv, Visited, Visits
<1>6. \A n \in Node : Stored(n)' <=> Stored(n)
  BY <1>0 DEF Stored
<1>7. \A n \in Node : n # root => (Visited(n)' <=> Visited(n))
  BY <1>0, <1>2, <1>3 DEF Visited, Visits
<1>8. \A n \in Node : CountedChildren(n)' = CountedChildren(n)
  <2>1. \A n \in Node : n # root => (Counted(n)' <=> Counted(n))
    BY <1>6, <1>7 DEF Counted
  <2> QED BY <1>0, <2>1, FatContext DEF CountedChildren
<1>9. ASSUME NEW u \in Node PROVE ThreadInv(u)'
  <2>1. at[u] \in Node /\ at' = at
    BY <1>0 DEF FatInv, FatTyped
  <2>2. Stored(at[u])' <=> Stored(at[u])
    BY <1>6, <2>1
  <2>3. Size(at[u])' = Size(at[u]) /\ root' = root
    BY <1>0, <2>1, FatContext
  <2> QED BY <1>0, <1>1, <1>2, <1>3, <2>1, <2>2, <2>3 DEF ThreadInv
<1>10. ApartInv'
  BY <1>0, <1>1, <1>3 DEF ApartInv
<1>11. ASSUME NEW n \in Node PROVE NodeInv(n)'
  <2>1. /\ Size(n)' = Size(n) /\ InternalChildren(n)' = InternalChildren(n)
        /\ \A k \in {0, 1} : TrianglesBelow(RadixChild(n, k))' = TrianglesBelow(RadixChild(n, k))
    BY <1>0, FatContext
  <2>2. NodeInv(n) /\ (Stored(n)' <=> Stored(n)) /\ CountedChildren(n)' = CountedChildren(n)
    BY <1>1, <1>6, <1>8
  <2>3. UNCHANGED <<triangleCounts, arrivals, waiting, fatLeaves>>
    BY <1>0
  <2>4. CASE n = root
    BY <1>5, <1>6, <2>1, <2>2, <2>3, <2>4 DEF NodeInv
  <2>5. CASE n # root
    BY <1>7, <2>1, <2>2, <2>3, <2>5 DEF NodeInv
  <2> QED BY <2>4, <2>5
<1> QED BY <1>0, <1>4, <1>9, <1>10, <1>11, FatKept

(* A thread counts itself at the parent, and goes on when it is the last.  *)
LEMMA ClimbKeepsFat ==
  ASSUME FatInv, ClimbInv, StoreInv, kernel = "fat", NEW t \in Node, ClimbOn(t)
  PROVE  FatInv'
<1> DEFINE n0 == at[t]
           p == parentAddrs[n0]
<1>0. /\ doing[t] = "climb" /\ p # InvalidValue /\ Fenced(t)
      /\ arrivals' = [arrivals EXCEPT ![p] = @ + 1]
      /\ IF LastArrival(p)
         THEN at' = [at EXCEPT ![t] = p] /\ doing' = [doing EXCEPT ![t] = "count"]
         ELSE doing' = [doing EXCEPT ![t] = "nothing"] /\ UNCHANGED at
      /\ UNCHANGED <<vars, kernel, waiting, parentAddrs, triangleCounts, fatLeaves, unseen>>
  BY DEF ClimbOn
<1>1. /\ \A u \in Node : ThreadInv(u)
      /\ ApartInv /\ \A n \in Node : NodeInv(n) /\ n0 \in Node
  BY DEF FatInv, CountInv, FatTyped
<1>2. Graded(differ) /\ Finished /\ ParentsInv /\ root' = root
  BY <1>0, FatContext
<1>3. n0 # root /\ p = Above(n0) /\ p \in Node /\ n0 \in InternalChildren(p)
  <2>1. n0 # root
    BY <1>0, <1>1, <1>2 DEF ParentsInv
  <2>2. p = Above(n0)
    BY <1>0, <1>1, <1>2, <2>1 DEF ParentsInv
  <2> QED BY <1>1, <1>2, <2>1, <2>2, OneParent
<1>4. \A q \in Node : n0 \in InternalChildren(q) => q = p
  BY <1>2, <1>3, OneParent
<1>5. /\ Stored(n0) /\ Visited(n0) /\ ~Counted(n0)
      /\ \A u \in Node : Visits(u, n0) => u = t
      /\ unseen[t] = {} /\ t \notin waiting
  BY <1>0, <1>1 DEF ThreadInv, ApartInv, Counted, Visited, Visits, Fenced
<1>6. ~Stored(p) /\ ~Visited(p)
  <2>1. CountedChildren(p) # InternalChildren(p)
    BY <1>3, <1>5 DEF CountedChildren
  <2> QED BY <1>1, <1>3, <2>1 DEF NodeInv
<1> DEFINE K == InternalChildren(p)
           C == CountedChildren(p)
<1>7. /\ IsFiniteSet(K) /\ Cardinality(K) = Cardinality(InternalSides(p))
      /\ IsFiniteSet(C) /\ C \subseteq K /\ n0 \notin C
      /\ Cardinality(C \cup {n0}) = Cardinality(C) + 1
      /\ Cardinality(C) \in Nat /\ Cardinality(K) \in Nat
  <2>1. IsFiniteSet(K) /\ Cardinality(K) = Cardinality(InternalSides(p))
    BY <1>2, <1>3, ChildrenCounted, LinksKnown
  <2>2. C \subseteq K /\ n0 \notin C
    BY <1>5 DEF CountedChildren
  <2>3. IsFiniteSet(C)
    BY <2>1, <2>2, FS_Subset
  <2> HIDE DEF K, C
  <2> QED BY <2>1, <2>2, <2>3, FS_AddElement, FS_CardinalityType
<1>8. LastArrival(p) <=> C \cup {n0} = K
  <2>1. arrivals[p] = Cardinality(C)
    BY <1>1, <1>3 DEF NodeInv
  <2>2. LastArrival(p) <=> Cardinality(C \cup {n0}) >= Cardinality(K)
    BY <1>7, <2>1 DEF LastArrival
  <2>3. C \cup {n0} \in SUBSET K
    BY <1>3, <1>7
  <2>4. /\ Cardinality(C \cup {n0}) <= Cardinality(K)
        /\ Cardinality(K) = Cardinality(C \cup {n0}) => K = C \cup {n0}
    BY <1>7, <2>3, FS_Subset
  <2> HIDE DEF K, C
  <2> QED BY <1>7, <2>2, <2>4
<1> HIDE DEF n0, p, K, C
<1> DEFINE last == LastArrival(p)
<1>9. /\ doing' \in [Node -> {"nothing", "count", "climb"}] /\ at' \in [Node -> Node]
      /\ \A u \in Node : /\ doing'[u] = IF u = t THEN IF last THEN "count" ELSE "nothing" ELSE doing[u]
                         /\ at'[u] = IF u = t /\ last THEN p ELSE at[u]
  BY <1>0, <1>3 DEF FatInv, FatTyped
<1>10. /\ arrivals' \in [Node -> Nat]
       /\ \A n \in Node : arrivals'[n] = IF n = p THEN arrivals[p] + 1 ELSE arrivals[n]
  BY <1>0, <1>3 DEF FatInv, FatTyped
<1>11. FatTyped'
  BY <1>0, <1>9, <1>10 DEF FatInv, FatTyped
<1> HIDE DEF last
<1>12. \A n \in Node : Stored(n)' <=> Stored(n)
  BY <1>0 DEF Stored
<1>13. \A n \in Node : Visited(n)' <=> (Visited(n) /\ n # n0) \/ (n = p /\ last)
  <2>1. \A u, n \in Node : u # t => (Visits(u, n)' <=> Visits(u, n))
    BY <1>9 DEF Visits
  <2>2. \A n \in Node : Visits(t, n)' <=> n = p /\ last
    BY <1>9 DEF Visits
  <2>3. \A n \in Node : Visits(t, n) => n = n0
    BY DEF Visits, n0
  <2> QED BY <1>5, <2>1, <2>2, <2>3 DEF Visited
<1>14. n0 # p
  BY <1>5, <1>6
<1>15. \A n \in Node : Counted(n)' <=> Counted(n) \/ n = n0
  BY <1>1, <1>5, <1>6, <1>12, <1>13, <1>14 DEF Counted
<1>16. \A q \in Node : CountedChildren(q)' = IF q = p THEN C \cup {n0} ELSE CountedChildren(q)
  <2> SUFFICES ASSUME NEW q \in Node
               PROVE  CountedChildren(q)' = IF q = p THEN C \cup {n0} ELSE CountedChildren(q)
    OBVIOUS
  <2>1. InternalChildren(q)' = InternalChildren(q) /\ InternalChildren(q) \subseteq Node
    BY <1>0, FatContext
  <2>2. CountedChildren(q)' = {m \in InternalChildren(q) : Counted(m)'}
    BY <2>1 DEF CountedChildren
  <2> QED BY <1>3, <1>4, <1>15, <2>1, <2>2 DEF CountedChildren, C
<1>17. ASSUME NEW u \in Node PROVE ThreadInv(u)'
  <2>1. at[u] \in Node /\ at'[u] \in Node
    BY <1>9 DEF FatInv, FatTyped
  <2>2. \A n \in Node : Size(n)' = Size(n)
    BY <1>0, FatContext
  <2>3. UNCHANGED <<triangleCounts, unseen, waiting>>
    BY <1>0
  <2>4. CASE u = t
    <3>1. unseen'[t] = {} /\ t \notin waiting'
      BY <1>5, <2>3
    <3>2. doing'[t] = "count" => at'[t] = p
      BY <1>9
    <3>3. doing'[t] = "count" => ~Stored(at[t])'
      BY <1>3, <1>6, <2>3, <3>2 DEF Stored
    <3>4. doing'[t] # "climb"
      BY <1>9
    <3> QED BY <2>4, <3>1, <3>3, <3>4 DEF ThreadInv
  <2>5. CASE u # t
    <3>1. at'[u] = at[u] /\ doing'[u] = doing[u]
      BY <1>9, <2>5
    <3>2. Size(at[u])' = Size(at[u]) /\ (Stored(at[u])' <=> Stored(at[u]))
      BY <1>12, <2>1, <2>2, <3>1
    <3>3. ThreadInv(u)
      BY <1>1
    <3> QED BY <1>2, <2>3, <3>1, <3>2, <3>3 DEF ThreadInv
  <2> QED BY <2>4, <2>5
<1>18. ApartInv'
  <2> SUFFICES ASSUME NEW u \in Node, NEW v \in Node, u # v, at'[u] = at'[v]
               PROVE  /\ doing'[u] = "nothing" \/ doing'[v] = "nothing"
                      /\ unseen[u] = {} \/ unseen[v] = {}
    BY <1>0 DEF ApartInv
  <2>1. \A w \in Node : at[w] = p => doing[w] = "nothing"
    BY <1>6 DEF Visited, Visits
  <2> QED BY <1>1, <1>5, <1>9, <2>1 DEF ApartInv
<1>19. ASSUME NEW n \in Node PROVE NodeInv(n)'
  <2>1. /\ Size(n)' = Size(n) /\ InternalChildren(n)' = InternalChildren(n)
        /\ \A k \in {0, 1} : TrianglesBelow(RadixChild(n, k))' = TrianglesBelow(RadixChild(n, k))
    BY <1>0, FatContext
  <2>2. /\ NodeInv(n) /\ (Stored(n)' <=> Stored(n))
        /\ UNCHANGED <<triangleCounts, waiting, fatLeaves>>
    BY <1>0, <1>1, <1>12
  <2>3. arrivals'[n] = Cardinality(CountedChildren(n)')
    BY <1>1, <1>3, <1>7, <1>10, <1>16 DEF NodeInv, C
  <2>4. Stored(n)' \/ Visited(n)' => CountedChildren(n)' = InternalChildren(n)
    BY <1>3, <1>6, <1>8, <1>12, <1>13, <1>16, <2>2 DEF NodeInv, K, last
  <2>5. IF InternalChildren(n) = {} THEN n \in waiting <=> ~Stored(n)' /\ ~Visited(n)'
        ELSE CountedChildren(n)' = InternalChildren(n) => Stored(n)' \/ Visited(n)'
    <3>1. CASE n = p
      BY <1>3, <1>8, <1>13, <1>16, <3>1 DEF K, last
    <3>2. CASE n = n0
      BY <1>5, <1>12, <2>2, <3>2 DEF NodeInv
    <3>3. CASE n # p /\ n # n0
      BY <1>12, <1>13, <1>16, <2>2, <3>3 DEF NodeInv
    <3> QED BY <3>1, <3>2, <3>3
  <2> QED BY <2>1, <2>2, <2>3, <2>4, <2>5 DEF NodeInv
<1> QED BY <1>0, <1>11, <1>17, <1>18, <1>19, FatKept

(* Only in the last kernel threads have something to do at a node.         *)
LEMMA FatOnly ==
  ASSUME FatInv, NEW t \in Node, doing[t] # "nothing" \/ unseen[t] # {}
  PROVE  kernel = "fat"
BY DEF FatInv, PhaseInv, FatFresh

LEMMA FatUnchanged ==
  ASSUME FatInv, ClimbInv, UNCHANGED <<vars, fatVars>>
  PROVE  FatInv'
<1>1. UNCHANGED differ /\ root' = root /\ \A n : Above(n)' = Above(n)
  BY FatFrame DEF vars
<1>2. Graded(differ)
  BY DEF ClimbInv, ClimbTyped
<1>3. FatTyped'
  BY DEF FatInv, FatTyped, fatVars
<1>4. PhaseInv'
  BY <1>1 DEF FatInv, PhaseInv, Finished, FatFresh, ParentsInv, vars, fatVars
<1>5. ASSUME kernel = "fat" PROVE CountInv'
  <2>1. \A n \in Node : Stored(n)' = Stored(n) /\ Visited(n)' = Visited(n)
    BY DEF Stored, Visited, Visits, fatVars
  <2>2. \A n \in Node : InternalChildren(n) \subseteq Node
    BY <1>2, OneParent
  <2>3. \A n \in Node : CountedChildren(n)' = CountedChildren(n)
    BY <1>1, <2>1, <2>2, FatFrame DEF CountedChildren, Counted
  <2>4. ASSUME NEW n \in Node PROVE NodeInv(n)'
    <3>1. /\ Size(n)' = Size(n) /\ InternalChildren(n)' = InternalChildren(n)
          /\ \A k \in {0, 1} : TrianglesBelow(RadixChild(n, k))' = TrianglesBelow(RadixChild(n, k))
      BY <1>1, FatFrame
    <3>2. NodeInv(n) /\ UNCHANGED <<triangleCounts, arrivals, waiting, fatLeaves>>
      BY <1>5 DEF FatInv, CountInv, fatVars
    <3> QED BY <2>1, <2>3, <3>1, <3>2 DEF NodeInv
  <2>5. ASSUME NEW t \in Node PROVE ThreadInv(t)'
    <3>1. at[t] \in Node /\ Size(at[t])' = Size(at[t])
      BY <1>1, FatFrame DEF FatInv, FatTyped, fatVars
    <3>2. Stored(at[t])' = Stored(at[t])
      BY <2>1, <3>1 DEF fatVars
    <3>3. ThreadInv(t)
      BY <1>5 DEF FatInv, CountInv
    <3> QED BY <1>1, <3>1, <3>2, <3>3 DEF ThreadInv, fatVars
  <2>6. ApartInv'
    BY <1>5 DEF FatInv, CountInv, ApartInv, fatVars
  <2> QED BY <2>4, <2>5, <2>6 DEF CountInv
<1> QED BY <1>3, <1>4, <1>5 DEF FatInv, CountInv, fatVars

LEMMA FatSteps ==
  ASSUME FatInv, ClimbInv, StoreInv, [BuildNext]_<<vars, fatVars>>
  PROVE  FatInv'
<1>1. ASSUME NEW t \in Node, FatStep(t) PROVE FatInv'
  <2>1. CASE CountTriangles(t)
    BY <2>1, CountKeepsFat, FatOnly DEF CountTriangles
  <2>2. CASE ArriveCount(t)
    BY <2>2, ArriveKeepsFat, FatOnly DEF ArriveCount
  <2>3. CASE LeaveRoot(t)
    BY <2>3, LeaveKeepsFat, FatOnly DEF LeaveRoot
  <2>4. CASE ClimbOn(t)
    BY <2>4, ClimbKeepsFat, FatOnly DEF ClimbOn
  <2> QED BY <1>1, <2>1, <2>2, <2>3, <2>4, ParentsKeepFat, StartKeepsFat DEF FatStep
<1> QED BY <1>1, EmitKeepsFat, LaunchParentsKeepsFat, LaunchFatKeepsFat, FatUnchanged DEF BuildNext, Built

LEMMA FatInvariants == BuildSpec => [](ClimbInv /\ StoreInv /\ FatInv)
<1>1. BuildInit => FatInv
  BY FatInit
<1>2. FatInv /\ ClimbInv /\ StoreInv /\ [BuildNext]_<<vars, fatVars>> => FatInv'
  BY FatSteps
<1> QED BY <1>1, <1>2, BuildInvariants, PTL DEF BuildSpec

(* Of the nodes not stored in the end, the smallest would have had all its *)
(* children counted, and so a thread.                                      *)
LEMMA AllStored ==
  ASSUME ClimbInv, StoreInv, FatInv, FatDone, NEW n \in Node
  PROVE  Stored(n)
<1> DEFINE Late == {m \in Node : ~Stored(m)}
           U == {Size(m) : m \in Late}
<1> SUFFICES ASSUME ~Stored(n) PROVE FALSE
  OBVIOUS
<1>1. Graded(differ)
  BY DEF ClimbInv, ClimbTyped
<1>2. kernel = "fat" /\ waiting = {} /\ \A m \in Node : ~Visited(m) /\ NodeInv(m)
  BY DEF FatDone, FatInv, CountInv, Visited, Visits
<1>3. \A m \in Node : Size(m) \in Nat
  BY <1>1, SidesSplit
<1>4. PICK u \in U : \A x \in U : u <= x
  <2>1. U \in SUBSET Nat /\ U # {}
    BY <1>3
  <2> QED BY <2>1, Smallest
<1>5. PICK m \in Late : u = Size(m)
  OBVIOUS
<1>6. \A l \in Late : Size(m) <= Size(l)
  BY <1>4, <1>5
<1>7. ASSUME NEW l \in InternalChildren(m) PROVE Counted(l)
  <2>1. l \in Node /\ Size(l) < Size(m)
    BY <1>1, <1>7, OneParent
  <2>2. Stored(l)
    BY <1>3, <1>6, <2>1
  <2> QED BY <1>2, <2>1, <2>2 DEF Counted
<1>8. CountedChildren(m) = InternalChildren(m)
  BY <1>7 DEF CountedChildren
<1> QED BY <1>2, <1>8 DEF NodeInv

LEMMA CountsAreExact == ClimbInv /\ StoreInv /\ FatInv => FatLeavesExact
<1> SUFFICES ASSUME ClimbInv, StoreInv, FatInv, FatDone, NEW n \in Node
             PROVE  /\ triangleCounts[n] = Hi(n) - Lo(n) + 1
                    /\ \A k \in {0, 1} : <<n, k>> \in fatLeaves
                                           <=> TrianglesBelow(RadixChild(n, k)) <= MaxFatLeafSize
  BY DEF FatLeavesExact
<1>1. Stored(n) /\ NodeInv(n)
  BY AllStored DEF FatDone, FatInv, CountInv
<1>2. triangleCounts[n] # 0
  BY <1>1 DEF Stored, FatDone
<1> QED BY <1>1, <1>2 DEF NodeInv, Size

(* The build of packets does to the topology what its first kernel does.   *)
THEOREM BuildEmits == BuildSpec => Spec
<1>1. BuildInit => Init
  BY DEF BuildInit
<1> QED BY <1>1, BuildSteps, PTL DEF BuildSpec, Spec

(* Whatever the order in which threads start, store and meet, also where   *)
(* stores lag, each node ends with the number of its codes and each child  *)
(* carries the flag exactly if it fits into one leaf.                      *)
THEOREM FatLeavesAlwaysExact == BuildSpec => []FatLeavesExact
BY FatInvariants, CountsAreExact, PTL

(* Nodes are counted once each, and none before its internal children.     *)
THEOREM CountsChildrenFirst == BuildSpec => CountsBottomUp
<1> DEFINE counted == {n \in Node : triangleCounts[n] # 0}
           tree    == [n \in Node |-> InternalChildren(n)]
<1>1. BuildInit => Counting!Init
  BY DEF BuildInit, Counting!Init
<1>2. ClimbInv /\ StoreInv /\ FatInv /\ [BuildNext]_<<vars, fatVars>>
        => [Counting!Next]_<<counted, tree>>
  <2> SUFFICES ASSUME ClimbInv, StoreInv, FatInv, [BuildNext]_<<vars, fatVars>>
               PROVE  Counting!Next \/ UNCHANGED <<counted, tree>>
    OBVIOUS
  <2>1. UNCHANGED differ /\ Node' = Node
    BY BuildSteps DEF Next, vars, Step, Start, Meet, Fit, Link, Fence, Arrive, Terminated, Node
  <2>2. tree' = tree
    BY <2>1, TreeFrame
  <2>3. ASSUME NEW t \in Node, NEW n \in Node, triangleCounts[n] = 0,
               InternalChildren(n) \subseteq counted,
               \A m \in Node : triangleCounts'[m] # 0 <=> triangleCounts[m] # 0 \/ m = n
        PROVE  Counting!Next
    <3>1. counted' = counted \cup {n} /\ n \notin counted
      BY <2>1, <2>3
    <3>2. Counting!Fit(n)
      BY <2>2, <2>3, <3>1 DEF Counting!Fit
    <3> QED BY <3>2 DEF Counting!Next
  <2>4. CASE \E t \in Node : CountTriangles(t)
    <3>1. PICK t \in Node : CountTriangles(t)
      BY <2>4
    <3>2. kernel = "fat"
      BY <3>1, FatOnly DEF CountTriangles
    <3>3. CASE UNCHANGED triangleCounts
      BY <2>1, <2>2, <3>3
    <3> QED BY <2>3, <3>1, <3>2, <3>3, CountKeepsFat
  <2>5. CASE \E t \in Node : ArriveCount(t)
    <3>1. PICK t \in Node : ArriveCount(t)
      BY <2>5
    <3>2. kernel = "fat"
      BY <3>1, FatOnly DEF ArriveCount
    <3> QED BY <2>3, <3>1, <3>2, ArriveKeepsFat
  <2>6. CASE UNCHANGED triangleCounts
    BY <2>1, <2>2, <2>6
  <2>7. \/ \E t \in Node : CountTriangles(t) \/ ArriveCount(t)
        \/ UNCHANGED triangleCounts
    BY DEF BuildNext, Emit, LaunchParents, LaunchFat, FatStep, ComputeParentAddrs, StartThread,
           LeaveRoot, ClimbOn, Built, fatVars
  <2> QED BY <2>4, <2>5, <2>6, <2>7
<1> QED BY <1>1, <1>2, FatInvariants, PTL DEF BuildSpec, CountsBottomUp, Counting!Spec
=============================================================================
