------------------------------ MODULE PlocProofs ------------------------------
(* Proofs about PLOC: in every round among two or more clusters some pair  *)
(* merges, whatever the distances, so the loop of a warp ends; and however *)
(* the warps run, ranges are complete, clusters are united two by two and  *)
(* one tree is left.                                                       *)
EXTENDS Ploc, FiniteSetTheorems, WellFoundedInduction, TLAPS

(* A set of naturals that is not empty has a smallest element.  Sets of    *)
(* numbers below an element are ordered like the elements.                 *)
LEMMA Smallest ==
  ASSUME NEW U \in SUBSET Nat, U # {}
  PROVE  \E n \in U : \A m \in U : n <= m
<1>1. PICK top \in U : TRUE
  OBVIOUS
<1> DEFINE below(n) == 0 .. n - 1
           T == {below(n) : n \in {u \in U : u <= top}}
<1>2. IsFiniteSet(0 .. top)
  BY FS_Interval
<1>3. IsWellFoundedOn(StrictSubsetOrdering(0 .. top), SUBSET (0 .. top))
  BY <1>2, FS_StrictSubsetOrderingWellFounded, FS_FiniteSubsetsOfFinite, Zenon
<1>4. T \in SUBSET SUBSET (0 .. top) /\ T # {}
  <2>1. \A n \in U : n <= top => below(n) \subseteq 0 .. top
    OBVIOUS
  <2>2. top \in {u \in U : u <= top}
    BY <1>1
  <2> HIDE DEF below
  <2> QED BY <2>1, <2>2
<1> HIDE DEF T
<1>5. PICK x \in T : \A y \in T : <<y, x>> \notin StrictSubsetOrdering(0 .. top)
  BY <1>3, <1>4, WFMin
<1>6. PICK n \in U : n <= top /\ x = below(n)
  BY <1>5 DEF T
<1>7. ASSUME NEW m \in U, m < n
      PROVE  FALSE
  <2>1. m \in {u \in U : u <= top}
    BY <1>6, <1>7
  <2>2. below(m) \in T
    BY <2>1 DEF T
  <2>3. below(m) \subseteq below(n) /\ m \in below(n) /\ m \notin below(m)
    BY <1>7
  <2>4. <<below(m), below(n)>> \in StrictSubsetOrdering(0 .. top)
    BY <2>2, <2>3, <1>4, <1>5, <1>6 DEF StrictSubsetOrdering
  <2> QED BY <2>2, <2>4, <1>5, <1>6
<1> QED BY <1>7

(* And a bounded one has a largest.                                        *)
LEMMA Largest ==
  ASSUME NEW U \in SUBSET Nat, U # {}, NEW b \in Nat, \A u \in U : u <= b
  PROVE  \E n \in U : \A m \in U : m <= n
<1> DEFINE V == {b - u : u \in U}
<1>1. V \in SUBSET Nat /\ V # {}
  <2>1. \A u \in U : b - u \in Nat
    OBVIOUS
  <2>2. PICK u \in U : TRUE
    OBVIOUS
  <2>3. b - u \in V
    BY <2>2
  <2> QED BY <2>1, <2>3
<1>2. PICK v \in V : \A w \in V : v <= w
  BY <1>1, Smallest
<1>3. PICK n \in U : v = b - n
  BY <1>2
<1>4. \A m \in U : v <= b - m
  BY <1>2
<1> QED BY <1>3, <1>4

-----------------------------------------------------------------------------
(* Remainders of two, which the encoding is made of.                       *)
LEMMA Parity ==
  \A x \in Int : /\ x % 2 \in {0, 1}
                 /\ (x + 1) % 2 = 1 - (x % 2)
                 /\ \A k \in Int : (x + 2 * k) % 2 = x % 2
OBVIOUS

(* The side of a neighbour, as the lane sees it.                           *)
Side(x, y) == IF y < x THEN 1 - (x % 2) ELSE x % 2

(* The encoded offset is below 2 * PlocRadius.                             *)
LEMMA EncodingInRange ==
  ASSUME NEW x \in Int, NEW y \in Int, x # y, Abs(y - x) <= PlocRadius
  PROVE  /\ Side(x, y) \in {0, 1}
         /\ Abs(y - x) \in 1 .. PlocRadius
         /\ encodeOffset(x, y) = 2 * (Abs(y - x) - 1) + Side(x, y)
         /\ encodeOffset(x, y) \in 0 .. 2 * PlocRadius - 1
<1>1. x % 2 \in {0, 1}
  BY Parity
<1>2. Abs(y - x) \in 1 .. PlocRadius
  BY RadiusAssumption DEF Abs
<1> QED BY <1>1, <1>2, RadiusAssumption DEF encodeOffset, Side

(* decodeOffset undoes encodeOffset.                                       *)
LEMMA DecodingUndoes ==
  ASSUME NEW x \in Int, NEW y \in Int, x # y
  PROVE  decodeOffset(x, encodeOffset(x, y)) = y
<1> DEFINE a == Abs(y - x)
           s == Side(x, y)
<1>1. x % 2 \in {0, 1} /\ s \in {0, 1}
  BY Parity DEF Side
<1>2. a \in Nat \ {0} /\ (y < x => y = x - a) /\ (y >= x => y = x + a)
  BY DEF Abs
<1>3. encodeOffset(x, y) = 2 * (a - 1) + s
  BY DEF encodeOffset, Side
<1>4. (2 * (a - 1) + s) \div 2 = a - 1
  BY <1>1, <1>2
<1>5. (2 * (a - 1) + s + x) % 2 = (s + x) % 2
  <2>1. 2 * (a - 1) + s + x = (s + x) + 2 * (a - 1)
    BY <1>1, <1>2
  <2>2. s + x \in Int /\ a - 1 \in Int
    BY <1>1, <1>2
  <2> HIDE DEF a, s
  <2> QED BY <2>1, <2>2, Parity
<1>6. (s + x) % 2 = IF y < x THEN 1 ELSE 0
  BY <1>1 DEF Side
<1> HIDE DEF a, s
<1> QED BY <1>2, <1>3, <1>4, <1>5, <1>6 DEF decodeOffset

-----------------------------------------------------------------------------
(* The distances of a round: one natural number for each pair of lanes     *)
(* that see each other.                                                    *)
Distances(d, n) ==
  \A x, y \in Lanes(n) : x < y /\ y - x <= PlocRadius => d[<<x, y>>] \in Nat

(* What two lanes have in common: the number without the side.             *)
Class(d, x, y) == PlocRadius * d[Between(x, y)] + Abs(y - x) - 1

(* The number of a lane splits into its class and the side.                *)
LEMMA NumberSplits ==
  ASSUME NEW n \in Nat, NEW d, Distances(d, n),
         NEW x \in Lanes(n), NEW y \in Neighbours(x, n)
  PROVE  /\ x \in Int /\ y \in Lanes(n) /\ y \in Int /\ x # y
         /\ Abs(y - x) \in 1 .. PlocRadius
         /\ d[Between(x, y)] \in Nat
         /\ Class(d, x, y) \in Nat
         /\ Side(x, y) \in {0, 1}
         /\ distanceOffset(d, x, y) = 2 * Class(d, x, y) + Side(x, y)
         /\ distanceOffset(d, x, y) % (2 * PlocRadius) = encodeOffset(x, y)
<1>1. x \in Int /\ y \in Lanes(n) /\ y \in Int /\ x # y /\ Abs(y - x) <= PlocRadius
  BY DEF Neighbours, Lanes
<1>2. /\ Side(x, y) \in {0, 1}
      /\ Abs(y - x) \in 1 .. PlocRadius
      /\ encodeOffset(x, y) = 2 * (Abs(y - x) - 1) + Side(x, y)
      /\ encodeOffset(x, y) \in 0 .. 2 * PlocRadius - 1
  BY <1>1, EncodingInRange
<1>3. d[Between(x, y)] \in Nat
  <2>1. CASE x < y
    <3>1. y - x <= PlocRadius
      BY <1>1, <2>1 DEF Abs
    <3> QED BY <1>1, <2>1, <3>1 DEF Between, Distances
  <2>2. CASE ~(x < y)
    <3>1. y < x /\ x - y <= PlocRadius
      BY <1>1, <2>2 DEF Abs
    <3> QED BY <1>1, <2>2, <3>1 DEF Between, Distances
  <2> QED BY <2>1, <2>2
<1> DEFINE D == d[Between(x, y)]
           a == Abs(y - x)
           p == PlocRadius * D
<1>4. p \in Nat
  BY <1>3, RadiusAssumption
<1>5. 2 * PlocRadius * D = 2 * p /\ 2 * PlocRadius * D = (2 * PlocRadius) * D
  BY <1>3, RadiusAssumption
<1>6. Class(d, x, y) = p + a - 1
  BY DEF Class
<1>7. distanceOffset(d, x, y) = 2 * PlocRadius * D + encodeOffset(x, y)
  BY DEF distanceOffset
<1>8. (((2 * PlocRadius) * D) + encodeOffset(x, y)) % (2 * PlocRadius) = encodeOffset(x, y)
  <2> DEFINE m == 2 * PlocRadius
             e == encodeOffset(x, y)
  <2>1. m \in Nat \ {0} /\ e \in 0 .. m - 1 /\ D \in Nat
    BY <1>2, <1>3, RadiusAssumption
  <2> HIDE DEF m, e, D
  <2>2. (m * D + e) % m = e
    BY <2>1
  <2> QED BY <2>2 DEF m, e
<1> HIDE DEF D, a, p
<1>9. /\ Class(d, x, y) \in Nat
      /\ distanceOffset(d, x, y) = 2 * Class(d, x, y) + Side(x, y)
  <2>1. a \in 1 .. PlocRadius /\ encodeOffset(x, y) = 2 * (a - 1) + Side(x, y)
    BY <1>2 DEF a
  <2> QED BY <2>1, <1>2, <1>4, <1>5, <1>6, <1>7, RadiusAssumption
<1>10. distanceOffset(d, x, y) % (2 * PlocRadius) = encodeOffset(x, y)
  BY <1>5, <1>7, <1>8
<1> QED BY <1>1, <1>2, <1>3, <1>9, <1>10 DEF D

(* Lanes see each other both ways.                                         *)
LEMMA NeighboursMutual ==
  ASSUME NEW n \in Nat, NEW d, Distances(d, n),
         NEW x \in Lanes(n), NEW y \in Neighbours(x, n)
  PROVE  x \in Neighbours(y, n) /\ Class(d, y, x) = Class(d, x, y)
<1>1. x \in Int /\ y \in Int /\ y \in Lanes(n) /\ x # y /\ Abs(y - x) <= PlocRadius
  BY DEF Neighbours, Lanes
<1>2. Abs(x - y) = Abs(y - x)
  BY <1>1 DEF Abs
<1>3. Between(x, y) = Between(y, x)
  BY <1>1 DEF Between
<1> QED BY <1>1, <1>2, <1>3 DEF Neighbours, Class

(* A lane that is not alone decodes the one neighbour whose number is the  *)
(* smallest: no two neighbours have the same number.                       *)
LEMMA NearestIsNearest ==
  ASSUME NEW n \in Nat, n > 1, NEW d, Distances(d, n), NEW x \in Lanes(n)
  PROVE  \A y \in Neighbours(x, n) : Nearest(d, n, x) = y <=> IsNearest(d, n, x, y)
<1> DEFINE N == Neighbours(x, n)
           U == {distanceOffset(d, x, y) : y \in N}
<1>1. \A y \in N : /\ distanceOffset(d, x, y) \in Nat
                   /\ decodeOffset(x, distanceOffset(d, x, y) % (2 * PlocRadius)) = y
  <2> SUFFICES ASSUME NEW y \in N
               PROVE  /\ distanceOffset(d, x, y) \in Nat
                      /\ decodeOffset(x, distanceOffset(d, x, y) % (2 * PlocRadius)) = y
    OBVIOUS
  <2>1. /\ x \in Int /\ y \in Int /\ x # y
        /\ Class(d, x, y) \in Nat /\ Side(x, y) \in {0, 1}
        /\ distanceOffset(d, x, y) = 2 * Class(d, x, y) + Side(x, y)
        /\ distanceOffset(d, x, y) % (2 * PlocRadius) = encodeOffset(x, y)
    BY NumberSplits
  <2>2. decodeOffset(x, encodeOffset(x, y)) = y
    BY <2>1, DecodingUndoes
  <2>3. distanceOffset(d, x, y) \in Nat
    BY <2>1
  <2> QED BY <2>1, <2>2, <2>3
<1>2. PICK other \in N : TRUE
  <2>1. IF x = 0 THEN 1 \in N ELSE x - 1 \in N
    BY RadiusAssumption DEF Neighbours, Lanes, Abs
  <2> QED BY <2>1
<1>3. U \in SUBSET Nat /\ U # {}
  <2>1. distanceOffset(d, x, other) \in U
    BY <1>2
  <2> QED BY <1>1, <2>1
<1>4. PICK u \in U : \A v \in U : u <= v
  BY <1>3, Smallest
<1>5. PICK z \in N : IsNearest(d, n, x, z)
  <2>1. PICK z \in N : u = distanceOffset(d, x, z)
    BY <1>4
  <2>2. \A y \in N : u <= distanceOffset(d, x, y)
    BY <1>4
  <2> QED BY <2>1, <2>2 DEF IsNearest
<1>6. \A y \in N : IsNearest(d, n, x, y) => y = z
  <2> SUFFICES ASSUME NEW y \in N, IsNearest(d, n, x, y)
               PROVE  y = z
    OBVIOUS
  <2>1. distanceOffset(d, x, y) <= distanceOffset(d, x, z)
        /\ distanceOffset(d, x, z) <= distanceOffset(d, x, y)
    BY <1>5 DEF IsNearest
  <2>2. distanceOffset(d, x, y) = distanceOffset(d, x, z)
    BY <1>1, <2>1
  <2> QED BY <1>1, <2>2
<1>7. (CHOOSE y \in N : IsNearest(d, n, x, y)) = z
  BY <1>5, <1>6
<1>8. Nearest(d, n, x) = z
  BY <1>1, <1>7 DEF Nearest
<1> QED BY <1>5, <1>6, <1>8

(* Two lanes that are nearest to each other merge.                         *)
LEMMA MutualMerge ==
  ASSUME NEW n \in Nat, n > 1, NEW d, Distances(d, n),
         NEW x \in Lanes(n), NEW y \in Lanes(n), x < y,
         IsNearest(d, n, x, y), IsNearest(d, n, y, x)
  PROVE  Merging(d, n) # {}
<1>1. Nearest(d, n, x) = y /\ Nearest(d, n, y) = x
  BY NearestIsNearest DEF IsNearest
<1>2. <<x, y>> \in Merging(d, n)
  BY <1>1 DEF Merging
<1> QED BY <1>2

(* Against the smallest class, a neighbour wins if it is on the better     *)
(* side or nobody there is of that class.                                  *)
LEMMA BestOfClass ==
  ASSUME NEW n \in Nat, n > 1, NEW d, Distances(d, n),
         NEW x \in Lanes(n), NEW y \in Neighbours(x, n),
         \A z \in Neighbours(x, n) : Class(d, x, y) <= Class(d, x, z),
         \A z \in Neighbours(x, n) : Class(d, x, z) = Class(d, x, y) => Side(x, y) <= Side(x, z)
  PROVE  IsNearest(d, n, x, y)
<1> SUFFICES ASSUME NEW z \in Neighbours(x, n)
             PROVE  distanceOffset(d, x, y) <= distanceOffset(d, x, z)
  BY DEF IsNearest
<1>1. /\ Class(d, x, y) \in Nat /\ Side(x, y) \in {0, 1}
      /\ distanceOffset(d, x, y) = 2 * Class(d, x, y) + Side(x, y)
  BY NumberSplits
<1>2. /\ Class(d, x, z) \in Nat /\ Side(x, z) \in {0, 1}
      /\ distanceOffset(d, x, z) = 2 * Class(d, x, z) + Side(x, z)
  BY NumberSplits
<1>3. /\ Class(d, x, y) <= Class(d, x, z)
      /\ Class(d, x, z) = Class(d, x, y) => Side(x, y) <= Side(x, z)
  OBVIOUS
<1> QED BY ONLY <1>1, <1>2, <1>3

(* The pairs of the smallest class are all equally far apart.              *)
LEMMA SameGap ==
  ASSUME NEW n \in Nat, NEW d, Distances(d, n),
         NEW x \in Lanes(n), NEW y \in Neighbours(x, n),
         NEW u \in Lanes(n), NEW v \in Neighbours(u, n),
         Class(d, x, y) = Class(d, u, v)
  PROVE  Abs(y - x) = Abs(v - u)
<1> DEFINE D == d[Between(x, y)]
           E == d[Between(u, v)]
           a == Abs(y - x)
           b == Abs(v - u)
<1>1. D \in Nat /\ a \in 1 .. PlocRadius /\ E \in Nat /\ b \in 1 .. PlocRadius
  BY NumberSplits
<1>2. PlocRadius * D + a - 1 = PlocRadius * E + b - 1
  BY DEF Class
<1> HIDE DEF D, E, a, b
<1>3. PlocRadius * D \in Nat /\ PlocRadius * E \in Nat
  BY <1>1, RadiusAssumption
<1>4. (PlocRadius * D + (a - 1)) % PlocRadius = a - 1
  BY <1>1, RadiusAssumption
<1>5. (PlocRadius * E + (b - 1)) % PlocRadius = b - 1
  BY <1>1, RadiusAssumption
<1>6. PlocRadius * D + (a - 1) = PlocRadius * E + (b - 1)
  BY <1>1, <1>2, <1>3
<1>7. a - 1 = b - 1
  BY <1>4, <1>5, <1>6
<1>8. a = b
  BY <1>1, <1>7, RadiusAssumption
<1> QED BY <1>8 DEF a, b

(* Whatever the distances, ties included, two neighbours merge.  Take the  *)
(* pairs of the smallest class.  If their gap is odd both lanes of a pair  *)
(* see each other on the same side, and a pair on the better side is       *)
(* mutual.  If it is even, all lanes of one parity prefer one direction,   *)
(* and where that chain ends the last two choose each other.               *)
THEOREM PairMerges ==
  ASSUME NEW n \in Nat, n > 1, NEW d, Distances(d, n)
  PROVE  Merging(d, n) # {}
<1> DEFINE Near(x, y) == x \in Lanes(n) /\ y \in Neighbours(x, n) /\ x < y
           U == {Class(d, p[1], p[2]) : p \in {q \in Lanes(n) \X Lanes(n) : Near(q[1], q[2])}}
<1>1. \A x, y \in Lanes(n) : Near(x, y) => Class(d, x, y) \in Nat /\ x \in Int /\ y \in Int
  BY NumberSplits
<1>2. U \in SUBSET Nat /\ U # {}
  <2>1. U \in SUBSET Nat
    BY <1>1
  <2>2. 0 \in Lanes(n) /\ 1 \in Lanes(n) /\ Near(0, 1)
    BY RadiusAssumption DEF Lanes, Neighbours, Abs
  <2>3. <<0, 1>> \in {q \in Lanes(n) \X Lanes(n) : Near(q[1], q[2])}
    BY <2>2
  <2>4. Class(d, 0, 1) \in U
    BY <2>3
  <2> QED BY <2>1, <2>4
<1>3. PICK c \in U : \A v \in U : c <= v
  BY <1>2, Smallest
<1> DEFINE In(x, y) == Near(x, y) /\ Class(d, x, y) = c
<1>4. PICK x0 \in Lanes(n), y0 \in Lanes(n) : In(x0, y0)
  BY <1>3
<1>5. \A x, y \in Lanes(n) : Near(x, y) => c <= Class(d, x, y)
  <2> SUFFICES ASSUME NEW x \in Lanes(n), NEW y \in Lanes(n), Near(x, y)
               PROVE  c <= Class(d, x, y)
    OBVIOUS
  <2>1. <<x, y>> \in {q \in Lanes(n) \X Lanes(n) : Near(q[1], q[2])}
    OBVIOUS
  <2>2. Class(d, x, y) \in U
    BY <2>1
  <2> QED BY <2>2, <1>3
<1> HIDE DEF U
<1> DEFINE a == Abs(y0 - x0)
<1>6. \A x, y \in Lanes(n) :
        In(x, y) => /\ x \in Int /\ a \in Nat \ {0} /\ y = x + a
                    /\ y \in Neighbours(x, n) /\ x \in Neighbours(y, n) /\ x < y
                    /\ Class(d, y, x) = c /\ Class(d, x, y) = c
  <2> SUFFICES ASSUME NEW x \in Lanes(n), NEW y \in Lanes(n), In(x, y)
               PROVE  /\ x \in Int /\ a \in Nat \ {0} /\ y = x + a
                      /\ y \in Neighbours(x, n) /\ x \in Neighbours(y, n) /\ x < y
                      /\ Class(d, y, x) = c /\ Class(d, x, y) = c
    OBVIOUS
  <2>1. Abs(y - x) = a
    BY <1>4, SameGap
  <2>2. x \in Int /\ y \in Int /\ x < y
    BY DEF Lanes
  <2>3. Abs(y - x) = y - x
    BY <2>2 DEF Abs
  <2>4. a \in Nat \ {0} /\ y = x + a
    BY <2>1, <2>2, <2>3
  <2> QED BY <2>2, <2>4, NeighboursMutual
<1>7. \A x \in Lanes(n) : \A z \in Neighbours(x, n) :
        /\ c <= Class(d, x, z)
        /\ Class(d, x, z) = c => IF x < z THEN In(x, z) ELSE In(z, x)
  <2> SUFFICES ASSUME NEW x \in Lanes(n), NEW z \in Neighbours(x, n)
               PROVE  /\ c <= Class(d, x, z)
                      /\ Class(d, x, z) = c => IF x < z THEN In(x, z) ELSE In(z, x)
    OBVIOUS
  <2>1. /\ x \in Int /\ z \in Int /\ z \in Lanes(n) /\ x # z
        /\ x \in Neighbours(z, n) /\ Class(d, z, x) = Class(d, x, z)
    BY NumberSplits, NeighboursMutual
  <2>2. CASE x < z
    BY <2>1, <2>2, <1>5
  <2>3. CASE ~(x < z)
    BY <2>1, <2>3, <1>5
  <2> QED BY <2>2, <2>3
<1> DEFINE Wins(x, y) == \A z \in Neighbours(x, n) : Class(d, x, z) = c => Side(x, y) <= Side(x, z)
<1>8. \A x, y \in Lanes(n) : In(x, y) /\ Wins(x, y) /\ Wins(y, x) => Merging(d, n) # {}
  <2> SUFFICES ASSUME NEW x \in Lanes(n), NEW y \in Lanes(n), In(x, y), Wins(x, y), Wins(y, x)
               PROVE  Merging(d, n) # {}
    OBVIOUS
  <2>1. /\ y \in Neighbours(x, n) /\ x \in Neighbours(y, n) /\ x < y
        /\ Class(d, y, x) = c /\ Class(d, x, y) = c
    BY <1>6
  <2>2. IsNearest(d, n, x, y)
    BY <2>1, <1>7, BestOfClass
  <2>3. IsNearest(d, n, y, x)
    BY <2>1, <1>7, BestOfClass
  <2> QED BY <2>1, <2>2, <2>3, MutualMerge
<1>9. \A x \in Lanes(n) : x \in Int
  BY DEF Lanes
(* The sides of neighbours of the smallest class.                          *)
<1>10. \A x \in Lanes(n) : \A z \in Neighbours(x, n) :
         Class(d, x, z) = c =>
           \/ In(x, z) /\ z = x + a /\ Side(x, z) = x % 2
           \/ In(z, x) /\ x = z + a /\ Side(x, z) = 1 - (x % 2)
  <2> SUFFICES ASSUME NEW x \in Lanes(n), NEW z \in Neighbours(x, n), Class(d, x, z) = c
               PROVE  \/ In(x, z) /\ z = x + a /\ Side(x, z) = x % 2
                      \/ In(z, x) /\ x = z + a /\ Side(x, z) = 1 - (x % 2)
    OBVIOUS
  <2>1. z \in Lanes(n) /\ x \in Int /\ z \in Int /\ x # z
    BY NumberSplits
  <2>2. CASE x < z
    BY <2>1, <2>2, <1>6, <1>7 DEF Side
  <2>3. CASE ~(x < z)
    BY <2>1, <2>3, <1>6, <1>7 DEF Side
  <2> QED BY <2>2, <2>3
<1> HIDE DEF In, Near, a
<1>11. a \in Nat \ {0}
  BY <1>4, <1>6
<1>12. \A x \in Int : x % 2 \in {0, 1}
  BY Parity
(* The two lanes of such a pair.                                           *)
<1>13. \A x, y \in Lanes(n) : In(x, y) =>
         x \in Int /\ y \in Int /\ x < y /\ y = x + a /\ Side(x, y) = x % 2 /\ Side(y, x) = 1 - (y % 2)
  BY <1>6, <1>9 DEF Side
<1>14. CASE a % 2 = 1
  <2>1. \A x \in Int : (x + a) % 2 = 1 - (x % 2)
    BY <1>11, <1>14
  <2>2. CASE \E x, y \in Lanes(n) : In(x, y) /\ x % 2 = 0
    <3>1. PICK x \in Lanes(n), y \in Lanes(n) : In(x, y) /\ x % 2 = 0
      BY <2>2
    <3>2. Side(x, y) = 0 /\ Side(y, x) = 0
      BY <3>1, <2>1, <1>13
    <3>3. Wins(x, y) /\ Wins(y, x)
      BY <3>2, <1>9, <1>10, <1>12
    <3> QED BY <3>1, <3>3, <1>8
  <2>3. CASE ~ \E x, y \in Lanes(n) : In(x, y) /\ x % 2 = 0
    <3>1. \A x, y \in Lanes(n) : In(x, y) => x % 2 = 1 /\ y % 2 = 0
      BY <2>1, <2>3, <1>9, <1>12, <1>13
    <3>2. Side(x0, y0) = 1 /\ Side(y0, x0) = 1
      BY <3>1, <1>4, <1>13
    <3>3. Wins(x0, y0)
      <4> SUFFICES ASSUME NEW z \in Neighbours(x0, n), Class(d, x0, z) = c
                   PROVE  Side(x0, y0) <= Side(x0, z)
        OBVIOUS
      <4>1. z \in Lanes(n)
        BY DEF Neighbours
      <4> QED BY <4>1, <3>1, <3>2, <1>4, <1>10, <1>13
    <3>4. Wins(y0, x0)
      <4> SUFFICES ASSUME NEW z \in Neighbours(y0, n), Class(d, y0, z) = c
                   PROVE  Side(y0, x0) <= Side(y0, z)
        OBVIOUS
      <4>1. z \in Lanes(n)
        BY DEF Neighbours
      <4> QED BY <4>1, <3>1, <3>2, <1>4, <1>10, <1>13
    <3> QED BY <3>3, <3>4, <1>4, <1>8
  <2> QED BY <2>2, <2>3
<1>15. CASE a % 2 = 0
  <2>1. \A x \in Int : (x + a) % 2 = x % 2
    BY <1>11, <1>15
  <2>2. CASE \E x, y \in Lanes(n) : In(x, y) /\ x % 2 = 0
    <3> DEFINE E == {x \in Lanes(n) : x % 2 = 0 /\ \E y \in Lanes(n) : In(x, y)}
    <3>1. E \in SUBSET Nat /\ E # {} /\ \A x \in E : x <= n
      <4>1. PICK x \in Lanes(n) : x \in E
        BY <2>2
      <4>2. E \subseteq Lanes(n)
        OBVIOUS
      <4> HIDE DEF E
      <4> QED BY <4>1, <4>2 DEF Lanes
    <3>2. PICK x \in E : \A z \in E : z <= x
      BY <3>1, Largest
    <3>3. PICK y \in Lanes(n) : In(x, y)
      BY <3>2
    <3>4. x \in Lanes(n) /\ x % 2 = 0 /\ y % 2 = 0 /\ x < y /\ x \in Int /\ y \in Int
          /\ Side(x, y) = 0 /\ Side(y, x) = 1 /\ y = x + a
      BY <3>2, <3>3, <2>1, <1>13
    <3>5. Wins(x, y)
      BY <3>4, <1>10, <1>12
    <3>6. Wins(y, x)
      <4> SUFFICES ASSUME NEW z \in Neighbours(y, n), Class(d, y, z) = c
                   PROVE  Side(y, x) <= Side(y, z)
        OBVIOUS
      <4>1. z \in Lanes(n) /\ z \in Int
        BY <1>9 DEF Neighbours
      <4>2. ~In(y, z)
        BY <4>1, <3>2, <3>4
      <4> QED BY <4>1, <4>2, <3>4, <1>10
    <3> QED BY <3>3, <3>4, <3>5, <3>6, <1>8
  <2>3. CASE ~ \E x, y \in Lanes(n) : In(x, y) /\ x % 2 = 0
    <3> DEFINE O == {x \in Lanes(n) : \E y \in Lanes(n) : In(x, y)}
    <3>1. O \in SUBSET Nat /\ O # {}
      <4>1. x0 \in O
        BY <1>4
      <4>2. O \subseteq Lanes(n)
        OBVIOUS
      <4> HIDE DEF O
      <4> QED BY <4>1, <4>2 DEF Lanes
    <3>2. PICK x \in O : \A z \in O : x <= z
      BY <3>1, Smallest
    <3>3. PICK y \in Lanes(n) : In(x, y)
      BY <3>2
    <3>4. x \in Lanes(n) /\ x % 2 = 1 /\ y % 2 = 1 /\ x < y /\ x \in Int /\ y \in Int
          /\ Side(x, y) = 1 /\ Side(y, x) = 0 /\ y = x + a
      BY <3>2, <3>3, <2>1, <2>3, <1>12, <1>13
    <3>5. Wins(y, x)
      BY <3>4, <1>10, <1>12
    <3>6. Wins(x, y)
      <4> SUFFICES ASSUME NEW z \in Neighbours(x, n), Class(d, x, z) = c
                   PROVE  Side(x, y) <= Side(x, z)
        OBVIOUS
      <4>1. z \in Lanes(n) /\ z \in Int
        BY <1>9 DEF Neighbours
      <4>2. ~In(z, x)
        BY <4>1, <3>2, <3>4, <1>13
      <4> QED BY <4>1, <4>2, <3>4, <1>10
    <3> QED BY <3>3, <3>4, <3>5, <3>6, <1>8
  <2> QED BY <2>2, <2>3
<1> QED BY <1>11, <1>12, <1>14, <1>15

-----------------------------------------------------------------------------
(* A thread whose range no other thread's range holds.                     *)
Inside(r, q) == q.i <= r.i /\ r.j <= q.j

Top == {t \in Leaf : \A u \in Leaf : Inside(range[t], range[u]) => u = t}

Covers(t, x) == range[t].i <= x /\ x < range[t].j

Whole(t) == range[t].i = 0 /\ range[t].j = primCount

Ranges == [i : 0 .. primCount - 1, s : 0 .. primCount - 1, j : 1 .. primCount]

(* Ranges that nobody has passed are next to each other and make up all    *)
(* codes.  One that is left waits at a counter for its sibling, and only   *)
(* there does a counter between two of them hold anything.                 *)
WaitsAt(t, p) == t \in Top \ active /\ ~Whole(t) /\ findParent(range[t]) = p

ClimbInv ==
  /\ range \in [Leaf -> Ranges] /\ active \in SUBSET Leaf
  /\ updateCounters \in [Leaf -> (0 .. primCount) \cup {InvalidValue}]
  /\ \A t \in Leaf : Covers(t, t)
  /\ active \subseteq Top
  /\ \A x \in Leaf : \E t \in Top : Covers(t, x)
  /\ \A t, u \in Top : t # u => range[t].j <= range[u].i \/ range[u].j <= range[t].i
  /\ \A p \in Leaf : \A t \in Leaf : WaitsAt(t, p) => updateCounters[p] = FarEnd(range[t])
  /\ \A p \in 0 .. primCount - 2 : updateCounters[p] # InvalidValue =>
       \/ \E t \in Top : range[t].i <= p /\ p + 1 < range[t].j
       \/ \E t \in Leaf : WaitsAt(t, p)

(* Where the warps are.                                                    *)
WarpOk(w) ==
  /\ climbing[w] \subseteq LanesOf(w) \cap active
  /\ merging[w] \subseteq LanesOf(w) \cap active
  /\ climbing[w] # {} => place[w] = "climb"
  /\ merging[w] # {} => place[w] \in {"merge", "cluster"}
  /\ place[w] = "cluster" => merging[w] # {}
  /\ place[w] = "done" => LanesOf(w) \cap active = {}
  /\ \A t \in merging[w] : Size(t) > Half \/ Whole(t)
  /\ \A t \in climbing[w] : ~Whole(t)

WarpInv ==
  /\ place \in [Warp -> {"climb", "merge", "cluster", "done"}]
  /\ climbing \in [Warp -> SUBSET Leaf] /\ merging \in [Warp -> SUBSET Leaf]
  /\ held \in [Warp -> Seq(SUBSET Leaf)]
  /\ \A w \in Warp : WarpOk(w)

(* The clusters of a range: some of all that are left, with every code of  *)
(* the range in one of them.                                               *)
SpreadOver(left, cs, a, b) ==
  /\ cs \in Seq(SUBSET Leaf)
  /\ \A k \in 1 .. Len(cs) : cs[k] \in left /\ cs[k] \subseteq a .. b - 1
  /\ \A k, l \in 1 .. Len(cs) : k # l => cs[k] \cap cs[l] = {}
  /\ \A x \in a .. b - 1 : \E k \in 1 .. Len(cs) : x \in cs[k]

(* Those that the array of clusters holds.                                 *)
ClustersIn(indices, a, b) ==
  LET valid == {l \in Lanes(Min({b - a, Half})) : indices[a + l] # InvalidValue} IN
  [k \in 1 .. Cardinality(valid) |-> indices[a + k - 1]]

FullIn(indices, left, a, b) == SpreadOver(left, ClustersIn(indices, a, b), a, b)

Full(a, b) == FullIn(nodeIndices, Clusters, a, b)

Loaded(w, t) == place[w] = "cluster" /\ t = Current(w)

Pending(w, t) == t \in active /\ ((place[w] = "climb" /\ t \notin climbing[w]) \/ t \in merging[w])

PieceInv(w, t) ==
  IF Loaded(w, t)
  THEN Len(held[w]) <= WarpSize /\ SpreadOver(Clusters, held[w], range[t].i, range[t].j)
  ELSE IF Pending(w, t)
  THEN /\ range[t].i < range[t].s /\ range[t].s < range[t].j
       /\ Full(range[t].i, range[t].s) /\ Full(range[t].s, range[t].j)
  ELSE IF Whole(t) THEN Leaf \in Clusters
  ELSE Full(range[t].i, range[t].j)

(* Ranges that have never been merged keep the leaves.                     *)
Small(r) == r.j - r.i <= Half /\ r.j - r.i < primCount

ClusterInv ==
  /\ nodeIndices \in [Leaf -> (SUBSET Leaf) \cup {InvalidValue}]
  /\ \A w \in Warp : \A t \in LanesOf(w) \cap Top : PieceInv(w, t)
  /\ \A t \in Top : Small(range[t]) => \A x \in range[t].i .. range[t].j - 1 : nodeIndices[x] = {x}

(* A partition of the leaves.                                              *)
Partition(C) ==
  /\ C \subseteq SUBSET Leaf /\ {} \notin C
  /\ \A c, d \in C : c # d => c \cap d = {}
  /\ \A x \in Leaf : \E c \in C : x \in c

(* The nodes.                                                              *)
NodeInv ==
  /\ nodeCounter \in 0 .. primCount - 1
  /\ scratchNodes \in [0 .. primCount - 2 -> {<<>>} \cup (SUBSET Leaf) \X (SUBSET Leaf)]
  /\ Stored = primCount - 1 - nodeCounter .. primCount - 2
  /\ Partition(Clusters)
  /\ Cardinality(Clusters) = primCount - nodeCounter
  /\ \A a \in Stored : \E c \in Clusters : NodeAt(a) \subseteq c
  /\ \A a, b \in Stored : a # b => NodeAt(a) # NodeAt(b)
  /\ nodeCounter = primCount - 1 => NodeAt(0) = Leaf

IInv == ClimbInv /\ WarpInv /\ ClusterInv /\ NodeInv

-----------------------------------------------------------------------------
(* The climb.                                                              *)
LEMMA SizesNat ==
  /\ primCount \in Nat /\ primCount > 1
  /\ Half \in Nat /\ Half > 0 /\ WarpSize = Half + Half
  /\ \A n : Lanes(n) = 0 .. n - 1
BY CountAssumption, WarpAssumption DEF Half, Lanes

(* Ranges are made of codes and are not empty.                             *)
LEMMA RangeFacts ==
  ASSUME ClimbInv, NEW t \in Leaf
  PROVE  /\ range[t].i \in Nat /\ range[t].s \in Nat /\ range[t].j \in Nat
         /\ range[t].i < range[t].j /\ range[t].j <= primCount
         /\ range[t].i \in Leaf /\ t \in Int
         /\ FarEnd(range[t]) \in 0 .. primCount
<1>1. range[t] \in Ranges /\ Covers(t, t) /\ t \in 0 .. primCount - 1
  BY DEF ClimbInv, Leaf
<1>2. /\ range[t].i \in 0 .. primCount - 1 /\ range[t].s \in 0 .. primCount - 1
      /\ range[t].j \in 1 .. primCount /\ range[t].i <= t /\ t < range[t].j
  BY <1>1 DEF Ranges, Covers
<1>3. FarEnd(range[t]) \in {range[t].i, range[t].j}
  BY DEF FarEnd
<1> QED BY <1>2, <1>3, SizesNat DEF Leaf

(* A thread that has not the whole range meets its sibling between two     *)
(* codes; what it finds there is the far end of the range next to its own. *)
LEMMA FindsSibling ==
  ASSUME ClimbInv, NEW t \in active, ~Whole(t)
  PROVE  LET r == range[t]
             p == findParent(r)
             k == updateCounters[p]
         IN /\ p \in 0 .. primCount - 2
            /\ p + 1 = IF JoinsRight(r) THEN r.j ELSE r.i
            /\ k # InvalidValue => \E v \in Top \ active :
                 /\ WaitsAt(v, p) /\ v # t
                 /\ IF JoinsRight(r) THEN range[v].i = r.j /\ k = range[v].j
                                     ELSE range[v].j = r.i /\ k = range[v].i
<1> DEFINE r == range[t]
           p == findParent(r)
           k == updateCounters[p]
<1>1. t \in Leaf /\ t \in Top
  BY DEF ClimbInv
<1>2. r.i \in Nat /\ r.j \in Nat /\ r.i < r.j /\ r.j <= primCount /\ ~(r.i = 0 /\ r.j = primCount)
  BY <1>1, RangeFacts DEF Whole
<1>3. /\ JoinsRight(r) => p = r.j - 1 /\ r.j # primCount
      /\ ~JoinsRight(r) => p = r.i - 1 /\ r.i # 0
  BY <1>2 DEF findParent, JoinsRight
<1>4. p \in 0 .. primCount - 2 /\ p + 1 = (IF JoinsRight(r) THEN r.j ELSE r.i)
  <2> HIDE DEF p, r
  <2> QED BY <1>2, <1>3, SizesNat
<1>5. ASSUME k # InvalidValue
      PROVE  \E v \in Top \ active :
               /\ WaitsAt(v, p) /\ v # t
               /\ IF JoinsRight(r) THEN range[v].i = r.j /\ k = range[v].j
                                   ELSE range[v].j = r.i /\ k = range[v].i
  <2>1. \A u \in Top : u \in Leaf /\ (u # t => range[t].j <= range[u].i \/ range[u].j <= range[t].i)
    BY <1>1 DEF ClimbInv, Top
  <2>2. \A u \in Top : /\ range[u].i \in Nat /\ range[u].j \in Nat /\ range[u].i < range[u].j
    BY <2>1, RangeFacts
  <2>3. ASSUME NEW u \in Top, range[u].i <= p, p + 1 < range[u].j
        PROVE  FALSE
    <3>1. CASE u = t
      BY <3>1, <2>3, <1>2, <1>3
    <3>2. CASE u # t
      <4>1. r.j <= range[u].i \/ range[u].j <= r.i
        BY <3>2, <2>1
      <4> HIDE DEF p, r
      <4> QED BY <4>1, <2>2, <2>3, <1>2, <1>3
    <3> QED BY <3>1, <3>2
  <2>4. PICK v \in Leaf : WaitsAt(v, p)
    BY <1>4, <1>5, <2>3 DEF ClimbInv
  <2>5. v \in Top /\ v \notin active /\ v # t /\ ~Whole(v) /\ findParent(range[v]) = p
    BY <2>4 DEF WaitsAt
  <2>6. k = FarEnd(range[v])
    <3>1. p \in Leaf
      BY <1>4, SizesNat DEF Leaf
    <3> QED BY <3>1, <2>4 DEF ClimbInv
  <2>7. /\ JoinsRight(range[v]) => p = range[v].j - 1 /\ k = range[v].i
        /\ ~JoinsRight(range[v]) => p = range[v].i - 1 /\ k = range[v].j
    BY <2>5, <2>6 DEF findParent, FarEnd
  <2>8. r.j <= range[v].i \/ range[v].j <= r.i
    BY <2>1, <2>5
  <2>9. IF JoinsRight(r) THEN range[v].i = r.j /\ k = range[v].j
                         ELSE range[v].j = r.i /\ k = range[v].i
    <3>1. range[v].i \in Nat /\ range[v].j \in Nat /\ range[v].i < range[v].j
      BY <2>2, <2>5
    <3> HIDE DEF p, r, k
    <3> QED BY <3>1, <2>7, <2>8, <1>2, <1>3
  <2> QED BY <2>4, <2>5, <2>9
<1> QED BY <1>4, <1>5

(* What the second of two siblings makes of its range.                     *)
LEMMA GrownHoldsBoth ==
  ASSUME ClimbInv, NEW t \in active, ~Whole(t), updateCounters[findParent(range[t])] # InvalidValue
  PROVE  LET r == range[t]
             p == findParent(r)
             g == Grown(r, updateCounters[p])
         IN \E v \in Top \ active :
              /\ v # t /\ WaitsAt(v, p)
              /\ g \in Ranges /\ g.i < g.s /\ g.s < g.j
              /\ g.i <= p /\ p + 1 < g.j
              /\ \/ g.i = r.i /\ g.s = r.j /\ range[v].i = r.j /\ g.j = range[v].j /\ p + 1 = r.j
                 \/ g.i = range[v].i /\ g.s = r.i /\ range[v].j = r.i /\ g.j = r.j /\ p + 1 = r.i
<1> DEFINE r == range[t]
           p == findParent(r)
           k == updateCounters[p]
           g == Grown(r, k)
<1>1. t \in Leaf
  BY DEF ClimbInv
<1>2. PICK v \in Top \ active :
        /\ WaitsAt(v, p) /\ v # t
        /\ IF JoinsRight(r) THEN range[v].i = r.j /\ k = range[v].j
                            ELSE range[v].j = r.i /\ k = range[v].i
  BY FindsSibling
<1>3. p + 1 = (IF JoinsRight(r) THEN r.j ELSE r.i) /\ p \in Int
  <2>1. p \in 0 .. primCount - 2 /\ p + 1 = (IF JoinsRight(r) THEN r.j ELSE r.i)
    BY FindsSibling
  <2> HIDE DEF p
  <2> QED BY <2>1, SizesNat
<1>4. v \in Leaf
  BY <1>2 DEF Top
<1>5. /\ r.i \in Nat /\ r.j \in Nat /\ r.i < r.j /\ r.j <= primCount
      /\ range[v].i \in Nat /\ range[v].j \in Nat /\ range[v].i < range[v].j /\ range[v].j <= primCount
  BY <1>1, <1>4, RangeFacts
<1>6. \/ g = [i |-> r.i, s |-> r.j, j |-> range[v].j] /\ range[v].i = r.j /\ p + 1 = r.j
      \/ g = [i |-> range[v].i, s |-> r.i, j |-> r.j] /\ range[v].j = r.i /\ p + 1 = r.i
  BY <1>2, <1>3 DEF Grown
<1>7. /\ g = [i |-> g.i, s |-> g.s, j |-> g.j]
      /\ \/ g.i = r.i /\ g.s = r.j /\ g.j = range[v].j /\ range[v].i = r.j /\ p + 1 = r.j
         \/ g.i = range[v].i /\ g.s = r.i /\ g.j = r.j /\ range[v].j = r.i /\ p + 1 = r.i
  <2> HIDE DEF g
  <2> QED BY <1>6
<1> HIDE DEF g, k, p, r
<1>8. /\ g.i < g.s /\ g.s < g.j /\ g.i <= p /\ p + 1 < g.j
      /\ g.i \in 0 .. primCount - 1 /\ g.s \in 0 .. primCount - 1 /\ g.j \in 1 .. primCount
  BY <1>3, <1>5, <1>7, SizesNat
<1>9. g \in Ranges
  BY <1>7, <1>8 DEF Ranges
<1> QED BY <1>2, <1>7, <1>8, <1>9 DEF g, k, p, r

(* The first of two siblings leaves its range at the counter.              *)
LEMMA LeaveKeepsClimb ==
  ASSUME ClimbInv, NEW t \in active, ~Whole(t), updateCounters[findParent(range[t])] = InvalidValue,
         updateCounters' = [updateCounters EXCEPT ![findParent(range[t])] = FarEnd(range[t])],
         active' = active \ {t}, UNCHANGED <<range, differ>>
  PROVE  ClimbInv'
<1> DEFINE p == findParent(range[t])
<1>1. t \in Leaf /\ t \in Top
  BY DEF ClimbInv
<1>2. p \in Leaf /\ p \in 0 .. primCount - 2 /\ FarEnd(range[t]) \in 0 .. primCount
  <2>1. p \in 0 .. primCount - 2
    BY FindsSibling
  <2> HIDE DEF p
  <2> QED BY <2>1, <1>1, RangeFacts, SizesNat DEF Leaf
<1>3. Top' = Top
  BY DEF Top
<1>4. /\ \A u : Whole(u)' <=> Whole(u)
      /\ \A u : findParent(range[u])' = findParent(range[u]) /\ FarEnd(range[u])' = FarEnd(range[u])
      /\ \A u, x : Covers(u, x)' <=> Covers(u, x)
  BY DEF Whole, findParent, FarEnd, JoinsRight, Covers
<1>5. \A u \in Leaf : \A q \in Leaf : WaitsAt(u, q)' <=> (WaitsAt(u, q) \/ (u = t /\ q = p))
  BY <1>1, <1>3, <1>4 DEF WaitsAt
<1>6. updateCounters \in [Leaf -> (0 .. primCount) \cup {InvalidValue}]
  BY DEF ClimbInv
<1>7. updateCounters'[p] = FarEnd(range[t]) /\ \A q \in Leaf : q # p => updateCounters'[q] = updateCounters[q]
  BY <1>2, <1>6
<1>8. updateCounters' \in [Leaf -> (0 .. primCount) \cup {InvalidValue}]
  BY <1>2, <1>6
<1>9. ASSUME NEW q \in Leaf, NEW u \in Leaf, WaitsAt(u, q)'
      PROVE  updateCounters'[q] = FarEnd(range[u])'
  <2>1. CASE u = t /\ q = p
    BY <2>1, <1>4, <1>7
  <2>2. CASE WaitsAt(u, q)
    <3>1. updateCounters[q] = FarEnd(range[u])
      BY <2>2 DEF ClimbInv
    <3>2. FarEnd(range[u]) \in 0 .. primCount
      BY RangeFacts
    <3>3. FarEnd(range[u]) # InvalidValue
      BY <3>2, SizesNat, WarpAssumption
    <3>4. q # p
      BY <3>1, <3>3
    <3> QED BY <3>1, <3>4, <1>4, <1>7
  <2> QED BY <1>5, <1>9, <2>1, <2>2
<1>10. ASSUME NEW q \in 0 .. primCount - 2, updateCounters'[q] # InvalidValue
       PROVE  \/ \E u \in Top' : range'[u].i <= q /\ q + 1 < range'[u].j
              \/ \E u \in Leaf : WaitsAt(u, q)'
  <2>1. q \in Leaf
    BY SizesNat DEF Leaf
  <2>2. CASE q = p
    BY <2>2, <1>1, <1>2, <1>5
  <2>3. CASE q # p
    <3>1. updateCounters[q] # InvalidValue
      BY <2>1, <2>3, <1>7, <1>10
    <3>2. \/ \E u \in Top : range[u].i <= q /\ q + 1 < range[u].j
          \/ \E u \in Leaf : WaitsAt(u, q)
      BY <3>1 DEF ClimbInv
    <3> QED BY <3>2, <2>1, <1>3, <1>5
  <2> QED BY <2>2, <2>3
<1> HIDE DEF p
<1>11. /\ range' \in [Leaf -> Ranges] /\ active' \in SUBSET Leaf
       /\ \A u \in Leaf : Covers(u, u)'
       /\ active' \subseteq Top'
       /\ \A x \in Leaf : \E u \in Top' : Covers(u, x)'
       /\ \A u, v \in Top' : u # v => range'[u].j <= range'[v].i \/ range'[v].j <= range'[u].i
  BY <1>3, <1>4 DEF ClimbInv
<1> QED BY <1>8, <1>9, <1>10, <1>11 DEF ClimbInv, Ranges

(* The second goes on with both ranges.                                    *)
LEMMA JoinKeepsClimb ==
  ASSUME ClimbInv, NEW t \in active, ~Whole(t), updateCounters[findParent(range[t])] # InvalidValue,
         updateCounters' = [updateCounters EXCEPT ![findParent(range[t])] = FarEnd(range[t])],
         range' = [range EXCEPT ![t] = Grown(@, updateCounters[findParent(range[t])])],
         UNCHANGED <<active, differ>>
  PROVE  /\ ClimbInv'
         /\ \E v \in Top \ active : 
              /\ Top' = Top \ {v} /\ ~Whole(v)
              /\ \/ /\ range'[t].i = range[t].i /\ range'[t].s = range[t].j
                    /\ range'[t].s = range[v].i /\ range'[t].j = range[v].j
                 \/ /\ range'[t].i = range[v].i /\ range'[t].s = range[v].j
                    /\ range'[t].s = range[t].i /\ range'[t].j = range[t].j
         /\ range'[t].i < range'[t].s /\ range'[t].s < range'[t].j
<1> DEFINE r == range[t]
           p == findParent(r)
           g == Grown(r, updateCounters[p])
<1>1. t \in Leaf /\ t \in Top /\ Covers(t, t)
  BY DEF ClimbInv
<1>2. p \in Leaf /\ p \in 0 .. primCount - 2 /\ p \in Nat /\ FarEnd(r) \in 0 .. primCount
  <2>1. p \in 0 .. primCount - 2
    BY FindsSibling
  <2> HIDE DEF p
  <2> QED BY <2>1, <1>1, RangeFacts, SizesNat DEF Leaf
<1>3. PICK v \in Top \ active :
        /\ v # t /\ WaitsAt(v, p)
        /\ g \in Ranges /\ g.i < g.s /\ g.s < g.j
        /\ g.i <= p /\ p + 1 < g.j
        /\ \/ g.i = r.i /\ g.s = r.j /\ range[v].i = r.j /\ g.j = range[v].j /\ p + 1 = r.j
           \/ g.i = range[v].i /\ g.s = r.i /\ range[v].j = r.i /\ g.j = r.j /\ p + 1 = r.i
  BY GrownHoldsBoth
<1>4. range \in [Leaf -> Ranges] /\ updateCounters \in [Leaf -> (0 .. primCount) \cup {InvalidValue}]
  BY DEF ClimbInv
<1>5. /\ range' = [range EXCEPT ![t] = g] /\ range' \in [Leaf -> Ranges]
      /\ range'[t] = g /\ \A u \in Leaf : u # t => range'[u] = range[u]
  <2>1. range' = [range EXCEPT ![t] = g]
    OBVIOUS
  <2> HIDE DEF g
  <2> QED BY <2>1, <1>1, <1>3, <1>4
<1>6. /\ updateCounters' \in [Leaf -> (0 .. primCount) \cup {InvalidValue}]
      /\ \A q \in Leaf : q # p => updateCounters'[q] = updateCounters[q]
  BY <1>2, <1>4
<1>7. v \in Leaf /\ v \notin active /\ v \in Top /\ ~Whole(v) /\ findParent(range[v]) = p
  BY <1>3 DEF WaitsAt, Top
<1> HIDE DEF g, p, r
<1>8. /\ \A u \in Leaf : range[u].i \in Nat /\ range[u].j \in Nat /\ range[u].i < range[u].j
      /\ g.i \in Nat /\ g.s \in Nat /\ g.j \in Nat
      /\ r = range[t]
  <2>1. r = range[t]
    BY DEF r
  <2>2. g.i \in Nat /\ g.s \in Nat /\ g.j \in Nat
    BY <1>3, SizesNat DEF Ranges
  <2> QED BY <2>1, <2>2, RangeFacts
<1>9. \A u, x \in Top : u # x => range[u].j <= range[x].i \/ range[x].j <= range[u].i
  BY DEF ClimbInv
<1>10. Inside(range[t], g) /\ Inside(range[v], g)
  BY <1>1, <1>3, <1>7, <1>8 DEF Inside
<1>11. ASSUME NEW u \in Top, u # t, u # v
       PROVE  /\ range[u].j <= g.i \/ g.j <= range[u].i
              /\ findParent(range[u]) # p \/ Whole(u)
  <2>1. u \in Leaf
    BY DEF Top
  <2>2. /\ range[u].j <= range[t].i \/ range[t].j <= range[u].i
        /\ range[u].j <= range[v].i \/ range[v].j <= range[u].i
    BY <1>1, <1>7, <1>9, <1>11
  <2>3. range[u].j <= g.i \/ g.j <= range[u].i
    BY <2>1, <2>2, <1>1, <1>3, <1>7, <1>8
  <2>4. findParent(range[u]) # p \/ Whole(u)
    <3>1. findParent(range[u]) \in {range[u].j - 1, range[u].i - 1}
      BY DEF findParent
    <3> QED BY <3>1, <2>1, <2>3, <1>1, <1>2, <1>3, <1>7, <1>8
  <2> QED BY <2>3, <2>4
<1>12. \A u \in Leaf : u \in Top /\ u # v => u \in Top'
  <2> SUFFICES ASSUME NEW u \in Leaf, u \in Top, u # v, NEW x \in Leaf, Inside(range'[u], range'[x]), x # u
               PROVE  FALSE
    BY DEF Top, Inside
  <2>1. CASE u = t
    <3>1. Inside(g, range[x])
      BY <2>1, <1>5
    <3>2. Inside(range[t], range[x])
      BY <3>1, <1>1, <1>8, <1>10 DEF Inside
    <3> QED BY <3>2, <2>1 DEF Top
  <2>2. CASE u # t /\ x = t
    <3>1. Inside(range[u], g)
      BY <2>2, <1>5
    <3> QED BY <3>1, <2>2, <1>8, <1>11 DEF Inside
  <2>3. CASE u # t /\ x # t
    <3>1. Inside(range[u], range[x])
      BY <2>3, <1>5
    <3> QED BY <3>1 DEF Top
  <2> QED BY <2>1, <2>2, <2>3
<1>13. \A u \in Leaf : u \in Top' => u \in Top /\ u # v
  <2> SUFFICES ASSUME NEW u \in Leaf, u \notin Top \/ u = v
               PROVE  \E x \in Leaf : Inside(range'[u], range'[x]) /\ x # u
    BY DEF Top, Inside
  <2>1. CASE u = v
    BY <2>1, <1>1, <1>3, <1>5, <1>7, <1>10
  <2>2. CASE u \notin Top
    <3>1. PICK x \in Leaf : Inside(range[u], range[x]) /\ x # u
      BY <2>2 DEF Top
    <3>2. u # t /\ range'[u] = range[u]
      BY <2>2, <1>1, <1>5
    <3>3. CASE x = t
      <4>1. Inside(range[u], g)
        BY <3>1, <3>3, <1>1, <1>8, <1>10 DEF Inside
      <4> QED BY <4>1, <3>2, <1>1, <1>5
    <3>4. CASE x # t
      BY <3>1, <3>2, <3>4, <1>5
    <3> QED BY <3>3, <3>4
  <2> QED BY <2>1, <2>2
<1>14. Top' = Top \ {v}
  BY <1>12, <1>13 DEF Top
<1>15. \A u \in Leaf : u # t => /\ Whole(u)' <=> Whole(u)
                                /\ findParent(range[u])' = findParent(range[u])
                                /\ FarEnd(range[u])' = FarEnd(range[u])
                                /\ \A x : Covers(u, x)' <=> Covers(u, x)
  BY <1>5 DEF Whole, findParent, FarEnd, JoinsRight, Covers
<1>16. \A u \in Leaf : \A q \in Leaf : WaitsAt(u, q)' <=> WaitsAt(u, q) /\ u # v
  BY <1>14, <1>15 DEF WaitsAt
<1>17. ASSUME NEW q \in Leaf, NEW u \in Leaf, WaitsAt(u, q)'
       PROVE  updateCounters'[q] = FarEnd(range[u])'
  <2>1. WaitsAt(u, q) /\ u # v /\ u # t
    BY <1>16, <1>17 DEF WaitsAt
  <2>2. q # p
    BY <2>1, <1>11 DEF WaitsAt
  <2>3. updateCounters[q] = FarEnd(range[u])
    BY <2>1 DEF ClimbInv
  <2> QED BY <2>1, <2>2, <2>3, <1>6, <1>15
<1>18. ASSUME NEW q \in 0 .. primCount - 2, updateCounters'[q] # InvalidValue
       PROVE  \/ \E u \in Top' : range'[u].i <= q /\ q + 1 < range'[u].j
              \/ \E u \in Leaf : WaitsAt(u, q)'
  <2>1. q \in Leaf /\ q \in Nat
    BY SizesNat DEF Leaf
  <2>2. t \in Top'
    BY <1>1, <1>3, <1>14
  <2>3. CASE q = p
    BY <2>2, <2>3, <1>3, <1>5
  <2>4. CASE q # p
    <3>1. updateCounters[q] # InvalidValue
      BY <2>1, <2>4, <1>6, <1>18
    <3>2. CASE \E u \in Top : range[u].i <= q /\ q + 1 < range[u].j
      <4>1. PICK u \in Top : range[u].i <= q /\ q + 1 < range[u].j
        BY <3>2
      <4>2. u \in Leaf
        BY DEF Top
      <4>3. CASE u = t \/ u = v
        <5>1. g.i <= q /\ q + 1 < g.j
          BY <4>1, <4>2, <4>3, <2>1, <1>1, <1>7, <1>8, <1>10 DEF Inside
        <5> QED BY <5>1, <2>2, <1>5
      <4>4. CASE u # t /\ u # v
        BY <4>1, <4>2, <4>4, <1>5, <1>14
      <4> QED BY <4>3, <4>4
    <3>3. CASE \E u \in Leaf : WaitsAt(u, q)
      <4>1. PICK u \in Leaf : WaitsAt(u, q)
        BY <3>3
      <4>2. u # v
        BY <4>1, <2>4, <1>7 DEF WaitsAt
      <4> QED BY <4>1, <4>2, <2>1, <1>16
    <3> QED BY <3>1, <3>2, <3>3 DEF ClimbInv
  <2> QED BY <2>3, <2>4
<1>19. \A u \in Leaf : Covers(u, u)'
  <2> SUFFICES ASSUME NEW u \in Leaf PROVE range'[u].i <= u /\ u < range'[u].j
    BY DEF Covers
  <2>1. range[u].i <= u /\ u < range[u].j /\ u \in Int
    BY RangeFacts DEF ClimbInv, Covers
  <2>2. CASE u = t
    BY <2>1, <2>2, <1>1, <1>5, <1>8, <1>10 DEF Inside
  <2>3. CASE u # t
    BY <2>1, <2>3, <1>5
  <2> QED BY <2>2, <2>3
<1>20. ASSUME NEW x \in Leaf
       PROVE  \E u \in Top' : Covers(u, x)'
  <2>1. PICK u \in Top : Covers(u, x)
    BY DEF ClimbInv
  <2>2. u \in Leaf
    BY DEF Top
  <2>3. CASE u = t \/ u = v
    <3>1. g.i <= x /\ x < g.j
      <4>1. x \in Int /\ range[u].i <= x /\ x < range[u].j /\ g.i <= range[u].i /\ range[u].j <= g.j
        BY <2>1, <2>3, <1>10, SizesNat DEF Covers, Leaf, Inside
      <4> QED BY <4>1, <2>2, <1>8
    <3>2. t \in Top'
      BY <1>1, <1>3, <1>14
    <3> QED BY <3>1, <3>2, <1>5 DEF Covers
  <2>4. CASE u # t /\ u # v
    BY <2>1, <2>2, <2>4, <1>14, <1>15
  <2> QED BY <2>3, <2>4
<1>21. ASSUME NEW u \in Top', NEW x \in Top', u # x
       PROVE  range'[u].j <= range'[x].i \/ range'[x].j <= range'[u].i
  <2>1. u \in Top /\ x \in Top /\ u # v /\ x # v /\ u \in Leaf /\ x \in Leaf
    BY <1>14 DEF Top
  <2>2. CASE u = t
    BY <2>1, <2>2, <1>5, <1>11, <1>21
  <2>3. CASE x = t
    BY <2>1, <2>3, <1>5, <1>11, <1>21
  <2>4. CASE u # t /\ x # t
    BY <2>1, <2>4, <1>5, <1>9, <1>21
  <2> QED BY <2>2, <2>3, <2>4
<1>22. active' \subseteq Top' /\ active' \in SUBSET Leaf
  BY <1>7, <1>14 DEF ClimbInv
<1>23. ClimbInv'
  BY <1>5, <1>6, <1>17, <1>18, <1>19, <1>20, <1>21, <1>22 DEF ClimbInv, Ranges
<1>24. \/ /\ range'[t].i = range[t].i /\ range'[t].s = range[t].j
          /\ range'[t].s = range[v].i /\ range'[t].j = range[v].j
       \/ /\ range'[t].i = range[v].i /\ range'[t].s = range[v].j
          /\ range'[t].s = range[t].i /\ range'[t].j = range[t].j
  BY <1>3, <1>5, <1>8
<1> QED BY <1>3, <1>5, <1>7, <1>14, <1>23, <1>24

(* Where all of its threads have left, one had the whole range.            *)
LEMMA SomeoneHasAll ==
  ASSUME ClimbInv, active = {}
  PROVE  \E t \in Top : Whole(t)
<1> SUFFICES ASSUME \A t \in Top : ~Whole(t)
             PROVE  FALSE
  OBVIOUS
<1>1. \A t \in Top : t \in Leaf /\ range[t].i \in Nat /\ range[t].j \in Nat /\ range[t].i < range[t].j
                     /\ range[t].j <= primCount
  BY RangeFacts DEF Top
<1>2. \A t, u \in Top : t # u => range[t].j <= range[u].i \/ range[u].j <= range[t].i
  BY DEF ClimbInv
<1> DEFINE waitsRight(t) == JoinsRight(range[t])
           U == {b \in Leaf : \E t \in Top : waitsRight(t) /\ range[t].j = b}
<1>3. \A t \in Top : /\ waitsRight(t) => findParent(range[t]) = range[t].j - 1 /\ range[t].j # primCount
                     /\ ~waitsRight(t) => findParent(range[t]) = range[t].i - 1 /\ range[t].i # 0
  BY <1>1 DEF findParent, JoinsRight, Whole
<1>4. \A t \in Top : range[t].i = 0 => waitsRight(t)
  BY DEF JoinsRight
<1> HIDE DEF waitsRight
<1>5. \A t \in Top : waitsRight(t) => range[t].j \in U
  BY <1>1, <1>3, SizesNat DEF Leaf
<1>6. U # {}
  <2>1. 0 \in Leaf
    BY SizesNat DEF Leaf
  <2>2. PICK t \in Top : Covers(t, 0)
    BY <2>1 DEF ClimbInv
  <2>3. range[t].i = 0
    BY <2>2, <1>1 DEF Covers
  <2> QED BY <2>3, <1>4, <1>5
<1>7. PICK b \in U : \A c \in U : c <= b
  <2>1. U \in SUBSET Nat /\ \A c \in U : c <= primCount
    BY SizesNat DEF Leaf
  <2> HIDE DEF U
  <2> QED BY <2>1, <1>6, Largest, SizesNat
<1>8. PICK t \in Top : waitsRight(t) /\ range[t].j = b
  BY <1>7
<1>9. b \in Leaf /\ b \in Nat
  BY <1>7, SizesNat DEF Leaf
<1>10. PICK u \in Top : Covers(u, b)
  BY <1>9 DEF ClimbInv
<1>11. u # t /\ range[u].i = b /\ b < range[u].j
  BY <1>1, <1>2, <1>8, <1>9, <1>10 DEF Covers
<1>12. ~waitsRight(u)
  <2>1. waitsRight(u) => range[u].j \in U
    BY <1>5
  <2> HIDE DEF U
  <2> QED BY <2>1, <1>1, <1>7, <1>9, <1>11
<1>13. findParent(range[u]) = b - 1 /\ findParent(range[t]) = b - 1 /\ b - 1 \in Leaf
  <2>1. findParent(range[u]) = b - 1 /\ findParent(range[t]) = b - 1 /\ b # 0
    BY <1>3, <1>8, <1>11, <1>12
  <2> QED BY <2>1, <1>9, SizesNat DEF Leaf
<1>14. WaitsAt(t, b - 1) /\ WaitsAt(u, b - 1)
  BY <1>13 DEF WaitsAt
<1>15. FarEnd(range[t]) = FarEnd(range[u])
  BY <1>1, <1>13, <1>14 DEF ClimbInv
<1>16. FarEnd(range[t]) = range[t].i /\ FarEnd(range[u]) = range[u].j
  BY <1>8, <1>12 DEF FarEnd, waitsRight
<1>17. range[t].i = range[u].j
  BY <1>15, <1>16
<1>18. /\ range[t].i \in Nat /\ range[t].j \in Nat /\ range[t].i < range[t].j
       /\ range[t].j = b /\ b < range[u].j
  BY <1>1, <1>8, <1>11
<1> HIDE DEF U
<1> QED BY <1>17, <1>18

-----------------------------------------------------------------------------
(* The lanes of a ballot are numbered without gaps.                        *)
LEMMA BallotNumbers ==
  ASSUME NEW n \in Nat, NEW S \in SUBSET (0 .. n - 1)
  PROVE  /\ IsFiniteSet(S) /\ Cardinality(S) \in Nat /\ Cardinality(S) <= n
         /\ \A l \in S : Below(S, l) \in 0 .. Cardinality(S) - 1
         /\ \A k, l \in S : Below(S, k) = Below(S, l) => k = l
         /\ \A i \in 0 .. Cardinality(S) - 1 : \E l \in S : Below(S, l) = i
<1> DEFINE low(l) == {j \in S : j < l}
           rank(l) == Cardinality(low(l))
           c == Cardinality(S)
<1>1. IsFiniteSet(S) /\ c \in Nat
  <2>1. IsFiniteSet(0 .. n - 1)
    BY FS_Interval
  <2>2. IsFiniteSet(S)
    BY <2>1, FS_Subset
  <2> QED BY <2>2, FS_CardinalityType
<1>0. c <= n
  <2>1. IsFiniteSet(0 .. n - 1) /\ Cardinality(0 .. n - 1) = n
    BY FS_Interval
  <2> QED BY <2>1, FS_Subset
<1>2. ASSUME NEW T \in SUBSET S, T # S
      PROVE  Cardinality(T) \in Nat /\ Cardinality(T) < c
  <2>1. IsFiniteSet(T) /\ Cardinality(T) <= c /\ c # Cardinality(T)
    BY <1>1, <1>2, FS_Subset
  <2>2. Cardinality(T) \in Nat
    BY <2>1, FS_CardinalityType
  <2> QED BY <1>1, <2>1, <2>2
<1>3. ASSUME NEW l \in S PROVE low(l) \in SUBSET S /\ l \notin low(l)
  OBVIOUS
<1>4. \A l \in S : rank(l) \in 0 .. c - 1
  <2> HIDE DEF low
  <2> QED BY <1>1, <1>2, <1>3
<1>5. ASSUME NEW k \in S, NEW l \in S, k < l
      PROVE  rank(k) < rank(l)
  <2>1. low(k) \in SUBSET low(l) /\ k \in low(l) /\ k \notin low(k)
    <3>1. S \subseteq Int
      OBVIOUS
    <3>2. /\ \A j \in S : j < k => j < l
          /\ ~(k < k)
      BY <1>5, <3>1
    <3> QED BY <1>5, <3>2
  <2>2. IsFiniteSet(low(l))
    BY <1>1, <1>3, FS_Subset
  <2> HIDE DEF low
  <2>3. rank(k) <= rank(l) /\ rank(k) # rank(l)
    BY <2>1, <2>2, FS_Subset
  <2>4. rank(k) \in Nat /\ rank(l) \in Nat
    BY <1>1, <1>4
  <2> HIDE DEF rank
  <2> QED BY <2>3, <2>4
<1>6. ASSUME NEW k \in S, NEW l \in S, rank(k) = rank(l)
      PROVE  k = l
  <2> HIDE DEF rank
  <2>1. rank(k) \in Nat /\ rank(l) \in Nat
    BY <1>1, <1>4
  <2> QED BY <1>5, <1>6, <2>1
<1> HIDE DEF low
<1>7. \A i \in 0 .. c - 1 : \E l \in S : rank(l) = i
  <2> DEFINE f == [l \in S |-> rank(l)]
  <2>1. f \in [S -> 0 .. c - 1] /\ \A k, l \in S : f[k] = f[l] => k = l
    BY <1>4, <1>6
  <2>2. f \in Injection(S, 0 .. c - 1)
    <3> HIDE DEF f
    <3> QED BY <2>1 DEF Injection, IsInjective
  <2>3. IsFiniteSet(0 .. c - 1) /\ Cardinality(0 .. c - 1) = c
    <3> HIDE DEF c
    <3>1. 0 \in Int /\ c - 1 \in Int
      BY <1>1
    <3> QED BY <1>1, <3>1, FS_Interval
  <2>4. f \in Surjection(S, 0 .. c - 1)
    <3> HIDE DEF f
    <3> QED BY <2>2, <2>3, FS_Injection
  <2>5. \A i \in 0 .. c - 1 : \E l \in S : f[l] = i
    <3> HIDE DEF f
    <3> QED BY <2>4 DEF Surjection
  <2> QED BY <2>5
<1>8. \A l : rank(l) = Below(S, l)
  BY DEF low, Below
<1> QED BY <1>0, <1>1, <1>4, <1>6, <1>7, <1>8

(* The pairs of a round: no lane is in two of them.                        *)
Paired(pairs, n) ==
  /\ pairs \subseteq Lanes(n) \X Lanes(n)
  /\ \A p \in pairs : p[1] < p[2]
  /\ \A p, q \in pairs : p[1] = q[1] \/ p[2] = q[2] => p = q
  /\ \A p, q \in pairs : p[1] # q[2]

(* No lane is in two of the pairs that merge.                              *)
LEMMA MergingPaired ==
  ASSUME NEW d, NEW n \in Nat
  PROVE  Paired(Merging(d, n), n)
<1>1. \A p \in Merging(d, n) :
        /\ p = <<p[1], p[2]>> /\ p[1] \in Int /\ p[2] \in Int /\ p[1] < p[2]
        /\ p \in Lanes(n) \X Lanes(n)
        /\ Nearest(d, n, p[1]) = p[2] /\ Nearest(d, n, p[2]) = p[1]
  BY DEF Merging, Lanes
<1>2. \A p, q \in Merging(d, n) : p[1] = q[1] \/ p[2] = q[2] => p[1] = q[1] /\ p[2] = q[2]
  BY <1>1
<1>3. \A p, q \in Merging(d, n) : p[1] = q[1] \/ p[2] = q[2] => p = q
  BY <1>1, <1>2
<1>4. ASSUME NEW p \in Merging(d, n), NEW q \in Merging(d, n), p[1] = q[2]
      PROVE  FALSE
  <2>1. p[2] = q[1]
    BY <1>1, <1>4
  <2>2. /\ p[1] \in Int /\ p[2] \in Int /\ q[1] \in Int /\ q[2] \in Int /\ p[1] < p[2] /\ q[1] < q[2]
    BY <1>1
  <2> QED BY <2>1, <2>2, <1>4
<1> QED BY <1>1, <1>3, <1>4 DEF Paired

(* What a lane that is kept holds after a round.                           *)
United(cs, pairs, x) == cs[x + 1] \cup UNION {cs[p[2] + 1] : p \in {q \in pairs : q[1] = x}}

Kept(cs, pairs) == Lanes(Len(cs)) \ {p[2] : p \in pairs}

(* A kept lane holds both clusters of its pair, or its own.                *)
LEMMA UnitedPairs ==
  ASSUME NEW cs, NEW pairs, Paired(pairs, Len(cs))
  PROVE  /\ \A p \in pairs : United(cs, pairs, p[1]) = cs[p[1] + 1] \cup cs[p[2] + 1]
         /\ \A x : (\A p \in pairs : p[1] # x) => United(cs, pairs, x) = cs[x + 1]
<1>1. ASSUME NEW p \in pairs
      PROVE  United(cs, pairs, p[1]) = cs[p[1] + 1] \cup cs[p[2] + 1]
  <2>1. {q \in pairs : q[1] = p[1]} = {p}
    BY DEF Paired
  <2>2. UNION {cs[q[2] + 1] : q \in {p}} = cs[p[2] + 1]
    OBVIOUS
  <2> QED BY <2>1, <2>2 DEF United
<1>2. ASSUME NEW x, \A p \in pairs : p[1] # x
      PROVE  United(cs, pairs, x) = cs[x + 1]
  <2>1. {q \in pairs : q[1] = x} = {}
    BY <1>2
  <2>2. UNION {cs[q[2] + 1] : q \in {}} = {}
    OBVIOUS
  <2> QED BY <2>1, <2>2 DEF United
<1> QED BY <1>1, <1>2

(* The next round has one cluster for each lane that is kept.              *)
LEMMA CompactedFacts ==
  ASSUME NEW cs \in Seq(SUBSET Leaf), NEW pairs, Paired(pairs, Len(cs))
  PROVE  LET next == Compacted(cs, pairs)
             kept == Kept(cs, pairs)
             lane == [k \in 1 .. Len(next) |-> CHOOSE x \in kept : Below(kept, x) = k - 1]
         IN /\ next \in Seq(SUBSET Leaf) /\ Len(next) <= Len(cs)
            /\ \A k \in 1 .. Len(next) : lane[k] \in kept /\ next[k] = United(cs, pairs, lane[k])
            /\ \A k, l \in 1 .. Len(next) : lane[k] = lane[l] => k = l
            /\ \A x \in kept : \E k \in 1 .. Len(next) : lane[k] = x
<1> DEFINE next == Compacted(cs, pairs)
           kept == Kept(cs, pairs)
           n == Len(cs)
           c == Cardinality(kept)
           at(k) == CHOOSE x \in kept : Below(kept, x) = k - 1
<1>1. n \in Nat /\ kept \in SUBSET (0 .. n - 1)
  BY DEF Kept, Lanes
<1>2. next = [k \in 1 .. c |-> United(cs, pairs, at(k))]
  BY DEF Compacted, United, Kept
<1> HIDE DEF n, kept
<1>3. /\ c \in Nat /\ c <= n
      /\ \A l \in kept : Below(kept, l) \in 0 .. c - 1
      /\ \A k, l \in kept : Below(kept, k) = Below(kept, l) => k = l
      /\ \A i \in 0 .. c - 1 : \E l \in kept : Below(kept, l) = i
  BY <1>1, BallotNumbers
<1> HIDE DEF c
<1>4. \A k \in 1 .. c : at(k) \in kept /\ Below(kept, at(k)) = k - 1
  <2> SUFFICES ASSUME NEW k \in 1 .. c PROVE at(k) \in kept /\ Below(kept, at(k)) = k - 1
    OBVIOUS
  <2>1. k - 1 \in 0 .. c - 1
    BY <1>3
  <2> QED BY <2>1, <1>3
<1>5. \A x \in kept : \E k \in 1 .. c : at(k) = x
  <2> SUFFICES ASSUME NEW x \in kept PROVE \E k \in 1 .. c : at(k) = x
    OBVIOUS
  <2> DEFINE b == Below(kept, x)
  <2>1. b \in 0 .. c - 1
    BY <1>3
  <2> HIDE DEF b
  <2>2. b + 1 \in 1 .. c /\ (b + 1) - 1 = b
    BY <2>1, <1>3
  <2>3. Below(kept, at(b + 1)) = b /\ at(b + 1) \in kept
    BY <2>2, <1>4
  <2>4. at(b + 1) = x
    <3> HIDE DEF at
    <3> QED BY <2>3, <1>3 DEF b
  <2> QED BY <2>2, <2>4
<1>6. \A k, l \in 1 .. c : at(k) = at(l) => k = l
  <2> SUFFICES ASSUME NEW k \in 1 .. c, NEW l \in 1 .. c, at(k) = at(l) PROVE k = l
    OBVIOUS
  <2>1. k - 1 = l - 1
    BY <1>4
  <2> QED BY <2>1
<1> HIDE DEF at
<1>7. \A x \in kept : United(cs, pairs, x) \in SUBSET Leaf
  <2> SUFFICES ASSUME NEW x \in kept PROVE United(cs, pairs, x) \in SUBSET Leaf
    OBVIOUS
  <2>1. \A y \in 0 .. n - 1 : cs[y + 1] \in SUBSET Leaf
    <3> SUFFICES ASSUME NEW y \in 0 .. n - 1 PROVE cs[y + 1] \in SUBSET Leaf
      OBVIOUS
    <3>1. y + 1 \in 1 .. Len(cs)
      BY <1>1 DEF n
    <3> QED BY <3>1
  <2>2. \A p \in pairs : p[2] \in 0 .. n - 1
    BY DEF Paired, Lanes, n
  <2> QED BY <2>1, <2>2, <1>1 DEF United
<1>8. next \in Seq(SUBSET Leaf) /\ Len(next) = c
  <2>1. next \in [1 .. c -> SUBSET Leaf]
    BY <1>2, <1>4, <1>7
  <2> HIDE DEF next
  <2> QED BY <2>1, <1>3
<1>9. \A k \in 1 .. c : next[k] = United(cs, pairs, at(k))
  <2> HIDE DEF next
  <2> QED BY <1>2
<1> HIDE DEF next
<1> DEFINE lane == [k \in 1 .. Len(next) |-> CHOOSE x \in kept : Below(kept, x) = k - 1]
<1>10. lane = [k \in 1 .. c |-> at(k)]
  BY <1>8 DEF at
<1> HIDE DEF lane
<1>11. \A k \in 1 .. c : lane[k] = at(k)
  BY <1>10
<1>12. /\ next \in Seq(SUBSET Leaf) /\ Len(next) <= Len(cs)
       /\ \A k \in 1 .. Len(next) : lane[k] \in kept /\ next[k] = United(cs, pairs, lane[k])
       /\ \A k, l \in 1 .. Len(next) : lane[k] = lane[l] => k = l
       /\ \A x \in kept : \E k \in 1 .. Len(next) : lane[k] = x
  <2>1. Len(next) <= Len(cs)
    BY <1>3, <1>8 DEF n
  <2> QED BY <2>1, <1>4, <1>5, <1>6, <1>8, <1>9, <1>11
<1> QED BY <1>12 DEF lane, next, kept

-----------------------------------------------------------------------------
(* What a round makes of the clusters that are left.                       *)
First(cs, p) == cs[p[1] + 1]

Second(cs, p) == cs[p[2] + 1]

OldOf(cs, pairs) == {First(cs, p) : p \in pairs} \cup {Second(cs, p) : p \in pairs}

NewOf(cs, pairs) == {First(cs, p) \cup Second(cs, p) : p \in pairs}

After(C, cs, pairs) == (C \ OldOf(cs, pairs)) \cup NewOf(cs, pairs)

(* The clusters of the lanes of a warp.                                    *)
LEMMA LaneClusters ==
  ASSUME NEW C, NEW cs, NEW a, NEW b, NEW pairs,
         Partition(C), SpreadOver(C, cs, a, b), Paired(pairs, Len(cs))
  PROVE  /\ \A x \in Lanes(Len(cs)) : /\ cs[x + 1] \in C /\ cs[x + 1] # {} /\ cs[x + 1] \subseteq a .. b - 1
                                      /\ \A c \in C : c = cs[x + 1] \/ c \cap cs[x + 1] = {}
         /\ \A x, y \in Lanes(Len(cs)) : x # y => cs[x + 1] \cap cs[y + 1] = {} /\ cs[x + 1] # cs[y + 1]
         /\ \A p \in pairs : /\ p[1] \in Lanes(Len(cs)) /\ p[2] \in Lanes(Len(cs)) /\ p[1] # p[2]
                             /\ First(cs, p) \in C /\ Second(cs, p) \in C
                             /\ First(cs, p) # {} /\ Second(cs, p) # {}
                             /\ First(cs, p) \cap Second(cs, p) = {}
         /\ \A p, q \in pairs : p # q => /\ First(cs, p) \cap First(cs, q) = {}
                                         /\ Second(cs, p) \cap Second(cs, q) = {}
                                         /\ First(cs, p) \cap Second(cs, q) = {}
<1> DEFINE n == Len(cs)
           h(x) == cs[x + 1]
<1>1. n \in Nat /\ \A x \in Lanes(n) : x \in Int /\ x + 1 \in 1 .. n
  <2>1. n \in Nat
    BY DEF SpreadOver
  <2> HIDE DEF n
  <2> QED BY <2>1 DEF Lanes
<1>2. \A x \in Lanes(n) : h(x) \in C /\ h(x) \subseteq a .. b - 1
  BY <1>1 DEF SpreadOver
<1>3. \A x, y \in Lanes(n) : x # y => h(x) \cap h(y) = {}
  <2> SUFFICES ASSUME NEW x \in Lanes(n), NEW y \in Lanes(n), x # y PROVE h(x) \cap h(y) = {}
    OBVIOUS
  <2>1. x + 1 # y + 1
    BY <1>1
  <2> QED BY <2>1, <1>1 DEF SpreadOver
<1>4. \A x \in Lanes(n) : h(x) # {} /\ \A c \in C : c = h(x) \/ c \cap h(x) = {}
  <2>1. {} \notin C /\ \A c, d \in C : c # d => c \cap d = {}
    BY DEF Partition
  <2> HIDE DEF h, n
  <2> QED BY <2>1, <1>2
<1>5. \A x, y \in Lanes(n) : x # y => h(x) # h(y)
  BY <1>3, <1>4
<1>6. \A p \in pairs : p[1] \in Lanes(n) /\ p[2] \in Lanes(n) /\ p[1] # p[2]
  <2>1. \A p \in pairs : p[1] \in Lanes(n) /\ p[2] \in Lanes(n) /\ p[1] < p[2]
    BY DEF Paired
  <2> QED BY <2>1, <1>1
<1>7. \A p \in pairs : First(cs, p) = h(p[1]) /\ Second(cs, p) = h(p[2])
  BY DEF First, Second
<1>8. \A p, q \in pairs : p # q => p[1] # q[1] /\ p[2] # q[2] /\ p[1] # q[2]
  BY DEF Paired
<1> HIDE DEF n, h
<1>9. \A p \in pairs : /\ First(cs, p) \in C /\ Second(cs, p) \in C
                       /\ First(cs, p) # {} /\ Second(cs, p) # {} /\ First(cs, p) \cap Second(cs, p) = {}
  BY <1>2, <1>3, <1>4, <1>6, <1>7
<1>10. \A p, q \in pairs : p # q => /\ First(cs, p) \cap First(cs, q) = {}
                                    /\ Second(cs, p) \cap Second(cs, q) = {}
                                    /\ First(cs, p) \cap Second(cs, q) = {}
  BY <1>3, <1>6, <1>7, <1>8
<1> QED BY <1>2, <1>3, <1>4, <1>5, <1>6, <1>9, <1>10 DEF n, h

(* The leaves are still partitioned after a round.                         *)
LEMMA AfterPartition ==
  ASSUME NEW C, NEW cs, NEW a, NEW b, NEW pairs,
         Partition(C), SpreadOver(C, cs, a, b), Paired(pairs, Len(cs))
  PROVE  /\ Partition(After(C, cs, pairs))
         /\ \A c \in C : \E d \in After(C, cs, pairs) : c \subseteq d
         /\ \A c \in C : c \cap (a .. b - 1) = {} => c \in After(C, cs, pairs)
         /\ NewOf(cs, pairs) \cap C = {}
<1> DEFINE f(p) == First(cs, p)
           g(p) == Second(cs, p)
           D == After(C, cs, pairs)
<1>1. \A p \in pairs : /\ f(p) \in C /\ g(p) \in C /\ f(p) # {} /\ g(p) # {} /\ f(p) \cap g(p) = {}
                       /\ f(p) \subseteq a .. b - 1 /\ g(p) \subseteq a .. b - 1
  BY LaneClusters DEF First, Second
<1>2. \A p, q \in pairs : p # q => /\ f(p) \cap f(q) = {} /\ g(p) \cap g(q) = {}
                                   /\ f(p) \cap g(q) = {} /\ f(q) \cap g(p) = {}
  BY LaneClusters
<1>3. D = {c \in C : \A p \in pairs : c # f(p) /\ c # g(p)} \cup {f(p) \cup g(p) : p \in pairs}
  BY DEF After, OldOf, NewOf
<1>4. NewOf(cs, pairs) = {f(p) \cup g(p) : p \in pairs}
  BY DEF NewOf
<1> HIDE DEF f, g, D
<1>5. /\ C \subseteq SUBSET Leaf /\ {} \notin C
      /\ \A c, d \in C : c # d => c \cap d = {}
      /\ \A x \in Leaf : \E c \in C : x \in c
  BY DEF Partition
<1>6. ASSUME NEW c \in C PROVE \E d \in D : c \subseteq d
  <2>1. CASE \A p \in pairs : c # f(p) /\ c # g(p)
    BY <2>1, <1>3
  <2>2. ASSUME NEW p \in pairs, c = f(p) \/ c = g(p)
        PROVE  \E d \in D : c \subseteq d
    <3>1. f(p) \cup g(p) \in D
      BY <1>3
    <3>2. c \subseteq f(p) \cup g(p)
      BY <2>2
    <3> QED BY <3>1, <3>2
  <2> QED BY <2>1, <2>2
<1>7. D \subseteq SUBSET Leaf /\ {} \notin D
  BY <1>1, <1>3, <1>5
<1>8. ASSUME NEW c \in D, NEW d \in D, c # d
      PROVE  c \cap d = {}
  <2>1. CASE c \in C /\ d \in C
    BY <2>1, <1>5, <1>8
  <2>2. ASSUME NEW p \in pairs, NEW e \in C, \A q \in pairs : e # f(q) /\ e # g(q)
        PROVE  (f(p) \cup g(p)) \cap e = {}
    <3>1. f(p) \cap e = {} /\ g(p) \cap e = {}
      BY <2>2, <1>1, <1>5
    <3> QED BY <3>1
  <2>3. ASSUME NEW p \in pairs, NEW q \in pairs, p # q
        PROVE  (f(p) \cup g(p)) \cap (f(q) \cup g(q)) = {}
    <3>1. /\ f(p) \cap f(q) = {} /\ g(p) \cap g(q) = {}
          /\ f(p) \cap g(q) = {} /\ f(q) \cap g(p) = {}
      BY <2>3, <1>2
    <3> QED BY <3>1
  <2>4. CASE \E p, q \in pairs : c = f(p) \cup g(p) /\ d = f(q) \cup g(q)
    BY <2>3, <2>4, <1>8
  <2>5. CASE \E p \in pairs : c = f(p) \cup g(p) /\ d \in C /\ \A q \in pairs : d # f(q) /\ d # g(q)
    BY <2>2, <2>5
  <2>6. CASE \E p \in pairs : d = f(p) \cup g(p) /\ c \in C /\ \A q \in pairs : c # f(q) /\ c # g(q)
    BY <2>2, <2>6
  <2> QED BY <2>1, <2>4, <2>5, <2>6, <1>3
<1>9. \A x \in Leaf : \E d \in D : x \in d
  BY <1>5, <1>6
<1>10. \A c \in C : c \cap (a .. b - 1) = {} => c \in D
  <2> SUFFICES ASSUME NEW c \in C, c \cap (a .. b - 1) = {} PROVE c \in D
    OBVIOUS
  <2>1. \A p \in pairs : c # f(p) /\ c # g(p)
    BY <1>1
  <2> QED BY <2>1, <1>3
<1>11. NewOf(cs, pairs) \cap C = {}
  <2> SUFFICES ASSUME NEW p \in pairs, f(p) \cup g(p) \in C PROVE FALSE
    BY <1>4
  <2>1. f(p) \cup g(p) = f(p) /\ f(p) \cup g(p) = g(p)
    BY <1>1, <1>5
  <2> QED BY <2>1, <1>1
<1>12. Partition(D)
  BY <1>7, <1>8, <1>9 DEF Partition
<1> QED BY <1>6, <1>10, <1>11, <1>12 DEF D

(* The clusters of the next round are again those of the range.            *)
LEMMA AfterSpread ==
  ASSUME NEW C, NEW cs, NEW a, NEW b, NEW pairs,
         Partition(C), SpreadOver(C, cs, a, b), Paired(pairs, Len(cs))
  PROVE  /\ SpreadOver(After(C, cs, pairs), Compacted(cs, pairs), a, b)
         /\ Len(Compacted(cs, pairs)) <= Len(cs)
<1> DEFINE n == Len(cs)
           h(x) == cs[x + 1]
           u(x) == United(cs, pairs, x)
           next == Compacted(cs, pairs)
           kept == Kept(cs, pairs)
           D == After(C, cs, pairs)
           lane == [k \in 1 .. Len(next) |-> CHOOSE x \in kept : Below(kept, x) = k - 1]
<1>1. /\ next \in Seq(SUBSET Leaf) /\ Len(next) <= Len(cs)
      /\ \A k \in 1 .. Len(next) : lane[k] \in kept /\ next[k] = u(lane[k])
      /\ \A k, l \in 1 .. Len(next) : lane[k] = lane[l] => k = l
      /\ \A x \in kept : \E k \in 1 .. Len(next) : lane[k] = x
  <2>1. cs \in Seq(SUBSET Leaf)
    BY DEF SpreadOver
  <2> QED BY <2>1, CompactedFacts
<1> HIDE DEF lane, next
<1>2. /\ \A x \in Lanes(n) : h(x) \in C /\ h(x) # {} /\ h(x) \subseteq a .. b - 1
      /\ \A x, y \in Lanes(n) : x # y => h(x) \cap h(y) = {} /\ h(x) # h(y)
      /\ \A p \in pairs : p[1] \in Lanes(n) /\ p[2] \in Lanes(n) /\ p[1] # p[2]
  BY LaneClusters
<1>3. /\ \A p, q \in pairs : p[1] = q[1] \/ p[2] = q[2] => p = q
      /\ \A p, q \in pairs : p[1] # q[2]
  BY DEF Paired
<1>4. \A e \in a .. b - 1 : \E x \in Lanes(n) : e \in h(x)
  <2> SUFFICES ASSUME NEW e \in a .. b - 1 PROVE \E x \in Lanes(n) : e \in h(x)
    OBVIOUS
  <2>1. PICK k \in 1 .. n : e \in cs[k]
    BY DEF SpreadOver
  <2>2. n \in Nat
    BY DEF SpreadOver
  <2>3. k - 1 \in Lanes(n) /\ (k - 1) + 1 = k
    <3> HIDE DEF n
    <3> QED BY <2>1, <2>2 DEF Lanes
  <2> QED BY <2>1, <2>3
<1>5. kept = {x \in Lanes(n) : \A p \in pairs : x # p[2]}
  BY DEF Kept
<1>6. /\ \A p \in pairs : u(p[1]) = h(p[1]) \cup h(p[2])
      /\ \A x : (\A p \in pairs : p[1] # x) => u(x) = h(x)
  BY UnitedPairs
<1>7. /\ \A c \in C : (\A p \in pairs : c # h(p[1]) /\ c # h(p[2])) => c \in D
      /\ \A p \in pairs : h(p[1]) \cup h(p[2]) \in D
  BY DEF After, OldOf, NewOf, First, Second
<1> HIDE DEF n, h, u, kept, D
<1>8. \A x \in kept : x \in Lanes(n)
                      /\ (\/ \E p \in pairs : x = p[1] /\ u(x) = h(p[1]) \cup h(p[2])
                          \/ (\A p \in pairs : p[1] # x /\ p[2] # x) /\ u(x) = h(x))
  BY <1>5, <1>6
<1>9. ASSUME NEW x \in kept
      PROVE  u(x) \in D /\ u(x) \subseteq a .. b - 1
  <2>1. CASE \E p \in pairs : x = p[1] /\ u(x) = h(p[1]) \cup h(p[2])
    BY <2>1, <1>2, <1>7
  <2>2. CASE (\A p \in pairs : p[1] # x /\ p[2] # x) /\ u(x) = h(x)
    <3>1. \A p \in pairs : h(x) # h(p[1]) /\ h(x) # h(p[2])
      BY <2>2, <1>2, <1>8
    <3> QED BY <3>1, <2>2, <1>2, <1>7, <1>8
  <2> QED BY <2>1, <2>2, <1>8
<1>10. ASSUME NEW x \in kept, NEW y \in kept, x # y
       PROVE  u(x) \cap u(y) = {}
  <2>1. ASSUME NEW p \in pairs, NEW q \in pairs, p[1] # q[1]
        PROVE  (h(p[1]) \cup h(p[2])) \cap (h(q[1]) \cup h(q[2])) = {}
    <3>1. p[2] # q[2] /\ p[1] # q[2] /\ q[1] # p[2]
      BY <2>1, <1>3
    <3>2. h(p[1]) \cap h(q[1]) = {} /\ h(p[1]) \cap h(q[2]) = {} /\ h(p[2]) \cap h(q[1]) = {} /\ h(p[2]) \cap h(q[2]) = {}
      BY <2>1, <3>1, <1>2
    <3> QED BY <3>2
  <2>2. ASSUME NEW p \in pairs, NEW z \in kept, \A q \in pairs : q[1] # z /\ q[2] # z
        PROVE  (h(p[1]) \cup h(p[2])) \cap h(z) = {}
    <3>1. h(p[1]) \cap h(z) = {} /\ h(p[2]) \cap h(z) = {}
      BY <2>2, <1>2, <1>8
    <3> QED BY <3>1
  <2>3. CASE \E p, q \in pairs : /\ x = p[1] /\ u(x) = h(p[1]) \cup h(p[2])
                                 /\ y = q[1] /\ u(y) = h(q[1]) \cup h(q[2])
    BY <2>1, <2>3, <1>10
  <2>4. CASE \E p \in pairs : /\ x = p[1] /\ u(x) = h(p[1]) \cup h(p[2])
                              /\ (\A q \in pairs : q[1] # y /\ q[2] # y) /\ u(y) = h(y)
    BY <2>2, <2>4
  <2>5. CASE \E p \in pairs : /\ y = p[1] /\ u(y) = h(p[1]) \cup h(p[2])
                              /\ (\A q \in pairs : q[1] # x /\ q[2] # x) /\ u(x) = h(x)
    <3>1. u(y) \cap u(x) = {}
      BY <2>2, <2>5
    <3> QED BY <3>1
  <2>6. CASE u(x) = h(x) /\ u(y) = h(y)
    BY <2>6, <1>2, <1>8, <1>10
  <2> QED BY <2>3, <2>4, <2>5, <2>6, <1>8
<1>11. ASSUME NEW e \in a .. b - 1
       PROVE  \E x \in kept : e \in u(x)
  <2>1. PICK x \in Lanes(n) : e \in h(x)
    BY <1>4
  <2>2. CASE x \in kept
    <3>1. h(x) \subseteq u(x)
      BY <2>2, <1>8
    <3> QED BY <2>1, <2>2, <3>1
  <2>3. CASE x \notin kept
    <3>1. PICK p \in pairs : x = p[2]
      BY <2>1, <2>3, <1>5
    <3>2. p[1] \in kept
      BY <1>2, <1>3, <1>5
    <3> QED BY <2>1, <3>1, <3>2, <1>6
  <2> QED BY <2>2, <2>3
<1>12. \A k \in 1 .. Len(next) : next[k] \in D /\ next[k] \subseteq a .. b - 1
  BY <1>1, <1>9
<1>13. \A k, l \in 1 .. Len(next) : k # l => next[k] \cap next[l] = {}
  BY <1>1, <1>10
<1>14. \A e \in a .. b - 1 : \E k \in 1 .. Len(next) : e \in next[k]
  BY <1>1, <1>11
<1>15. SpreadOver(D, next, a, b)
  BY <1>1, <1>12, <1>13, <1>14 DEF SpreadOver
<1> QED BY <1>1, <1>15 DEF D, next

(* Each pair leaves one cluster less.                                      *)
LEMMA AfterCount ==
  ASSUME NEW C, NEW cs, NEW a, NEW b, NEW pairs,
         Partition(C), SpreadOver(C, cs, a, b), Paired(pairs, Len(cs))
  PROVE  /\ Cardinality(C) \in Nat /\ IsFiniteSet(pairs) /\ Cardinality(pairs) \in Nat
         /\ IsFiniteSet(After(C, cs, pairs))
         /\ Cardinality(After(C, cs, pairs)) \in Nat \ {0}
         /\ Cardinality(C) = Cardinality(After(C, cs, pairs)) + Cardinality(pairs)
<1> DEFINE f(p) == First(cs, p)
           g(p) == Second(cs, p)
           D == After(C, cs, pairs)
           seconds == {g(p) : p \in pairs}
           rest == C \ seconds
<1>1. \A p \in pairs : f(p) \in C /\ g(p) \in C /\ f(p) # {} /\ g(p) # {} /\ f(p) \cap g(p) = {}
  BY LaneClusters
<1>2. \A p, q \in pairs : p # q => /\ f(p) \cap f(q) = {} /\ g(p) \cap g(q) = {}
                                   /\ f(p) \cap g(q) = {} /\ f(q) \cap g(p) = {}
  BY LaneClusters
<1>3. D = {c \in C : \A p \in pairs : c # f(p) /\ c # g(p)} \cup {f(p) \cup g(p) : p \in pairs}
  BY DEF After, OldOf, NewOf
<1>4. C \subseteq SUBSET Leaf /\ {} \notin C /\ (\A c, d \in C : c # d => c \cap d = {})
  BY DEF Partition
<1>5. Partition(D)
  BY AfterPartition
<1> HIDE DEF f, g, D
<1>6. IsFiniteSet(SUBSET Leaf)
  <2>1. IsFiniteSet(Leaf)
    <3>1. 0 \in Int /\ primCount - 1 \in Int
      BY SizesNat
    <3> QED BY <3>1, FS_Interval DEF Leaf
  <2> QED BY <2>1, FS_SUBSET
<1>7. IsFiniteSet(C) /\ IsFiniteSet(D)
  <2>1. D \subseteq SUBSET Leaf
    BY <1>5 DEF Partition
  <2> QED BY <2>1, <1>4, <1>6, FS_Subset
<1>8. Cardinality(C) \in Nat /\ Cardinality(D) \in Nat /\ Cardinality(D) # 0
  <2>1. D # {}
    <3>1. 0 \in Leaf
      BY SizesNat DEF Leaf
    <3> QED BY <3>1, <1>5 DEF Partition
  <2> QED BY <2>1, <1>7, FS_CardinalityType, FS_EmptySet
<1>9. IsFiniteSet(pairs) /\ IsFiniteSet(seconds) /\ Cardinality(seconds) = Cardinality(pairs)
  <2> DEFINE s == [p \in pairs |-> g(p)]
  <2>1. \A p, q \in pairs : g(p) = g(q) => p = q
    BY <1>1, <1>2
  <2>2. s \in Injection(pairs, C)
    <3>1. s \in [pairs -> C] /\ \A p, q \in pairs : s[p] = s[q] => p = q
      BY <2>1, <1>1
    <3> HIDE DEF s
    <3> QED BY <3>1 DEF Injection, IsInjective
  <2>3. IsFiniteSet(pairs)
    <3> HIDE DEF s
    <3> QED BY <2>2, <1>7, FS_Injection
  <2>4. s \in Bijection(pairs, seconds)
    <3>1. s \in [pairs -> seconds] /\ \A p, q \in pairs : s[p] = s[q] => p = q
      BY <2>1
    <3>2. \A c \in seconds : \E p \in pairs : s[p] = c
      OBVIOUS
    <3> HIDE DEF s, seconds
    <3> QED BY <3>1, <3>2 DEF Bijection, Injection, Surjection, IsInjective
  <2> HIDE DEF s
  <2> QED BY <2>3, <2>4, FS_Bijection DEF ExistsBijection
<1>10. IsFiniteSet(rest) /\ Cardinality(rest) = Cardinality(C) - Cardinality(pairs)
  <2>1. C \cap seconds = seconds
    BY <1>1
  <2> HIDE DEF seconds
  <2>2. IsFiniteSet(C \ seconds) /\ Cardinality(C \ seconds) = Cardinality(C) - Cardinality(C \cap seconds)
    BY <1>7, FS_Difference, Zenon
  <2> QED BY <2>1, <2>2, <1>9
<1>11. \A c \in C : c \in rest <=> \A p \in pairs : c # g(p)
  OBVIOUS
<1> HIDE DEF seconds, rest
<1>12. rest \subseteq C
  BY DEF rest
<1> DEFINE grown(c) == IF \E p \in pairs : c = f(p) THEN c \cup g(CHOOSE p \in pairs : c = f(p)) ELSE c
           u == [c \in rest |-> grown(c)]
<1>13. \A p \in pairs : grown(f(p)) = f(p) \cup g(p)
  <2> SUFFICES ASSUME NEW p \in pairs PROVE grown(f(p)) = f(p) \cup g(p)
    OBVIOUS
  <2>1. \A q \in pairs : f(p) = f(q) => q = p
    BY <1>1, <1>2
  <2>2. (CHOOSE q \in pairs : f(p) = f(q)) = p
    BY <2>1
  <2> QED BY <2>2
<1>14. \A c \in rest : (\A p \in pairs : c # f(p)) => grown(c) = c
  OBVIOUS
<1>15. \A c \in rest : c \subseteq grown(c) /\ grown(c) \in D
  <2> SUFFICES ASSUME NEW c \in rest PROVE c \subseteq grown(c) /\ grown(c) \in D
    OBVIOUS
  <2>1. CASE \E p \in pairs : c = f(p)
    <3>1. PICK p \in pairs : c = f(p)
      BY <2>1
    <3>2. grown(c) = f(p) \cup g(p)
      BY <3>1, <1>13
    <3> HIDE DEF grown
    <3> QED BY <3>1, <3>2, <1>3
  <2>2. CASE \A p \in pairs : c # f(p)
    <3>1. grown(c) = c /\ c \in C /\ \A p \in pairs : c # g(p)
      BY <2>2, <1>11, <1>12
    <3> HIDE DEF grown
    <3> QED BY <2>2, <3>1, <1>3
  <2> QED BY <2>1, <2>2
<1> HIDE DEF grown
<1>16. ASSUME NEW c \in rest, NEW d \in rest, grown(c) = grown(d), c # d
       PROVE  FALSE
  <2>1. c \in C /\ d \in C /\ c # {} /\ d # {} /\ c \cap d = {}
    <3>1. c \in C /\ d \in C
      BY <1>12
    <3> QED BY <3>1, <1>4, <1>16
  <2>2. ASSUME NEW x \in rest, NEW y \in rest, x # y
        PROVE  x \cap grown(y) = {}
    <3>1. x \in C /\ y \in C /\ x \cap y = {}
      BY <2>2, <1>4, <1>12
    <3>2. CASE \E p \in pairs : y = f(p)
      <4>1. PICK p \in pairs : y = f(p)
        BY <3>2
      <4>2. x # g(p) /\ g(p) \in C
        BY <1>1, <1>11, <3>1
      <4>3. x \cap g(p) = {}
        BY <3>1, <4>2, <1>4
      <4> QED BY <3>1, <4>1, <4>3, <1>13
    <3>3. CASE \A p \in pairs : y # f(p)
      BY <3>1, <3>3, <1>14
    <3> QED BY <3>2, <3>3
  <2>3. c \cap grown(d) = {} /\ c \subseteq grown(c)
    BY <2>2, <1>15, <1>16
  <2> QED BY <2>1, <2>3, <1>16
<1>17. ASSUME NEW d \in D
       PROVE  \E c \in rest : grown(c) = d
  <2>1. CASE d \in C /\ \A p \in pairs : d # f(p) /\ d # g(p)
    BY <2>1, <1>11, <1>14
  <2>2. CASE \E p \in pairs : d = f(p) \cup g(p)
    <3>1. PICK p \in pairs : d = f(p) \cup g(p)
      BY <2>2
    <3>2. \A q \in pairs : f(p) # g(q)
      <4> SUFFICES ASSUME NEW q \in pairs, f(p) = g(q) PROVE FALSE
        OBVIOUS
      <4>1. CASE p = q
        BY <4>1, <1>1
      <4>2. CASE p # q
        BY <4>2, <1>1, <1>2
      <4> QED BY <4>1, <4>2
    <3>3. f(p) \in rest
      BY <3>2, <1>1, <1>11
    <3> QED BY <3>1, <3>3, <1>13
  <2> QED BY <2>1, <2>2, <1>3
<1>18. u \in Bijection(rest, D)
  <2>1. u \in [rest -> D] /\ \A c, d \in rest : u[c] = u[d] => c = d
    BY <1>15, <1>16
  <2>2. \A d \in D : \E c \in rest : u[c] = d
    BY <1>17
  <2> HIDE DEF u
  <2> QED BY <2>1, <2>2 DEF Bijection, Injection, Surjection, IsInjective
<1> HIDE DEF u
<1>19. Cardinality(D) = Cardinality(rest)
  BY <1>10, <1>18, FS_Bijection DEF ExistsBijection
<1>20. Cardinality(pairs) \in Nat
  BY <1>9, FS_CardinalityType
<1>21. Cardinality(C) = Cardinality(D) + Cardinality(pairs)
  BY <1>8, <1>10, <1>19, <1>20
<1> QED BY <1>7, <1>8, <1>9, <1>20, <1>21 DEF D

(* The pairs of a round take the next addresses, one each.                 *)
LEMMA AddressesTaken ==
  ASSUME NEW n \in Nat, NEW pairs, Paired(pairs, n), IsFiniteSet(pairs), nodeCounter \in Nat
  PROVE  LET m == Cardinality(pairs)
             free == primCount - 1 - nodeCounter
         IN /\ m \in Nat
            /\ \A p \in pairs : NodeAddr(pairs, p) \in free - m .. free - 1
            /\ \A p, q \in pairs : NodeAddr(pairs, p) = NodeAddr(pairs, q) => p = q
            /\ \A a \in free - m .. free - 1 : \E p \in pairs : NodeAddr(pairs, p) = a
<1> DEFINE m == Cardinality(pairs)
           free == primCount - 1 - nodeCounter
           S == {q[1] : q \in pairs}
           s == [p \in pairs |-> p[1]]
<1>1. m \in Nat /\ free \in Int
  BY SizesNat, FS_CardinalityType
<1>2. S \in SUBSET (0 .. n - 1) /\ \A p \in pairs : p[1] \in S
  BY DEF Paired, Lanes
<1>3. \A p, q \in pairs : p[1] = q[1] => p = q
  BY DEF Paired
<1>4. s \in Bijection(pairs, S)
  <2>1. s \in [pairs -> S] /\ \A p, q \in pairs : s[p] = s[q] => p = q
    BY <1>3
  <2>2. \A x \in S : \E p \in pairs : s[p] = x
    OBVIOUS
  <2> HIDE DEF s, S
  <2> QED BY <2>1, <2>2 DEF Bijection, Injection, Surjection, IsInjective
<1>5. Cardinality(S) = m
  <2> HIDE DEF s, S
  <2> QED BY <1>4, FS_Bijection DEF ExistsBijection
<1>6. /\ \A p \in pairs : NodeAddr(pairs, p) = primCount - 2 - (nodeCounter + Below(S, p[1]))
      /\ \A x \in S : \E p \in pairs : p[1] = x
  BY DEF NodeAddr
<1> HIDE DEF S, s
<1>7. /\ \A x \in S : Below(S, x) \in 0 .. m - 1
      /\ \A x, y \in S : Below(S, x) = Below(S, y) => x = y
      /\ \A i \in 0 .. m - 1 : \E x \in S : Below(S, x) = i
  BY <1>2, <1>5, BallotNumbers
<1> HIDE DEF m
<1>8. \A p \in pairs : NodeAddr(pairs, p) = free - 1 - Below(S, p[1]) /\ Below(S, p[1]) \in 0 .. m - 1
  <2> SUFFICES ASSUME NEW p \in pairs
               PROVE  NodeAddr(pairs, p) = free - 1 - Below(S, p[1]) /\ Below(S, p[1]) \in 0 .. m - 1
    OBVIOUS
  <2> DEFINE x == Below(S, p[1])
  <2>1. NodeAddr(pairs, p) = primCount - 2 - (nodeCounter + x) /\ x \in 0 .. m - 1
    BY <1>2, <1>6, <1>7
  <2> HIDE DEF x
  <2>2. NodeAddr(pairs, p) = free - 1 - x
    BY <2>1, <1>1, SizesNat
  <2> QED BY <2>1, <2>2 DEF x
<1> HIDE DEF free
<1>9. \A p \in pairs : NodeAddr(pairs, p) \in free - m .. free - 1
  <2> SUFFICES ASSUME NEW p \in pairs PROVE NodeAddr(pairs, p) \in free - m .. free - 1
    OBVIOUS
  <2> DEFINE x == Below(S, p[1])
  <2>1. NodeAddr(pairs, p) = free - 1 - x /\ x \in 0 .. m - 1
    BY <1>8
  <2> HIDE DEF x
  <2> QED BY <2>1, <1>1
<1>10. ASSUME NEW p \in pairs, NEW q \in pairs, NodeAddr(pairs, p) = NodeAddr(pairs, q)
       PROVE  p = q
  <2> DEFINE x == Below(S, p[1])
             y == Below(S, q[1])
  <2>1. free - 1 - x = free - 1 - y /\ x \in 0 .. m - 1 /\ y \in 0 .. m - 1
    BY <1>8, <1>10
  <2> HIDE DEF x, y
  <2>2. x = y
    BY <2>1, <1>1
  <2> QED BY <2>2, <1>2, <1>3, <1>7 DEF x, y
<1>11. ASSUME NEW a \in free - m .. free - 1
       PROVE  \E p \in pairs : NodeAddr(pairs, p) = a
  <2> DEFINE i == free - 1 - a
  <2>1. i \in 0 .. m - 1 /\ free - 1 - i = a
    BY <1>1
  <2> HIDE DEF i
  <2>2. PICK x \in S : Below(S, x) = i
    BY <2>1, <1>7
  <2>3. PICK p \in pairs : p[1] = x
    BY <1>6
  <2> QED BY <2>1, <2>2, <2>3, <1>8
<1> QED BY <1>1, <1>9, <1>10, <1>11 DEF m, free

-----------------------------------------------------------------------------
(* The nodes a round stores: the new ones are united clusters, and what is *)
(* left is what the round leaves.                                          *)
Round(cs, pairs) ==
  /\ scratchNodes' = [a \in DOMAIN scratchNodes |->
       IF \E p \in pairs : NodeAddr(pairs, p) = a
       THEN LET p == CHOOSE p \in pairs : NodeAddr(pairs, p) = a
            IN  <<cs[p[1] + 1], cs[p[2] + 1]>>
       ELSE scratchNodes[a]]
  /\ nodeCounter' = nodeCounter + Cardinality(pairs)

(* The nodes of a round go to the addresses below those that are taken.    *)
LEMMA RoundStores ==
  ASSUME NodeInv, NEW cs, NEW a, NEW b, NEW pairs,
         SpreadOver(Clusters, cs, a, b), Paired(pairs, Len(cs)), Round(cs, pairs)
  PROVE  /\ nodeCounter' \in 0 .. primCount - 1
         /\ scratchNodes' \in [0 .. primCount - 2 -> {<<>>} \cup (SUBSET Leaf) \X (SUBSET Leaf)]
         /\ Stored' = primCount - 1 - nodeCounter' .. primCount - 2
         /\ Cardinality(After(Clusters, cs, pairs)) = primCount - nodeCounter'
         /\ \A x \in Stored : /\ x \in Stored' /\ scratchNodes'[x] = scratchNodes[x]
         /\ \A x \in Stored' : x \in Stored \/ \E p \in pairs : x = NodeAddr(pairs, p)
         /\ \A p \in pairs : /\ NodeAddr(pairs, p) \in Stored' /\ NodeAddr(pairs, p) \notin Stored
                             /\ scratchNodes'[NodeAddr(pairs, p)] = <<First(cs, p), Second(cs, p)>>
         /\ \A p, q \in pairs : NodeAddr(pairs, p) = NodeAddr(pairs, q) => p = q
         /\ (nodeCounter' = primCount - 1 /\ nodeCounter # primCount - 1) =>
              0 \in Stored' /\ 0 \notin Stored
<1> DEFINE m == Cardinality(pairs)
           free == primCount - 1 - nodeCounter
           Q == 0 .. primCount - 2
           adr(p) == NodeAddr(pairs, p)
<1>1. /\ nodeCounter \in 0 .. primCount - 1 /\ nodeCounter \in Nat
      /\ scratchNodes \in [Q -> {<<>>} \cup (SUBSET Leaf) \X (SUBSET Leaf)]
      /\ Stored = free .. primCount - 2
      /\ Cardinality(Clusters) = primCount - nodeCounter
      /\ Partition(Clusters)
  BY SizesNat DEF NodeInv
<1>2. /\ IsFiniteSet(pairs) /\ m \in Nat
      /\ Cardinality(After(Clusters, cs, pairs)) \in Nat \ {0}
      /\ Cardinality(Clusters) = Cardinality(After(Clusters, cs, pairs)) + m
  BY <1>1, AfterCount
<1>3. Len(cs) \in Nat
  BY DEF SpreadOver
<1>4. /\ \A p \in pairs : adr(p) \in free - m .. free - 1
      /\ \A p, q \in pairs : adr(p) = adr(q) => p = q
      /\ \A x \in free - m .. free - 1 : \E p \in pairs : adr(p) = x
  BY <1>1, <1>2, <1>3, AddressesTaken
<1>5. nodeCounter' = nodeCounter + m
  BY DEF Round
<1>6. \A p \in pairs : First(cs, p) \in SUBSET Leaf /\ Second(cs, p) \in SUBSET Leaf
  <2>1. Clusters \subseteq SUBSET Leaf
    BY <1>1 DEF Partition
  <2>2. \A p \in pairs : First(cs, p) \in Clusters /\ Second(cs, p) \in Clusters
    BY <1>1, LaneClusters
  <2> QED BY <2>1, <2>2
<1>7. scratchNodes' = [x \in Q |->
        IF \E p \in pairs : adr(p) = x
        THEN <<First(cs, CHOOSE p \in pairs : adr(p) = x), Second(cs, CHOOSE p \in pairs : adr(p) = x)>>
        ELSE scratchNodes[x]]
  <2>1. DOMAIN scratchNodes = Q
    BY <1>1
  <2> QED BY <2>1 DEF Round, First, Second
<1> HIDE DEF m, adr
<1>8. /\ nodeCounter' \in 0 .. primCount - 1 /\ free \in Nat /\ free - m \in Nat /\ free <= primCount - 1
      /\ Cardinality(After(Clusters, cs, pairs)) = primCount - nodeCounter'
      /\ primCount - 1 - nodeCounter' = free - m
  BY <1>1, <1>2, <1>5, SizesNat
<1> HIDE DEF free
<1>9. \A x \in free - m .. free - 1 : x \in Q /\ x \notin Stored
  BY <1>1, <1>2, <1>8, SizesNat
<1>10. \A p \in pairs : scratchNodes'[adr(p)] = <<First(cs, p), Second(cs, p)>>
  <2> SUFFICES ASSUME NEW p \in pairs PROVE scratchNodes'[adr(p)] = <<First(cs, p), Second(cs, p)>>
    OBVIOUS
  <2>1. adr(p) \in Q
    BY <1>4, <1>9
  <2>2. (CHOOSE q \in pairs : adr(q) = adr(p)) = p
    BY <1>4
  <2> HIDE DEF Q
  <2> QED BY <2>1, <2>2, <1>7
<1>11. \A x \in Q : x \notin free - m .. free - 1 => scratchNodes'[x] = scratchNodes[x]
  BY <1>4, <1>7
<1>12. scratchNodes' \in [Q -> {<<>>} \cup (SUBSET Leaf) \X (SUBSET Leaf)]
  <2>1. ASSUME NEW x \in Q
        PROVE  scratchNodes'[x] \in {<<>>} \cup (SUBSET Leaf) \X (SUBSET Leaf)
    <3>1. CASE x \in free - m .. free - 1
      <4>1. PICK p \in pairs : adr(p) = x
        BY <3>1, <1>4
      <4>2. scratchNodes'[x] = <<First(cs, p), Second(cs, p)>>
        BY <4>1, <1>10
      <4>3. <<First(cs, p), Second(cs, p)>> \in (SUBSET Leaf) \X (SUBSET Leaf)
        BY <1>6
      <4> QED BY <4>2, <4>3
    <3>2. CASE x \notin free - m .. free - 1
      BY <3>2, <1>1, <1>11
    <3> QED BY <3>1, <3>2
  <2> HIDE DEF Q
  <2> QED BY <2>1, <1>7
<1>13. \A x \in Q : scratchNodes[x] # <<>> <=> x \in free .. primCount - 2
  <2>1. DOMAIN scratchNodes = Q
    BY <1>1
  <2>2. Stored = {x \in Q : scratchNodes[x] # <<>>}
    BY <2>1 DEF Stored
  <2> QED BY <2>2, <1>1
<1>14. \A x \in Q : scratchNodes'[x] # <<>> <=> x \in free - m .. primCount - 2
  <2> SUFFICES ASSUME NEW x \in Q
               PROVE  scratchNodes'[x] # <<>> <=> x \in free - m .. primCount - 2
    OBVIOUS
  <2>1. CASE x \in free - m .. free - 1
    <3>1. PICK p \in pairs : adr(p) = x
      BY <2>1, <1>4
    <3>2. scratchNodes'[x] = <<First(cs, p), Second(cs, p)>>
      BY <3>1, <1>10
    <3>3. scratchNodes'[x] # <<>>
      BY <3>2
    <3> QED BY <2>1, <3>3, <1>2, <1>8, SizesNat
  <2>2. CASE x \notin free - m .. free - 1
    <3>1. scratchNodes'[x] = scratchNodes[x]
      BY <2>2, <1>11
    <3>2. x \in free .. primCount - 2 <=> x \in free - m .. primCount - 2
      BY <2>2, <1>2, <1>8, SizesNat
    <3> QED BY <3>1, <3>2, <1>13
  <2> QED BY <2>1, <2>2
<1>15. Stored' = free - m .. primCount - 2
  <2>1. DOMAIN scratchNodes' = Q
    BY <1>12
  <2>2. Stored' = {x \in Q : scratchNodes'[x] # <<>>}
    BY <2>1 DEF Stored
  <2>3. free - m .. primCount - 2 \subseteq Q
    BY <1>8, SizesNat
  <2> HIDE DEF Q
  <2> QED BY <2>2, <2>3, <1>14
<1>16. \A x \in Stored : x \in Stored' /\ scratchNodes'[x] = scratchNodes[x]
  <2> SUFFICES ASSUME NEW x \in Stored PROVE x \in Stored' /\ scratchNodes'[x] = scratchNodes[x]
    OBVIOUS
  <2>1. x \in free .. primCount - 2
    BY <1>1
  <2>2. x \in free - m .. primCount - 2 /\ x \in Q /\ x \notin free - m .. free - 1
    BY <2>1, <1>2, <1>8, SizesNat
  <2> HIDE DEF Q
  <2> QED BY <2>2, <1>11, <1>15
<1>17. \A x \in Stored' : x \in Stored \/ \E p \in pairs : x = adr(p)
  <2> SUFFICES ASSUME NEW x \in Stored' PROVE x \in Stored \/ \E p \in pairs : x = adr(p)
    OBVIOUS
  <2>1. x \in free .. primCount - 2 \/ x \in free - m .. free - 1
    BY <1>2, <1>8, <1>15, SizesNat
  <2> QED BY <2>1, <1>1, <1>4
<1>18. \A p \in pairs : adr(p) \in Stored' /\ adr(p) \notin Stored
  <2> SUFFICES ASSUME NEW p \in pairs PROVE adr(p) \in Stored' /\ adr(p) \notin Stored
    OBVIOUS
  <2>1. adr(p) \in free - m .. free - 1
    BY <1>4
  <2>2. adr(p) \in free - m .. primCount - 2
    BY <2>1, <1>2, <1>8, SizesNat
  <2> QED BY <2>1, <2>2, <1>9, <1>15
<1>19. (nodeCounter' = primCount - 1 /\ nodeCounter # primCount - 1) => 0 \in Stored' /\ 0 \notin Stored
  <2> SUFFICES ASSUME nodeCounter' = primCount - 1, nodeCounter # primCount - 1
               PROVE  0 \in Stored' /\ 0 \notin Stored
    OBVIOUS
  <2>1. free - m = 0 /\ free # 0
    BY <1>1, <1>8, SizesNat DEF free
  <2>2. 0 \in free - m .. primCount - 2 /\ 0 \notin free .. primCount - 2
    BY <2>1, <1>8, SizesNat
  <2> QED BY <2>2, <1>1, <1>15
<1> QED BY <1>4, <1>8, <1>10, <1>12, <1>15, <1>16, <1>17, <1>18, <1>19 DEF adr

(* What a round leaves is what has no parent among the nodes it stored.    *)
LEMMA RoundKeepsNodes ==
  ASSUME NodeInv, NEW cs, NEW a, NEW b, NEW pairs,
         SpreadOver(Clusters, cs, a, b), Paired(pairs, Len(cs)), Round(cs, pairs)
  PROVE  NodeInv' /\ Clusters' = After(Clusters, cs, pairs)
<1> DEFINE f(p) == First(cs, p)
           g(p) == Second(cs, p)
           adr(p) == NodeAddr(pairs, p)
           D == After(Clusters, cs, pairs)
<1>1. /\ nodeCounter' \in 0 .. primCount - 1
      /\ scratchNodes' \in [0 .. primCount - 2 -> {<<>>} \cup (SUBSET Leaf) \X (SUBSET Leaf)]
      /\ Stored' = primCount - 1 - nodeCounter' .. primCount - 2
      /\ Cardinality(D) = primCount - nodeCounter'
      /\ \A x \in Stored : /\ x \in Stored' /\ scratchNodes'[x] = scratchNodes[x]
      /\ \A x \in Stored' : x \in Stored \/ \E p \in pairs : x = adr(p)
      /\ \A p \in pairs : /\ adr(p) \in Stored' /\ adr(p) \notin Stored
                          /\ scratchNodes'[adr(p)] = <<f(p), g(p)>>
      /\ \A p, q \in pairs : adr(p) = adr(q) => p = q
      /\ (nodeCounter' = primCount - 1 /\ nodeCounter # primCount - 1) => 0 \in Stored' /\ 0 \notin Stored
  BY RoundStores
<1>2. /\ Partition(Clusters)
      /\ \A x \in Stored : \E c \in Clusters : NodeAt(x) \subseteq c
      /\ \A x, y \in Stored : x # y => NodeAt(x) # NodeAt(y)
      /\ nodeCounter = primCount - 1 => NodeAt(0) = Leaf
      /\ nodeCounter \in 0 .. primCount - 1 /\ Stored = primCount - 1 - nodeCounter .. primCount - 2
  BY DEF NodeInv
<1>3. /\ Partition(D)
      /\ \A c \in Clusters : \E d \in D : c \subseteq d
      /\ NewOf(cs, pairs) \cap Clusters = {}
  BY <1>2, AfterPartition
<1>4. /\ \A p \in pairs : f(p) \in Clusters /\ g(p) \in Clusters /\ f(p) # {} /\ g(p) # {} /\ f(p) \cap g(p) = {}
      /\ \A p, q \in pairs : p # q => f(p) \cap f(q) = {} /\ f(p) \cap g(q) = {}
  BY <1>2, LaneClusters
<1>5. IsFiniteSet(D) /\ Cardinality(D) \in Nat \ {0}
  BY <1>2, AfterCount
<1>6. \A x : x \in D <=> \/ x \in Clusters /\ \A p \in pairs : x # f(p) /\ x # g(p)
                         \/ \E p \in pairs : x = f(p) \cup g(p)
  BY DEF After, OldOf, NewOf
<1>7. \A p \in pairs : f(p) \cup g(p) \notin Clusters
  BY <1>3 DEF NewOf
<1> HIDE DEF f, g, adr, D
<1> DEFINE l(x) == scratchNodes[x][1]
           r(x) == scratchNodes[x][2]
           l2(x) == scratchNodes'[x][1]
           r2(x) == scratchNodes'[x][2]
<1>8. \A x : NodeAt(x) = l(x) \cup r(x) /\ NodeAt(x)' = l2(x) \cup r2(x)
  BY DEF NodeAt
<1>9. \A x : x \in Clusters <=> /\ (\E e \in Leaf : x = {e}) \/ (\E y \in Stored : x = l(y) \cup r(y))
                                /\ \A y \in Stored : x # l(y) /\ x # r(y)
  BY DEF Clusters, NodeAt
<1>10. \A x : x \in Clusters' <=> /\ (\E e \in Leaf : x = {e}) \/ (\E y \in Stored' : x = l2(y) \cup r2(y))
                                  /\ \A y \in Stored' : x # l2(y) /\ x # r2(y)
  BY DEF Clusters, NodeAt
<1>11. \A x \in Stored : l2(x) = l(x) /\ r2(x) = r(x)
  BY <1>1
<1>12. \A p \in pairs : l2(adr(p)) = f(p) /\ r2(adr(p)) = g(p)
  BY <1>1
<1> HIDE DEF l, r, l2, r2
(* No node of before holds two clusters that are united now.               *)
<1>13. ASSUME NEW x \in Stored, NEW p \in pairs, NEW s \in SUBSET NodeAt(x), f(p) \cup g(p) \subseteq s
       PROVE  FALSE
  <2>1. PICK c \in Clusters : NodeAt(x) \subseteq c
    BY <1>2
  <2>2. f(p) \subseteq c /\ g(p) \subseteq c
    BY <2>1, <1>13
  <2>3. c \cap f(p) # {} /\ c \cap g(p) # {}
    BY <2>2, <1>4
  <2>4. c = f(p) /\ c = g(p)
    BY <2>3, <1>2, <1>4 DEF Partition
  <2> QED BY <2>4, <1>4
<1>14. Clusters' = D
  <2>1. ASSUME NEW x, x \in Clusters'
        PROVE  x \in D
    <3>1. CASE \E p \in pairs : x = f(p) \cup g(p)
      BY <3>1, <1>6
    <3>2. CASE \A p \in pairs : x # f(p) \cup g(p)
      <4>1. (\E e \in Leaf : x = {e}) \/ (\E y \in Stored : x = l(y) \cup r(y))
        BY <2>1, <3>2, <1>1, <1>10, <1>11, <1>12
      <4>2. \A y \in Stored : x # l(y) /\ x # r(y)
        BY <2>1, <1>1, <1>10, <1>11
      <4>3. \A p \in pairs : x # f(p) /\ x # g(p)
        BY <2>1, <1>1, <1>10, <1>12
      <4> QED BY <4>1, <4>2, <4>3, <1>6, <1>9
    <3> QED BY <3>1, <3>2
  <2>2. ASSUME NEW x \in Clusters, \A p \in pairs : x # f(p) /\ x # g(p)
        PROVE  x \in Clusters'
    <3>1. (\E e \in Leaf : x = {e}) \/ (\E y \in Stored' : x = l2(y) \cup r2(y))
      BY <1>1, <1>9, <1>11
    <3>2. \A y \in Stored' : x # l2(y) /\ x # r2(y)
      BY <2>2, <1>1, <1>9, <1>11, <1>12
    <3> QED BY <3>1, <3>2, <1>10
  <2>3. ASSUME NEW p \in pairs
        PROVE  f(p) \cup g(p) \in Clusters'
    <3> DEFINE x == f(p) \cup g(p)
    <3>1. \E y \in Stored' : x = l2(y) \cup r2(y)
      BY <1>1, <1>12
    <3>2. ASSUME NEW y \in Stored' PROVE x # l2(y) /\ x # r2(y)
      <4>1. CASE y \in Stored
        <5>1. l2(y) \in SUBSET NodeAt(y) /\ r2(y) \in SUBSET NodeAt(y)
          BY <4>1, <1>8, <1>11
        <5> QED BY <4>1, <5>1, <1>13
      <4>2. CASE \E q \in pairs : y = adr(q)
        <5>1. PICK q \in pairs : y = adr(q)
          BY <4>2
        <5> QED BY <5>1, <1>4, <1>7, <1>12
      <4> QED BY <4>1, <4>2, <1>1
    <3> HIDE DEF x
    <3>3. x \in Clusters'
      BY <3>1, <3>2, <1>10
    <3> QED BY <3>3 DEF x
  <2>4. ASSUME NEW x \in D PROVE x \in Clusters'
    BY <2>2, <2>3, <1>6
  <2> QED BY <2>1, <2>4
<1>15. \A x \in Stored : NodeAt(x)' = NodeAt(x)
  BY <1>8, <1>11
<1>16. \A y : \A p \in pairs : y = adr(p) => NodeAt(y)' = f(p) \cup g(p)
  BY <1>8, <1>12
<1>17. ASSUME NEW x \in Stored'
       PROVE  \E c \in D : NodeAt(x)' \subseteq c
  <2>1. CASE x \in Stored
    BY <2>1, <1>2, <1>3, <1>15
  <2>2. CASE \E p \in pairs : x = adr(p)
    <3>1. PICK p \in pairs : x = adr(p)
      BY <2>2
    <3>2. f(p) \cup g(p) \in D /\ NodeAt(x)' = f(p) \cup g(p)
      BY <3>1, <1>6, <1>16
    <3> QED BY <3>2
  <2> QED BY <2>1, <2>2, <1>1
<1>18. ASSUME NEW x \in Stored', NEW y \in Stored', NodeAt(x)' = NodeAt(y)'
       PROVE  x = y
  <2>1. CASE x \in Stored /\ y \in Stored
    BY <2>1, <1>2, <1>15, <1>18
  <2>2. ASSUME NEW z \in Stored, NEW p \in pairs, NodeAt(z)' = f(p) \cup g(p)
        PROVE  FALSE
    <3>1. NodeAt(z) = f(p) \cup g(p)
      BY <2>2, <1>15
    <3>2. f(p) \cup g(p) \in SUBSET NodeAt(z)
      BY <3>1
    <3> QED BY <3>2, <1>13
  <2>3. CASE \E p \in pairs : x = adr(p)
    <3>1. PICK p \in pairs : x = adr(p)
      BY <2>3
    <3>2. NodeAt(x)' = f(p) \cup g(p)
      BY <3>1, <1>16
    <3>3. y \notin Stored
      BY <3>2, <2>2, <1>18
    <3>4. PICK q \in pairs : y = adr(q)
      BY <3>3, <1>1
    <3>5. NodeAt(y)' = f(q) \cup g(q)
      BY <3>4, <1>16
    <3>6. f(p) \cup g(p) = f(q) \cup g(q) /\ f(p) # {}
      BY <3>2, <3>5, <1>4, <1>18
    <3>7. p = q
      BY <3>6, <1>4
    <3> QED BY <3>1, <3>4, <3>7
  <2>4. CASE x \in Stored /\ \E p \in pairs : y = adr(p)
    <3>1. PICK p \in pairs : y = adr(p)
      BY <2>4
    <3>2. NodeAt(y)' = f(p) \cup g(p)
      BY <3>1, <1>16
    <3> QED BY <3>2, <2>2, <2>4, <1>18
  <2> QED BY <2>1, <2>3, <2>4, <1>1
<1>19. ASSUME nodeCounter' = primCount - 1
       PROVE  NodeAt(0)' = Leaf
  <2>1. CASE nodeCounter = primCount - 1
    <3>1. 0 \in Stored
      BY <2>1, <1>2, SizesNat
    <3> QED BY <3>1, <2>1, <1>2, <1>15
  <2>2. CASE nodeCounter # primCount - 1
    <3>1. PICK p \in pairs : 0 = adr(p)
      BY <2>2, <1>1, <1>19
    <3>2. NodeAt(0)' = f(p) \cup g(p) /\ f(p) \cup g(p) \in D
      BY <3>1, <1>6, <1>16
    <3>3. Cardinality(D) = 1
      BY <1>1, <1>19, SizesNat
    <3>4. PICK c : D = {c}
      BY <3>3, <1>5, FS_Singleton
    <3>5. c \in SUBSET Leaf /\ \A x \in Leaf : x \in c
      BY <3>4, <1>3 DEF Partition
    <3> QED BY <3>2, <3>4, <3>5
  <2> QED BY <2>1, <2>2
<1>20. \A x, y \in Stored' : x # y => NodeAt(x)' # NodeAt(y)'
  BY <1>18
<1>22. Partition(Clusters)'
  BY <1>3, <1>14 DEF Partition
<1>23. Cardinality(Clusters)' = primCount - nodeCounter'
  BY <1>1, <1>14
<1> HIDE DEF l, r, l2, r2
<1>24. /\ \A a2 \in Stored' : \E c \in Clusters' : NodeAt(a2)' \subseteq c
       /\ (nodeCounter = primCount - 1 => NodeAt(0) = Leaf)'
  BY <1>14, <1>17, <1>19
<1>25. NodeInv'
  BY <1>1, <1>20, <1>22, <1>23, <1>24 DEF NodeInv
<1> QED BY <1>14, <1>25 DEF D

-----------------------------------------------------------------------------
(* How many clusters the array holds of a range: at most half a warp, and  *)
(* at most one for each code.                                              *)
LEMMA LanesRead ==
  ASSUME NEW a \in Nat, NEW b \in Nat, a < b
  PROVE  LET n == Min({b - a, Half})
         IN n \in Nat /\ n <= b - a /\ n <= Half /\ (n = b - a \/ n = Half)
<1> DEFINE n == Min({b - a, Half})
<1>1. b - a \in Nat /\ Half \in Nat
  BY SizesNat
<1>2. \E x \in {b - a, Half} : \A y \in {b - a, Half} : x <= y
  BY <1>1
<1>3. n \in {b - a, Half} /\ \A y \in {b - a, Half} : n <= y
  BY <1>2 DEF Min
<1> HIDE DEF n
<1>4. (n = b - a \/ n = Half) /\ n <= b - a /\ n <= Half
  BY <1>3
<1> QED BY <1>1, <1>4 DEF n

(* They are the cells at the start of the range.                           *)
LEMMA ClustersInFacts ==
  ASSUME NEW indices, NEW a \in Nat, NEW b \in Nat, a < b
  PROVE  LET cs == ClustersIn(indices, a, b)
         IN /\ Len(cs) \in Nat /\ Len(cs) <= Half /\ Len(cs) <= b - a
            /\ DOMAIN cs = 1 .. Len(cs)
            /\ \A k \in 1 .. Len(cs) : cs[k] = indices[a + k - 1]
<1> DEFINE cs == ClustersIn(indices, a, b)
           n == Min({b - a, Half})
           valid == {l \in Lanes(n) : indices[a + l] # InvalidValue}
           c == Cardinality(valid)
<1>1. n \in Nat /\ n <= b - a /\ n <= Half
  BY LanesRead
<1>2. cs = [k \in 1 .. c |-> indices[a + k - 1]]
  BY DEF ClustersIn
<1> HIDE DEF n
<1>3. valid \subseteq 0 .. n - 1
  BY DEF Lanes
<1> HIDE DEF valid
<1>4. c \in Nat /\ c <= n
  BY <1>1, <1>3, BallotNumbers
<1> HIDE DEF c, cs
<1>5. Len(cs) = c
  BY <1>2, <1>4
<1> QED BY <1>1, <1>2, <1>4, <1>5, SizesNat DEF cs

(* It is what the kernel reads.                                            *)
LEMMA ClustersOfIn ==
  /\ \A a, b : ClustersOf(a, b) = ClustersIn(nodeIndices, a, b)
  /\ \A a, b : ClustersOf(a, b)' = ClustersIn(nodeIndices', a, b)
BY DEF ClustersOf, ClustersIn

(* Clusters that start a range, with nothing valid behind them.            *)
LEMMA ClustersInAre ==
  ASSUME NEW indices, NEW a \in Nat, NEW b \in Nat, a < b, NEW m \in Nat,
         m <= Half, m <= b - a,
         \A l \in 0 .. m - 1 : indices[a + l] # InvalidValue,
         \A l \in m .. Half - 1 : l < b - a => indices[a + l] = InvalidValue
  PROVE  Len(ClustersIn(indices, a, b)) = m
<1> DEFINE n == Min({b - a, Half})
           valid == {l \in Lanes(n) : indices[a + l] # InvalidValue}
<1>1. n \in Nat /\ n <= b - a /\ n <= Half /\ (n = b - a \/ n = Half)
  BY LanesRead
<1>2. valid = 0 .. m - 1
  <2>1. valid = {l \in 0 .. n - 1 : indices[a + l] # InvalidValue}
    BY DEF Lanes
  <2> HIDE DEF n, valid
  <2>2. ASSUME NEW l \in 0 .. n - 1
        PROVE  indices[a + l] # InvalidValue <=> l \in 0 .. m - 1
    <3>1. l \in Nat /\ l < b - a /\ l < Half
      BY <1>1, SizesNat
    <3>2. l \in 0 .. m - 1 \/ l \in m .. Half - 1
      BY <3>1, SizesNat
    <3>3. l \in m .. Half - 1 => l \notin 0 .. m - 1
      BY <3>1, SizesNat
    <3> QED BY <3>1, <3>2, <3>3
  <2>3. 0 .. m - 1 \subseteq 0 .. n - 1
    BY <1>1, SizesNat
  <2> QED BY <2>1, <2>2, <2>3
<1>3. Cardinality(valid) = m
  <2>1. Cardinality(0 .. m - 1) = (m - 1) - 0 + 1
    BY FS_Interval
  <2> HIDE DEF valid
  <2> QED BY <2>1, <1>2
<1>4. ClustersIn(indices, a, b) = [k \in 1 .. Cardinality(valid) |-> indices[a + k - 1]]
  BY DEF ClustersIn
<1>5. ClustersIn(indices, a, b) = [k \in 1 .. m |-> indices[a + k - 1]]
  BY <1>3, <1>4
<1> QED BY <1>5

(* What is not touched stays.                                              *)
LEMMA ClustersInSame ==
  ASSUME NEW f, NEW g, NEW a \in Nat, NEW b \in Nat, a < b,
         \A x \in a .. b - 1 : f[x] = g[x]
  PROVE  ClustersIn(f, a, b) = ClustersIn(g, a, b)
<1> DEFINE n == Min({b - a, Half})
           valid(h) == {l \in Lanes(n) : h[a + l] # InvalidValue}
<1>1. n \in Nat /\ n <= b - a
  BY LanesRead
<1>2. valid(f) = valid(g)
  <2>1. \A l \in 0 .. n - 1 : a + l \in a .. b - 1
    <3> HIDE DEF n
    <3> QED BY <1>1
  <2>2. \A l \in 0 .. n - 1 : f[a + l] = g[a + l]
    BY <2>1
  <2> HIDE DEF n
  <2> QED BY <2>2 DEF Lanes
<1>3. /\ ClustersIn(f, a, b) = [k \in 1 .. Cardinality(valid(f)) |-> f[a + k - 1]]
      /\ ClustersIn(g, a, b) = [k \in 1 .. Cardinality(valid(g)) |-> g[a + k - 1]]
  BY DEF ClustersIn
<1>4. /\ Len(ClustersIn(f, a, b)) \in Nat /\ Len(ClustersIn(f, a, b)) <= b - a
      /\ DOMAIN ClustersIn(f, a, b) = 1 .. Len(ClustersIn(f, a, b))
  BY ClustersInFacts
<1> DEFINE c == Cardinality(valid(f))
<1>5. ClustersIn(f, a, b) = [k \in 1 .. c |-> f[a + k - 1]] /\ ClustersIn(g, a, b) = [k \in 1 .. c |-> g[a + k - 1]]
  BY <1>2, <1>3
<1> HIDE DEF c
<1>6. 1 .. c = 1 .. Len(ClustersIn(f, a, b))
  BY <1>4, <1>5
<1>7. \A k \in 1 .. c : f[a + k - 1] = g[a + k - 1]
  <2> SUFFICES ASSUME NEW k \in 1 .. Len(ClustersIn(f, a, b)) PROVE f[a + k - 1] = g[a + k - 1]
    BY <1>6
  <2>1. a + k - 1 \in a .. b - 1
    BY <1>4
  <2> QED BY <2>1
<1> QED BY <1>5, <1>7

(* A range whose leaves nobody has merged.                                 *)
LEMMA SinglesFull ==
  ASSUME NEW indices, NEW left, NEW a \in Nat, NEW b \in Nat, a < b, b <= primCount, b - a <= Half,
         \A x \in a .. b - 1 : indices[x] = {x}
  PROVE  FullIn(indices, left, a, b) <=> \A x \in a .. b - 1 : {x} \in left
<1> DEFINE m == b - a
           cs == [k \in 1 .. m |-> {a + k - 1}]
<1>1. m \in Nat /\ m <= Half /\ m <= b - a /\ \A x \in a .. b - 1 : x \in Leaf
  BY SizesNat DEF Leaf
<1>2. \A l \in 0 .. m - 1 : a + l \in a .. b - 1
  OBVIOUS
<1>3. \A l \in 0 .. m - 1 : indices[a + l] # InvalidValue
  <2> SUFFICES ASSUME NEW l \in 0 .. m - 1 PROVE indices[a + l] # InvalidValue
    OBVIOUS
  <2>1. indices[a + l] = {a + l} /\ {a + l} \in SUBSET Leaf
    BY <1>1, <1>2
  <2> QED BY <2>1, WarpAssumption
<1>4. ClustersIn(indices, a, b) = [k \in 1 .. m |-> indices[a + k - 1]]
  <2>1. \A l \in m .. Half - 1 : l < b - a => indices[a + l] = InvalidValue
    BY SizesNat
  <2> HIDE DEF m
  <2>2. m \in Nat /\ m <= Half /\ m <= b - a
    BY <1>1
  <2>3. Len(ClustersIn(indices, a, b)) = m
    BY <2>1, <2>2, <1>3, ClustersInAre
  <2>4. DOMAIN ClustersIn(indices, a, b) = 1 .. m
    BY <2>3, ClustersInFacts
  <2> DEFINE c == Cardinality({l \in Lanes(Min({b - a, Half})) : indices[a + l] # InvalidValue})
  <2>5. ClustersIn(indices, a, b) = [k \in 1 .. c |-> indices[a + k - 1]]
    BY DEF ClustersIn
  <2> HIDE DEF c
  <2>6. 1 .. c = 1 .. m
    BY <2>4, <2>5
  <2> QED BY <2>5, <2>6
<1>5. ClustersIn(indices, a, b) = cs
  <2>1. \A k \in 1 .. m : a + k - 1 \in a .. b - 1
    OBVIOUS
  <2> QED BY <2>1, <1>4
<1>6. /\ cs \in Seq(SUBSET Leaf) /\ Len(cs) = m
      /\ \A k \in 1 .. m : cs[k] = {a + k - 1} /\ a + k - 1 \in a .. b - 1
      /\ \A x \in a .. b - 1 : x - a + 1 \in 1 .. m /\ cs[x - a + 1] = {x}
  <2>1. \A k \in 1 .. m : a + k - 1 \in a .. b - 1
    OBVIOUS
  <2>2. \A k \in 1 .. m : {a + k - 1} \in SUBSET Leaf
    BY <2>1, <1>1
  <2>3. \A x \in a .. b - 1 : x - a + 1 \in 1 .. m /\ a + (x - a + 1) - 1 = x
    OBVIOUS
  <2>4. cs \in Seq(SUBSET Leaf) /\ Len(cs) = m
    <3>1. cs \in [1 .. m -> SUBSET Leaf]
      BY <2>2
    <3> HIDE DEF m
    <3> QED BY <3>1, <1>1
  <2>5. \A x \in a .. b - 1 : cs[x - a + 1] = {x}
    BY <2>3
  <2> QED BY <2>1, <2>3, <2>4, <2>5
<1> HIDE DEF cs
<1>7. ASSUME \A x \in a .. b - 1 : {x} \in left
      PROVE  SpreadOver(left, cs, a, b)
  <2>1. \A k \in 1 .. m : cs[k] \in left /\ cs[k] \subseteq a .. b - 1
    BY <1>6, <1>7
  <2>2. \A k, l \in 1 .. m : k # l => cs[k] \cap cs[l] = {}
    BY <1>6
  <2>3. \A x \in a .. b - 1 : \E k \in 1 .. m : x \in cs[k]
    BY <1>6
  <2> QED BY <2>1, <2>2, <2>3, <1>6 DEF SpreadOver
<1>8. ASSUME SpreadOver(left, cs, a, b), NEW x \in a .. b - 1
      PROVE  {x} \in left
  <2>1. \A k \in 1 .. m : cs[k] \in left
    BY <1>6, <1>8 DEF SpreadOver
  <2> QED BY <2>1, <1>6
<1> QED BY <1>5, <1>7, <1>8 DEF FullIn

(* The clusters of two ranges that meet.                                   *)
LEMMA SpreadJoins ==
  ASSUME NEW left, NEW cs, NEW ds, NEW a \in Nat, NEW m \in Nat, NEW b \in Nat, a <= m, m <= b,
         SpreadOver(left, cs, a, m), SpreadOver(left, ds, m, b)
  PROVE  /\ SpreadOver(left, cs \o ds, a, b) /\ Len(cs \o ds) = Len(cs) + Len(ds)
<1> DEFINE es == cs \o ds
           p == Len(cs)
           q == Len(ds)
<1>1. /\ cs \in Seq(SUBSET Leaf) /\ ds \in Seq(SUBSET Leaf)
      /\ \A k \in 1 .. p : cs[k] \in left /\ cs[k] \subseteq a .. m - 1
      /\ \A k, l \in 1 .. p : k # l => cs[k] \cap cs[l] = {}
      /\ \A x \in a .. m - 1 : \E k \in 1 .. p : x \in cs[k]
      /\ \A k \in 1 .. q : ds[k] \in left /\ ds[k] \subseteq m .. b - 1
      /\ \A k, l \in 1 .. q : k # l => ds[k] \cap ds[l] = {}
      /\ \A x \in m .. b - 1 : \E k \in 1 .. q : x \in ds[k]
  BY DEF SpreadOver
<1>2. /\ es \in Seq(SUBSET Leaf) /\ Len(es) = p + q /\ p \in Nat /\ q \in Nat
      /\ \A k \in 1 .. p : es[k] = cs[k]
      /\ \A k \in 1 .. q : es[p + k] = ds[k]
  BY <1>1
<1> HIDE DEF es, p, q
<1>3. \A k \in 1 .. p + q : k \in 1 .. p \/ (k - p \in 1 .. q /\ k = p + (k - p))
  BY <1>2
<1>4. /\ a .. m - 1 \subseteq a .. b - 1 /\ m .. b - 1 \subseteq a .. b - 1
      /\ (a .. m - 1) \cap (m .. b - 1) = {}
      /\ \A x \in a .. b - 1 : x \in a .. m - 1 \/ x \in m .. b - 1
  OBVIOUS
<1>5. \A k \in 1 .. p + q : es[k] \in left /\ es[k] \subseteq a .. b - 1
  <2> SUFFICES ASSUME NEW k \in 1 .. p + q PROVE es[k] \in left /\ es[k] \subseteq a .. b - 1
    OBVIOUS
  <2>1. CASE k \in 1 .. p
    <3>1. es[k] \in left /\ es[k] \subseteq a .. m - 1
      BY <2>1, <1>1, <1>2
    <3> QED BY <3>1, <1>4
  <2>2. CASE k - p \in 1 .. q /\ k = p + (k - p)
    <3>1. PICK l \in 1 .. q : k = p + l
      BY <2>2
    <3>2. es[k] \in left /\ es[k] \subseteq m .. b - 1
      BY <3>1, <1>1, <1>2
    <3> QED BY <3>2, <1>4
  <2> QED BY <2>1, <2>2, <1>3
<1>6. ASSUME NEW k \in 1 .. p + q, NEW l \in 1 .. p + q, k # l
      PROVE  es[k] \cap es[l] = {}
  <2>1. CASE k \in 1 .. p /\ l \in 1 .. p
    BY <2>1, <1>1, <1>2, <1>6
  <2>2. ASSUME NEW u \in 1 .. p, NEW v \in 1 .. q
        PROVE  es[u] \cap es[p + v] = {}
    <3>1. es[u] \subseteq a .. m - 1 /\ es[p + v] \subseteq m .. b - 1
      BY <1>1, <1>2
    <3> QED BY <3>1, <1>4
  <2>3. CASE k \in 1 .. p /\ l - p \in 1 .. q /\ l = p + (l - p)
    BY <2>2, <2>3
  <2>4. CASE l \in 1 .. p /\ k - p \in 1 .. q /\ k = p + (k - p)
    <3>1. es[l] \cap es[k] = {}
      BY <2>2, <2>4
    <3> QED BY <3>1
  <2>5. CASE k - p \in 1 .. q /\ k = p + (k - p) /\ l - p \in 1 .. q /\ l = p + (l - p)
    <3>1. PICK u \in 1 .. q : k = p + u
      BY <2>5
    <3>2. PICK v \in 1 .. q : l = p + v
      BY <2>5
    <3>3. u # v /\ es[k] = ds[u] /\ es[l] = ds[v]
      BY <3>1, <3>2, <1>2, <1>6
    <3> QED BY <3>3, <1>1
  <2> QED BY <2>1, <2>3, <2>4, <2>5, <1>3
<1>7. ASSUME NEW x \in a .. b - 1
      PROVE  \E k \in 1 .. p + q : x \in es[k]
  <2>1. CASE x \in a .. m - 1
    <3>1. PICK k \in 1 .. p : x \in cs[k]
      BY <2>1, <1>1
    <3>2. k \in 1 .. p + q /\ x \in es[k]
      BY <3>1, <1>2
    <3> QED BY <3>2
  <2>2. CASE x \in m .. b - 1
    <3>1. PICK k \in 1 .. q : x \in ds[k]
      BY <2>2, <1>1
    <3>2. p + k \in 1 .. p + q /\ x \in es[p + k]
      BY <3>1, <1>2
    <3> QED BY <3>2
  <2> QED BY <2>1, <2>2, <1>4
<1> QED BY <1>2, <1>5, <1>6, <1>7 DEF SpreadOver, es, p, q

(* Clusters that are still there are the clusters of the range still.      *)
LEMMA SpreadStays ==
  ASSUME NEW left, NEW rest, NEW cs, NEW a, NEW b, SpreadOver(left, cs, a, b),
         \A c \in left : c \subseteq a .. b - 1 => c \in rest
  PROVE  SpreadOver(rest, cs, a, b)
BY DEF SpreadOver

-----------------------------------------------------------------------------
(* Warps and what a step leaves alone.                                     *)
LEMMA LanesApart ==
  ASSUME NEW w \in Warp, NEW u \in Warp, NEW t \in LanesOf(w) \cap LanesOf(u)
  PROVE  w = u
<1>1. w \in Nat /\ u \in Nat /\ WarpSize \in Nat
  BY WarpAssumption DEF Warp
<1>2. \A x, y \in Nat : x < y => (x + 1) * WarpSize <= y * WarpSize
  BY <1>1
<1>3. /\ w * WarpSize <= t /\ t < (w + 1) * WarpSize /\ t \in Int
      /\ u * WarpSize <= t /\ t < (u + 1) * WarpSize
  <2>1. \A x \in Nat : x * WarpSize \in Int /\ (x + 1) * WarpSize \in Int
    BY <1>1
  <2> QED BY <2>1, <1>1 DEF LanesOf
<1>4. \A x \in Nat : x * WarpSize \in Int /\ (x + 1) * WarpSize \in Int
  BY <1>1
<1>5. ~(w < u)
  BY <1>1, <1>2, <1>3, <1>4
<1>6. ~(u < w)
  BY <1>1, <1>2, <1>3, <1>4
<1> QED BY <1>1, <1>5, <1>6

(* There are enough warps for all leaves.                                  *)
LEMMA EveryLeafHasWarp ==
  ASSUME NEW t \in Leaf
  PROVE  \E w \in Warp : t \in LanesOf(w)
<1> DEFINE w == t \div WarpSize
<1>1. /\ t \in Nat /\ WarpSize \in Nat /\ WarpSize > 0 /\ Warps \in Nat
      /\ t < WarpSize * Warps
  <2>1. WarpSize * Warps \in Nat
    BY WarpAssumption
  <2> QED BY <2>1, WarpAssumption, SizesNat DEF Leaf
<1>2. w \in Nat /\ w * WarpSize <= t /\ t < (w + 1) * WarpSize
  BY <1>1
<1> HIDE DEF w
<1>3. w < Warps
  <2>1. Warps <= w => WarpSize * Warps <= w * WarpSize
    BY <1>1, <1>2
  <2>2. WarpSize * Warps \in Nat /\ w * WarpSize \in Nat
    BY <1>1, <1>2
  <2> QED BY <2>1, <2>2, <1>1, <1>2
<1>4. w \in Warp /\ t \in LanesOf(w)
  <2>1. w * WarpSize \in Int /\ (w + 1) * WarpSize \in Int
    BY <1>1, <1>2
  <2> QED BY <2>1, <1>1, <1>2, <1>3 DEF Warp, LanesOf
<1> QED BY <1>4

(* The range a warp merges is one of those it has to.                      *)
LEMMA CurrentIn ==
  ASSUME WarpInv, NEW w \in Warp, merging[w] # {}
  PROVE  Current(w) \in merging[w]
<1>1. merging[w] \in SUBSET Nat
  BY SizesNat DEF WarpInv, Leaf
<1>2. \E x \in merging[w] : \A y \in merging[w] : x <= y
  BY <1>1, Smallest
<1> QED BY <1>2 DEF Current, Min

(* The last range is the one of all codes.                                 *)
LEMMA LastWhole ==
  ASSUME ClimbInv, NEW t \in Leaf
  PROVE  /\ Size(t) = primCount <=> Whole(t)
         /\ Size(t) \in Nat
BY RangeFacts, SizesNat DEF Size, Whole

(* Only a round of merging changes the clusters.                           *)
LEMMA NodesSame ==
  ASSUME NodeInv, UNCHANGED <<scratchNodes, nodeCounter>>
  PROVE  NodeInv' /\ Clusters' = Clusters
<1>1. Stored' = Stored /\ (\A a : NodeAt(a)' = NodeAt(a)) /\ Clusters' = Clusters
  BY DEF Stored, NodeAt, Clusters
<1>2. /\ \A a \in Stored' : \E c \in Clusters' : NodeAt(a)' \subseteq c
      /\ \A a, b \in Stored' : a # b => NodeAt(a)' # NodeAt(b)'
      /\ (nodeCounter = primCount - 1 => NodeAt(0) = Leaf)'
  BY <1>1 DEF NodeInv
<1>3. Partition(Clusters)' /\ Cardinality(Clusters)' = primCount - nodeCounter'
  BY <1>1 DEF NodeInv, Partition
<1> QED BY <1>1, <1>2, <1>3 DEF NodeInv

(* Threads that have the whole range may leave.                            *)
LEMMA QuietClimb ==
  ASSUME ClimbInv, UNCHANGED <<range, updateCounters, differ>>,
         active' \subseteq active, \A t \in active \ active' : Whole(t)
  PROVE  ClimbInv' /\ Top' = Top
<1>1. Top' = Top
  BY DEF Top
<1>2. /\ \A u : Whole(u)' <=> Whole(u)
      /\ \A u : findParent(range[u])' = findParent(range[u]) /\ FarEnd(range[u])' = FarEnd(range[u])
      /\ \A u, x : Covers(u, x)' <=> Covers(u, x)
  BY DEF Whole, findParent, FarEnd, JoinsRight, Covers
<1>3. \A u, p : WaitsAt(u, p)' <=> WaitsAt(u, p)
  BY <1>1, <1>2 DEF WaitsAt
<1>4. /\ \A p \in Leaf : \A t \in Leaf : WaitsAt(t, p)' => updateCounters'[p] = FarEnd(range[t])'
      /\ \A p \in 0 .. primCount - 2 : updateCounters'[p] # InvalidValue =>
           \/ \E t \in Top' : range'[t].i <= p /\ p + 1 < range'[t].j
           \/ \E t \in Leaf : WaitsAt(t, p)'
  BY <1>1, <1>2, <1>3 DEF ClimbInv
<1>5. /\ range' \in [Leaf -> Ranges] /\ active' \in SUBSET Leaf
      /\ updateCounters' \in [Leaf -> (0 .. primCount) \cup {InvalidValue}]
      /\ \A t \in Leaf : Covers(t, t)'
      /\ active' \subseteq Top'
      /\ \A x \in Leaf : \E t \in Top' : Covers(t, x)'
      /\ \A t, u \in Top' : t # u => range'[t].j <= range'[u].i \/ range'[u].j <= range'[t].i
  BY <1>1, <1>2 DEF ClimbInv
<1> QED BY <1>1, <1>4, <1>5 DEF ClimbInv, Ranges

(* When one thread has the whole range, no thread will look at a counter.  *)
LEMMA CountersSpent ==
  ASSUME ClimbInv, NEW t \in active, Whole(t), UNCHANGED <<range, active, differ>>,
         updateCounters' \in [Leaf -> (0 .. primCount) \cup {InvalidValue}]
  PROVE  ClimbInv' /\ Top' = Top
<1>1. Top' = Top
  BY DEF Top
<1>2. /\ \A u : Whole(u)' <=> Whole(u)
      /\ \A u, x : Covers(u, x)' <=> Covers(u, x)
  BY DEF Whole, Covers
<1>3. t \in Top /\ \A u \in Top : u = t
  <2>1. t \in Top
    BY DEF ClimbInv
  <2>2. ASSUME NEW u \in Top, u # t PROVE FALSE
    <3>1. range[t].i = 0 /\ range[t].j = primCount
      BY DEF Whole
    <3>2. range[t].j <= range[u].i \/ range[u].j <= range[t].i
      BY <2>1, <2>2 DEF ClimbInv
    <3>3. range[u].i \in Nat /\ range[u].j \in Nat /\ range[u].i < range[u].j /\ range[u].j <= primCount
      BY RangeFacts DEF Top
    <3> QED BY <3>1, <3>2, <3>3, SizesNat
  <2> QED BY <2>1, <2>2
<1>4. \A u, p : ~WaitsAt(u, p)'
  BY <1>1, <1>2, <1>3 DEF WaitsAt
<1>5. \A p \in 0 .. primCount - 2 : \E u \in Top' : range'[u].i <= p /\ p + 1 < range'[u].j
  <2>1. range'[t].i = 0 /\ range'[t].j = primCount /\ t \in Top'
    BY <1>1, <1>3 DEF Whole
  <2>2. \A p \in 0 .. primCount - 2 : 0 <= p /\ p + 1 < primCount
    BY SizesNat
  <2> QED BY <2>1, <2>2
<1>6. /\ range' \in [Leaf -> Ranges] /\ active' \in SUBSET Leaf
      /\ \A u \in Leaf : Covers(u, u)'
      /\ active' \subseteq Top'
      /\ \A x \in Leaf : \E u \in Top' : Covers(u, x)'
      /\ \A u, v \in Top' : u # v => range'[u].j <= range'[v].i \/ range'[v].j <= range'[u].i
  BY <1>1, <1>2 DEF ClimbInv
<1> QED BY <1>1, <1>4, <1>5, <1>6 DEF ClimbInv, Ranges

(* What is said of a warp is about its own threads.                        *)
LEMMA WarpSame ==
  ASSUME NEW w \in Warp, WarpOk(w), place'[w] = place[w], climbing'[w] = climbing[w],
         merging'[w] = merging[w], LanesOf(w) \cap active' = LanesOf(w) \cap active,
         \A t \in LanesOf(w) \cap active : range'[t] = range[t]
  PROVE  WarpOk(w)'
<1>1. \A t \in LanesOf(w) \cap active : (Whole(t)' <=> Whole(t)) /\ Size(t)' = Size(t)
  BY DEF Whole, Size
<1>2. /\ \A t \in merging'[w] : Size(t)' > Half \/ Whole(t)'
      /\ \A t \in climbing'[w] : ~Whole(t)'
  BY <1>1 DEF WarpOk
<1> QED BY <1>2 DEF WarpOk

(* What is said of a range is about its own codes and their clusters.      *)
LEMMA PieceFrame ==
  ASSUME ClimbInv, NEW w \in Warp, NEW t \in Leaf, PieceInv(w, t), range'[t] = range[t],
         \A c \in Clusters : c \subseteq range[t].i .. range[t].j - 1 => c \in Clusters',
         \A x \in range[t].i .. range[t].j - 1 : nodeIndices'[x] = nodeIndices[x],
         Loaded(w, t)' <=> Loaded(w, t), Loaded(w, t) => held'[w] = held[w],
         Pending(w, t)' <=> Pending(w, t)
  PROVE  PieceInv(w, t)'
<1> DEFINE i == range[t].i
           s == range[t].s
           j == range[t].j
<1>1. i \in Nat /\ s \in Nat /\ j \in Nat /\ i < j /\ j <= primCount
  BY RangeFacts
<1>2. PieceInv(w, t) <=>
        IF Loaded(w, t)
        THEN Len(held[w]) <= WarpSize /\ SpreadOver(Clusters, held[w], i, j)
        ELSE IF Pending(w, t)
        THEN /\ i < s /\ s < j
             /\ FullIn(nodeIndices, Clusters, i, s) /\ FullIn(nodeIndices, Clusters, s, j)
        ELSE IF i = 0 /\ j = primCount THEN Leaf \in Clusters
        ELSE FullIn(nodeIndices, Clusters, i, j)
  BY DEF PieceInv, Full, Whole
<1>3. PieceInv(w, t)' <=>
        IF Loaded(w, t)'
        THEN Len(held'[w]) <= WarpSize /\ SpreadOver(Clusters', held'[w], i, j)
        ELSE IF Pending(w, t)'
        THEN /\ i < s /\ s < j
             /\ FullIn(nodeIndices', Clusters', i, s) /\ FullIn(nodeIndices', Clusters', s, j)
        ELSE IF i = 0 /\ j = primCount THEN Leaf \in Clusters'
        ELSE FullIn(nodeIndices', Clusters', i, j)
  BY DEF PieceInv, Full, Whole
<1> HIDE DEF i, s, j
<1>4. /\ \A c \in Clusters : c \subseteq i .. j - 1 => c \in Clusters'
      /\ \A x \in i .. j - 1 : nodeIndices'[x] = nodeIndices[x]
  BY DEF i, j
<1>5. ASSUME NEW a \in Nat, NEW b \in Nat, i <= a, a < b, b <= j, NEW cs, SpreadOver(Clusters, cs, a, b)
      PROVE  SpreadOver(Clusters', cs, a, b)
  <2>1. a .. b - 1 \subseteq i .. j - 1
    BY <1>1, <1>5
  <2>2. \A c \in Clusters : c \subseteq a .. b - 1 => c \in Clusters'
    BY <2>1, <1>4
  <2> QED BY <2>2, <1>5, SpreadStays
<1>6. ASSUME NEW a \in Nat, NEW b \in Nat, i <= a, a < b, b <= j, FullIn(nodeIndices, Clusters, a, b)
      PROVE  FullIn(nodeIndices', Clusters', a, b)
  <2>1. a .. b - 1 \subseteq i .. j - 1
    BY <1>1, <1>6
  <2>2. \A x \in a .. b - 1 : nodeIndices'[x] = nodeIndices[x]
    BY <2>1, <1>4
  <2>3. ClustersIn(nodeIndices', a, b) = ClustersIn(nodeIndices, a, b)
    BY <2>2, <1>6, ClustersInSame
  <2> QED BY <2>3, <1>5, <1>6 DEF FullIn
<1>7. CASE Loaded(w, t)
  BY <1>7, <1>1, <1>2, <1>3, <1>5
<1>8. CASE ~Loaded(w, t) /\ Pending(w, t)
  BY <1>8, <1>1, <1>2, <1>3, <1>6
<1>9. CASE ~Loaded(w, t) /\ ~Pending(w, t) /\ i = 0 /\ j = primCount
  <2>1. Leaf \subseteq i .. j - 1 /\ Leaf \in Clusters
    BY <1>9, <1>2 DEF Leaf
  <2>2. Leaf \in Clusters'
    BY <2>1, <1>4
  <2> QED BY <2>2, <1>9, <1>3
<1>10. CASE ~Loaded(w, t) /\ ~Pending(w, t) /\ ~(i = 0 /\ j = primCount)
  BY <1>10, <1>1, <1>2, <1>3, <1>6
<1> QED BY <1>7, <1>8, <1>9, <1>10

(* Other threads have other codes.                                         *)
LEMMA OthersApart ==
  ASSUME ClimbInv, NEW t \in Top, NEW u \in Top, t # u
  PROVE  /\ (range[u].i .. range[u].j - 1) \cap (range[t].i .. range[t].j - 1) = {}
         /\ ~Whole(u)
<1>1. t \in Leaf /\ u \in Leaf
  BY DEF Top
<1>2. range[t].j <= range[u].i \/ range[u].j <= range[t].i
  BY DEF ClimbInv
<1>3. /\ range[t].i \in Nat /\ range[t].j \in Nat /\ range[t].i < range[t].j /\ range[t].j <= primCount
      /\ range[u].i \in Nat /\ range[u].j \in Nat /\ range[u].i < range[u].j /\ range[u].j <= primCount
  BY <1>1, RangeFacts
<1> DEFINE a == range[t].i
           b == range[t].j
           c == range[u].i
           d == range[u].j
<1> HIDE DEF a, b, c, d
<1>4. (c .. d - 1) \cap (a .. b - 1) = {} /\ ~(c = 0 /\ d = primCount)
  <2>1. b <= c \/ d <= a
    BY <1>2 DEF a, b, c, d
  <2>2. /\ a \in Nat /\ b \in Nat /\ a < b /\ b <= primCount
        /\ c \in Nat /\ d \in Nat /\ c < d /\ d <= primCount
    BY <1>3 DEF a, b, c, d
  <2>3. ASSUME NEW x \in c .. d - 1 PROVE x \notin a .. b - 1
    BY <2>1, <2>2
  <2>4. ~(c = 0 /\ d = primCount)
    BY <2>1, <2>2, SizesNat
  <2> QED BY <2>3, <2>4
<1> QED BY <1>4 DEF Whole, a, b, c, d

-----------------------------------------------------------------------------
(* The invariant holds at first.                                           *)
LEMMA InitInv ==
  ASSUME Init
  PROVE  IInv /\ Clusters = {{r} : r \in Leaf}
<1>1. \A t \in Leaf : range[t] = [i |-> t, s |-> t, j |-> t + 1]
  BY DEF Init
<1>2. \A t \in Leaf : /\ range[t].i = t /\ range[t].s = t /\ range[t].j = t + 1
                      /\ t \in Nat /\ t <= primCount - 1 /\ ~Whole(t)
  <2> SUFFICES ASSUME NEW t \in Leaf
               PROVE  /\ range[t].i = t /\ range[t].s = t /\ range[t].j = t + 1
                      /\ t \in Nat /\ t <= primCount - 1 /\ ~Whole(t)
    OBVIOUS
  <2>1. range[t].i = t /\ range[t].s = t /\ range[t].j = t + 1
    <3> DEFINE e == t + 1
    <3>1. range[t] = [i |-> t, s |-> t, j |-> e]
      BY <1>1
    <3> HIDE DEF e
    <3>2. range[t].i = t /\ range[t].s = t /\ range[t].j = e
      BY <3>1
    <3> QED BY <3>2 DEF e
  <2>2. t \in Nat /\ t <= primCount - 1
    BY SizesNat DEF Leaf
  <2> QED BY <2>1, <2>2, SizesNat DEF Whole
<1>3. Top = Leaf
  <2> SUFFICES ASSUME NEW t \in Leaf, NEW u \in Leaf, Inside(range[t], range[u])
               PROVE  u = t
    BY DEF Top
  <2> QED BY <1>2 DEF Inside
<1>4. ClimbInv
  <2>1. range \in [Leaf -> Ranges]
    <3>1. \A t \in Leaf : t \in 0 .. primCount - 1 /\ t + 1 \in 1 .. primCount
      BY SizesNat DEF Leaf
    <3> QED BY <3>1 DEF Init, Ranges
  <2>2. \A t \in Leaf : Covers(t, t)
    BY <1>2 DEF Covers
  <2>3. \A t, u \in Top : t # u => range[t].j <= range[u].i \/ range[u].j <= range[t].i
    BY <1>2, <1>3
  <2>4. active = Leaf /\ updateCounters = [a \in Leaf |-> InvalidValue]
    BY DEF Init
  <2>5. \A t, p : ~WaitsAt(t, p)
    BY <2>4, <1>3 DEF WaitsAt
  <2>6. \A p \in 0 .. primCount - 2 : updateCounters[p] = InvalidValue
    BY <2>4, SizesNat DEF Leaf
  <2> QED BY <2>1, <2>2, <2>3, <2>4, <2>5, <2>6, <1>3 DEF ClimbInv
<1>5. WarpInv
  <2>1. /\ active = Leaf
        /\ \A w \in Warp : place[w] = "climb" /\ climbing[w] = LanesOf(w) \cap Leaf /\ merging[w] = {}
    BY DEF Init
  <2>2. \A w \in Warp : WarpOk(w)
    BY <2>1, <1>2 DEF WarpOk
  <2>3. <<>> \in Seq(SUBSET Leaf)
    OBVIOUS
  <2> QED BY <2>2, <2>3 DEF Init, WarpInv
<1>6. Stored = {} /\ scratchNodes \in [0 .. primCount - 2 -> {<<>>}]
  BY DEF Init, Stored
<1>7. Clusters = {{r} : r \in Leaf}
  BY <1>6 DEF Clusters
<1>8. ClusterInv
  <2>1. nodeIndices \in [Leaf -> (SUBSET Leaf) \cup {InvalidValue}] /\ \A x \in Leaf : nodeIndices[x] = {x}
    BY DEF Init
  <2>2. \A t \in Top : Small(range[t]) => \A x \in range[t].i .. range[t].j - 1 : nodeIndices[x] = {x}
    <3> SUFFICES ASSUME NEW t \in Leaf, NEW x \in range[t].i .. range[t].j - 1
                 PROVE  nodeIndices[x] = {x}
      BY <1>3
    <3>1. x = t
      BY <1>2
    <3> QED BY <3>1, <2>1
  <2>3. ASSUME NEW w \in Warp, NEW t \in LanesOf(w) \cap Top
        PROVE  PieceInv(w, t)
    <3>1. t \in Leaf /\ place[w] = "climb" /\ climbing[w] = LanesOf(w) \cap Leaf /\ merging[w] = {}
      BY <1>3 DEF Init
    <3>2. ~Loaded(w, t) /\ ~Pending(w, t) /\ ~Whole(t)
      BY <3>1, <1>2 DEF Loaded, Pending
    <3>3. FullIn(nodeIndices, Clusters, t, t + 1)
      <4>3. t \in Nat /\ t + 1 \in Nat /\ t < t + 1 /\ t + 1 <= primCount /\ (t + 1) - t <= Half
        BY <3>1, <1>2, SizesNat
      <4> DEFINE b == t + 1
      <4>4. /\ \A x \in t .. b - 1 : nodeIndices[x] = {x}
            /\ \A x \in t .. b - 1 : {x} \in Clusters
        <5>1. \A x : x \in t .. b - 1 => x = t
          BY <3>1, <1>2
        <5>2. nodeIndices[t] = {t} /\ {t} \in Clusters
          BY <3>1, <2>1, <1>7
        <5> HIDE DEF b
        <5> QED BY <5>1, <5>2
      <4>5. t \in Nat /\ b \in Nat /\ t < b /\ b <= primCount /\ b - t <= Half
        BY <4>3
      <4> HIDE DEF b
      <4>6. FullIn(nodeIndices, Clusters, t, b)
        BY <4>4, <4>5, SinglesFull
      <4> QED BY <4>6 DEF b
    <3>4. Full(range[t].i, range[t].j)
      BY <3>1, <3>3, <1>2 DEF Full
    <3> QED BY <3>2, <3>4 DEF PieceInv
  <2> QED BY <2>1, <2>2, <2>3 DEF ClusterInv
<1>9. NodeInv
  <2>1. nodeCounter = 0 /\ primCount - 1 - 0 .. primCount - 2 = {} /\ 0 # primCount - 1 /\ 0 \in 0 .. primCount - 1
    BY SizesNat DEF Init
  <2>2. Partition(Clusters)
    BY <1>7 DEF Partition
  <2>3. Cardinality(Clusters) = primCount
    <3> DEFINE one == [r \in Leaf |-> {r}]
    <3>1. one \in [Leaf -> Clusters]
      BY <1>7
    <3>2. /\ \A r \in Leaf : one[r] = {r}
          /\ \A c \in Clusters : \E r \in Leaf : one[r] = c
      BY <1>7
    <3> HIDE DEF one
    <3>3. \A q, r \in Leaf : one[q] = one[r] => q = r
      BY <3>2
    <3>4. one \in Bijection(Leaf, Clusters)
      BY <3>1, <3>2, <3>3 DEF Bijection, Injection, Surjection, IsInjective
    <3>5. IsFiniteSet(Leaf) /\ Cardinality(Leaf) = primCount
      BY FS_Interval, SizesNat DEF Leaf
    <3>6. ExistsBijection(Leaf, Clusters)
      BY <3>4 DEF ExistsBijection
    <3> QED BY <3>5, <3>6, FS_Bijection
  <2> QED BY <2>1, <2>2, <2>3, <1>6, SizesNat DEF NodeInv
<1> QED BY <1>4, <1>5, <1>7, <1>8, <1>9 DEF IInv

-----------------------------------------------------------------------------
(* The threads of a warp that waits for a load or climbs.                  *)
LEMMA NotLoaded ==
  ASSUME WarpInv, NEW w \in Warp, NEW t
  PROVE  /\ Loaded(w, t) => t \in merging[w] /\ t \in active /\ t \in LanesOf(w)
         /\ t \notin active => ~Loaded(w, t) /\ ~Pending(w, t)
<1>1. merging[w] \subseteq LanesOf(w) \cap active /\ (place[w] = "cluster" => merging[w] # {})
  BY DEF WarpInv, WarpOk
<1> QED BY <1>1, CurrentIn DEF Loaded, Pending

(* The lanes of a warp climb: one leaves its range for its sibling.        *)
LEMMA LeaveKeeps ==
  ASSUME IInv, NEW w \in Warp, NEW t \in climbing[w], Climb(w, t),
         updateCounters[findParent(range[t])] = InvalidValue
  PROVE  IInv' /\ Clusters' = Clusters
<1>1. ClimbInv /\ WarpInv /\ ClusterInv /\ NodeInv
  BY DEF IInv
<1>2. /\ place[w] = "climb" /\ merging[w] = {} /\ t \in active /\ t \in LanesOf(w) /\ ~Whole(t) /\ t \in Leaf
  BY <1>1 DEF WarpInv, WarpOk, ClimbInv
<1>3. /\ updateCounters' = [updateCounters EXCEPT ![findParent(range[t])] = FarEnd(range[t])]
      /\ active' = active \ {t}
      /\ climbing' = [climbing EXCEPT ![w] = @ \ {t}]
      /\ UNCHANGED <<range, differ, place, merging, held, nodeIndices, pairIndices, scratchNodes, nodeCounter>>
  BY DEF Climb
<1>4. ClimbInv' /\ Top' = Top
  <2>1. Top' = Top
    BY <1>3 DEF Top
  <2> QED BY <2>1, <1>1, <1>2, <1>3, LeaveKeepsClimb
<1>5. NodeInv' /\ Clusters' = Clusters
  BY <1>1, <1>3, NodesSame
<1>6. /\ climbing'[w] = climbing[w] \ {t}
      /\ \A u \in Warp : u # w => climbing'[u] = climbing[u]
      /\ climbing' \in [Warp -> SUBSET Leaf]
  BY <1>1, <1>3 DEF WarpInv
<1>7. \A u \in Warp : u # w => t \notin LanesOf(u)
  BY <1>2, LanesApart
<1>8. WarpInv'
  <2>1. ASSUME NEW u \in Warp PROVE WarpOk(u)'
    <3>1. WarpOk(u)
      BY <1>1 DEF WarpInv
    <3>2. CASE u # w
      BY <3>1, <3>2, <1>3, <1>6, <1>7, WarpSame
    <3>3. CASE u = w
      <4>1. \A x : Whole(x)' <=> Whole(x)
        BY <1>3 DEF Whole
      <4>2. /\ climbing'[w] \subseteq LanesOf(w) \cap active'
            /\ \A x \in climbing'[w] : ~Whole(x)'
        BY <3>1, <3>3, <4>1, <1>3, <1>6 DEF WarpOk
      <4> QED BY <3>3, <4>2, <1>2, <1>3 DEF WarpOk
    <3> QED BY <3>2, <3>3
  <2> QED BY <2>1, <1>1, <1>3, <1>6 DEF WarpInv
<1>9. ClusterInv'
  <2>1. ASSUME NEW u \in Warp, NEW x \in LanesOf(u) \cap Top
        PROVE  PieceInv(u, x)'
    <3>1. PieceInv(u, x) /\ x \in Leaf
      BY <1>1 DEF ClusterInv, Top
    <3>2. Loaded(u, x)' <=> Loaded(u, x)
      BY <1>3 DEF Loaded, Current
    <3>3. Pending(u, x)' <=> Pending(u, x)
      <4>1. CASE u # w
        BY <4>1, <1>3, <1>6, <1>7 DEF Pending
      <4>2. CASE u = w
        BY <4>2, <1>2, <1>3, <1>6 DEF Pending
      <4> QED BY <4>1, <4>2
    <3> QED BY <3>1, <3>2, <3>3, <1>1, <1>3, <1>5, PieceFrame
  <2> QED BY <2>1, <1>1, <1>3, <1>4 DEF ClusterInv, Small
<1> QED BY <1>4, <1>5, <1>8, <1>9 DEF IInv

(* The other takes its range over.                                         *)
LEMMA JoinKeeps ==
  ASSUME IInv, NEW w \in Warp, NEW t \in climbing[w], Climb(w, t),
         updateCounters[findParent(range[t])] # InvalidValue
  PROVE  IInv' /\ Clusters' = Clusters
<1>1. ClimbInv /\ WarpInv /\ ClusterInv /\ NodeInv
  BY DEF IInv
<1>2. /\ place[w] = "climb" /\ merging[w] = {} /\ t \in active /\ t \in LanesOf(w) /\ ~Whole(t)
      /\ t \in Leaf /\ t \in Top
  BY <1>1 DEF WarpInv, WarpOk, ClimbInv
<1>3. /\ updateCounters' = [updateCounters EXCEPT ![findParent(range[t])] = FarEnd(range[t])]
      /\ range' = [range EXCEPT ![t] = Grown(@, updateCounters[findParent(range[t])])]
      /\ climbing' = [climbing EXCEPT ![w] = @ \ {t}]
      /\ UNCHANGED <<active, differ, place, merging, held, nodeIndices, pairIndices, scratchNodes, nodeCounter>>
  BY DEF Climb
<1>4. ClimbInv' /\ range'[t].i < range'[t].s /\ range'[t].s < range'[t].j
  BY <1>1, <1>2, <1>3, JoinKeepsClimb
<1>5. PICK v \in Top \ active :
        /\ Top' = Top \ {v} /\ ~Whole(v)
        /\ \/ /\ range'[t].i = range[t].i /\ range'[t].s = range[t].j
              /\ range'[t].s = range[v].i /\ range'[t].j = range[v].j
           \/ /\ range'[t].i = range[v].i /\ range'[t].s = range[v].j
              /\ range'[t].s = range[t].i /\ range'[t].j = range[t].j
  BY <1>1, <1>2, <1>3, JoinKeepsClimb
<1>6. NodeInv' /\ Clusters' = Clusters
  BY <1>1, <1>3, NodesSame
<1>7. /\ climbing'[w] = climbing[w] \ {t}
      /\ \A u \in Warp : u # w => climbing'[u] = climbing[u]
      /\ climbing' \in [Warp -> SUBSET Leaf]
      /\ \A x : x # t => range'[x] = range[x]
  BY <1>1, <1>3 DEF WarpInv
<1>8. \A u \in Warp : u # w => t \notin LanesOf(u)
  BY <1>2, LanesApart
<1>9. WarpInv'
  <2>1. ASSUME NEW u \in Warp PROVE WarpOk(u)'
    <3>1. WarpOk(u)
      BY <1>1 DEF WarpInv
    <3>2. CASE u # w
      BY <3>1, <3>2, <1>3, <1>7, <1>8, WarpSame
    <3>3. CASE u = w
      <4>1. \A x : x # t => (Whole(x)' <=> Whole(x))
        BY <1>7 DEF Whole
      <4>2. /\ climbing'[w] \subseteq LanesOf(w) \cap active'
            /\ \A x \in climbing'[w] : ~Whole(x)'
        BY <3>1, <3>3, <4>1, <1>3, <1>7 DEF WarpOk
      <4> QED BY <3>3, <4>2, <1>2, <1>3 DEF WarpOk
    <3> QED BY <3>2, <3>3
  <2> QED BY <2>1, <1>1, <1>3, <1>7 DEF WarpInv
<1>10. Full(range[t].i, range[t].j) /\ Full(range[v].i, range[v].j)
  <2>1. PieceInv(w, t)
    BY <1>1, <1>2 DEF ClusterInv
  <2>2. ~Loaded(w, t) /\ ~Pending(w, t)
    BY <1>2 DEF Loaded, Pending
  <2>3. v \in Leaf
    BY DEF Top
  <2>4. PICK u \in Warp : v \in LanesOf(u)
    BY <2>3, EveryLeafHasWarp
  <2>5. PieceInv(u, v)
    BY <2>4, <1>1 DEF ClusterInv
  <2>6. ~Loaded(u, v) /\ ~Pending(u, v)
    BY <1>1, <1>5, NotLoaded
  <2> QED BY <2>1, <2>2, <2>5, <2>6, <1>2, <1>5 DEF PieceInv
<1>11. ClusterInv'
  <2>1. ASSUME NEW u \in Warp, NEW x \in LanesOf(u) \cap Top, x # t
        PROVE  PieceInv(u, x)'
    <3>1. PieceInv(u, x) /\ x \in Leaf /\ range'[x] = range[x]
      BY <2>1, <1>1, <1>7 DEF ClusterInv, Top
    <3>2. Loaded(u, x)' <=> Loaded(u, x)
      BY <1>3 DEF Loaded, Current
    <3>3. Pending(u, x)' <=> Pending(u, x)
      <4>1. CASE u # w
        BY <4>1, <1>3, <1>7 DEF Pending
      <4>2. CASE u = w
        BY <4>2, <2>1, <1>2, <1>3, <1>7 DEF Pending
      <4> QED BY <4>1, <4>2
    <3> QED BY <3>1, <3>2, <3>3, <1>1, <1>3, <1>6, PieceFrame
  <2>2. ASSUME NEW u \in Warp, t \in LanesOf(u)
        PROVE  PieceInv(u, t)'
    <3>1. u = w
      BY <2>2, <1>2, LanesApart
    <3>2. ~Loaded(w, t)' /\ Pending(w, t)'
      BY <1>2, <1>3, <1>7 DEF Loaded, Pending
    <3>3. /\ FullIn(nodeIndices, Clusters, range'[t].i, range'[t].s)
          /\ FullIn(nodeIndices, Clusters, range'[t].s, range'[t].j)
      BY <1>5, <1>10 DEF Full
    <3>4. PieceInv(w, t)' <=> /\ range'[t].i < range'[t].s /\ range'[t].s < range'[t].j
                              /\ FullIn(nodeIndices', Clusters', range'[t].i, range'[t].s)
                              /\ FullIn(nodeIndices', Clusters', range'[t].s, range'[t].j)
      BY <3>2 DEF PieceInv, Full
    <3> QED BY <3>1, <3>3, <3>4, <1>3, <1>4, <1>6
  <2>3. ASSUME NEW x \in Top', Small(range'[x]), NEW y \in range'[x].i .. range'[x].j - 1
        PROVE  nodeIndices'[y] = {y}
    <3>1. x \in Top /\ x \in Leaf
      BY <1>5 DEF Top
    <3>2. CASE x # t
      <4>1. range'[x] = range[x]
        BY <3>2, <1>7
      <4> QED BY <4>1, <3>1, <2>3, <1>1, <1>3 DEF ClusterInv
    <3>3. CASE x = t
      <4>1. v \in Leaf /\ v \in Top
        BY DEF Top
      <4>2. /\ range[t].i \in Nat /\ range[t].j \in Nat /\ range[v].i \in Nat /\ range[v].j \in Nat
            /\ range[t].i < range[t].j /\ range[v].i < range[v].j
        BY <4>1, <1>1, <1>2, RangeFacts
      <4>3. /\ Small(range[t]) /\ Small(range[v])
            /\ y \in range[t].i .. range[t].j - 1 \/ y \in range[v].i .. range[v].j - 1
        <5> DEFINE a == range[t].i
                   b == range[t].j
                   c == range[v].i
                   d == range[v].j
                   e == range'[t].i
                   f == range'[t].j
        <5>1. /\ (e = a /\ b = c /\ f = d) \/ (e = c /\ d = a /\ f = b)
              /\ a \in Nat /\ b \in Nat /\ c \in Nat /\ d \in Nat /\ a < b /\ c < d
          BY <4>2, <1>5
        <5>2. f - e <= Half /\ f - e < primCount /\ y \in e .. f - 1
          BY <3>3, <2>3 DEF Small
        <5> HIDE DEF a, b, c, d, e, f
        <5>3. b - a <= Half /\ b - a < primCount /\ d - c <= Half /\ d - c < primCount
          BY <5>1, <5>2, SizesNat
        <5>4. y \in a .. b - 1 \/ y \in c .. d - 1
          BY <5>1, <5>2
        <5> QED BY <5>3, <5>4 DEF Small, a, b, c, d
      <4> QED BY <4>1, <4>3, <1>1, <1>2, <1>3 DEF ClusterInv
    <3> QED BY <3>2, <3>3
  <2>4. \A u \in Warp : \A x \in LanesOf(u) \cap Top' : PieceInv(u, x)'
    BY <2>1, <2>2, <1>5
  <2> QED BY <2>3, <2>4, <1>1, <1>3 DEF ClusterInv
<1> QED BY <1>4, <1>6, <1>9, <1>11 DEF IInv

-----------------------------------------------------------------------------
(* The ballot.                                                             *)
LEMMA ElectKeeps ==
  ASSUME IInv, NEW w \in Warp, Elect(w)
  PROVE  IInv' /\ Clusters' = Clusters
<1>1. ClimbInv /\ WarpInv /\ ClusterInv /\ NodeInv
  BY DEF IInv
<1> DEFINE M == {t \in LanesOf(w) \cap active : Size(t) > Half \/ last(t)}
<1>2. /\ place[w] = "climb" /\ climbing[w] = {} /\ merging[w] = {}
      /\ place' = [place EXCEPT ![w] = "merge"] /\ merging' = [merging EXCEPT ![w] = M]
      /\ UNCHANGED <<differ, range, active, climbing, held, updateCounters, nodeIndices, pairIndices, scratchNodes, nodeCounter>>
  BY <1>1 DEF Elect, WarpInv, WarpOk
<1>3. ClimbInv' /\ Top' = Top
  BY <1>1, <1>2, QuietClimb
<1>4. NodeInv' /\ Clusters' = Clusters
  BY <1>1, <1>2, NodesSame
<1>5. M \in SUBSET Leaf /\ M \subseteq LanesOf(w) \cap active
  BY <1>1 DEF ClimbInv
<1>6. \A t \in LanesOf(w) \cap active : t \in M <=> Size(t) > Half \/ Whole(t)
  <2>1. \A t \in active : t \in Leaf
    BY <1>1 DEF ClimbInv
  <2>2. \A t \in active : last(t) <=> Whole(t)
    BY <2>1, <1>1, LastWhole DEF last
  <2> QED BY <2>2
<1> HIDE DEF M
<1>7. /\ place'[w] = "merge" /\ merging'[w] = M
      /\ \A u \in Warp : u # w => place'[u] = place[u] /\ merging'[u] = merging[u]
      /\ place' \in [Warp -> {"climb", "merge", "cluster", "done"}] /\ merging' \in [Warp -> SUBSET Leaf]
  BY <1>1, <1>2, <1>5 DEF WarpInv
<1>8. WarpInv'
  <2>1. ASSUME NEW u \in Warp PROVE WarpOk(u)'
    <3>1. WarpOk(u)
      BY <1>1 DEF WarpInv
    <3>2. CASE u # w
      BY <3>1, <3>2, <1>2, <1>7, WarpSame
    <3>3. CASE u = w
      <4>1. \A x : (Whole(x)' <=> Whole(x)) /\ Size(x)' = Size(x)
        BY <1>2 DEF Whole, Size
      <4>2. \A x \in merging'[w] : Size(x)' > Half \/ Whole(x)'
        BY <4>1, <1>5, <1>6, <1>7
      <4> QED BY <3>3, <4>2, <1>2, <1>5, <1>7 DEF WarpOk
    <3> QED BY <3>2, <3>3
  <2> QED BY <2>1, <1>1, <1>2, <1>7 DEF WarpInv
<1>9. ClusterInv'
  <2>1. ASSUME NEW u \in Warp, NEW x \in LanesOf(u) \cap Top
        PROVE  PieceInv(u, x)'
    <3>1. PieceInv(u, x) /\ x \in Leaf
      BY <1>1 DEF ClusterInv, Top
    <3>2. Loaded(u, x)' <=> Loaded(u, x)
      BY <1>2, <1>7 DEF Loaded, Current
    <3>3. CASE u # w
      <4>1. Pending(u, x)' <=> Pending(u, x)
        BY <3>3, <1>2, <1>7 DEF Pending
      <4> QED BY <3>1, <3>2, <4>1, <1>1, <1>2, <1>4, PieceFrame
    <3>4. CASE u = w /\ (x \notin active \/ x \in M)
      <4>1. Pending(u, x)' <=> Pending(u, x)
        BY <3>4, <1>2, <1>5, <1>7 DEF Pending
      <4> QED BY <3>1, <3>2, <4>1, <1>1, <1>2, <1>4, PieceFrame
    (* It is short enough to go on as it is.                               *)
    <3>5. CASE u = w /\ x \in active /\ x \notin M
      <4>1. ~Loaded(w, x) /\ Pending(w, x)
        BY <3>5, <1>2 DEF Loaded, Pending
      <4>2. ~Loaded(w, x)' /\ ~Pending(w, x)'
        BY <3>5, <1>2, <1>7 DEF Loaded, Pending
      <4>3. ~Whole(x) /\ Size(x) \in Nat /\ Size(x) <= Half
        BY <3>1, <3>5, <1>1, <1>6, LastWhole, SizesNat
      <4> DEFINE i == range[x].i
                 s == range[x].s
                 j == range[x].j
      <4>4. i \in Nat /\ s \in Nat /\ j \in Nat /\ j <= primCount
        BY <3>1, <1>1, RangeFacts
      <4>5. /\ i < s /\ s < j
            /\ FullIn(nodeIndices, Clusters, i, s) /\ FullIn(nodeIndices, Clusters, s, j)
        BY <3>1, <3>5, <4>1 DEF PieceInv, Full
      <4>6. j - i <= Half /\ ~(i = 0 /\ j = primCount)
        BY <4>3 DEF Size, Whole
      <4>7. \A y \in i .. j - 1 : nodeIndices[y] = {y}
        <5>1. Small(range[x])
          <6>1. j - i < primCount
            <7> HIDE DEF i, s, j
            <7> QED BY <4>4, <4>5, <4>6, SizesNat
          <6> QED BY <6>1, <4>6 DEF Small
        <5> QED BY <5>1, <1>1 DEF ClusterInv
      <4> HIDE DEF i, s, j
      <4>8. \A y \in i .. j - 1 : {y} \in Clusters
        <5>1. \A y \in i .. s - 1 : nodeIndices[y] = {y}
          BY <4>4, <4>5, <4>7
        <5>2. \A y \in s .. j - 1 : nodeIndices[y] = {y}
          BY <4>4, <4>5, <4>7
        <5>3. i < s /\ s < j /\ s <= primCount /\ s - i <= Half /\ j - s <= Half
          BY <4>4, <4>5, <4>6, SizesNat
        <5>4. \A y \in i .. s - 1 : {y} \in Clusters
          BY <5>1, <5>3, <4>4, <4>5, SinglesFull
        <5>5. \A y \in s .. j - 1 : {y} \in Clusters
          BY <5>2, <5>3, <4>4, <4>5, SinglesFull
        <5>6. \A y \in i .. j - 1 : y \in i .. s - 1 \/ y \in s .. j - 1
          BY <4>4
        <5> QED BY <5>4, <5>5, <5>6
      <4>9. FullIn(nodeIndices, Clusters, i, j)
        <5>1. i < j
          BY <4>4, <4>5
        <5> QED BY <5>1, <4>4, <4>6, <4>7, <4>8, SinglesFull
      <4>10. ~Whole(x)'
        BY <4>3, <1>2 DEF Whole
      <4>11. PieceInv(w, x)' <=> FullIn(nodeIndices', Clusters', range'[x].i, range'[x].j)
        BY <4>2, <4>10 DEF PieceInv, Full
      <4> QED BY <3>5, <4>9, <4>11, <1>2, <1>4 DEF i, j
    <3> QED BY <3>3, <3>4, <3>5
  <2> QED BY <2>1, <1>1, <1>2, <1>3 DEF ClusterInv, Small
<1> QED BY <1>3, <1>4, <1>8, <1>9 DEF IInv

(* A warp takes the clusters of the two halves of a range.                 *)
LEMMA LoadKeeps ==
  ASSUME IInv, NEW w \in Warp, Load(w)
  PROVE  IInv' /\ Clusters' = Clusters
<1>1. ClimbInv /\ WarpInv /\ ClusterInv /\ NodeInv
  BY DEF IInv
<1> DEFINE t == Current(w)
           i == range[t].i
           s == range[t].s
           j == range[t].j
           cs == ClustersIn(nodeIndices, i, s)
           ds == ClustersIn(nodeIndices, s, j)
<1>2. /\ place[w] = "merge" /\ merging[w] # {}
      /\ place' = [place EXCEPT ![w] = "cluster"] /\ held' = [held EXCEPT ![w] = cs \o ds]
      /\ UNCHANGED <<differ, range, active, climbing, merging, updateCounters, nodeIndices, pairIndices, scratchNodes, nodeCounter>>
  BY ClustersOfIn DEF Load
<1>3. ClimbInv' /\ Top' = Top
  BY <1>1, <1>2, QuietClimb
<1>4. NodeInv' /\ Clusters' = Clusters
  BY <1>1, <1>2, NodesSame
<1>5. t \in merging[w] /\ t \in active /\ t \in LanesOf(w) /\ t \in Leaf /\ t \in Top
  BY <1>1, <1>2, CurrentIn DEF WarpInv, WarpOk, ClimbInv
<1>6. i \in Nat /\ s \in Nat /\ j \in Nat /\ j <= primCount
  BY <1>1, <1>5, RangeFacts
<1>7. /\ i < s /\ s < j
      /\ FullIn(nodeIndices, Clusters, i, s) /\ FullIn(nodeIndices, Clusters, s, j)
  <2>1. PieceInv(w, t)
    BY <1>1, <1>5 DEF ClusterInv
  <2>2. ~Loaded(w, t) /\ Pending(w, t)
    BY <1>2, <1>5 DEF Loaded, Pending
  <2> QED BY <2>1, <2>2 DEF PieceInv, Full
<1> HIDE DEF t, i, s, j
<1>8. /\ SpreadOver(Clusters, cs \o ds, i, j) /\ Len(cs \o ds) <= WarpSize
      /\ cs \o ds \in Seq(SUBSET Leaf)
  <2>1. Len(cs) \in Nat /\ Len(cs) <= Half /\ Len(ds) \in Nat /\ Len(ds) <= Half
    BY <1>6, <1>7, ClustersInFacts
  <2>2. SpreadOver(Clusters, cs, i, s) /\ SpreadOver(Clusters, ds, s, j)
    BY <1>7 DEF FullIn
  <2> HIDE DEF cs, ds
  <2>3. SpreadOver(Clusters, cs \o ds, i, j) /\ Len(cs \o ds) = Len(cs) + Len(ds)
    BY <2>2, <1>6, <1>7, SpreadJoins
  <2>4. Len(cs) + Len(ds) <= WarpSize
    BY <2>1, SizesNat
  <2> QED BY <2>3, <2>4 DEF SpreadOver
<1> HIDE DEF cs, ds
<1>9. /\ place'[w] = "cluster" /\ held'[w] = cs \o ds
      /\ \A u \in Warp : u # w => place'[u] = place[u] /\ held'[u] = held[u]
      /\ place' \in [Warp -> {"climb", "merge", "cluster", "done"}] /\ held' \in [Warp -> Seq(SUBSET Leaf)]
  BY <1>1, <1>2, <1>8 DEF WarpInv
<1>10. WarpInv'
  <2>1. ASSUME NEW u \in Warp PROVE WarpOk(u)'
    <3>1. WarpOk(u)
      BY <1>1 DEF WarpInv
    <3>2. CASE u # w
      BY <3>1, <3>2, <1>2, <1>9, WarpSame
    <3>3. CASE u = w
      BY <3>1, <3>3, <1>2, <1>9 DEF WarpOk, Whole, Size
    <3> QED BY <3>2, <3>3
  <2> QED BY <2>1, <1>1, <1>2, <1>9 DEF WarpInv
<1>11. ClusterInv'
  <2>1. ASSUME NEW u \in Warp, NEW x \in LanesOf(u) \cap Top
        PROVE  PieceInv(u, x)'
    <3>1. PieceInv(u, x) /\ x \in Leaf
      BY <1>1 DEF ClusterInv, Top
    <3>2. CASE u # w \/ x # t
      <4>1. (Loaded(u, x)' <=> Loaded(u, x)) /\ (Loaded(u, x) => held'[u] = held[u])
        BY <3>2, <1>2, <1>9 DEF Loaded, Current, t
      <4>2. Pending(u, x)' <=> Pending(u, x)
        BY <3>2, <1>2, <1>9 DEF Pending
      <4> QED BY <3>1, <4>1, <4>2, <1>1, <1>2, <1>4, PieceFrame
    <3>3. CASE u = w /\ x = t
      <4>1. Loaded(w, x)'
        BY <3>3, <1>2, <1>9 DEF Loaded, Current, t
      <4>2. PieceInv(w, x)' <=> Len(held'[w]) <= WarpSize /\ SpreadOver(Clusters', held'[w], range'[x].i, range'[x].j)
        BY <4>1 DEF PieceInv
      <4> QED BY <3>3, <4>2, <1>2, <1>4, <1>8, <1>9 DEF i, j
    <3> QED BY <3>2, <3>3
  <2> QED BY <2>1, <1>1, <1>2, <1>3 DEF ClusterInv, Small
<1> QED BY <1>3, <1>4, <1>10, <1>11 DEF IInv

-----------------------------------------------------------------------------
(* A round of merging: only clusters of the range of the warp are united.  *)
LEMMA ClusterKeeps ==
  ASSUME IInv, NEW w \in Warp, Cluster(w)
  PROVE  /\ IInv'
         /\ \E cs, a, b, pairs : /\ SpreadOver(Clusters, cs, a, b) /\ Paired(pairs, Len(cs))
                                 /\ Clusters' = After(Clusters, cs, pairs)
<1>1. ClimbInv /\ WarpInv /\ ClusterInv /\ NodeInv
  BY DEF IInv
<1> DEFINE t == Current(w)
           i == range[t].i
           j == range[t].j
           cs == held[w]
<1>2. PICK pairs \in Rounds[Len(held[w])] :
        /\ held' = [held EXCEPT ![w] = Compacted(@, pairs)]
        /\ scratchNodes' = [a \in DOMAIN scratchNodes |->
             IF \E p \in pairs : NodeAddr(pairs, p) = a
             THEN LET p == CHOOSE p \in pairs : NodeAddr(pairs, p) = a
                  IN  <<held[w][p[1] + 1], held[w][p[2] + 1]>>
             ELSE scratchNodes[a]]
        /\ nodeCounter' = nodeCounter + Cardinality(pairs)
  BY DEF Cluster
<1>3. /\ place[w] = "cluster" /\ TooMany(w)
      /\ UNCHANGED <<differ, range, active, place, climbing, merging, updateCounters, nodeIndices, pairIndices>>
  BY DEF Cluster
<1>4. t \in merging[w] /\ t \in active /\ t \in LanesOf(w) /\ t \in Leaf /\ t \in Top
  BY <1>1, <1>3, CurrentIn DEF WarpInv, WarpOk, ClimbInv
<1>5. Len(cs) <= WarpSize /\ SpreadOver(Clusters, cs, i, j) /\ cs \in Seq(SUBSET Leaf)
  <2>1. PieceInv(w, t)
    BY <1>1, <1>4 DEF ClusterInv
  <2>2. Loaded(w, t)
    BY <1>3 DEF Loaded
  <2> QED BY <2>1, <2>2 DEF PieceInv, SpreadOver
<1>6. Paired(pairs, Len(cs))
  <2> DEFINE n == Len(cs)
  <2>1. n \in Nat
    BY <1>5
  <2>2. Threshold(w) \in Nat /\ n > Threshold(w)
    BY <1>3, SizesNat DEF TooMany, Threshold
  <2>3. n \in 1 .. WarpSize
    BY <2>1, <2>2, <1>5, SizesNat
  <2>4. pairs \in Rounds[n]
    BY <1>2
  <2> HIDE DEF n
  <2> DEFINE D(k) == [{<<x, y>> : x \in Lanes(k), y \in Lanes(k)} \cap
                      {<<x, x + y>> : x \in Lanes(k), y \in 1 .. PlocRadius} -> 0 .. MaxDistance]
  <2>5. Rounds = [k \in 1 .. WarpSize |-> {Merging(d, k) : d \in D(k)}]
    BY DEF Rounds
  <2> HIDE DEF D
  <2>6. Rounds[n] = {Merging(d, n) : d \in D(n)}
    BY <2>3, <2>5
  <2>7. PICK d : pairs = Merging(d, n)
    BY <2>4, <2>6
  <2> QED BY <2>1, <2>7, MergingPaired DEF n
<1>7. Round(cs, pairs)
  BY <1>2 DEF Round
<1> HIDE DEF t, i, j
<1>8. /\ held'[w] = Compacted(cs, pairs)
      /\ \A u \in Warp : u # w => held'[u] = held[u]
  BY <1>1, <1>2 DEF WarpInv
<1> HIDE DEF cs
<1>9. NodeInv' /\ Clusters' = After(Clusters, cs, pairs)
  BY <1>1, <1>5, <1>6, <1>7, RoundKeepsNodes
<1>10. Partition(Clusters)
  BY <1>1 DEF NodeInv
<1>11. \A c \in Clusters : c \cap (i .. j - 1) = {} => c \in Clusters'
  BY <1>5, <1>6, <1>9, <1>10, AfterPartition
<1>12. /\ SpreadOver(Clusters', Compacted(cs, pairs), i, j) /\ Len(Compacted(cs, pairs)) <= Len(cs)
       /\ Compacted(cs, pairs) \in Seq(SUBSET Leaf)
  BY <1>5, <1>6, <1>9, <1>10, AfterSpread, CompactedFacts
<1>13. ClimbInv' /\ Top' = Top
  BY <1>1, <1>3, QuietClimb
<1>14. WarpInv'
  <2>1. ASSUME NEW u \in Warp PROVE WarpOk(u)'
    <3>1. WarpOk(u)
      BY <1>1 DEF WarpInv
    <3> QED BY <3>1, <1>3, WarpSame
  <2>2. held' \in [Warp -> Seq(SUBSET Leaf)]
    BY <1>1, <1>2, <1>8, <1>12 DEF WarpInv
  <2> QED BY <2>1, <2>2, <1>1, <1>3 DEF WarpInv
<1>15. ClusterInv'
  <2>1. ASSUME NEW u \in Warp, NEW x \in LanesOf(u) \cap Top
        PROVE  PieceInv(u, x)'
    <3>1. PieceInv(u, x) /\ x \in Leaf
      BY <1>1 DEF ClusterInv, Top
    <3>2. (Loaded(u, x)' <=> Loaded(u, x)) /\ (Pending(u, x)' <=> Pending(u, x))
      BY <1>3 DEF Loaded, Current, Pending
    <3>3. CASE x # t
      <4>1. (range[x].i .. range[x].j - 1) \cap (i .. j - 1) = {}
        BY <3>3, <1>1, <1>4, OthersApart DEF i, j
      <4>2. \A c \in Clusters : c \subseteq range[x].i .. range[x].j - 1 => c \in Clusters'
        BY <4>1, <1>11
      <4>3. Loaded(u, x) => held'[u] = held[u]
        BY <3>3, <1>8 DEF Loaded, t
      <4> QED BY <3>1, <3>2, <4>2, <4>3, <1>1, <1>3, PieceFrame
    <3>4. CASE x = t
      <4>1. u = w
        BY <3>4, <1>4, LanesApart
      <4>2. Loaded(u, x)'
        BY <3>2, <3>4, <4>1, <1>3 DEF Loaded, t
      <4>3. PieceInv(u, x)' <=> Len(held'[u]) <= WarpSize /\ SpreadOver(Clusters', held'[u], range'[x].i, range'[x].j)
        BY <4>2 DEF PieceInv
      <4>4. Len(held'[w]) <= WarpSize
        <5>1. Len(Compacted(cs, pairs)) \in Nat /\ Len(cs) \in Nat
          BY <1>5, <1>12
        <5> QED BY <5>1, <1>5, <1>8, <1>12, SizesNat
      <4> QED BY <3>4, <4>1, <4>3, <4>4, <1>3, <1>8, <1>12 DEF i, j
    <3> QED BY <3>3, <3>4
  <2> QED BY <2>1, <1>1, <1>3, <1>13 DEF ClusterInv, Small
<1>16. IInv'
  BY <1>9, <1>13, <1>14, <1>15 DEF IInv
<1> QED BY <1>5, <1>6, <1>9, <1>16

(* What is left of a range is put at its start.                            *)
LEMMA StoreKeeps ==
  ASSUME IInv, NEW w \in Warp, Store(w)
  PROVE  IInv' /\ Clusters' = Clusters
<1>1. ClimbInv /\ WarpInv /\ ClusterInv /\ NodeInv
  BY DEF IInv
<1> DEFINE t == Current(w)
           i == range[t].i
           j == range[t].j
           cs == held[w]
           m == Len(cs)
<1>2. /\ place[w] = "cluster" /\ ~TooMany(w)
      /\ nodeIndices' = [a \in Leaf |->
           IF a \in i .. i + Half - 1
           THEN IF a - i < m THEN cs[a - i + 1] ELSE InvalidValue
           ELSE nodeIndices[a]]
      /\ updateCounters' = [p \in Leaf |->
           IF queueCount + p \in i .. i + Half - 1
           THEN IF (queueCount + p) - i < m THEN cs[(queueCount + p) - i + 1] ELSE InvalidValue
           ELSE updateCounters[p]]
      /\ merging' = [merging EXCEPT ![w] = @ \ {t}]
      /\ held' = [held EXCEPT ![w] = <<>>]
      /\ place' = [place EXCEPT ![w] = "merge"]
      /\ UNCHANGED <<differ, range, active, climbing, scratchNodes, nodeCounter>>
  BY DEF Store, Stretch
<1>4. NodeInv' /\ Clusters' = Clusters
  BY <1>1, <1>2, NodesSame
<1>5. t \in merging[w] /\ t \in active /\ t \in LanesOf(w) /\ t \in Leaf /\ t \in Top
  BY <1>1, <1>2, CurrentIn DEF WarpInv, WarpOk, ClimbInv
<1>6. i \in Nat /\ j \in Nat /\ i < j /\ j <= primCount
  BY <1>1, <1>5, RangeFacts
<1>7. SpreadOver(Clusters, cs, i, j) /\ cs \in Seq(SUBSET Leaf) /\ m \in Nat
  <2>1. PieceInv(w, t)
    BY <1>1, <1>5 DEF ClusterInv
  <2>2. Loaded(w, t)
    BY <1>2 DEF Loaded
  <2> QED BY <2>1, <2>2 DEF PieceInv, SpreadOver
<1>8. j - i > Half \/ (i = 0 /\ j = primCount)
  BY <1>1, <1>5 DEF WarpInv, WarpOk, Size, Whole
<1>9. m <= Half /\ (i = 0 /\ j = primCount => m <= 1)
  <2>1. last(t) <=> Whole(t)
    BY <1>1, <1>5, LastWhole DEF last
  <2>2. Threshold(w) \in Nat /\ m <= Threshold(w) /\ Threshold(w) <= Half /\ (Whole(t) => Threshold(w) = 1)
    BY <2>1, <1>2, <1>7, SizesNat DEF TooMany, Threshold
  <2> HIDE DEF m
  <2> QED BY <2>2, <1>7, SizesNat DEF Whole
<1> HIDE DEF i, j, cs, m
<1>climb. ClimbInv' /\ Top' = Top
  <2>1. CASE j - i > Half
    <3>1. \A p \in Leaf : queueCount + p \notin i .. i + Half - 1
      BY <2>1, <1>6, SizesNat, QueueAssumption DEF Leaf
    <3>2. updateCounters' = updateCounters
      BY <3>1, <1>1, <1>2 DEF ClimbInv
    <3> QED BY <3>2, <1>1, <1>2, QuietClimb
  <2>2. CASE i = 0 /\ j = primCount
    <3>1. \A p \in Leaf : ~((queueCount + p) - i < m)
      BY <2>2, <1>6, <1>7, <1>9, SizesNat, QueueAssumption DEF Leaf, m, cs
    <3>2. updateCounters' = [p \in Leaf |-> IF queueCount + p \in i .. i + Half - 1
                                            THEN InvalidValue ELSE updateCounters[p]]
      BY <3>1, <1>2
    <3>3. updateCounters' \in [Leaf -> (0 .. primCount) \cup {InvalidValue}]
      BY <3>2, <1>1 DEF ClimbInv
    <3>4. Whole(t)
      BY <2>2 DEF Whole, i, j
    <3> QED BY <3>3, <3>4, <1>1, <1>2, <1>5, CountersSpent
  <2> QED BY <2>1, <2>2, <1>8
<1>10. m <= j - i /\ (i + Half <= j \/ (i = 0 /\ j = primCount))
  <2>1. m \in Nat
    BY <1>7 DEF m
  <2> QED BY <2>1, <1>6, <1>8, <1>9, SizesNat
<1> HIDE DEF t
<1>11. /\ \A x \in Leaf : x \notin i .. j - 1 => nodeIndices'[x] = nodeIndices[x]
       /\ \A l \in 0 .. Half - 1 : l < j - i => nodeIndices'[i + l] = IF l < m THEN cs[l + 1] ELSE InvalidValue
       /\ nodeIndices' \in [Leaf -> (SUBSET Leaf) \cup {InvalidValue}]
  <2>1. \A x \in Leaf : x \notin i .. j - 1 => x \notin i .. i + Half - 1
    BY <1>6, <1>10, SizesNat DEF Leaf
  <2>2. \A l \in 0 .. Half - 1 : l < j - i => i + l \in Leaf /\ i + l \in i .. i + Half - 1 /\ (i + l) - i = l
    BY <1>6, SizesNat DEF Leaf
  <2>3. \A l \in 0 .. Half - 1 : l < j - i => nodeIndices'[i + l] = IF l < m THEN cs[l + 1] ELSE InvalidValue
    <3> SUFFICES ASSUME NEW l \in 0 .. Half - 1, l < j - i
                 PROVE  nodeIndices'[i + l] = IF l < m THEN cs[l + 1] ELSE InvalidValue
      OBVIOUS
    <3> DEFINE a == i + l
    <3>1. a \in Leaf /\ a \in i .. i + Half - 1 /\ a - i = l
      BY <2>2
    <3> HIDE DEF a
    <3>2. nodeIndices'[a] = IF a - i < m THEN cs[a - i + 1] ELSE InvalidValue
      BY <3>1, <1>2
    <3> QED BY <3>1, <3>2 DEF a
  <2>4. ASSUME NEW a \in Leaf
        PROVE  nodeIndices'[a] \in (SUBSET Leaf) \cup {InvalidValue}
    <3>1. CASE a \in i .. i + Half - 1 /\ a - i < m
      <4>1. a - i + 1 \in 1 .. m
        BY <3>1, <1>6, <1>7, SizesNat
      <4>2. cs[a - i + 1] \in SUBSET Leaf
        BY <4>1, <1>7 DEF m
      <4> QED BY <3>1, <4>2, <1>2
    <3>2. CASE a \in i .. i + Half - 1 /\ ~(a - i < m)
      BY <3>2, <1>2
    <3>3. CASE a \notin i .. i + Half - 1
      BY <3>3, <1>1, <1>2 DEF ClusterInv
    <3> QED BY <3>1, <3>2, <3>3
  <2> QED BY <2>1, <2>3, <2>4, <1>2
<1>12. FullIn(nodeIndices', Clusters, i, j)
  <2>1. \A l \in 0 .. m - 1 : nodeIndices'[i + l] # InvalidValue
    <3> SUFFICES ASSUME NEW l \in 0 .. m - 1 PROVE nodeIndices'[i + l] # InvalidValue
      OBVIOUS
    <3>1. l \in 0 .. Half - 1 /\ l < m /\ l + 1 \in 1 .. m /\ l < j - i
      BY <1>6, <1>7, <1>9, <1>10, SizesNat
    <3>2. cs[l + 1] \in SUBSET Leaf
      BY <3>1, <1>7 DEF m
    <3>3. nodeIndices'[i + l] = cs[l + 1]
      BY <3>1, <1>11
    <3> QED BY <3>2, <3>3, WarpAssumption
  <2>2. \A l \in m .. Half - 1 : l < j - i => nodeIndices'[i + l] = InvalidValue
    <3> SUFFICES ASSUME NEW l \in m .. Half - 1, l < j - i PROVE nodeIndices'[i + l] = InvalidValue
      OBVIOUS
    <3>1. l \in 0 .. Half - 1 /\ ~(l < m)
      BY <1>7, SizesNat
    <3> QED BY <3>1, <1>11
  <2>3. m <= j - i
    BY <1>10
  <2> DEFINE ds == ClustersIn(nodeIndices', i, j)
  <2>4. Len(ds) = m
    BY <2>1, <2>2, <2>3, <1>6, <1>7, <1>9, ClustersInAre
  <2>5. \A k \in 1 .. m : ds[k] = cs[k]
    <3> SUFFICES ASSUME NEW k \in 1 .. m PROVE ds[k] = cs[k]
      OBVIOUS
    <3>1. ds[k] = nodeIndices'[i + k - 1]
      BY <2>4, <1>6, ClustersInFacts
    <3> DEFINE l == k - 1
    <3>2. l \in 0 .. Half - 1 /\ l < m /\ l < j - i /\ l + 1 = k /\ i + k - 1 = i + l
      BY <1>6, <1>7, <1>9, <1>10, SizesNat
    <3> HIDE DEF l
    <3>3. nodeIndices'[i + l] = cs[k]
      BY <3>2, <1>11
    <3> QED BY <3>1, <3>2, <3>3
  <2>6. ds \in Seq(SUBSET Leaf)
    <3> DEFINE c == Cardinality({l \in Lanes(Min({j - i, Half})) : nodeIndices'[i + l] # InvalidValue})
    <3>1. ds = [k \in 1 .. c |-> nodeIndices'[i + k - 1]]
      BY DEF ClustersIn
    <3> HIDE DEF c
    <3>2. DOMAIN ds = 1 .. m
      BY <2>4, <1>6, ClustersInFacts
    <3>3. 1 .. c = 1 .. m
      BY <3>1, <3>2
    <3>4. ds = [k \in 1 .. m |-> nodeIndices'[i + k - 1]]
      BY <3>1, <3>3
    <3> HIDE DEF ds
    <3>5. \A k \in 1 .. m : ds[k] \in SUBSET Leaf
      BY <2>5, <1>7 DEF m
    <3>6. ds = [k \in 1 .. m |-> ds[k]]
      BY <3>4
    <3>7. ds \in [1 .. m -> SUBSET Leaf]
      BY <3>5, <3>6
    <3> QED BY <3>7, <1>7
  <2> HIDE DEF ds
  <2>7. SpreadOver(Clusters, ds, i, j)
    BY <2>4, <2>5, <2>6, <1>7 DEF SpreadOver, m
  <2> QED BY <2>7 DEF FullIn, ds
<1>13. i = 0 /\ j = primCount => Leaf \in Clusters
  <2> SUFFICES ASSUME i = 0, j = primCount PROVE Leaf \in Clusters
    OBVIOUS
  <2>1. i .. j - 1 = Leaf /\ 0 \in Leaf
    BY SizesNat DEF Leaf
  <2>2. PICK k \in 1 .. m : 0 \in cs[k]
    BY <2>1, <1>7 DEF SpreadOver, m
  <2>3. m = 1 /\ k = 1
    BY <2>2, <1>7, <1>9
  <2>4. cs[1] \in Clusters /\ cs[1] \subseteq Leaf
    BY <2>1, <2>3, <1>7 DEF SpreadOver, m
  <2>5. \A x \in Leaf : x \in cs[1]
    <3> SUFFICES ASSUME NEW x \in Leaf PROVE x \in cs[1]
      OBVIOUS
    <3>1. PICK l \in 1 .. m : x \in cs[l]
      BY <2>1, <1>7 DEF SpreadOver, m
    <3> QED BY <3>1, <2>3
  <2>6. cs[1] = Leaf
    BY <2>4, <2>5
  <2> QED BY <2>4, <2>6
<1>14. /\ place'[w] = "merge" /\ merging'[w] = merging[w] \ {t}
       /\ \A u \in Warp : u # w => place'[u] = place[u] /\ merging'[u] = merging[u] /\ held'[u] = held[u]
       /\ place' \in [Warp -> {"climb", "merge", "cluster", "done"}] /\ merging' \in [Warp -> SUBSET Leaf]
       /\ held' \in [Warp -> Seq(SUBSET Leaf)]
  <2>1. <<>> \in Seq(SUBSET Leaf)
    OBVIOUS
  <2> QED BY <2>1, <1>1, <1>2 DEF WarpInv
<1>15. WarpInv'
  <2>1. ASSUME NEW u \in Warp PROVE WarpOk(u)'
    <3>1. WarpOk(u)
      BY <1>1 DEF WarpInv
    <3>2. CASE u # w
      BY <3>1, <3>2, <1>2, <1>14, WarpSame
    <3>3. CASE u = w
      <4>1. \A x : (Whole(x)' <=> Whole(x)) /\ Size(x)' = Size(x)
        BY <1>2 DEF Whole, Size
      <4>2. /\ merging'[w] \subseteq LanesOf(w) \cap active'
            /\ \A x \in merging'[w] : Size(x)' > Half \/ Whole(x)'
            /\ \A x \in climbing'[w] : ~Whole(x)'
        BY <3>1, <3>3, <4>1, <1>2, <1>14 DEF WarpOk
      <4> QED BY <3>1, <3>3, <4>2, <1>2, <1>14 DEF WarpOk
    <3> QED BY <3>2, <3>3
  <2> QED BY <2>1, <1>1, <1>2, <1>14 DEF WarpInv
<1>16. ASSUME NEW x \in Top, x # t, NEW y \in range[x].i .. range[x].j - 1
       PROVE  nodeIndices'[y] = nodeIndices[y]
  <2>1. x \in Leaf /\ y \notin i .. j - 1
    BY <1>1, <1>5, <1>16, OthersApart DEF i, j, Top
  <2>2. range[x].i \in Nat /\ range[x].j \in Nat /\ range[x].j <= primCount
    BY <2>1, <1>1, RangeFacts
  <2>3. y \in Leaf
    BY <2>2, <1>16, SizesNat DEF Leaf
  <2> QED BY <2>1, <2>3, <1>11
<1>17. ClusterInv'
  <2>1. ASSUME NEW u \in Warp, NEW x \in LanesOf(u) \cap Top
        PROVE  PieceInv(u, x)'
    <3>1. PieceInv(u, x) /\ x \in Leaf
      BY <1>1 DEF ClusterInv, Top
    <3>2. CASE x # t
      <4>1. (Loaded(u, x)' <=> Loaded(u, x)) /\ (Loaded(u, x) => held'[u] = held[u])
        BY <3>2, <1>2, <1>14 DEF Loaded, Current, t
      <4>2. Pending(u, x)' <=> Pending(u, x)
        BY <3>2, <1>2, <1>14 DEF Pending
      <4> QED BY <3>1, <3>2, <4>1, <4>2, <1>1, <1>2, <1>4, <1>16, PieceFrame
    <3>3. CASE x = t
      <4>1. u = w
        BY <3>3, <1>5, LanesApart
      <4>2. ~Loaded(u, x)' /\ ~Pending(u, x)'
        BY <3>3, <4>1, <1>14 DEF Loaded, Pending
      <4>3. PieceInv(u, x)' <=> IF range'[x].i = 0 /\ range'[x].j = primCount THEN Leaf \in Clusters'
                                ELSE FullIn(nodeIndices', Clusters', range'[x].i, range'[x].j)
        BY <4>2 DEF PieceInv, Full, Whole
      <4> QED BY <3>3, <4>3, <1>2, <1>4, <1>12, <1>13 DEF i, j
    <3> QED BY <3>2, <3>3
  <2>2. ASSUME NEW x \in Top, Small(range[x]), NEW y \in range[x].i .. range[x].j - 1
        PROVE  nodeIndices'[y] = {y}
    <3>1. x # t
      <4>1. ~(j - i <= Half /\ j - i < primCount)
        BY <1>6, <1>8, SizesNat
      <4> QED BY <4>1, <2>2 DEF Small, i, j
    <3> QED BY <3>1, <2>2, <1>1, <1>16 DEF ClusterInv
  <2> QED BY <2>1, <2>2, <1>2, <1>climb, <1>11 DEF ClusterInv, Small
<1> QED BY <1>climb, <1>4, <1>15, <1>17 DEF IInv

(* The next round of the climb.                                            *)
LEMMA IterateKeeps ==
  ASSUME IInv, NEW w \in Warp, Iterate(w)
  PROVE  IInv' /\ Clusters' = Clusters
<1>1. ClimbInv /\ WarpInv /\ ClusterInv /\ NodeInv
  BY DEF IInv
<1>2. /\ place[w] = "merge" /\ merging[w] = {}
      /\ active' = active \ {t \in LanesOf(w) : last(t)}
      /\ climbing' = [climbing EXCEPT ![w] = LanesOf(w) \cap active']
      /\ place' = [place EXCEPT ![w] = IF climbing'[w] = {} THEN "done" ELSE "climb"]
      /\ UNCHANGED <<differ, range, merging, held, updateCounters, nodeIndices, pairIndices, scratchNodes, nodeCounter>>
  BY DEF Iterate
<1>3. \A t \in active : t \in Leaf /\ (last(t) <=> Whole(t))
  BY <1>1, LastWhole DEF ClimbInv, last
<1>4. ClimbInv' /\ Top' = Top
  <2>1. active' \subseteq active /\ \A t \in active \ active' : Whole(t)
    BY <1>2, <1>3
  <2> QED BY <2>1, <1>1, <1>2, QuietClimb
<1>5. NodeInv' /\ Clusters' = Clusters
  BY <1>1, <1>2, NodesSame
<1>6. /\ climbing'[w] = LanesOf(w) \cap active'
      /\ place'[w] = IF climbing'[w] = {} THEN "done" ELSE "climb"
      /\ \A u \in Warp : u # w => place'[u] = place[u] /\ climbing'[u] = climbing[u]
      /\ place' \in [Warp -> {"climb", "merge", "cluster", "done"}] /\ climbing' \in [Warp -> SUBSET Leaf]
  <2>1. LanesOf(w) \cap active' \in SUBSET Leaf
    BY <1>2, <1>3
  <2> QED BY <2>1, <1>1, <1>2 DEF WarpInv
<1>7. \A u \in Warp : u # w => LanesOf(u) \cap active' = LanesOf(u) \cap active
  BY <1>2, LanesApart
<1>8. WarpInv'
  <2>1. ASSUME NEW u \in Warp PROVE WarpOk(u)'
    <3>1. WarpOk(u)
      BY <1>1 DEF WarpInv
    <3>2. CASE u # w
      BY <3>1, <3>2, <1>2, <1>6, <1>7, WarpSame
    <3>3. CASE u = w
      <4>1. \A x : Whole(x)' <=> Whole(x)
        BY <1>2 DEF Whole
      <4>2. \A x \in climbing'[w] : ~Whole(x)'
        BY <4>1, <1>2, <1>3, <1>6
      <4> QED BY <3>3, <4>2, <1>2, <1>6 DEF WarpOk
    <3> QED BY <3>2, <3>3
  <2> QED BY <2>1, <1>1, <1>2, <1>6 DEF WarpInv
<1>9. ClusterInv'
  <2>1. ASSUME NEW u \in Warp, NEW x \in LanesOf(u) \cap Top
        PROVE  PieceInv(u, x)'
    <3>1. PieceInv(u, x) /\ x \in Leaf
      BY <1>1 DEF ClusterInv, Top
    <3>2. CASE u # w
      <4>1. x \in active' <=> x \in active
        BY <3>2, <1>7
      <4>2. (Loaded(u, x)' <=> Loaded(u, x)) /\ (Pending(u, x)' <=> Pending(u, x))
        BY <3>2, <4>1, <1>2, <1>6 DEF Loaded, Current, Pending
      <4> QED BY <3>1, <4>2, <1>1, <1>2, <1>5, PieceFrame
    <3>3. CASE u = w
      <4>1. ~Loaded(u, x) /\ ~Pending(u, x)
        BY <3>3, <1>2 DEF Loaded, Pending
      <4>2. ~Loaded(u, x)' /\ ~Pending(u, x)'
        BY <3>3, <1>2, <1>6 DEF Loaded, Pending
      <4> QED BY <3>1, <4>1, <4>2, <1>1, <1>2, <1>5, PieceFrame
    <3> QED BY <3>2, <3>3
  <2> QED BY <2>1, <1>1, <1>2, <1>4 DEF ClusterInv, Small
<1> QED BY <1>4, <1>5, <1>8, <1>9 DEF IInv

-----------------------------------------------------------------------------
(* Every step keeps the invariant and unites clusters, if at all, two by   *)
(* two.                                                                    *)
Unites(C, D) == \E cs, a, b, pairs :
  SpreadOver(C, cs, a, b) /\ Paired(pairs, Len(cs)) /\ D = After(C, cs, pairs)

LEMMA StepKeeps ==
  ASSUME IInv, [Next]_vars
  PROVE  IInv' /\ (Clusters' = Clusters \/ Unites(Clusters, Clusters'))
<1>1. CASE UNCHANGED vars
  <2>1. ClimbInv /\ WarpInv /\ ClusterInv /\ NodeInv
    BY DEF IInv
  <2>2. /\ UNCHANGED <<differ, range, active, place, climbing, merging, held,
                       updateCounters, nodeIndices, pairIndices, scratchNodes, nodeCounter>>
    BY <1>1 DEF vars
  <2>3. ClimbInv' /\ Top' = Top
    BY <2>1, <2>2, QuietClimb
  <2>4. NodeInv' /\ Clusters' = Clusters
    BY <2>1, <2>2, NodesSame
  <2>5. WarpInv'
    <3>1. ASSUME NEW w \in Warp PROVE WarpOk(w)'
      <4>1. WarpOk(w)
        BY <2>1 DEF WarpInv
      <4> QED BY <4>1, <2>2, WarpSame
    <3> QED BY <3>1, <2>1, <2>2 DEF WarpInv
  <2>6. ClusterInv'
    <3>1. ASSUME NEW w \in Warp, NEW t \in LanesOf(w) \cap Top PROVE PieceInv(w, t)'
      <4>1. PieceInv(w, t) /\ t \in Leaf
        BY <2>1 DEF ClusterInv, Top
      <4>2. (Loaded(w, t)' <=> Loaded(w, t)) /\ (Pending(w, t)' <=> Pending(w, t))
        BY <2>2 DEF Loaded, Current, Pending
      <4> QED BY <4>1, <4>2, <2>1, <2>2, <2>4, PieceFrame
    <3> QED BY <3>1, <2>1, <2>2, <2>3 DEF ClusterInv, Small
  <2> QED BY <2>3, <2>4, <2>5, <2>6 DEF IInv
<1>2. ASSUME NEW w \in Warp, NEW t \in climbing[w], Climb(w, t)
      PROVE  IInv' /\ Clusters' = Clusters
  BY <1>2, LeaveKeeps, JoinKeeps
<1>3. ASSUME NEW w \in Warp, Elect(w)
      PROVE  IInv' /\ Clusters' = Clusters
  BY <1>3, ElectKeeps
<1>4. ASSUME NEW w \in Warp, Load(w)
      PROVE  IInv' /\ Clusters' = Clusters
  BY <1>4, LoadKeeps
<1>5. ASSUME NEW w \in Warp, Cluster(w)
      PROVE  IInv' /\ Unites(Clusters, Clusters')
  BY <1>5, ClusterKeeps DEF Unites
<1>6. ASSUME NEW w \in Warp, Store(w)
      PROVE  IInv' /\ Clusters' = Clusters
  BY <1>6, StoreKeeps
<1>7. ASSUME NEW w \in Warp, Iterate(w)
      PROVE  IInv' /\ Clusters' = Clusters
  BY <1>7, IterateKeeps
<1> QED BY <1>1, <1>2, <1>3, <1>4, <1>5, <1>6, <1>7 DEF Next, Step, Terminated

(* Whatever the codes, the distances and the order in which warps and      *)
(* lanes of HPloc run, ranges that nobody has passed partition the codes,  *)
(* each of them owns the clusters of its codes, and the nodes stored so    *)
(* far are what these clusters were united from.                           *)
THEOREM BuildKeepsInv == Spec => []IInv
<1>1. Init => IInv
  BY InitInv
<1>2. IInv /\ [Next]_vars => IInv'
  BY StepKeeps
<1> QED BY <1>1, <1>2, PTL DEF Spec

(* The invariant says what a thread that climbs reads.                     *)
LEMMA InvComplete ==
  ASSUME IInv
  PROVE  RangeComplete
<1> SUFFICES ASSUME NEW w \in Warp, NEW t \in climbing[w]
             PROVE  UNION Range(ClustersOf(range[t].i, range[t].j)) = range[t].i .. range[t].j - 1
  BY DEF RangeComplete
<1> DEFINE cs == ClustersOf(range[t].i, range[t].j)
           i == range[t].i
           j == range[t].j
<1>1. /\ place[w] = "climb" /\ merging[w] = {} /\ t \in LanesOf(w) \cap Top /\ ~Whole(t)
  BY DEF IInv, WarpInv, WarpOk, ClimbInv
<1>2. ~Loaded(w, t) /\ ~Pending(w, t)
  BY <1>1 DEF Loaded, Pending
<1>3. SpreadOver(Clusters, cs, i, j)
  BY <1>1, <1>2, ClustersOfIn DEF IInv, ClusterInv, PieceInv, Full, FullIn
<1> HIDE DEF cs, i, j
<1>4. Range(cs) = {cs[k] : k \in 1 .. Len(cs)}
  <2>1. DOMAIN cs = 1 .. Len(cs)
    BY <1>3 DEF SpreadOver
  <2> QED BY <2>1 DEF Range
<1>5. UNION Range(cs) = i .. j - 1
  BY <1>3, <1>4 DEF SpreadOver
<1> QED BY <1>5 DEF cs, i, j

(* A thread of HPloc that climbs always finds the clusters of its range,   *)
(* all of them and nothing else, at its start, though another warp has     *)
(* written them.                                                           *)
THEOREM RangesAlwaysComplete == Spec => []RangeComplete
<1>1. IInv => RangeComplete
  BY InvComplete
<1> QED BY <1>1, BuildKeepsInv, PTL

(* When no thread is left, one of them had the whole range, and its warp   *)
(* has merged it into one cluster.                                         *)
LEMMA InvOneTree ==
  ASSUME IInv
  PROVE  OneTree
<1> SUFFICES ASSUME Done
             PROVE  /\ nodeCounter = primCount - 1
                    /\ Stored = DOMAIN scratchNodes
                    /\ \A a, b \in Stored : a # b => NodeAt(a) # NodeAt(b)
                    /\ NodeAt(0) = Leaf
  BY DEF OneTree
<1>1. ClimbInv /\ WarpInv /\ ClusterInv /\ NodeInv
  BY DEF IInv
<1>2. active = {}
  <2> SUFFICES ASSUME NEW t \in active PROVE FALSE
    OBVIOUS
  <2>1. t \in Leaf
    BY <1>1 DEF ClimbInv
  <2>2. PICK w \in Warp : t \in LanesOf(w)
    BY <2>1, EveryLeafHasWarp
  <2> QED BY <2>2, <1>1 DEF Done, WarpInv, WarpOk
<1>3. PICK t \in Top : Whole(t)
  BY <1>1, <1>2, SomeoneHasAll
<1>4. PICK w \in Warp : t \in LanesOf(w)
  BY EveryLeafHasWarp DEF Top
<1>5. Leaf \in Clusters
  <2>1. PieceInv(w, t)
    BY <1>1, <1>4 DEF ClusterInv
  <2>2. ~Loaded(w, t) /\ ~Pending(w, t)
    BY <1>1, <1>2, NotLoaded
  <2> QED BY <2>1, <2>2, <1>3 DEF PieceInv
<1>6. Clusters = {Leaf}
  <2>1. Partition(Clusters)
    BY <1>1 DEF NodeInv
  <2>2. ASSUME NEW c \in Clusters, c # Leaf PROVE FALSE
    <3>1. c \cap Leaf = {} /\ c \subseteq Leaf /\ c # {}
      BY <2>1, <2>2, <1>5 DEF Partition
    <3> QED BY <3>1
  <2> QED BY <2>2, <1>5
<1>7. Cardinality(Clusters) = 1
  BY <1>6, FS_Singleton
<1>8. /\ Cardinality(Clusters) = primCount - nodeCounter /\ nodeCounter \in 0 .. primCount - 1
      /\ Stored = primCount - 1 - nodeCounter .. primCount - 2
      /\ DOMAIN scratchNodes = 0 .. primCount - 2
      /\ \A a, b \in Stored : a # b => NodeAt(a) # NodeAt(b)
      /\ nodeCounter = primCount - 1 => NodeAt(0) = Leaf
  BY <1>1 DEF NodeInv
<1>9. nodeCounter = primCount - 1 /\ primCount - 1 - nodeCounter = 0
  BY <1>7, <1>8, SizesNat
<1> QED BY <1>8, <1>9

(* Every run of HPloc that ends has stored each node once and the root at  *)
(* address 0, where Collapse starts.                                       *)
THEOREM AlwaysOneTree == Spec => []OneTree
<1>1. IInv => OneTree
  BY InvOneTree
<1> QED BY <1>1, BuildKeepsInv, PTL

(* A round is a step of the abstract builder, or changes no cluster.       *)
LEMMA RoundAgglomerates ==
  ASSUME NodeInv, Unites(Clusters, Clusters')
  PROVE  Clusters' = Clusters \/ Abstract!Next
<1> SUFFICES ASSUME Clusters' # Clusters PROVE Abstract!Next
  OBVIOUS
<1> DEFINE C == Clusters
<1>1. Partition(C)
  BY DEF NodeInv
<1>2. PICK cs, a, b, pairs :
        SpreadOver(C, cs, a, b) /\ Paired(pairs, Len(cs)) /\ Clusters' = After(C, cs, pairs)
  BY DEF Unites
<1> DEFINE f(p) == First(cs, p)
           g(p) == Second(cs, p)
           D == After(C, cs, pairs)
<1>3. Partition(D)
  BY <1>1, <1>2, AfterPartition
<1>4. \A p \in pairs : f(p) \in C /\ g(p) \in C /\ f(p) # {} /\ f(p) \cap g(p) = {}
  BY <1>1, <1>2, LaneClusters
<1>5. \A p \in pairs : f(p) # g(p)
  BY <1>4
<1>6. \A x : x \in D => x \in C \/ \E p \in pairs : x = f(p) \cup g(p)
  BY DEF After, OldOf, NewOf
<1> HIDE DEF f, g, D, C
<1>7. \A x \in D : x \in C \/ \E y, z \in C : y # z /\ x = y \cup z
  BY <1>4, <1>5, <1>6
<1>8. UNION C = Leaf /\ UNION D = Leaf
  BY <1>1, <1>3 DEF Partition
<1>9. \A c, d \in D : c # d => c \cap d = {}
  BY <1>3 DEF Partition
<1>10. Clusters' = D /\ Clusters = C
  BY <1>2 DEF D, C
<1> QED BY <1>7, <1>8, <1>9, <1>10 DEF Abstract!Next, Abstract!United, Abstract!Apart

(* HPloc implements the abstract builder: clusters are only ever united    *)
(* two by two, and none of them twice.                                     *)
THEOREM BuildAgglomerates == Spec => ImplementsAgglomeration
<1>1. Init => Abstract!Init
  BY InitInv DEF Abstract!Init
<1>2. IInv /\ [Next]_vars => [Abstract!Next]_Clusters
  BY StepKeeps, RoundAgglomerates DEF IInv
<1> QED BY <1>1, <1>2, BuildKeepsInv, PTL DEF Spec, ImplementsAgglomeration, Abstract!Spec

(* No round of the merge loop is idle: some pair of clusters is united and *)
(* gets a node.                                                            *)
RoundsUnite == [][\A w \in Warp : Cluster(w) => nodeCounter' > nodeCounter]_vars

(* More than one cluster is left while there are too many of them.         *)
LEMMA RoundUnites ==
  ASSUME IInv, NEW w \in Warp, Cluster(w)
  PROVE  nodeCounter' > nodeCounter
<1> DEFINE n == Len(held[w])
           D(k) == [{<<x, y>> : x \in Lanes(k), y \in Lanes(k)} \cap
                    {<<x, x + y>> : x \in Lanes(k), y \in 1 .. PlocRadius} -> 0 .. MaxDistance]
<1>1. ClimbInv /\ WarpInv /\ ClusterInv /\ NodeInv /\ place[w] = "cluster" /\ TooMany(w)
  BY DEF IInv, Cluster
<1>2. n \in Nat /\ n <= WarpSize
  <2>1. Current(w) \in LanesOf(w) \cap Top
    BY <1>1, CurrentIn DEF WarpInv, WarpOk, ClimbInv
  <2>2. PieceInv(w, Current(w)) /\ Loaded(w, Current(w))
    BY <2>1, <1>1 DEF ClusterInv, Loaded
  <2> QED BY <2>2 DEF PieceInv, SpreadOver
<1>3. n > 1
  <2>1. n > Threshold(w) /\ Threshold(w) \in Nat /\ Threshold(w) >= 1
    BY <1>1, SizesNat DEF TooMany, Threshold
  <2> HIDE DEF n
  <2> QED BY <2>1, <1>2
<1>4. PICK pairs \in Rounds[n] : nodeCounter' = nodeCounter + Cardinality(pairs)
  BY DEF Cluster
<1> HIDE DEF n
<1>5. Rounds = [k \in 1 .. WarpSize |-> {Merging(d, k) : d \in D(k)}]
  BY DEF Rounds
<1>6. Rounds[n] = {Merging(d, n) : d \in D(n)}
  <2> HIDE DEF D
  <2>1. n \in 1 .. WarpSize
    BY <1>2, <1>3, SizesNat
  <2> QED BY <2>1, <1>5
<1>7. PICK d \in D(n) : pairs = Merging(d, n)
  <2> HIDE DEF D
  <2>1. pairs \in {Merging(d, n) : d \in D(n)}
    BY <1>4, <1>6
  <2> QED BY <2>1
<1>8. Distances(d, n)
  <2> SUFFICES ASSUME NEW x \in Lanes(n), NEW y \in Lanes(n), x < y, y - x <= PlocRadius
               PROVE  d[<<x, y>>] \in Nat
    BY DEF Distances
  <2>1. x \in Int /\ y \in Int /\ PlocRadius \in Nat
    BY RadiusAssumption DEF Lanes
  <2>2. y - x \in 1 .. PlocRadius /\ x + (y - x) = y
    BY <2>1
  <2>3. <<x, y>> \in {<<u, u + v>> : u \in Lanes(n), v \in 1 .. PlocRadius}
    BY <2>2
  <2>4. <<x, y>> \in {<<u, v>> : u \in Lanes(n), v \in Lanes(n)}
    OBVIOUS
  <2>5. d[<<x, y>>] \in 0 .. MaxDistance
    BY <2>3, <2>4
  <2> QED BY <2>5
<1> HIDE DEF D
<1>9. pairs # {}
  BY <1>2, <1>3, <1>7, <1>8, PairMerges
<1>10. IsFiniteSet(pairs) /\ Cardinality(pairs) \in Nat
  <2>1. Paired(pairs, n)
    BY <1>2, <1>7, MergingPaired
  <2>2. pairs \subseteq Lanes(n) \X Lanes(n)
    BY <2>1 DEF Paired
  <2>3. IsFiniteSet(Lanes(n) \X Lanes(n))
    <3>1. IsFiniteSet(Lanes(n))
      BY <1>2, FS_Interval DEF Lanes
    <3> QED BY <3>1, FS_Product
  <2>4. IsFiniteSet(pairs)
    BY <2>2, <2>3, FS_Subset
  <2> QED BY <2>4, FS_CardinalityType
<1>11. Cardinality(pairs) > 0
  <2>1. Cardinality(pairs) # 0
    BY <1>9, <1>10, FS_EmptySet
  <2> QED BY <2>1, <1>10
<1>12. nodeCounter \in Nat
  BY <1>1, SizesNat DEF NodeInv
<1> QED BY <1>4, <1>10, <1>11, <1>12

(* The merge loop of HPloc never goes round in vain: every round stores a  *)
(* node, so that it ends.                                                  *)
THEOREM RoundsAlwaysUnite == Spec => RoundsUnite
<1>1. IInv /\ [Next]_vars => [\A w \in Warp : Cluster(w) => nodeCounter' > nodeCounter]_vars
  BY RoundUnites
<1> QED BY <1>1, BuildKeepsInv, PTL DEF Spec, RoundsUnite

(* Half a warp of words fits into the queue of every build.                *)
LEMMA StoreStaysInside ==
  ASSUME IInv, PairsKept, Half <= QueueEnd, NEW w \in Warp, Store(w)
  PROVE  PairsKept'
<1> DEFINE i == range[Current(w)].i
           j == range[Current(w)].j
           value(word) == IF word - i < Len(held[w]) THEN held[w][word - i + 1] ELSE InvalidValue
<1>1. Current(w) \in merging[w] /\ Current(w) \in Leaf
  BY CurrentIn DEF IInv, WarpInv, WarpOk, ClimbInv, Store
<1>2. i \in Nat /\ j \in Nat /\ i < j /\ j <= primCount
  BY <1>1, RangeFacts DEF IInv
<1>3. j - i > Half \/ i = 0
  BY <1>1 DEF IInv, WarpInv, WarpOk, Size, Whole
<1>4. pairIndices' = [a \in Leaf |->
        IF QueueEnd + 2 * a \in i .. i + Half - 1 THEN value(QueueEnd + 2 * a) ELSE pairIndices[a]]
  BY DEF Store, Stretch
<1>5. QueueEnd \in Nat /\ primCount <= QueueEnd
  <2> DEFINE n == 3 * queueCount + Alignment - 1
  <2>1. n \in Nat /\ Alignment \in Nat \ {0} /\ n - (Alignment - 1) = 3 * queueCount
    BY QueueAssumption
  <2> HIDE DEF n
  <2>2. (n \div Alignment) * Alignment \in Nat /\ (n \div Alignment) * Alignment > n - Alignment
    BY <2>1
  <2>3. QueueEnd = (n \div Alignment) * Alignment
    BY DEF QueueEnd, n
  <2> QED BY <2>1, <2>2, <2>3, QueueAssumption, SizesNat
<1> HIDE DEF i, j, value
<1>6. \A a \in Leaf : QueueEnd + 2 * a \notin i .. i + Half - 1
  BY <1>2, <1>3, <1>5, SizesNat DEF Leaf
<1>7. \A a \in Leaf : pairIndices[a] = a
  BY DEF PairsKept
<1> QED BY <1>4, <1>6, <1>7 DEF PairsKept

(* Where an allocation is never shorter than half a warp of words, as with *)
(* warps of 32 lanes, a small build of HPloc leaves the pairs behind its   *)
(* task queue as they are.                                                 *)
THEOREM PairsAlwaysKept ==
  ASSUME Half <= QueueEnd
  PROVE  Spec => []PairsKept
<1>1. Init => PairsKept
  BY DEF Init, PairsKept
<1>2. IInv /\ PairsKept /\ [Next]_vars => PairsKept'
  <2> SUFFICES ASSUME IInv, PairsKept, [Next]_vars PROVE PairsKept'
    OBVIOUS
  <2>1. CASE UNCHANGED pairIndices
    BY <2>1 DEF PairsKept
  <2>2. CASE \E w \in Warp : Store(w)
    BY <2>2, StoreStaysInside
  <2>3. UNCHANGED pairIndices \/ \E w \in Warp : Store(w)
    BY DEF Next, Step, Climb, Elect, Load, Cluster, Iterate, Terminated, vars
  <2> QED BY <2>1, <2>2, <2>3
<1> QED BY <1>1, <1>2, BuildKeepsInv, PTL DEF Spec
=============================================================================
