--------------------------- MODULE PlocNeighbours ---------------------------
(***************************************************************************)
(* One round of PLOC among the clusters of a warp: each lane looks for its *)
(* nearest neighbour within PlocRadius and two that choose each other      *)
(* merge.  The distance and the neighbour are one number, the distance in  *)
(* the high bits, so that an atomicMin finds both.                         *)
(***************************************************************************)
EXTENDS Integers, FiniteSets

CONSTANT PlocRadius

ASSUME RadiusAssumption == PlocRadius \in Nat \ {0}

Abs(x) == IF x < 0 THEN -x ELSE x

Lanes(n) == 0 .. n - 1

Neighbours(x, n) == {y \in Lanes(n) : y # x /\ Abs(y - x) <= PlocRadius}

(* Distances, each one computed once and used by both lanes.               *)
Between(x, y) == IF x < y THEN <<x, y>> ELSE <<y, x>>

(* The low bit says on which side the neighbour is, seen from the parity   *)
(* of the lane: even lanes prefer the right, odd ones the left.            *)
encodeOffset(x, y) ==
  2 * (Abs(y - x) - 1) + (IF y < x THEN 1 - (x % 2) ELSE x % 2)

decodeOffset(x, offset) ==
  IF (offset + x) % 2 = 1 THEN x - (offset \div 2 + 1) ELSE x + (offset \div 2 + 1)

distanceOffset(d, x, y) == 2 * PlocRadius * d[Between(x, y)] + encodeOffset(x, y)

IsNearest(d, n, x, y) ==
  /\ y \in Neighbours(x, n)
  /\ \A z \in Neighbours(x, n) : distanceOffset(d, x, y) <= distanceOffset(d, x, z)

(* What a lane decodes from the smallest number it has seen.               *)
Nearest(d, n, x) ==
  decodeOffset(x, distanceOffset(d, x, CHOOSE y \in Neighbours(x, n) : IsNearest(d, n, x, y)) % (2 * PlocRadius))

(* Mutation: a lane does not ask whom its neighbour has chosen.            *)
OneSided(d, n) == {p \in Lanes(n) \X Lanes(n) : p[1] < p[2] /\ Nearest(d, n, p[1]) = p[2]}

(* The pairs that merge.                                                   *)
Merging(d, n) ==
  {p \in Lanes(n) \X Lanes(n) :
     p[1] < p[2] /\ Nearest(d, n, p[1]) = p[2] /\ Nearest(d, n, p[2]) = p[1]}
=============================================================================
