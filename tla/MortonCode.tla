----------------------------- MODULE MortonCode -----------------------------
(***************************************************************************)
(* The sorted Morton codes that the LBVH and the PLOC kernel climb along.  *)
(* A thread that owns the codes of [i, j) only asks at which of its two    *)
(* boundaries the neighbours differ less, so a sequence of codes is seen   *)
(* through one number for each boundary.                                   *)
(***************************************************************************)
EXTENDS Integers

CONSTANTS
  primCount,        \* leaves of the tree
  MaxCode           \* the largest Morton code of the instance

ASSUME CountAssumption == primCount \in Nat /\ primCount > 1
ASSUME CodeAssumption  == MaxCode \in Nat

Leaf == 0 .. primCount - 1

(* The inputs: the sorted codes of the leaves.                             *)
Sorted == {s \in [Leaf -> 0 .. MaxCode] : \A a, b \in Leaf : a < b => s[a] <= s[b]}

(* A key is widened by its position, so that equal keys differ too; the    *)
(* position takes as many low bits as the instance needs.                  *)
Widened(s, i) == s[i] * 2 ^ primCount + i

(* How many low bits hold all the differences: of two such differences the *)
(* one with the higher bit is larger, and neighbours of one range never    *)
(* differ in the same highest bit.                                         *)
HighestBit(a, b) ==
  CHOOSE k \in 0 .. MaxCode + primCount + 1 :
    a \div 2 ^ k = b \div 2 ^ k /\ (k = 0 \/ a \div 2 ^ (k - 1) # b \div 2 ^ (k - 1))

(* Outside of the array it returns ~0, more than any two keys differ.      *)
findHighestDifferentBit(s, i, j) ==
  IF {i, j} \subseteq Leaf THEN HighestBit(Widened(s, i), Widened(s, j)) ELSE MaxCode + primCount + 2

Differences(s) == [b \in 0 .. primCount |-> findHighestDifferentBit(s, b - 1, b)]
=============================================================================
