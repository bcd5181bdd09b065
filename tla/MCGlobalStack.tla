--------------------------- MODULE MCGlobalStack ---------------------------
(* Three warps of two lanes on a device with room for two.  In each one    *)
(* lane is left when the stack is constructed.                             *)
EXTENDS GlobalStack

CONSTANTS a, b, c   \* entries

Warps3  == 0 .. 2
Lanes3  == [w \in Warps3 |-> IF w = 1 THEN {1} ELSE {0}]
Values3 == [u \in User |-> IF u[1] = 0 THEN {a, b} ELSE IF u[1] = 2 THEN {c} ELSE {}]
=============================================================================
