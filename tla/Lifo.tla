-------------------------------- MODULE Lifo --------------------------------
(***************************************************************************)
(* What a traversal stack promises its users, wherever its entries are     *)
(* kept: the entry that is popped is the youngest one that is left, and    *)
(* nobody else's pushes and pops are noticed.                              *)
(***************************************************************************)
EXTENDS Integers, Sequences

CONSTANTS User, Value

VARIABLE stack      \* the entries of each user, the youngest last

Init == stack = [u \in User |-> <<>>]

Push(u, v) == stack' = [stack EXCEPT ![u] = Append(@, v)]

Pop(u) ==
  /\ stack[u] # <<>>
  /\ stack' = [stack EXCEPT ![u] = SubSeq(@, 1, Len(@) - 1)]

(* A new ray begins, or the last one has ended.                            *)
Clear(u) == stack' = [stack EXCEPT ![u] = <<>>]

(* The warp is gone.                                                       *)
ClearAll(U) == stack' = [u \in User |-> IF u \in U THEN <<>> ELSE stack[u]]

Next ==
  \/ \E u \in User : Pop(u) \/ Clear(u) \/ \E v \in Value : Push(u, v)
  \/ \E U \in SUBSET User : ClearAll(U)

Spec == Init /\ [][Next]_stack
=============================================================================
