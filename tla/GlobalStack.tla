---------------------------- MODULE GlobalStack ----------------------------
(***************************************************************************)
(* Traversal stacks with dynamic assignment.  A stack buffer holds a flag  *)
(* and a group of stacks for every warp the device can run at a time.  A   *)
(* warp scans the flags for one it can set, uses the stacks behind it, one *)
(* per lane, and clears the flag when it leaves.  The youngest entries of  *)
(* a stack are kept in a ring in shared memory, older ones spill into the  *)
(* buffer.                                                                 *)
(*                                                                         *)
(* The buffer is a function from word addresses; a store outside of it     *)
(* would make its domain larger.                                           *)
(***************************************************************************)
EXTENDS Integers, FiniteSets

CONSTANTS
  Warp,             \* the warps of the grid, by number
  Lanes,            \* the lanes of each that get as far as the constructor
  WarpSize,
  MaxResident,      \* warps the device runs at a time
  stackCount,       \* threads the device runs at a time
  stackSize,        \* entries of a stack in the buffer
  entryWords,       \* words of an entry: 1 unless it is an instance stack
  SharedSizes,      \* entries of a stack in shared memory, chosen by the kernel
  Values,           \* what each lane pushes
  Nothing           \* no flag, or a word nobody has written

activeWarps == stackCount \div WarpSize

ASSUME BufferAssumption ==
  /\ WarpSize \in Nat \ {0} /\ stackCount \in Nat /\ activeWarps > 0
  /\ stackSize \in Nat \ {0} /\ SharedSizes \subseteq Nat
  /\ entryWords \in Nat \ {0}
ASSUME GridAssumption ==
  /\ Warp \subseteq Nat
  /\ Lanes \in [Warp -> (SUBSET (0 .. WarpSize - 1)) \ {{}}]
  /\ MaxResident \in 1 .. activeWarps
ASSUME NothingAssumption == Nothing \notin Nat

VARIABLES
  sharedStackSize,
  pc,               \* of each warp: queued, acquiring, tracing or done
  warpHash,         \* the candidate of a warp that acquires, then its flag
  stackData,        \* the words of the buffer
  stack             \* the registers and the ring of each lane's stack

vars == <<sharedStackSize, pc, warpHash, stackData, stack>>

User == UNION {{w} \X Lanes[w] : w \in Warp}

(* Mutation: no room for the flags.                                        *)
entriesSize == stackCount * stackSize * entryWords

(* createGlobalStackBuffer: the flags and the stacks of all lanes.         *)
bufferSize == activeWarps + stackCount * stackSize * entryWords

Init ==
  /\ sharedStackSize \in SharedSizes
  /\ pc = [w \in Warp |-> "queued"]
  /\ warpHash = [w \in Warp |-> Nothing]
  /\ stackData = [a \in 0 .. bufferSize - 1 \cup 0 .. stackCount - 1 |->
                    IF a < stackCount THEN 0 ELSE Nothing]
  /\ stack = [u \in {} |-> 0]

Store(addrs, val) ==
  stackData' = [a \in DOMAIN stackData \cup addrs |-> IF a \in addrs THEN val ELSE stackData[a]]

Resident == {w \in Warp : pc[w] \notin {"queued", "done"}}

(* The device finds room for a warp; the flag it tries first is its own    *)
(* number, wrapped around.                                                 *)
Start(w) ==
  /\ pc[w] = "queued"
  /\ Cardinality(Resident) < MaxResident
  /\ pc' = [pc EXCEPT ![w] = "acquiring"]
  /\ warpHash' = [warpHash EXCEPT ![w] = w % activeWarps]
  /\ UNCHANGED <<sharedStackSize, stackData, stack>>

(* Mutations: the flag is not looked at; the candidate is not advanced.    *)
AlwaysFree(c) == TRUE
SameFlag(c)   == c

Free(c)     == stackData[c] = 0
NextFlag(c) == (c + 1) % activeWarps

(* One round of the constructor's loop: the atomicCAS of the first lane.   *)
TryLock(w) ==
  /\ pc[w] = "acquiring"
  /\ \/ /\ Free(warpHash[w])
        /\ Store({warpHash[w]}, 1)
        /\ pc' = [pc EXCEPT ![w] = "tracing"]
        /\ UNCHANGED warpHash
     \/ /\ ~Free(warpHash[w])
        /\ warpHash' = [warpHash EXCEPT ![w] = NextFlag(@)]
        /\ UNCHANGED <<pc, stackData>>
  /\ UNCHANGED <<sharedStackSize, stack>>

(* The traversal's constructor resets the stack of its lane; until then    *)
(* the registers hold anything.                                            *)
NewRing == [k \in 0 .. sharedStackSize - 1 |-> Nothing]

Cleared(u) == [globalIndex |-> 0, sharedIndex |-> 0, sharedCount |-> 0,
               ring |-> IF u \in DOMAIN stack THEN stack[u].ring ELSE NewRing]

Reset(u) ==
  /\ pc[u[1]] = "tracing"
  /\ stack' = [v \in DOMAIN stack \cup {u} |-> IF v = u THEN Cleared(u) ELSE stack[v]]
  /\ UNCHANGED <<sharedStackSize, pc, warpHash, stackData>>

(* The place of entry i of a stack in the buffer, counted in entries, and  *)
(* the words it takes.                                                     *)
Cell(u, i) == activeWarps + u[2] + warpHash[u[1]] * WarpSize * stackSize + i * WarpSize

Words(u, i) == Cell(u, i) * entryWords .. Cell(u, i) * entryWords + entryWords - 1

vacancy(s) == stackSize - s.globalIndex + sharedStackSize - s.sharedCount
empty(s)   == s.sharedCount = 0 /\ s.globalIndex = 0

Wrapped(k)   == IF k >= sharedStackSize THEN k - sharedStackSize ELSE k
Unwrapped(k) == IF k < 0 THEN k + sharedStackSize ELSE k

(* A push into the ring, while there is room.                              *)
Kept(s, val) ==
  [globalIndex |-> s.globalIndex,
   sharedIndex |-> Wrapped(s.sharedIndex + 1),
   sharedCount |-> s.sharedCount + 1,
   ring        |-> [s.ring EXCEPT ![s.sharedIndex] = val]]

PushShared(u, val) ==
  /\ u \in DOMAIN stack
  /\ stack[u].sharedCount < sharedStackSize
  /\ stack' = [stack EXCEPT ![u] = Kept(@, val)]
  /\ UNCHANGED <<sharedStackSize, pc, warpHash, stackData>>

(* A push into a full ring.  Its oldest entry is the next to be            *)
(* overwritten; it goes to the buffer.  The caller has asked for vacancy.  *)
Spilled(s, val) ==
  IF sharedStackSize = 0 THEN [s EXCEPT !.globalIndex = @ + 1]
  ELSE [globalIndex |-> s.globalIndex + 1,
        sharedIndex |-> Wrapped(s.sharedIndex + 1),
        sharedCount |-> s.sharedCount,
        ring        |-> [s.ring EXCEPT ![s.sharedIndex] = val]]

PushGlobal(u, val) ==
  /\ u \in DOMAIN stack
  /\ vacancy(stack[u]) > 0
  /\ stack[u].sharedCount = sharedStackSize
  /\ Store(Words(u, stack[u].globalIndex),
           IF sharedStackSize = 0 THEN val ELSE stack[u].ring[stack[u].sharedIndex])
  /\ stack' = [stack EXCEPT ![u] = Spilled(@, val)]
  /\ UNCHANGED <<sharedStackSize, pc, warpHash>>

Popped(s) ==
  IF s.sharedCount > 0
  THEN [s EXCEPT !.sharedCount = @ - 1, !.sharedIndex = Unwrapped(@ - 1)]
  ELSE [s EXCEPT !.globalIndex = @ - 1]

Pop(u) ==
  /\ u \in DOMAIN stack
  /\ ~empty(stack[u])
  /\ stack' = [stack EXCEPT ![u] = Popped(@)]
  /\ UNCHANGED <<sharedStackSize, pc, warpHash, stackData>>

(* The destructor, at the end of the kernel.  The lanes of a warp get      *)
(* there together.                                                         *)
Leave(w) ==
  /\ pc[w] = "tracing"
  /\ Store({warpHash[w]}, 0)
  /\ pc' = [pc EXCEPT ![w] = "done"]
  /\ warpHash' = [warpHash EXCEPT ![w] = Nothing]
  /\ stack' = [u \in {v \in DOMAIN stack : v[1] # w} |-> stack[u]]
  /\ UNCHANGED sharedStackSize

Use(u) == Reset(u) \/ Pop(u) \/ \E val \in Values[u] : PushShared(u, val) \/ PushGlobal(u, val)

Finished == \A w \in Warp : pc[w] = "done"

Terminated == Finished /\ UNCHANGED vars

Next ==
  \/ \E w \in Warp : Start(w) \/ TryLock(w) \/ Leave(w)
  \/ \E u \in User : Use(u)
  \/ Terminated

Spec == Init /\ [][Next]_vars

(* Warps that run keep being scheduled.  That a warp ever leaves is not    *)
(* assumed.                                                                *)
FairSpec == Spec /\ \A w \in Warp : WF_vars(TryLock(w))

-----------------------------------------------------------------------------
Holds(w, c) == pc[w] = "tracing" /\ warpHash[w] = c

(* Nothing is stored outside of the buffer or over a flag, and a flag is   *)
(* set exactly while one warp owns the stacks behind it.                   *)
BufferIntact ==
  /\ DOMAIN stackData = 0 .. bufferSize - 1
  /\ \A c \in 0 .. activeWarps - 1 :
       /\ stackData[c] = IF \E w \in Warp : Holds(w, c) THEN 1 ELSE 0
       /\ \A v, w \in Warp : Holds(v, c) /\ Holds(w, c) => v = w

(* The entries of a stack, the oldest first: those in the buffer, then     *)
(* those in the ring.                                                      *)
Height(s) == s.globalIndex + s.sharedCount

Entry(u, s, i) ==
  IF i < s.globalIndex THEN stackData[Cell(u, i) * entryWords]
  ELSE s.ring[Unwrapped(s.sharedIndex - s.sharedCount + i - s.globalIndex)]

Entries(u) ==
  IF u \notin DOMAIN stack THEN <<>>
  ELSE [i \in 1 .. Height(stack[u]) |-> Entry(u, stack[u], i - 1)]

(* Each lane has a stack of its own, wherever its entries are kept.        *)
Abstract == INSTANCE Lifo WITH
  Value <- UNION {Values[u] : u \in User},
  stack <- [u \in User |-> Entries(u)]

ImplementsLifo == Abstract!Spec

(* A warp that runs gets its stacks although no other ever gives its own   *)
(* back: there is a flag for every warp the device can run.                *)
EveryWarpServed == \A w \in Warp : pc[w] = "acquiring" ~> pc[w] = "tracing"
=============================================================================
