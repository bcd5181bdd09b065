-------------------------- MODULE GlobalStackProofs --------------------------
(***************************************************************************)
(* Proofs about GlobalStack, for every grid, device and stack size: every  *)
(* lane has a last-in first-out stack of its own, a flag has one owner,    *)
(* and with entries of one word nothing is stored outside of the buffer.   *)
(***************************************************************************)
EXTENDS GlobalStack, Sequences, TLAPS

-----------------------------------------------------------------------------
(* Arithmetic of places.                                                   *)

(* Two numbers written in the same base differ if a digit does.            *)
LEMMA Digits ==
  ASSUME NEW n \in Nat \ {0}, NEW x \in 0 .. n - 1, NEW y \in 0 .. n - 1,
         NEW p \in Nat, NEW q \in Nat,
         x + n * p = y + n * q
  PROVE  x = y /\ p = q
<1>1. n * (p - q) = y - x
  BY SMT
<1>2. ~(p > q)
  <2> SUFFICES ASSUME p > q PROVE FALSE
    OBVIOUS
  <2> DEFINE d == p - q - 1
  <2>1. d \in Nat
    OBVIOUS
  <2>2. n * d \in Nat
    BY <2>1
  <2>3. n * (p - q) = n + n * d
    BY <2>1
  <2> HIDE DEF d
  <2> QED BY <1>1, <2>2, <2>3
<1>3. ~(q > p)
  <2> SUFFICES ASSUME q > p PROVE FALSE
    OBVIOUS
  <2> DEFINE d == q - p - 1
  <2>1. d \in Nat
    OBVIOUS
  <2>2. n * d \in Nat
    BY <2>1
  <2>3. n * (p - q) = -n - n * d
    BY <2>1
  <2> HIDE DEF d
  <2> QED BY <1>1, <2>2, <2>3
<1>4. p = q
  BY <1>2, <1>3
<1> QED BY <1>4

LEMMA ActiveWarps == activeWarps \in Nat \ {0} /\ activeWarps * WarpSize <= stackCount
BY BufferAssumption DEF activeWarps

LEMMA ModuloRange ==
  ASSUME NEW k \in Nat
  PROVE  k % activeWarps \in 0 .. activeWarps - 1
BY ActiveWarps

LEMMA ProductInNat ==
  ASSUME NEW m \in Nat, NEW n \in Nat
  PROVE  m * n \in Nat
BY SMT

LEMMA UserParts ==
  ASSUME NEW u \in User
  PROVE  u[1] \in Warp /\ u[2] \in 0 .. WarpSize - 1 /\ u = <<u[1], u[2]>>
BY GridAssumption DEF User

Vals == UNION {Values[u] : u \in User}

-----------------------------------------------------------------------------
Stack == [globalIndex : 0 .. stackSize, sharedIndex : Nat,
          sharedCount : 0 .. sharedStackSize,
          ring : [0 .. sharedStackSize - 1 -> Vals \cup {Nothing}]]

TypeInv ==
  /\ sharedStackSize \in Nat
  /\ pc \in [Warp -> {"queued", "acquiring", "tracing", "done"}]
  /\ DOMAIN warpHash = Warp
  /\ \A w \in Warp : pc[w] \in {"acquiring", "tracing"} => warpHash[w] \in 0 .. activeWarps - 1
  /\ stackData \in [DOMAIN stackData -> Vals \cup {Nothing, 0, 1}]
  /\ 0 .. activeWarps - 1 \subseteq DOMAIN stackData
  /\ DOMAIN stack \subseteq User
  /\ stack \in [DOMAIN stack -> Stack]
  /\ \A u \in DOMAIN stack :
       /\ pc[u[1]] = "tracing"
       /\ sharedStackSize > 0 => stack[u].sharedIndex < sharedStackSize
       /\ sharedStackSize = 0 => stack[u].sharedIndex = 0

(* A set flag has exactly one owner.                                       *)
FlagInv ==
  \A c \in 0 .. activeWarps - 1 :
    /\ stackData[c] = IF \E w \in Warp : Holds(w, c) THEN 1 ELSE 0
    /\ \A v, w \in Warp : Holds(v, c) /\ Holds(w, c) => v = w

(* What has been spilled is in the buffer.                                 *)
SpillInv ==
  \A u \in DOMAIN stack : \A i \in 0 .. stack[u].globalIndex - 1 : Words(u, i) \subseteq DOMAIN stackData

Inv == TypeInv /\ FlagInv /\ SpillInv

LEMMA InvInit == Init => Inv
<1> SUFFICES ASSUME Init PROVE Inv
  OBVIOUS
<1> USE BufferAssumption, ActiveWarps
<1>1. activeWarps <= stackCount
  OBVIOUS
<1>2. TypeInv
  BY <1>1 DEF Init, TypeInv
<1>3. FlagInv
  BY <1>1 DEF Init, FlagInv, Holds
<1>4. SpillInv
  BY DEF Init, SpillInv
<1> QED BY <1>2, <1>3, <1>4 DEF Inv

-----------------------------------------------------------------------------
(* The places of the stacks are apart from each other and from the flags.  *)

LEMMA CellIs ==
  ASSUME NEW u \in User, NEW i \in Nat, warpHash[u[1]] \in Nat
  PROVE  /\ warpHash[u[1]] * stackSize + i \in Nat
         /\ Cell(u, i) = activeWarps + (u[2] + WarpSize * (warpHash[u[1]] * stackSize + i))
         /\ Cell(u, i) \in Nat /\ Cell(u, i) >= activeWarps
<1> DEFINE h == warpHash[u[1]]
<1>1. WarpSize \in Nat /\ stackSize \in Nat /\ h \in Nat /\ u[2] \in Nat /\ activeWarps \in Nat
  BY BufferAssumption, ActiveWarps, UserParts
<1>2. h * stackSize \in Nat
  BY <1>1, ProductInNat
<1>3. WarpSize * (h * stackSize + i) \in Nat
  BY <1>1, <1>2, ProductInNat
<1>4. h * WarpSize * stackSize = WarpSize * (h * stackSize)
  BY <1>1
<1>5. WarpSize * (h * stackSize + i) = WarpSize * (h * stackSize) + i * WarpSize
  BY <1>1, <1>2
<1>6. Cell(u, i) = activeWarps + u[2] + h * WarpSize * stackSize + i * WarpSize
  BY DEF Cell
<1> QED BY <1>1, <1>2, <1>3, <1>4, <1>5, <1>6

(* Stacks of different owners, or of different lanes of one, and entries   *)
(* of one stack.                                                           *)
Apart(u, i, v, j) ==
  \/ warpHash[u[1]] # warpHash[v[1]]
  \/ u[2] # v[2]
  \/ i # j

LEMMA CellsApart ==
  ASSUME NEW u \in User, NEW i \in 0 .. stackSize - 1, warpHash[u[1]] \in Nat,
         NEW v \in User, NEW j \in 0 .. stackSize - 1, warpHash[v[1]] \in Nat,
         Cell(u, i) = Cell(v, j)
  PROVE  ~Apart(u, i, v, j)
<1> DEFINE g == warpHash[u[1]]
           h == warpHash[v[1]]
           p == g * stackSize + i
           q == h * stackSize + j
<1>1. /\ p \in Nat /\ q \in Nat
      /\ Cell(u, i) = activeWarps + (u[2] + WarpSize * p)
      /\ Cell(v, j) = activeWarps + (v[2] + WarpSize * q)
  BY BufferAssumption, CellIs
<1>2. u[2] + WarpSize * p = v[2] + WarpSize * q
  <2>1. WarpSize * p \in Nat /\ WarpSize * q \in Nat
    BY <1>1, BufferAssumption, ProductInNat
  <2>2. u[2] \in Nat /\ v[2] \in Nat /\ activeWarps \in Nat
    BY UserParts, ActiveWarps, BufferAssumption
  <2> DEFINE x == WarpSize * p
             y == WarpSize * q
  <2>3. activeWarps + (u[2] + x) = activeWarps + (v[2] + y)
    BY <1>1
  <2>4. x \in Nat /\ y \in Nat
    BY <2>1
  <2>5. u[2] + x = v[2] + y
    <3> HIDE DEF x, y
    <3> QED BY <2>2, <2>3, <2>4
  <2> QED BY <2>5
<1>3. u[2] = v[2] /\ p = q
  <2> HIDE DEF p, q
  <2> QED BY <1>1, <1>2, UserParts, BufferAssumption, Digits
<1>4. i + stackSize * g = j + stackSize * h
  BY <1>3, BufferAssumption
<1>5. i = j /\ g = h
  <2>1. g \in Nat /\ h \in Nat
    OBVIOUS
  <2> HIDE DEF g, h
  <2> QED BY <1>4, <2>1, BufferAssumption, Digits
<1> QED BY <1>3, <1>5 DEF Apart

LEMMA WordsAre ==
  ASSUME NEW u \in User, NEW i \in Nat, warpHash[u[1]] \in Nat
  PROVE  /\ Cell(u, i) * entryWords \in Nat
         /\ Cell(u, i) * entryWords >= activeWarps
         /\ Cell(u, i) * entryWords \in Words(u, i)
         /\ \A a \in Words(u, i) : a \in Nat /\ a >= activeWarps
<1> DEFINE c == Cell(u, i)
<1>1. c \in Nat /\ c >= activeWarps
  BY CellIs
<1>2. entryWords \in Nat \ {0}
  BY BufferAssumption
<1>3. c * (entryWords - 1) \in Nat /\ c * entryWords = c + c * (entryWords - 1)
  <2> HIDE DEF c
  <2>1. entryWords - 1 \in Nat
    BY <1>2
  <2> QED BY <1>1, <1>2, <2>1, ProductInNat
<1>4. c * entryWords \in Nat /\ c * entryWords >= activeWarps
  <2> HIDE DEF c
  <2> QED BY <1>1, <1>3, ActiveWarps
<1> HIDE DEF c
<1>5. Words(u, i) = c * entryWords .. c * entryWords + entryWords - 1
  BY DEF Words, c
<1> QED BY <1>2, <1>4, <1>5, ActiveWarps DEF c

LEMMA WordsApart ==
  ASSUME NEW u \in User, NEW i \in 0 .. stackSize - 1, warpHash[u[1]] \in Nat,
         NEW v \in User, NEW j \in 0 .. stackSize - 1, warpHash[v[1]] \in Nat,
         Apart(u, i, v, j)
  PROVE  Cell(v, j) * entryWords \notin Words(u, i)
<1> SUFFICES ASSUME Cell(v, j) * entryWords \in Words(u, i) PROVE FALSE
  OBVIOUS
<1> DEFINE c == Cell(u, i)
           d == Cell(v, j)
<1>1. c \in Nat /\ d \in Nat /\ i \in Nat /\ j \in Nat
  BY BufferAssumption, CellIs
<1>2. entryWords \in Nat \ {0}
  BY BufferAssumption
<1>3. c * entryWords \in Nat /\ d * entryWords \in Nat
  BY <1>1, <1>2, ProductInNat
<1>4. d * entryWords \in c * entryWords .. c * entryWords + entryWords - 1
  BY DEF Words
<1> DEFINE x == d * entryWords - c * entryWords
<1>5. x \in 0 .. entryWords - 1
  BY <1>2, <1>3, <1>4
<1>6. x + entryWords * c = 0 + entryWords * d
  BY <1>1, <1>2, <1>3
<1>7. c = d
  <2> HIDE DEF c, d, x
  <2> QED BY <1>1, <1>2, <1>5, <1>6, Digits
<1> QED BY <1>7, CellsApart

-----------------------------------------------------------------------------
(* What the invariant says of one stack.                                   *)

Word == Vals \cup {Nothing, 0, 1}

LEMMA StackFacts ==
  ASSUME Inv, NEW u \in DOMAIN stack
  PROVE  /\ u \in User /\ u[1] \in Warp
         /\ pc[u[1]] = "tracing" /\ Holds(u[1], warpHash[u[1]])
         /\ warpHash[u[1]] \in 0 .. activeWarps - 1 /\ warpHash[u[1]] \in Nat
         /\ stack[u] \in Stack
         /\ sharedStackSize \in Nat /\ stackSize \in Nat /\ activeWarps \in Nat
         /\ (sharedStackSize > 0 => stack[u].sharedIndex < sharedStackSize)
         /\ (sharedStackSize = 0 => stack[u].sharedIndex = 0)
         /\ Height(stack[u]) \in Nat
<1>1. u \in User /\ pc[u[1]] = "tracing" /\ stack[u] \in Stack /\ sharedStackSize \in Nat
  BY DEF Inv, TypeInv
<1>2. u[1] \in Warp /\ activeWarps \in Nat /\ stackSize \in Nat
  BY <1>1, UserParts, ActiveWarps, BufferAssumption
<1>3. warpHash[u[1]] \in 0 .. activeWarps - 1
  BY <1>1, <1>2 DEF Inv, TypeInv
<1>4. /\ sharedStackSize > 0 => stack[u].sharedIndex < sharedStackSize
      /\ sharedStackSize = 0 => stack[u].sharedIndex = 0
  BY DEF Inv, TypeInv
<1>5. Height(stack[u]) \in Nat
  BY <1>1, <1>2 DEF Height, Stack
<1>6. warpHash[u[1]] \in Nat
  BY <1>2, <1>3
<1>7. Holds(u[1], warpHash[u[1]])
  BY <1>1 DEF Holds
<1> QED BY ONLY <1>1, <1>2, <1>3, <1>4, <1>5, <1>6, <1>7

LEMMA OwnersApart ==
  ASSUME Inv, NEW u \in DOMAIN stack, NEW v \in DOMAIN stack, u # v,
         NEW i, NEW j
  PROVE  Apart(u, i, v, j)
<1>1. /\ u[1] \in Warp /\ v[1] \in Warp
      /\ Holds(u[1], warpHash[u[1]]) /\ Holds(v[1], warpHash[v[1]])
      /\ warpHash[u[1]] \in 0 .. activeWarps - 1
      /\ u = <<u[1], u[2]>> /\ v = <<v[1], v[2]>>
  BY StackFacts, UserParts
<1>2. warpHash[u[1]] = warpHash[v[1]] => u[1] = v[1]
  BY <1>1 DEF Inv, FlagInv
<1> QED BY <1>1, <1>2 DEF Apart

LEMMA EntryType ==
  ASSUME Inv, NEW u \in DOMAIN stack, NEW i \in 0 .. Height(stack[u]) - 1
  PROVE  Entry(u, stack[u], i) \in Word
<1> DEFINE s == stack[u]
<1>1. /\ u \in User /\ warpHash[u[1]] \in Nat /\ s \in Stack
      /\ sharedStackSize \in Nat /\ stackSize \in Nat /\ Height(s) \in Nat
      /\ (sharedStackSize > 0 => s.sharedIndex < sharedStackSize)
      /\ (sharedStackSize = 0 => s.sharedIndex = 0)
  BY StackFacts
<1>2. CASE i < s.globalIndex
  <2>1. i \in 0 .. s.globalIndex - 1 /\ i \in Nat
    BY <1>1, <1>2 DEF Stack
  <2>2. Cell(u, i) * entryWords \in DOMAIN stackData
    BY <1>1, <2>1, WordsAre DEF Inv, SpillInv
  <2>3. stackData \in [DOMAIN stackData -> Word]
    BY DEF Inv, TypeInv, Word
  <2> QED BY <1>2, <2>2, <2>3 DEF Entry
<1>3. CASE ~(i < s.globalIndex)
  <2> DEFINE k == Unwrapped(s.sharedIndex - s.sharedCount + i - s.globalIndex)
  <2>1. k \in 0 .. sharedStackSize - 1
    <3> DEFINE g == s.globalIndex
               c == s.sharedCount
               x == s.sharedIndex
    <3>1. /\ g \in Nat /\ c \in 0 .. sharedStackSize /\ x \in Nat
          /\ i \in Int /\ i >= g /\ i < g + c
      BY <1>1, <1>3 DEF Height, Stack
    <3>2. sharedStackSize > 0 /\ x < sharedStackSize
      BY <1>1, <3>1
    <3> HIDE DEF g, c, x
    <3>3. Unwrapped(x - c + i - g) \in 0 .. sharedStackSize - 1
      BY <1>1, <3>1, <3>2 DEF Unwrapped
    <3> QED BY <3>3 DEF g, c, x
  <2>2. s.ring[k] \in Word
    BY <1>1, <2>1 DEF Stack, Word
  <2> QED BY <1>3, <2>2 DEF Entry
<1> QED BY <1>2, <1>3

LEMMA EntriesType ==
  ASSUME Inv, NEW u \in DOMAIN stack
  PROVE  /\ Entries(u) \in [1 .. Height(stack[u]) -> Word]
         /\ \A i \in 1 .. Height(stack[u]) : Entries(u)[i] = Entry(u, stack[u], i - 1)
<1>1. Entries(u) = [i \in 1 .. Height(stack[u]) |-> Entry(u, stack[u], i - 1)]
  BY DEF Entries
<1>2. \A i \in 1 .. Height(stack[u]) : Entry(u, stack[u], i - 1) \in Word
  <2> TAKE i \in 1 .. Height(stack[u])
  <2>1. i - 1 \in 0 .. Height(stack[u]) - 1
    BY StackFacts
  <2> QED BY <2>1, EntryType
<1> QED BY <1>1, <1>2

(* A stack whose registers, ring and words are left alone is left alone.   *)
LEMMA SameEntries ==
  ASSUME Inv, NEW u \in DOMAIN stack, u \in DOMAIN stack', stack'[u] = stack[u],
         warpHash'[u[1]] = warpHash[u[1]], sharedStackSize' = sharedStackSize,
         \A i \in 0 .. stack[u].globalIndex - 1 :
           stackData'[Cell(u, i) * entryWords] = stackData[Cell(u, i) * entryWords]
  PROVE  Entries(u)' = Entries(u)
<1>1. /\ Height(stack[u]) \in Nat /\ stack[u] \in Stack
      /\ (Height(stack[u]))' = Height(stack[u])
  BY StackFacts DEF Height
<1>2. \A i \in 1 .. Height(stack[u]) : Entry(u, stack[u], i - 1)' = Entry(u, stack[u], i - 1)
  <2> TAKE i \in 1 .. Height(stack[u])
  <2>1. i - 1 < stack[u].globalIndex => i - 1 \in 0 .. stack[u].globalIndex - 1
    BY <1>1 DEF Stack
  <2>2. Cell(u, i - 1)' = Cell(u, i - 1)
    BY DEF Cell
  <2> QED BY <2>1, <2>2 DEF Entry, Unwrapped
<1> QED BY <1>1, <1>2 DEF Entries

-----------------------------------------------------------------------------
(* Sequences written as functions.                                         *)

LEMMA AppendIs ==
  ASSUME NEW S, NEW n \in Nat, NEW f \in [1 .. n -> S], NEW g \in [1 .. n + 1 -> S], NEW v,
         \A i \in 1 .. n : g[i] = f[i], g[n + 1] = v
  PROVE  g = Append(f, v)
<1>1. f \in Seq(S) /\ Len(f) = n
  OBVIOUS
<1>2. g \in Seq(S) /\ Len(g) = n + 1
  OBVIOUS
<1> QED BY <1>1, <1>2, SMTT(20)

LEMMA FrontIs ==
  ASSUME NEW S, NEW n \in Nat \ {0}, NEW f \in [1 .. n -> S], NEW g \in [1 .. n - 1 -> S],
         \A i \in 1 .. n - 1 : g[i] = f[i]
  PROVE  f # <<>> /\ g = SubSeq(f, 1, Len(f) - 1)
<1>1. f \in Seq(S) /\ Len(f) = n
  OBVIOUS
<1>2. g \in Seq(S) /\ Len(g) = n - 1
  OBVIOUS
<1> QED BY <1>1, <1>2, SMTT(20)

-----------------------------------------------------------------------------
(* The steps, with the step of the abstract stacks that each one is.       *)

Stacks == [u \in User |-> Entries(u)]

(* All stacks are as they were.                                            *)
LEMMA SameStacks ==
  ASSUME Inv, stack' = stack, sharedStackSize' = sharedStackSize,
         \A u \in DOMAIN stack : warpHash'[u[1]] = warpHash[u[1]],
         \A u \in DOMAIN stack : \A i \in 0 .. stack[u].globalIndex - 1 :
           stackData'[Cell(u, i) * entryWords] = stackData[Cell(u, i) * entryWords]
  PROVE  Stacks' = Stacks
<1>1. \A u \in DOMAIN stack : Entries(u)' = Entries(u)
  BY SameEntries
<1>2. \A u \in User : Entries(u)' = Entries(u)
  <2> TAKE u \in User
  <2>1. CASE u \in DOMAIN stack
    BY <1>1, <2>1
  <2>2. CASE u \notin DOMAIN stack
    BY <2>2 DEF Entries
  <2> QED BY <2>1, <2>2
<1> QED BY <1>2 DEF Stacks

LEMMA StartStep ==
  ASSUME Inv, NEW w \in Warp, Start(w)
  PROVE  Inv' /\ Stacks' = Stacks
<1> USE DEF Start
<1>1. \A u \in DOMAIN stack : u[1] # w /\ warpHash'[u[1]] = warpHash[u[1]]
  BY StackFacts DEF Inv, TypeInv
<1>2. TypeInv'
  <2>1. w % activeWarps \in 0 .. activeWarps - 1
    BY GridAssumption, ModuloRange
  <2>2. /\ pc' \in [Warp -> {"queued", "acquiring", "tracing", "done"}]
        /\ DOMAIN warpHash' = Warp
        /\ \A v \in Warp : pc'[v] \in {"acquiring", "tracing"} => warpHash'[v] \in 0 .. activeWarps - 1
    BY <2>1 DEF Inv, TypeInv
  <2>3. \A u \in DOMAIN stack : pc'[u[1]] = "tracing"
    BY <1>1, StackFacts DEF Inv, TypeInv
  <2>4. stack \in [DOMAIN stack -> Stack]'
    BY DEF Inv, TypeInv, Stack
  <2> QED BY <2>2, <2>3, <2>4 DEF Inv, TypeInv
<1>3. FlagInv'
  <2>1. \A v \in Warp : \A c : Holds(v, c)' <=> Holds(v, c)
    BY DEF Inv, TypeInv, Holds
  <2> QED BY <2>1 DEF Inv, FlagInv
<1>4. SpillInv'
  <2>1. \A u \in DOMAIN stack : \A i : Words(u, i)' = Words(u, i)
    BY <1>1 DEF Words, Cell
  <2> QED BY <2>1 DEF Inv, SpillInv
<1>5. Stacks' = Stacks
  BY <1>1, SameStacks
<1> QED BY <1>2, <1>3, <1>4, <1>5 DEF Inv

(* A store over a flag leaves all entries alone.                           *)
LEMMA FlagStore ==
  ASSUME Inv, NEW c \in 0 .. activeWarps - 1, NEW val \in {0, 1}, Store({c}, val)
  PROVE  /\ DOMAIN stackData' = DOMAIN stackData
         /\ stackData' \in [DOMAIN stackData -> Vals \cup {Nothing, 0, 1}]
         /\ stackData'[c] = val
         /\ \A a \in DOMAIN stackData : a # c => stackData'[a] = stackData[a]
         /\ \A u \in DOMAIN stack : \A i \in 0 .. stack[u].globalIndex - 1 :
              stackData'[Cell(u, i) * entryWords] = stackData[Cell(u, i) * entryWords]
<1>1. c \in DOMAIN stackData
  BY DEF Inv, TypeInv
<1>2. /\ DOMAIN stackData' = DOMAIN stackData /\ stackData'[c] = val
      /\ \A a \in DOMAIN stackData : a # c => stackData'[a] = stackData[a]
      /\ stackData' \in [DOMAIN stackData -> Vals \cup {Nothing, 0, 1}]
  BY <1>1 DEF Store, Inv, TypeInv
<1>3. ASSUME NEW u \in DOMAIN stack, NEW i \in 0 .. stack[u].globalIndex - 1
      PROVE  stackData'[Cell(u, i) * entryWords] = stackData[Cell(u, i) * entryWords]
  <2>1. u \in User /\ warpHash[u[1]] \in Nat /\ stack[u] \in Stack /\ activeWarps \in Nat
    BY StackFacts
  <2>2. i \in Nat
    BY <2>1 DEF Stack
  <2> DEFINE a == Cell(u, i) * entryWords
  <2>3. a \in Nat /\ a >= activeWarps /\ a \in Words(u, i)
    BY <2>1, <2>2, WordsAre
  <2>4. a \in DOMAIN stackData
    BY <2>3 DEF Inv, SpillInv
  <2>5. a # c
    BY <2>1, <2>3
  <2> QED BY <1>2, <2>4, <2>5
<1> QED BY <1>2, <1>3

LEMMA LockStep ==
  ASSUME Inv, NEW w \in Warp, TryLock(w)
  PROVE  Inv' /\ Stacks' = Stacks
<1>1. /\ pc[w] = "acquiring" /\ warpHash[w] \in 0 .. activeWarps - 1
      /\ stack' = stack /\ sharedStackSize' = sharedStackSize
  BY DEF TryLock, Inv, TypeInv
<1>2. \A u \in DOMAIN stack : u[1] # w
  BY <1>1, StackFacts
<1>3. CASE /\ Free(warpHash[w]) /\ Store({warpHash[w]}, 1)
           /\ pc' = [pc EXCEPT ![w] = "tracing"] /\ UNCHANGED warpHash
  <2> DEFINE c == warpHash[w]
  <2>1. /\ DOMAIN stackData' = DOMAIN stackData
        /\ stackData' \in [DOMAIN stackData -> Vals \cup {Nothing, 0, 1}]
        /\ stackData'[c] = 1
        /\ \A a \in DOMAIN stackData : a # c => stackData'[a] = stackData[a]
        /\ \A u \in DOMAIN stack : \A i \in 0 .. stack[u].globalIndex - 1 :
             stackData'[Cell(u, i) * entryWords] = stackData[Cell(u, i) * entryWords]
    BY <1>1, <1>3, FlagStore
  <2>2. TypeInv'
    <3>1. /\ pc' \in [Warp -> {"queued", "acquiring", "tracing", "done"}]
          /\ \A v \in Warp : pc'[v] \in {"acquiring", "tracing"} => warpHash[v] \in 0 .. activeWarps - 1
      BY <1>1, <1>3 DEF Inv, TypeInv
    <3>2. \A u \in DOMAIN stack : pc'[u[1]] = "tracing"
      BY <1>2, <1>3, StackFacts DEF Inv, TypeInv
    <3>3. stack \in [DOMAIN stack -> Stack]'
      BY <1>1 DEF Inv, TypeInv, Stack
    <3> QED BY <1>1, <1>3, <2>1, <3>1, <3>2, <3>3 DEF Inv, TypeInv
  <2>3. FlagInv'
    <3>1. \A v \in Warp : ~Holds(v, c)
      BY <1>1, <1>3 DEF Inv, FlagInv, Free
    <3>2. \A v \in Warp : \A d : Holds(v, d)' <=> Holds(v, d) \/ (v = w /\ d = c)
      BY <1>1, <1>3 DEF Inv, TypeInv, Holds
    <3>3. \A d \in 0 .. activeWarps - 1 : d \in DOMAIN stackData
      BY DEF Inv, TypeInv
    <3> SUFFICES ASSUME NEW d \in 0 .. activeWarps - 1
                 PROVE  /\ stackData'[d] = IF \E v \in Warp : Holds(v, d)' THEN 1 ELSE 0
                        /\ \A u, v \in Warp : Holds(u, d)' /\ Holds(v, d)' => u = v
      BY DEF FlagInv
    <3>4. CASE d = c
      BY <2>1, <3>1, <3>2, <3>4
    <3>5. CASE d # c
      <4>1. stackData'[d] = stackData[d]
        BY <2>1, <3>3, <3>5
      <4>2. \A v \in Warp : Holds(v, d)' <=> Holds(v, d)
        BY <3>2, <3>5
      <4> QED BY <4>1, <4>2 DEF Inv, FlagInv
    <3> QED BY <3>4, <3>5
  <2>4. SpillInv'
    <3>1. \A u \in DOMAIN stack : \A i : Words(u, i)' = Words(u, i)
      BY <1>3 DEF Words, Cell
    <3> QED BY <1>1, <2>1, <3>1 DEF Inv, SpillInv
  <2>5. Stacks' = Stacks
    BY <1>1, <1>3, <2>1, SameStacks
  <2> QED BY <2>2, <2>3, <2>4, <2>5 DEF Inv
<1>4. CASE /\ ~Free(warpHash[w]) /\ warpHash' = [warpHash EXCEPT ![w] = NextFlag(@)]
           /\ UNCHANGED <<pc, stackData>>
  <2>1. \A u \in DOMAIN stack : warpHash'[u[1]] = warpHash[u[1]]
    BY <1>2, <1>4, StackFacts DEF Inv, TypeInv
  <2>2. TypeInv'
    <3>1. NextFlag(warpHash[w]) \in 0 .. activeWarps - 1
      BY <1>1, ActiveWarps, ModuloRange DEF NextFlag
    <3>2. /\ DOMAIN warpHash' = Warp
          /\ \A v \in Warp : pc[v] \in {"acquiring", "tracing"} => warpHash'[v] \in 0 .. activeWarps - 1
      BY <1>4, <3>1 DEF Inv, TypeInv
    <3>3. stack \in [DOMAIN stack -> Stack]'
      BY <1>1 DEF Inv, TypeInv, Stack
    <3> QED BY <1>1, <1>4, <3>2, <3>3 DEF Inv, TypeInv
  <2>3. FlagInv'
    <3>1. \A v \in Warp : \A c : Holds(v, c)' <=> Holds(v, c)
      BY <1>1, <1>4 DEF Inv, TypeInv, Holds
    <3> QED BY <1>4, <3>1 DEF Inv, FlagInv
  <2>4. SpillInv'
    <3>1. \A u \in DOMAIN stack : \A i : Words(u, i)' = Words(u, i)
      BY <2>1 DEF Words, Cell
    <3> QED BY <1>1, <1>4, <3>1 DEF Inv, SpillInv
  <2>5. Stacks' = Stacks
    BY <1>1, <1>4, <2>1, SameStacks
  <2> QED BY <2>2, <2>3, <2>4, <2>5 DEF Inv
<1> QED BY <1>3, <1>4 DEF TryLock

(* A step that touches the registers and the ring of one stack, which      *)
(* holds no more in the buffer than before.                                *)
LEMMA LocalStep ==
  ASSUME Inv, NEW u \in User, pc[u[1]] = "tracing", NEW s \in Stack,
         sharedStackSize > 0 => s.sharedIndex < sharedStackSize,
         sharedStackSize = 0 => s.sharedIndex = 0,
         s.globalIndex > 0 => u \in DOMAIN stack /\ s.globalIndex <= stack[u].globalIndex,
         stack' = [v \in DOMAIN stack \cup {u} |-> IF v = u THEN s ELSE stack[v]],
         UNCHANGED <<sharedStackSize, pc, warpHash, stackData>>
  PROVE  /\ Inv'
         /\ Stacks' = [Stacks EXCEPT ![u] = Entries(u)']
         /\ \A i : Entry(u, stack[u], i)' = Entry(u, s, i)
<1>1. TypeInv'
  <2>1. stack' \in [DOMAIN stack' -> Stack]
    BY DEF Inv, TypeInv
  <2>2. Stack' = Stack
    BY DEF Stack
  <2>3. \A v \in DOMAIN stack' :
          /\ v \in User /\ pc[v[1]] = "tracing"
          /\ sharedStackSize > 0 => stack'[v].sharedIndex < sharedStackSize
          /\ sharedStackSize = 0 => stack'[v].sharedIndex = 0
    BY DEF Inv, TypeInv
  <2> QED BY <2>1, <2>2, <2>3 DEF Inv, TypeInv
<1>2. FlagInv'
  BY DEF Inv, FlagInv, Holds
<1>3. SpillInv'
  <2>0. stackData' = stackData /\ \A v, i : Words(v, i)' = Words(v, i)
    BY DEF Words, Cell
  <2> SUFFICES ASSUME NEW v \in DOMAIN stack', NEW i \in 0 .. stack'[v].globalIndex - 1
               PROVE  Words(v, i) \subseteq DOMAIN stackData
    BY <2>0 DEF SpillInv
  <2>1. CASE v # u
    BY <2>1 DEF Inv, SpillInv
  <2>2. CASE v = u
    <3>1. stack'[v] = s
      BY <2>2
    <3>2. s.globalIndex \in Nat /\ s.globalIndex > 0
      BY <3>1, BufferAssumption DEF Stack
    <3>3. u \in DOMAIN stack /\ i \in 0 .. stack[u].globalIndex - 1
      BY <3>1, <3>2, StackFacts DEF Stack
    <3> QED BY <2>2, <3>3 DEF Inv, SpillInv
  <2> QED BY <2>1, <2>2
<1>4. \A v \in User : v # u => Entries(v)' = Entries(v)
  <2> SUFFICES ASSUME NEW v \in User, v # u PROVE Entries(v)' = Entries(v)
    OBVIOUS
  <2>1. CASE v \in DOMAIN stack
    BY <2>1, SameEntries
  <2>2. CASE v \notin DOMAIN stack
    BY <2>2 DEF Entries
  <2> QED BY <2>1, <2>2
<1>5. Stacks' = [Stacks EXCEPT ![u] = Entries(u)']
  BY <1>4 DEF Stacks
<1>6. \A i : Entry(u, stack[u], i)' = Entry(u, s, i)
  BY DEF Entry, Cell, Unwrapped
<1> QED BY <1>1, <1>2, <1>3, <1>5, <1>6 DEF Inv

LEMMA ResetStep ==
  ASSUME Inv, NEW u \in User, Reset(u)
  PROVE  Inv' /\ Stacks' = [Stacks EXCEPT ![u] = <<>>]
<1>1. Cleared(u) \in Stack
  <2>1. sharedStackSize \in Nat /\ stackSize \in Nat
    BY BufferAssumption DEF Inv, TypeInv
  <2>2. NewRing \in [0 .. sharedStackSize - 1 -> Vals \cup {Nothing}]
    BY DEF NewRing
  <2>3. u \in DOMAIN stack => stack[u].ring \in [0 .. sharedStackSize - 1 -> Vals \cup {Nothing}]
    BY StackFacts DEF Stack
  <2> QED BY <2>1, <2>2, <2>3 DEF Cleared, Stack
<1>2. Cleared(u).sharedIndex = 0 /\ Cleared(u).globalIndex = 0 /\ Height(Cleared(u)) = 0
  BY DEF Cleared, Height
<1>3. Inv' /\ Stacks' = [Stacks EXCEPT ![u] = Entries(u)']
  <2> DEFINE s == Cleared(u)
  <2>1. /\ s \in Stack /\ s.sharedIndex = 0 /\ s.globalIndex = 0
        /\ pc[u[1]] = "tracing"
        /\ stack' = [v \in DOMAIN stack \cup {u} |-> IF v = u THEN s ELSE stack[v]]
        /\ UNCHANGED <<sharedStackSize, pc, warpHash, stackData>>
    BY <1>1, <1>2 DEF Reset
  <2> HIDE DEF s
  <2> QED BY <2>1, LocalStep
<1>4. Entries(u)' = <<>>
  <2>1. u \in DOMAIN stack' /\ stack'[u] = Cleared(u)
    BY DEF Reset
  <2>2. Height(stack'[u]) = 0
    BY <1>2, <2>1
  <2>3. Entries(u)' = [i \in 1 .. 0 |-> Entry(u, stack[u], i - 1)']
    BY <2>1, <2>2 DEF Entries, Height
  <2> QED BY <2>3
<1> QED BY <1>3, <1>4

LEMMA PopStep ==
  ASSUME Inv, NEW u \in User, Pop(u)
  PROVE  /\ Inv' /\ Entries(u) # <<>>
         /\ Stacks' = [Stacks EXCEPT ![u] = SubSeq(@, 1, Len(@) - 1)]
<1> DEFINE s == stack[u]
           t == Popped(s)
           n == Height(s)
<1>1. /\ u \in DOMAIN stack /\ ~empty(s) /\ stack' = [stack EXCEPT ![u] = t]
      /\ UNCHANGED <<sharedStackSize, pc, warpHash, stackData>>
  BY DEF Pop
<1>2. /\ s \in Stack /\ sharedStackSize \in Nat /\ pc[u[1]] = "tracing"
      /\ (sharedStackSize > 0 => s.sharedIndex < sharedStackSize)
      /\ (sharedStackSize = 0 => s.sharedIndex = 0)
  BY <1>1, StackFacts
<1>3. /\ t \in Stack /\ n \in Nat \ {0} /\ Height(t) = n - 1
      /\ t.globalIndex <= s.globalIndex
      /\ (sharedStackSize > 0 => t.sharedIndex < sharedStackSize)
      /\ (sharedStackSize = 0 => t.sharedIndex = 0)
      /\ t.ring = s.ring
      /\ \/ s.sharedCount > 0 /\ t.globalIndex = s.globalIndex /\ t.sharedCount = s.sharedCount - 1
              /\ t.sharedIndex = Unwrapped(s.sharedIndex - 1)
         \/ s.sharedCount = 0 /\ t.sharedCount = 0 /\ t.globalIndex = s.globalIndex - 1
  <2>1. /\ s.globalIndex \in 0 .. stackSize /\ s.sharedCount \in 0 .. sharedStackSize
        /\ s.sharedIndex \in Nat /\ stackSize \in Nat
        /\ s = [globalIndex |-> s.globalIndex, sharedIndex |-> s.sharedIndex,
                sharedCount |-> s.sharedCount, ring |-> s.ring]
        /\ s.ring \in [0 .. sharedStackSize - 1 -> Vals \cup {Nothing}]
    BY <1>2, BufferAssumption DEF Stack
  <2>2. s.sharedCount > 0 \/ (s.sharedCount = 0 /\ s.globalIndex > 0)
    BY <1>1, <2>1 DEF empty
  <2> HIDE DEF s
  <2>3. CASE s.sharedCount > 0
    <3>1. t = [globalIndex |-> s.globalIndex, sharedIndex |-> Unwrapped(s.sharedIndex - 1),
               sharedCount |-> s.sharedCount - 1, ring |-> s.ring]
      BY <2>1, <2>3 DEF Popped
    <3>2. Unwrapped(s.sharedIndex - 1) \in 0 .. sharedStackSize - 1
      BY <1>2, <2>1, <2>3 DEF Unwrapped
    <3> HIDE DEF t
    <3> QED BY <1>2, <2>1, <2>3, <3>1, <3>2 DEF Stack, Height
  <2>4. CASE s.sharedCount = 0 /\ s.globalIndex > 0
    <3>1. t = [globalIndex |-> s.globalIndex - 1, sharedIndex |-> s.sharedIndex,
               sharedCount |-> s.sharedCount, ring |-> s.ring]
      BY <2>1, <2>4 DEF Popped
    <3> HIDE DEF t
    <3> QED BY <1>2, <2>1, <2>4, <3>1 DEF Stack, Height
  <2> QED BY <2>2, <2>3, <2>4
<1>4. stack' = [v \in DOMAIN stack \cup {u} |-> IF v = u THEN t ELSE stack[v]]
  BY <1>1
<1>5. Inv' /\ Stacks' = [Stacks EXCEPT ![u] = Entries(u)'] 
      /\ \A i : Entry(u, stack[u], i)' = Entry(u, t, i)
  <2> HIDE DEF t
  <2> QED BY <1>1, <1>2, <1>3, <1>4, LocalStep
<1>6. \A i \in 0 .. n - 2 : Entry(u, t, i) = Entry(u, s, i)
  <2> TAKE i \in 0 .. n - 2
  <2>0. /\ s.globalIndex \in Nat /\ s.sharedCount \in 0 .. sharedStackSize /\ s.sharedIndex \in Nat
        /\ t.globalIndex \in Nat /\ t.sharedCount \in 0 .. sharedStackSize
        /\ n = s.globalIndex + s.sharedCount /\ n \in Nat /\ i \in Int /\ i < n - 1
    <3> HIDE DEF s, t
    <3>1. s \in Stack /\ t \in Stack /\ n \in Nat \ {0}
      BY <1>2, <1>3
    <3>2. n = s.globalIndex + s.sharedCount
      BY DEF Height
    <3> HIDE DEF n
    <3> QED BY <3>1, <3>2, BufferAssumption DEF Stack
  <2>1. i < t.globalIndex <=> i < s.globalIndex
    <3> HIDE DEF s, t, n
    <3> QED BY <1>3, <2>0
  <2>2. CASE i < s.globalIndex
    BY <2>1, <2>2 DEF Entry
  <2>3. CASE ~(i < s.globalIndex)
    <3>1. /\ t.globalIndex = s.globalIndex /\ t.sharedCount = s.sharedCount - 1
          /\ t.sharedIndex = Unwrapped(s.sharedIndex - 1) /\ s.sharedCount > 0
          /\ sharedStackSize > 0 /\ s.sharedIndex < sharedStackSize
      <4> HIDE DEF s, t, n
      <4> QED BY <1>2, <1>3, <2>0, <2>3
    <3>2. Unwrapped(t.sharedIndex - t.sharedCount + i - t.globalIndex)
            = Unwrapped(s.sharedIndex - s.sharedCount + i - s.globalIndex)
      <4> DEFINE g == s.globalIndex
                 c == s.sharedCount
                 x == s.sharedIndex
      <4>1. /\ g \in Nat /\ c \in 1 .. sharedStackSize /\ x \in 0 .. sharedStackSize - 1
            /\ i \in Int /\ i >= g /\ i < g + c - 1
        <5> HIDE DEF s, t, n
        <5> QED BY <1>2, <2>0, <2>3, <3>1
      <4> HIDE DEF g, c, x
      <4>2. Unwrapped(Unwrapped(x - 1) - (c - 1) + i - g) = Unwrapped(x - c + i - g)
        BY <1>2, <4>1 DEF Unwrapped
      <4> QED BY <3>1, <4>2 DEF g, c, x
    <3> QED BY <1>3, <2>1, <2>3, <3>2 DEF Entry
  <2> QED BY <2>2, <2>3
<1>7. Entries(u) # <<>> /\ Entries(u)' = SubSeq(Entries(u), 1, Len(Entries(u)) - 1)
  <2> DEFINE f == Entries(u)
             g == Entries(u)'
  <2>1. f \in [1 .. n -> Word] /\ \A i \in 1 .. n : f[i] = Entry(u, s, i - 1)
    BY <1>1, EntriesType
  <2>2. g = [i \in 1 .. n - 1 |-> Entry(u, s, i - 1)]
    <3>1. u \in DOMAIN stack' /\ stack'[u] = t
      BY <1>1
    <3>2. (Height(stack[u]))' = n - 1
      BY <1>3, <3>1 DEF Height
    <3>3. g = [i \in 1 .. n - 1 |-> Entry(u, stack[u], i - 1)']
      BY <3>1, <3>2 DEF Entries
    <3>4. \A i \in 1 .. n - 1 : Entry(u, stack[u], i - 1)' = Entry(u, s, i - 1)
      <4> TAKE i \in 1 .. n - 1
      <4>1. i - 1 \in 0 .. n - 2
        BY <1>3
      <4> QED BY <1>5, <1>6, <4>1
    <3> QED BY <3>3, <3>4
  <2>3. \A i \in 1 .. n - 1 : g[i] = f[i] /\ f[i] \in Word
    <3> HIDE DEF n, f
    <3> QED BY <1>3, <2>1, <2>2
  <2>4. g \in [1 .. n - 1 -> Word]
    BY <2>2, <2>3
  <2> HIDE DEF f, g, n
  <2> QED BY <1>3, <2>1, <2>3, <2>4, FrontIs DEF f, g
<1>8. Stacks[u] = Entries(u)
  BY DEF Stacks
<1> QED BY <1>5, <1>7, <1>8

(* One more entry, and the others as they were: that is a push.            *)
LEMMA PushedEntries ==
  ASSUME Inv, NEW u \in DOMAIN stack, u \in DOMAIN stack', NEW val \in Word,
         Height(stack'[u]) = Height(stack[u]) + 1,
         \A i \in 0 .. Height(stack[u]) - 1 : Entry(u, stack[u], i)' = Entry(u, stack[u], i),
         \A i : i = Height(stack[u]) => Entry(u, stack[u], i)' = val
  PROVE  Entries(u)' = Append(Entries(u), val)
<1> DEFINE n == Height(stack[u])
           f == Entries(u)
           g == Entries(u)'
<1>1. f \in [1 .. n -> Word] /\ \A i \in 1 .. n : f[i] = Entry(u, stack[u], i - 1)
  BY EntriesType
<1>2. n \in Nat
  BY StackFacts
<1>3. (Height(stack[u]))' = n + 1
  BY DEF Height
<1>4. g = [i \in 1 .. n + 1 |-> Entry(u, stack[u], i - 1)']
  BY <1>3 DEF Entries
<1>5. \A i \in 1 .. n + 1 : g[i] = Entry(u, stack[u], i - 1)'
  <2> HIDE DEF g, n
  <2> QED BY <1>4
<1>6. \A i \in 1 .. n : g[i] = f[i] /\ f[i] \in Word
  <2> TAKE i \in 1 .. n
  <2>1. i - 1 \in 0 .. n - 1 /\ i \in 1 .. n + 1
    <3> HIDE DEF n
    <3> QED BY <1>2
  <2> QED BY <1>1, <1>5, <2>1
<1>7. \A i \in 1 .. n + 1 : i = n + 1 => g[i] = val
  <2> TAKE i \in 1 .. n + 1
  <2>1. i = n + 1 => i - 1 = n
    <3> HIDE DEF n
    <3> QED BY <1>2
  <2> QED BY <1>5, <2>1
<1>8. g \in [1 .. n + 1 -> Word]
  <2> HIDE DEF f, g, n
  <2>1. \A i \in 1 .. n + 1 : g[i] \in Word
    BY <1>2, <1>6, <1>7
  <2>2. g = [i \in 1 .. n + 1 |-> g[i]]
    BY <1>4
  <2> QED BY <2>1, <2>2
<1>9. g[n + 1] = val
  <2> HIDE DEF g, n
  <2> QED BY <1>2, <1>7
<1> HIDE DEF f, g, n
<1> QED BY <1>1, <1>2, <1>6, <1>8, <1>9, AppendIs DEF f, g

LEMMA PushSharedStep ==
  ASSUME Inv, NEW u \in User, NEW val \in Values[u], PushShared(u, val)
  PROVE  Inv' /\ Stacks' = [Stacks EXCEPT ![u] = Append(@, val)]
<1> DEFINE s == stack[u]
           t == Kept(s, val)
           n == Height(s)
<1>1. /\ u \in DOMAIN stack /\ s.sharedCount < sharedStackSize
      /\ stack' = [stack EXCEPT ![u] = t]
      /\ UNCHANGED <<sharedStackSize, pc, warpHash, stackData>>
  BY DEF PushShared
<1>2. /\ s \in Stack /\ sharedStackSize \in Nat /\ stackSize \in Nat /\ pc[u[1]] = "tracing"
      /\ (sharedStackSize > 0 => s.sharedIndex < sharedStackSize)
      /\ val \in Vals
  BY <1>1, StackFacts DEF Vals
<1>3. /\ s.globalIndex \in 0 .. stackSize /\ s.sharedCount \in 0 .. sharedStackSize - 1
      /\ s.sharedIndex \in 0 .. sharedStackSize - 1
      /\ s.ring \in [0 .. sharedStackSize - 1 -> Vals \cup {Nothing}]
  <2> HIDE DEF s
  <2> QED BY <1>1, <1>2 DEF Stack
<1>4. n = s.globalIndex + s.sharedCount
  BY DEF Height
<1>5. /\ t.globalIndex = s.globalIndex /\ t.sharedCount = s.sharedCount + 1
      /\ t.sharedIndex = Wrapped(s.sharedIndex + 1)
      /\ t.ring = [s.ring EXCEPT ![s.sharedIndex] = val]
  BY DEF Kept
<1>6. /\ t \in Stack /\ Height(t) = n + 1 /\ n \in Nat
      /\ (sharedStackSize > 0 => t.sharedIndex < sharedStackSize)
      /\ t.sharedIndex \in 0 .. sharedStackSize - 1
  <2>1. Wrapped(s.sharedIndex + 1) \in 0 .. sharedStackSize - 1
    <3> HIDE DEF s
    <3> QED BY <1>2, <1>3 DEF Wrapped
  <2>2. [s.ring EXCEPT ![s.sharedIndex] = val] \in [0 .. sharedStackSize - 1 -> Vals \cup {Nothing}]
    BY <1>2, <1>3
  <2>3. t \in Stack
    BY <1>2, <1>3, <2>1, <2>2 DEF Kept, Stack
  <2>4. Height(t) = n + 1 /\ n \in Nat
    <3> HIDE DEF s, t, n
    <3> QED BY <1>3, <1>4, <1>5 DEF Height
  <2>5. t.sharedIndex \in 0 .. sharedStackSize - 1
    BY <1>5, <2>1
  <2> HIDE DEF t
  <2> QED BY <1>2, <2>3, <2>4, <2>5
<1>7. stack' = [v \in DOMAIN stack \cup {u} |-> IF v = u THEN t ELSE stack[v]]
  BY <1>1
<1>8. /\ Inv' /\ Stacks' = [Stacks EXCEPT ![u] = Entries(u)']
      /\ \A i : Entry(u, stack[u], i)' = Entry(u, t, i)
  <2>1. t.globalIndex <= stack[u].globalIndex /\ sharedStackSize # 0
    BY <1>2, <1>3, <1>5
  <2> HIDE DEF t
  <2> QED BY <1>1, <1>2, <1>3, <1>6, <1>7, <2>1, LocalStep
<1>9. \A i \in 0 .. n - 1 : Entry(u, t, i) = Entry(u, s, i)
  <2> TAKE i \in 0 .. n - 1
  <2>1. CASE i < s.globalIndex
    BY <1>5, <2>1 DEF Entry
  <2>2. CASE ~(i < s.globalIndex)
    <3> DEFINE g == s.globalIndex
               c == s.sharedCount
               x == s.sharedIndex
    <3>1. /\ g \in Nat /\ c \in 0 .. sharedStackSize - 1 /\ x \in 0 .. sharedStackSize - 1
          /\ i \in Int /\ i >= g /\ i < g + c
      <4> HIDE DEF s, n
      <4> QED BY <1>2, <1>3, <1>4, <1>6, <2>2
    <3> HIDE DEF g, c, x
    <3>2. /\ Unwrapped(Wrapped(x + 1) - (c + 1) + i - g) = Unwrapped(x - c + i - g)
          /\ Unwrapped(x - c + i - g) # x
          /\ Unwrapped(x - c + i - g) \in 0 .. sharedStackSize - 1
      BY <1>2, <3>1 DEF Unwrapped, Wrapped
    <3>3. t.ring[Unwrapped(x - c + i - g)] = s.ring[Unwrapped(x - c + i - g)]
      BY <1>3, <1>5, <3>2 DEF x
    <3> QED BY <1>5, <2>2, <3>2, <3>3 DEF Entry, g, c, x
  <2> QED BY <2>1, <2>2
<1>10. Entry(u, t, n) = val
  <2>1. ~(n < t.globalIndex)
    <3> HIDE DEF s, t, n
    <3> QED BY <1>3, <1>4, <1>5
  <2>2. Unwrapped(t.sharedIndex - t.sharedCount + n - t.globalIndex) = s.sharedIndex
    <3> DEFINE g == s.globalIndex
               c == s.sharedCount
               x == s.sharedIndex
    <3>1. g \in Nat /\ c \in 0 .. sharedStackSize - 1 /\ x \in 0 .. sharedStackSize - 1
      BY <1>2, <1>3
    <3> HIDE DEF g, c, x
    <3>2. Unwrapped(Wrapped(x + 1) - (c + 1) + (g + c) - g) = x
      BY <1>2, <3>1 DEF Unwrapped, Wrapped
    <3> HIDE DEF t, n
    <3> QED BY <1>4, <1>5, <3>2 DEF g, c, x
  <2>3. t.ring[s.sharedIndex] = val
    BY <1>3, <1>5
  <2> QED BY <2>1, <2>2, <2>3 DEF Entry
<1>11. Entries(u)' = Append(Entries(u), val)
  <2>1. u \in DOMAIN stack' /\ stack'[u] = t
    BY <1>1
  <2>2. \A i \in 0 .. n - 1 : Entry(u, stack[u], i)' = Entry(u, s, i)
    BY <1>8, <1>9
  <2>3. \A i : i = n => Entry(u, stack[u], i)' = val
    BY <1>8, <1>10
  <2> HIDE DEF t
  <2> QED BY <1>1, <1>2, <1>6, <2>1, <2>2, <2>3, PushedEntries DEF Word
<1>12. Stacks[u] = Entries(u)
  BY DEF Stacks
<1> QED BY <1>8, <1>11, <1>12

LEMMA PushGlobalStep ==
  ASSUME Inv, NEW u \in User, NEW val \in Values[u], PushGlobal(u, val)
  PROVE  Inv' /\ Stacks' = [Stacks EXCEPT ![u] = Append(@, val)]
<1> DEFINE s == stack[u]
           t == Spilled(s, val)
           n == Height(s)
           old == IF sharedStackSize = 0 THEN val ELSE s.ring[s.sharedIndex]
           W == Words(u, s.globalIndex)
<1>1. /\ u \in DOMAIN stack /\ vacancy(s) > 0 /\ s.sharedCount = sharedStackSize
      /\ stack' = [stack EXCEPT ![u] = t]
      /\ Store(W, old)
      /\ UNCHANGED <<sharedStackSize, pc, warpHash>>
  BY DEF PushGlobal
<1>2. /\ s \in Stack /\ sharedStackSize \in Nat /\ stackSize \in Nat /\ pc[u[1]] = "tracing"
      /\ (sharedStackSize > 0 => s.sharedIndex < sharedStackSize)
      /\ (sharedStackSize = 0 => s.sharedIndex = 0)
      /\ warpHash[u[1]] \in Nat /\ activeWarps \in Nat
      /\ val \in Vals
  BY <1>1, StackFacts DEF Vals
<1>3. /\ s.globalIndex \in 0 .. stackSize - 1 /\ s.globalIndex \in Nat
      /\ s.sharedCount = sharedStackSize /\ s.sharedIndex \in Nat
      /\ s.ring \in [0 .. sharedStackSize - 1 -> Vals \cup {Nothing}]
  <2> HIDE DEF s
  <2> QED BY <1>1, <1>2 DEF Stack, vacancy
<1>4. n = s.globalIndex + sharedStackSize /\ n \in Nat
  BY <1>1, <1>2, <1>3 DEF Height
<1>5. t.globalIndex = s.globalIndex + 1 /\ t.sharedCount = sharedStackSize
  BY <1>1, <1>2, <1>3 DEF Spilled, Stack
<1>6. /\ t \in Stack /\ Height(t) = n + 1
      /\ (sharedStackSize > 0 => t.sharedIndex < sharedStackSize)
      /\ (sharedStackSize = 0 => t.sharedIndex = 0)
  <2>1. Height(t) = n + 1
    <3> HIDE DEF s, t, n
    <3> QED BY <1>2, <1>3, <1>4, <1>5 DEF Height
  <2>2. CASE sharedStackSize = 0
    <3>1. t = [s EXCEPT !.globalIndex = @ + 1]
      BY <2>2 DEF Spilled
    <3> HIDE DEF t, s, n
    <3> QED BY <1>2, <1>3, <2>1, <2>2, <3>1 DEF Stack
  <2>3. CASE sharedStackSize > 0
    <3>1. Wrapped(s.sharedIndex + 1) \in 0 .. sharedStackSize - 1
      <4> HIDE DEF s
      <4> QED BY <1>2, <1>3, <2>3 DEF Wrapped
    <3>2. [s.ring EXCEPT ![s.sharedIndex] = val] \in [0 .. sharedStackSize - 1 -> Vals \cup {Nothing}]
      BY <1>2, <1>3
    <3>3. t = [globalIndex |-> s.globalIndex + 1, sharedIndex |-> Wrapped(s.sharedIndex + 1),
               sharedCount |-> s.sharedCount, ring |-> [s.ring EXCEPT ![s.sharedIndex] = val]]
      BY <2>3 DEF Spilled
    <3> HIDE DEF s, t, n
    <3> QED BY <1>2, <1>3, <2>1, <2>3, <3>1, <3>2, <3>3 DEF Stack
  <2> QED BY <1>2, <2>2, <2>3
<1>7. /\ DOMAIN stackData' = DOMAIN stackData \cup W
      /\ \A a \in W : stackData'[a] = old
      /\ \A a \in DOMAIN stackData : a \notin W => stackData'[a] = stackData[a]
      /\ \A a \in W : a \in Nat /\ a >= activeWarps
      /\ Cell(u, s.globalIndex) * entryWords \in W
  <2>1. /\ \A a \in W : a \in Nat /\ a >= activeWarps
        /\ Cell(u, s.globalIndex) * entryWords \in W
    BY <1>2, <1>3, WordsAre
  <2> HIDE DEF W, old
  <2> QED BY <1>1, <2>1 DEF Store
<1>8. old \in Vals \cup {Nothing}
  <2>1. CASE sharedStackSize = 0
    BY <1>2, <2>1
  <2>2. CASE sharedStackSize > 0
    <3>1. s.sharedIndex \in 0 .. sharedStackSize - 1
      BY <1>2, <1>3, <2>2
    <3>2. old = s.ring[s.sharedIndex]
      BY <2>2
    <3> HIDE DEF s, old
    <3> QED BY <1>3, <3>1, <3>2
  <2> QED BY <1>2, <2>1, <2>2
<1>9. TypeInv'
  <2>1. Stack' = Stack
    BY <1>1 DEF Stack
  <2>2. stack' \in [DOMAIN stack -> Stack] /\ DOMAIN stack' = DOMAIN stack
    <3> HIDE DEF t
    <3> QED BY <1>1, <1>6 DEF Inv, TypeInv
  <2>3. \A v \in DOMAIN stack :
          /\ pc[v[1]] = "tracing"
          /\ sharedStackSize > 0 => stack'[v].sharedIndex < sharedStackSize
          /\ sharedStackSize = 0 => stack'[v].sharedIndex = 0
    <3> HIDE DEF t
    <3> QED BY <1>1, <1>6 DEF Inv, TypeInv
  <2>4. stackData' \in [DOMAIN stackData' -> Vals \cup {Nothing, 0, 1}]
    <3> HIDE DEF W, old
    <3>1. stackData' = [a \in DOMAIN stackData \cup W |-> IF a \in W THEN old ELSE stackData[a]]
      BY <1>1 DEF Store
    <3> QED BY <1>8, <3>1 DEF Inv, TypeInv
  <2>5. 0 .. activeWarps - 1 \subseteq DOMAIN stackData'
    BY <1>7 DEF Inv, TypeInv
  <2> QED BY <1>1, <2>1, <2>2, <2>3, <2>4, <2>5 DEF Inv, TypeInv
<1>10. FlagInv'
  <2>1. \A c \in 0 .. activeWarps - 1 : stackData'[c] = stackData[c]
    <3> TAKE c \in 0 .. activeWarps - 1
    <3>1. c \in DOMAIN stackData
      BY DEF Inv, TypeInv
    <3>2. c \notin W
      <4> HIDE DEF W
      <4> QED BY <1>2, <1>7
    <3> QED BY <1>7, <3>1, <3>2
  <2> QED BY <1>1, <2>1 DEF Inv, FlagInv, Holds
<1>11. SpillInv'
  <2> SUFFICES ASSUME NEW v \in DOMAIN stack, NEW i \in 0 .. stack'[v].globalIndex - 1
               PROVE  Words(v, i) \subseteq DOMAIN stackData'
    BY <1>1 DEF SpillInv, Words, Cell
  <2>1. CASE v # u
    BY <1>1, <1>7, <2>1 DEF Inv, SpillInv
  <2>2. CASE v = u
    <3>1. i \in 0 .. s.globalIndex
      <4>1. stack'[v].globalIndex = s.globalIndex + 1
        BY <1>1, <1>5, <2>2
      <4> HIDE DEF s
      <4> QED BY <1>3, <4>1
    <3>2. CASE i = s.globalIndex
      BY <1>7, <2>2, <3>2
    <3>3. CASE i # s.globalIndex
      <4>1. i \in 0 .. s.globalIndex - 1
        <5> HIDE DEF s
        <5> QED BY <1>3, <3>1, <3>3
      <4> QED BY <1>7, <2>2, <4>1 DEF Inv, SpillInv
    <3> QED BY <3>2, <3>3
  <2> QED BY <2>1, <2>2
(* The words of all other entries are elsewhere.                           *)
<1>12. \A v \in DOMAIN stack : \A i \in 0 .. stack[v].globalIndex - 1 :
          stackData'[Cell(v, i) * entryWords] = stackData[Cell(v, i) * entryWords]
  <2> TAKE v \in DOMAIN stack
  <2> TAKE i \in 0 .. stack[v].globalIndex - 1
  <2>1. v \in User /\ warpHash[v[1]] \in Nat /\ stack[v] \in Stack
    BY StackFacts
  <2>2. i \in 0 .. stackSize - 1 /\ i \in Nat
    BY <1>2, <2>1 DEF Stack
  <2>3. Apart(u, s.globalIndex, v, i)
    <3>1. CASE u # v
      BY <1>1, <3>1, OwnersApart
    <3>2. CASE u = v
      <4>1. i # s.globalIndex
        BY <1>3, <3>2
      <4> QED BY <4>1 DEF Apart
    <3> QED BY <3>1, <3>2
  <2>4. Cell(v, i) * entryWords \notin W
    BY <1>2, <1>3, <2>1, <2>2, <2>3, WordsApart
  <2>5. Cell(v, i) * entryWords \in DOMAIN stackData
    BY <2>1, <2>2, WordsAre DEF Inv, SpillInv
  <2> QED BY <1>7, <2>4, <2>5
<1>13. \A v \in User : v # u => Entries(v)' = Entries(v)
  <2> SUFFICES ASSUME NEW v \in User, v # u PROVE Entries(v)' = Entries(v)
    OBVIOUS
  <2>1. CASE v \in DOMAIN stack
    <3>1. v \in DOMAIN stack' /\ stack'[v] = stack[v]
      BY <1>1, <2>1
    <3> QED BY <1>1, <1>12, <2>1, <3>1, SameEntries
  <2>2. CASE v \notin DOMAIN stack
    BY <1>1, <2>2 DEF Entries
  <2> QED BY <2>1, <2>2
(* The ring has moved by one, and the new entry is where the oldest was.   *)
<1>14. ASSUME sharedStackSize = 0
       PROVE  /\ \A i \in 0 .. n - 1 : Entry(u, stack[u], i)' = Entry(u, s, i)
              /\ \A i : i = n => Entry(u, stack[u], i)' = val
  <2>1. n = s.globalIndex /\ old = val
    BY <1>3, <1>4, <1>14
  <2>2. \A i \in 0 .. n - 1 : Entry(u, stack[u], i)' = Entry(u, s, i)
    <3> TAKE i \in 0 .. n - 1
    <3>1. i < s.globalIndex /\ i < t.globalIndex /\ i \in 0 .. s.globalIndex - 1
      <4> HIDE DEF s, t, n
      <4> QED BY <1>3, <1>5, <2>1
    <3>2. Entry(u, stack[u], i)' = stackData'[Cell(u, i) * entryWords]
      BY <1>1, <3>1 DEF Entry, Cell
    <3> QED BY <1>1, <1>12, <3>1, <3>2 DEF Entry
  <2>3. \A i : i = n => Entry(u, stack[u], i)' = val
    <3> SUFFICES ASSUME NEW i, i = n PROVE Entry(u, stack[u], i)' = val
      OBVIOUS
    <3>1. i < t.globalIndex /\ i = s.globalIndex
      <4> HIDE DEF s, t, n
      <4> QED BY <1>3, <1>5, <2>1
    <3>2. Entry(u, stack[u], i)' = stackData'[Cell(u, i) * entryWords]
      BY <1>1, <3>1 DEF Entry, Cell
    <3> QED BY <1>7, <2>1, <3>1, <3>2
  <2> QED BY <2>2, <2>3
<1>15. ASSUME sharedStackSize > 0
       PROVE  /\ \A i \in 0 .. n - 1 : Entry(u, stack[u], i)' = Entry(u, s, i)
              /\ \A i : i = n => Entry(u, stack[u], i)' = val
  <2> DEFINE g == s.globalIndex
             x == s.sharedIndex
  <2>1. g \in Nat /\ x \in 0 .. sharedStackSize - 1
    BY <1>2, <1>3, <1>15
  <2>2. /\ t.sharedIndex = Wrapped(x + 1)
        /\ t.ring = [s.ring EXCEPT ![x] = val]
        /\ old = s.ring[x]
    BY <1>15 DEF Spilled
  <2>3. \A i \in 0 .. n - 1 : Entry(u, stack[u], i)' = Entry(u, s, i)
    <3> TAKE i \in 0 .. n - 1
    <3>1. CASE i < g
      <4>1. i < t.globalIndex /\ i \in 0 .. g - 1
        BY <1>5, <2>1, <3>1
      <4>2. Entry(u, stack[u], i)' = stackData'[Cell(u, i) * entryWords]
        BY <1>1, <4>1 DEF Entry, Cell
      <4> QED BY <1>1, <1>12, <3>1, <4>1, <4>2 DEF Entry
    <3>2. CASE i = g
      <4>1. i < t.globalIndex /\ ~(i < g)
        BY <1>5, <2>1, <3>2
      <4>2. Entry(u, stack[u], i)' = stackData'[Cell(u, i) * entryWords]
        BY <1>1, <4>1 DEF Entry, Cell
      <4>3. Unwrapped(s.sharedIndex - s.sharedCount + i - s.globalIndex) = x
        <5> HIDE DEF s
        <5> QED BY <1>2, <1>3, <2>1, <3>2 DEF Unwrapped
      <4> QED BY <1>7, <2>2, <3>2, <4>1, <4>2, <4>3 DEF Entry
    <3>3. CASE i > g
      <4>1. i \in Nat /\ ~(i < t.globalIndex) /\ ~(i < g) /\ i < g + sharedStackSize
        <5> HIDE DEF s, t, n
        <5> QED BY <1>2, <1>4, <1>5, <2>1, <3>3 DEF g
      <4> HIDE DEF g, x
      <4>2. /\ Unwrapped(Wrapped(x + 1) - sharedStackSize + i - (g + 1))
                 = Unwrapped(x - sharedStackSize + i - g)
            /\ Unwrapped(x - sharedStackSize + i - g) \in 0 .. sharedStackSize - 1
            /\ Unwrapped(x - sharedStackSize + i - g) # x
        BY <1>2, <2>1, <3>3, <4>1 DEF Unwrapped, Wrapped
      <4>3. Entry(u, stack[u], i)'
              = t.ring[Unwrapped(t.sharedIndex - t.sharedCount + i - t.globalIndex)]
        BY <1>1, <4>1 DEF Entry, Unwrapped
      <4>4. Unwrapped(t.sharedIndex - t.sharedCount + i - t.globalIndex)
              = Unwrapped(x - sharedStackSize + i - g)
        BY <1>5, <2>2, <4>2 DEF g
      <4>5. Entry(u, s, i) = s.ring[Unwrapped(x - sharedStackSize + i - g)]
        BY <1>3, <4>1 DEF Entry, g, x
      <4> QED BY <1>3, <2>2, <4>2, <4>3, <4>4, <4>5
    <3> QED BY <2>1, <3>1, <3>2, <3>3, <1>4
  <2>4. \A i : i = n => Entry(u, stack[u], i)' = val
    <3> SUFFICES ASSUME NEW i, i = n PROVE Entry(u, stack[u], i)' = val
      OBVIOUS
    <3>1. i = g + sharedStackSize /\ ~(i < t.globalIndex)
      <4> HIDE DEF s, t, n
      <4> QED BY <1>2, <1>4, <1>5, <1>15, <2>1 DEF g
    <3>2. Entry(u, stack[u], i)'
            = t.ring[Unwrapped(t.sharedIndex - t.sharedCount + i - t.globalIndex)]
      BY <1>1, <3>1 DEF Entry, Unwrapped
    <3> HIDE DEF g, x
    <3>3. Unwrapped(Wrapped(x + 1) - sharedStackSize + i - (g + 1)) = x
      BY <1>2, <2>1, <3>1 DEF Unwrapped, Wrapped
    <3>4. Unwrapped(t.sharedIndex - t.sharedCount + i - t.globalIndex) = x
      BY <1>5, <2>2, <3>3 DEF g
    <3> QED BY <1>3, <2>1, <2>2, <3>2, <3>4
  <2> QED BY <2>3, <2>4
<1>16. Entries(u)' = Append(Entries(u), val)
  <2>1. /\ u \in DOMAIN stack' /\ stack'[u] = t
        /\ val \in Word
    BY <1>1, <1>2 DEF Word
  <2>2. /\ \A i \in 0 .. n - 1 : Entry(u, stack[u], i)' = Entry(u, s, i)
        /\ \A i : i = n => Entry(u, stack[u], i)' = val
    BY <1>2, <1>14, <1>15
  <2> HIDE DEF t
  <2> QED BY <1>1, <1>6, <2>1, <2>2, PushedEntries
<1>17. Stacks' = [Stacks EXCEPT ![u] = Append(@, val)]
  BY <1>13, <1>16 DEF Stacks
<1> QED BY <1>9, <1>10, <1>11, <1>17 DEF Inv

LEMMA LeaveStep ==
  ASSUME Inv, NEW w \in Warp, Leave(w)
  PROVE  /\ Inv' /\ DOMAIN stackData' = DOMAIN stackData
         /\ Stacks' = [u \in User |-> IF u \in {v \in User : v[1] = w} THEN <<>> ELSE Stacks[u]]
<1> DEFINE c == warpHash[w]
<1>1. /\ pc[w] = "tracing" /\ c \in 0 .. activeWarps - 1 /\ Holds(w, c)
      /\ Store({c}, 0) /\ sharedStackSize' = sharedStackSize
      /\ pc' = [pc EXCEPT ![w] = "done"] /\ warpHash' = [warpHash EXCEPT ![w] = Nothing]
      /\ stack' = [u \in {v \in DOMAIN stack : v[1] # w} |-> stack[u]]
  BY DEF Leave, Inv, TypeInv, Holds
<1>2. /\ DOMAIN stackData' = DOMAIN stackData
      /\ stackData' \in [DOMAIN stackData -> Vals \cup {Nothing, 0, 1}]
      /\ stackData'[c] = 0
      /\ \A a \in DOMAIN stackData : a # c => stackData'[a] = stackData[a]
      /\ \A u \in DOMAIN stack : \A i \in 0 .. stack[u].globalIndex - 1 :
           stackData'[Cell(u, i) * entryWords] = stackData[Cell(u, i) * entryWords]
  BY <1>1, FlagStore
<1>3. \A u \in DOMAIN stack' :
         /\ u \in DOMAIN stack /\ u[1] # w /\ stack'[u] = stack[u] /\ u[1] \in Warp
         /\ warpHash'[u[1]] = warpHash[u[1]] /\ pc'[u[1]] = "tracing"
  BY <1>1, StackFacts DEF Inv, TypeInv
<1>4. TypeInv'
  <2>1. /\ pc' \in [Warp -> {"queued", "acquiring", "tracing", "done"}]
        /\ DOMAIN warpHash' = Warp
        /\ \A v \in Warp : pc'[v] \in {"acquiring", "tracing"} => warpHash'[v] \in 0 .. activeWarps - 1
    BY <1>1 DEF Inv, TypeInv
  <2>2. stack' \in [DOMAIN stack' -> Stack] /\ Stack' = Stack
    BY <1>1 DEF Inv, TypeInv, Stack
  <2>3. \A u \in DOMAIN stack' :
          /\ sharedStackSize > 0 => stack'[u].sharedIndex < sharedStackSize
          /\ sharedStackSize = 0 => stack'[u].sharedIndex = 0
    BY <1>3 DEF Inv, TypeInv
  <2> QED BY <1>1, <1>2, <1>3, <2>1, <2>2, <2>3 DEF Inv, TypeInv
<1>5. FlagInv'
  <2>1. \A v \in Warp : Holds(v, c) => v = w
    BY <1>1 DEF Inv, FlagInv
  <2>2. \A v \in Warp : \A d : Holds(v, d)' <=> Holds(v, d) /\ v # w
    BY <1>1 DEF Inv, TypeInv, Holds
  <2>3. \A d \in 0 .. activeWarps - 1 : d \in DOMAIN stackData
    BY DEF Inv, TypeInv
  <2> SUFFICES ASSUME NEW d \in 0 .. activeWarps - 1
               PROVE  /\ stackData'[d] = IF \E v \in Warp : Holds(v, d)' THEN 1 ELSE 0
                      /\ \A u, v \in Warp : Holds(u, d)' /\ Holds(v, d)' => u = v
    BY DEF FlagInv
  <2>4. CASE d = c
    BY <1>2, <2>1, <2>2, <2>4
  <2>5. CASE d # c
    <3>1. stackData'[d] = stackData[d]
      BY <1>2, <2>3, <2>5
    <3>2. ~Holds(w, d)
      BY <1>1, <2>5 DEF Holds
    <3>3. \A v \in Warp : Holds(v, d)' <=> Holds(v, d)
      BY <2>2, <3>2
    <3> QED BY <3>1, <3>3 DEF Inv, FlagInv
  <2> QED BY <2>4, <2>5
<1>6. SpillInv'
  <2>1. \A u \in DOMAIN stack' : \A i : Words(u, i)' = Words(u, i)
    BY <1>3 DEF Words, Cell
  <2> QED BY <1>2, <1>3, <2>1 DEF Inv, SpillInv
<1>7. Stacks' = [u \in User |-> IF u \in {v \in User : v[1] = w} THEN <<>> ELSE Stacks[u]]
  <2> SUFFICES ASSUME NEW u \in User
               PROVE  Entries(u)' = IF u[1] = w THEN <<>> ELSE Entries(u)
    BY DEF Stacks
  <2>1. CASE u[1] = w
    BY <1>1, <2>1 DEF Entries
  <2>2. CASE u[1] # w /\ u \in DOMAIN stack
    <3>1. u \in DOMAIN stack'
      BY <1>1, <2>2
    <3> QED BY <1>1, <1>2, <1>3, <2>2, <3>1, SameEntries
  <2>3. CASE u[1] # w /\ u \notin DOMAIN stack
    BY <1>1, <2>3 DEF Entries
  <2> QED BY <2>1, <2>2, <2>3
<1> QED BY <1>2, <1>4, <1>5, <1>6, <1>7 DEF Inv

-----------------------------------------------------------------------------
(* The theorems.                                                           *)

LEMMA Step ==
  ASSUME Inv, [Next]_vars
  PROVE  Inv' /\ [Abstract!Next]_Stacks
<1>1. ASSUME NEW w \in Warp, Start(w) PROVE Inv' /\ Stacks' = Stacks
  BY <1>1, StartStep
<1>2. ASSUME NEW w \in Warp, TryLock(w) PROVE Inv' /\ Stacks' = Stacks
  BY <1>2, LockStep
<1>3. ASSUME NEW w \in Warp, Leave(w) PROVE Inv' /\ Abstract!Next
  <2> DEFINE U == {v \in User : v[1] = w}
  <2>1. Inv' /\ Stacks' = [u \in User |-> IF u \in U THEN <<>> ELSE Stacks[u]]
    BY <1>3, LeaveStep
  <2>2. Abstract!ClearAll(U)
    BY <2>1 DEF Abstract!ClearAll, Stacks
  <2> QED BY <2>1, <2>2 DEF Abstract!Next
<1>4. ASSUME NEW u \in User, Reset(u) PROVE Inv' /\ Abstract!Next
  <2>1. Inv' /\ Abstract!Clear(u)
    BY <1>4, ResetStep DEF Abstract!Clear, Stacks
  <2> QED BY <2>1 DEF Abstract!Next
<1>5. ASSUME NEW u \in User, Pop(u) PROVE Inv' /\ Abstract!Next
  <2>1. Stacks[u] = Entries(u)
    BY DEF Stacks
  <2>2. Inv' /\ Abstract!Pop(u)
    BY <1>5, <2>1, PopStep DEF Abstract!Pop, Stacks
  <2> QED BY <2>2 DEF Abstract!Next
<1>6. ASSUME NEW u \in User, NEW val \in Values[u], PushShared(u, val) \/ PushGlobal(u, val)
      PROVE  Inv' /\ Abstract!Next
  <2>1. Inv' /\ Abstract!Push(u, val)
    BY <1>6, PushSharedStep, PushGlobalStep DEF Abstract!Push, Stacks
  <2>2. val \in UNION {Values[v] : v \in User}
    OBVIOUS
  <2> QED BY <2>1, <2>2 DEF Abstract!Next
<1>7. ASSUME UNCHANGED vars PROVE Inv' /\ Stacks' = Stacks
  <2>1. Inv'
    BY <1>7 DEF vars, Inv, TypeInv, FlagInv, SpillInv, Holds, Words, Cell, Stack
  <2>2. Stacks' = Stacks
    BY <1>7, SameStacks DEF vars
  <2> QED BY <2>1, <2>2
<1> QED BY <1>1, <1>2, <1>3, <1>4, <1>5, <1>6, <1>7 DEF Next, Use, Terminated

(* Whatever the size of the ring and of the buffer, the spills and the     *)
(* flags: every lane has a stack of its own, last in first out.            *)
THEOREM StacksAreLifo == Spec => ImplementsLifo
<1>1. Init => Abstract!Init
  BY DEF Init, Abstract!Init, Entries
<1>2. Inv /\ [Next]_vars => Inv'
  BY Step
<1>3. Inv /\ [Next]_vars => [Abstract!Next]_([u \in User |-> Entries(u)])
  BY Step DEF Stacks
<1> QED BY InvInit, <1>1, <1>2, <1>3, PTL DEF Spec, ImplementsLifo, Abstract!Spec

-----------------------------------------------------------------------------
(* With entries of one word the buffer is large enough.                    *)

LEMMA WordsInBuffer ==
  ASSUME entryWords = 1, NEW u \in User, warpHash[u[1]] \in 0 .. activeWarps - 1,
         NEW i \in 0 .. stackSize - 1
  PROVE  Words(u, i) \subseteq 0 .. bufferSize - 1
<1> DEFINE h == warpHash[u[1]]
           q == h * stackSize + i
<1>1. /\ WarpSize \in Nat \ {0} /\ stackSize \in Nat \ {0} /\ activeWarps \in Nat \ {0}
      /\ stackCount \in Nat /\ activeWarps * WarpSize <= stackCount
  BY BufferAssumption, ActiveWarps
<1>2. h \in Nat /\ i \in Nat /\ u[2] \in 0 .. WarpSize - 1
  BY <1>1, UserParts
<1>3. q \in Nat /\ Cell(u, i) = activeWarps + (u[2] + WarpSize * q) /\ Cell(u, i) \in Nat
  BY <1>2, CellIs
<1>4. q + 1 <= activeWarps * stackSize
  <2> DEFINE d == activeWarps - 1 - h
  <2>1. d \in Nat /\ d * stackSize \in Nat /\ h * stackSize \in Nat
    BY <1>1, <1>2, ProductInNat
  <2>2. activeWarps * stackSize = h * stackSize + d * stackSize + stackSize
    BY <1>1, <1>2
  <2> HIDE DEF d, h
  <2> QED BY <1>1, <1>2, <2>1, <2>2
<1>5. u[2] + WarpSize * q < stackCount * stackSize
  <2> DEFINE e == activeWarps * stackSize - (q + 1)
             r == stackCount - activeWarps * WarpSize
             m == activeWarps * stackSize
  <2>0. m \in Nat /\ activeWarps * WarpSize \in Nat
    BY <1>1, ProductInNat
  <2>1. e \in Nat /\ r \in Nat
    BY <1>1, <1>3, <1>4, <2>0
  <2>2. WarpSize * e \in Nat /\ r * stackSize \in Nat /\ WarpSize * q \in Nat
    BY <1>1, <1>3, <2>1, ProductInNat
  <2>3. WarpSize * m = WarpSize * q + WarpSize * e + WarpSize
    <3>1. m = q + e + 1
      BY <1>3, <2>0
    <3> HIDE DEF m, e, q
    <3> QED BY <1>1, <1>3, <2>1, <3>1
  <2>4. stackCount * stackSize = WarpSize * m + r * stackSize
    <3>1. stackCount = activeWarps * WarpSize + r
      BY <1>1, <2>0
    <3>2. stackCount * stackSize = (activeWarps * WarpSize) * stackSize + r * stackSize
      <4> HIDE DEF r
      <4> QED BY <1>1, <2>0, <2>1, <3>1
    <3>3. (activeWarps * WarpSize) * stackSize = WarpSize * m
      BY <1>1
    <3> QED BY <3>2, <3>3
  <2> HIDE DEF e, r, m, q
  <2> QED BY <1>1, <1>2, <2>2, <2>3, <2>4
<1>6. bufferSize = activeWarps + stackCount * stackSize
  BY <1>1 DEF bufferSize
<1>7. Words(u, i) = {Cell(u, i)}
  <2> DEFINE c == Cell(u, i)
  <2>1. Words(u, i) = c * 1 .. c * 1 + 1 - 1
    BY DEF Words
  <2> HIDE DEF c
  <2> QED BY <1>3, <2>1 DEF c
<1>8. WarpSize * q \in Nat /\ stackCount * stackSize \in Nat
  BY <1>1, <1>3, ProductInNat
<1> HIDE DEF q
<1> QED BY <1>1, <1>2, <1>3, <1>5, <1>6, <1>7, <1>8

InBuffer == DOMAIN stackData = 0 .. bufferSize - 1

(* Nothing is stored outside of the buffer, and a set flag has exactly one *)
(* owner: createGlobalStackBuffer and the constructor agree on the layout. *)
THEOREM BufferStaysIntact ==
  ASSUME entryWords = 1
  PROVE  Spec => []BufferIntact
<1>1. Init => InBuffer
  <2>1. stackCount <= bufferSize /\ bufferSize \in Nat /\ stackCount \in Nat
    <3> DEFINE d == stackSize - 1
    <3>1. d \in Nat /\ stackCount \in Nat /\ activeWarps \in Nat
      BY BufferAssumption, ActiveWarps
    <3>2. stackCount * d \in Nat
      BY <3>1, ProductInNat
    <3>3. stackCount * stackSize * 1 = stackCount + stackCount * d
      BY BufferAssumption
    <3>4. bufferSize = activeWarps + (stackCount + stackCount * d)
      BY <3>3 DEF bufferSize
    <3> HIDE DEF d
    <3> QED BY <3>1, <3>2, <3>4
  <2> QED BY <2>1 DEF Init, InBuffer
<1>2. Inv /\ InBuffer /\ [Next]_vars => InBuffer'
  <2> SUFFICES ASSUME Inv, InBuffer, [Next]_vars PROVE DOMAIN stackData' = DOMAIN stackData
    BY DEF InBuffer
  <2>1. ASSUME NEW w \in Warp, TryLock(w) PROVE DOMAIN stackData' = DOMAIN stackData
    <3>1. warpHash[w] \in DOMAIN stackData
      BY <2>1 DEF TryLock, Inv, TypeInv
    <3> QED BY <2>1, <3>1 DEF TryLock, Store
  <2>2. ASSUME NEW w \in Warp, Leave(w) PROVE DOMAIN stackData' = DOMAIN stackData
    BY <2>2, LeaveStep
  <2>3. ASSUME NEW u \in User, NEW val \in Values[u], PushGlobal(u, val)
        PROVE  DOMAIN stackData' = DOMAIN stackData
    <3> DEFINE i == stack[u].globalIndex
    <3>1. /\ warpHash[u[1]] \in 0 .. activeWarps - 1
          /\ stack[u] \in Stack /\ stackSize \in Nat /\ sharedStackSize \in Nat
      BY <2>3, StackFacts DEF PushGlobal
    <3>2. i \in 0 .. stackSize - 1
      BY <2>3, <3>1 DEF PushGlobal, vacancy, Stack
    <3>3. Words(u, i) \subseteq DOMAIN stackData
      BY <3>1, <3>2, WordsInBuffer DEF InBuffer
    <3> QED BY <2>3, <3>3 DEF PushGlobal, Store
  <2> QED BY <2>1, <2>2, <2>3 DEF Next, Use, Start, Reset, Pop, PushShared, Terminated, vars
<1>3. Inv /\ InBuffer => BufferIntact
  BY DEF Inv, FlagInv, InBuffer, BufferIntact
<1>4. Inv /\ [Next]_vars => Inv'
  BY Step
<1> QED BY InvInit, <1>1, <1>2, <1>3, <1>4, PTL DEF Spec
=============================================================================
