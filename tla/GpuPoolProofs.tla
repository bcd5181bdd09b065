---------------------------- MODULE GpuPoolProofs ----------------------------
(* Proofs about the object pools: for any clients, memory and batches the  *)
(* objects stay in memory that is theirs, the counts are exact, and what   *)
(* is freed is empty.                                                      *)
EXTENDS GpuPool, FiniteSetTheorems, TLAPS

-----------------------------------------------------------------------------
(* Sets of objects are finite.                                             *)
LEMMA ObjectsFinite == IsFiniteSet(Object)
<1> DEFINE N == 0 .. DeviceSize
           K == {"geometry", "scene"}
           P == N \X (N \X (N \X (N \X K)))
           f == [o \in Object |-> <<o.ptr, <<o.size, <<o.used, <<o.m_size, o.kind>>>>>>>>]
<1>1. IsFiniteSet(N)
  BY FS_Interval, SizeAssumption
<1>2. IsFiniteSet(K)
  <2>1. IsFiniteSet({"geometry"})
    BY FS_Singleton
  <2>2. IsFiniteSet({"geometry"} \cup {"scene"})
    BY <2>1, FS_AddElement
  <2>3. K = {"geometry"} \cup {"scene"}
    OBVIOUS
  <2> QED BY <2>2, <2>3
<1>3. IsFiniteSet(P)
  <2>1. IsFiniteSet(N \X K)
    BY <1>1, <1>2, FS_Product
  <2>2. IsFiniteSet(N \X (N \X K))
    BY <1>1, <2>1, FS_Product
  <2>3. IsFiniteSet(N \X (N \X (N \X K)))
    BY <1>1, <2>2, FS_Product
  <2> QED BY <1>1, <2>3, FS_Product
<1>4. f \in Injection(Object, P)
  <2>1. ASSUME NEW o \in Object
        PROVE  f[o] \in P
    <3>1. o.ptr \in N /\ o.size \in N /\ o.used \in N /\ o.m_size \in N
      BY SizeAssumption DEF Object, Addr
    <3>2. o.kind \in K
      BY KindAssumption DEF Object
    <3> HIDE DEF N, K
    <3> QED BY <3>1, <3>2
  <2>2. ASSUME NEW o \in Object, NEW q \in Object, f[o] = f[q]
        PROVE  o = q
    BY <2>2 DEF Object
  <2> QED BY <2>1, <2>2 DEF Injection, IsInjective
<1> HIDE DEF P, f
<1> QED BY <1>3, <1>4, FS_Injection

LEMMA NotEmpty ==
  /\ \A b \in Buffer : b.ptr \in Cells(b)
  /\ \A o \in Object : o.ptr \in Cells(o)
BY SizeAssumption DEF Buffer, Object, Addr, Cells

(* The slices of a buffer lie in it.                                       *)
LEMMA CutsAreSlices ==
  ASSUME NEW b \in Buffer, NEW T \in Cuts[b]
  PROVE  T \subseteq Buffer /\ Disjoint(T) /\ T # {} /\ \A s \in T : Cells(s) \subseteq Cells(b)
<1>1. b.ptr \in Cells(b)
  BY NotEmpty
<1>2. UNION {Cells(s) : s \in T} = Cells(b)
  BY DEF Cuts
<1>3. T # {}
  BY <1>1, <1>2
<1> QED BY <1>3 DEF Cuts

LEMMA SlicesAreSlices ==
  ASSUME NEW kind, NEW b \in Buffer, NEW T \in Slices(kind, b)
  PROVE  T \subseteq Buffer /\ Disjoint(T) /\ T # {} /\ \A s \in T : Cells(s) \subseteq Cells(b)
<1>1. CASE T \in Cuts[b]
  BY <1>1, CutsAreSlices
<1>2. ASSUME NEW a \in Buffer, a.ptr = b.ptr, a.size <= b.size, T \in Cuts[a]
      PROVE  T \subseteq Buffer /\ Disjoint(T) /\ T # {} /\ \A s \in T : Cells(s) \subseteq Cells(b)
  <2>1. Cells(a) \subseteq Cells(b)
    BY <1>2, SizeAssumption DEF Cells, Buffer, Addr
  <2>2. T \subseteq Buffer /\ Disjoint(T) /\ T # {} /\ \A s \in T : Cells(s) \subseteq Cells(a)
    BY <1>2, CutsAreSlices
  <2> QED BY <2>1, <2>2
<1> QED BY <1>1, <1>2 DEF Slices

-----------------------------------------------------------------------------
(* What the calls under way know.                                          *)
Pending(c) == pc[c] \in {"copy", "register"}

CallInv ==
  \A c \in Client :
    /\ pc[c] = "idle" => call[c].in = {} /\ call[c].out = {}
    /\ call[c].in \cap call[c].out = {}
    /\ Pending(c) =>
         /\ call[c].buffer \in allocated
         /\ \A o \in call[c].out : Cells(o) \subseteq Cells(call[c].buffer)
         /\ Disjoint(call[c].out) /\ call[c].out # {}
         /\ call[c].op # "compact" => call[c].in = {}
         /\ \A d \in Client : d # c /\ Pending(d) => call[d].buffer # call[c].buffer
    /\ pc[c] \in {"drop", "erase"} => m_poolMutex = c /\ ~KeepsMutex(c)
    /\ pc[c] = "erase" => m_poolHeads[call[c].buffer] = 0
    /\ pc[c] \in {"sync", "destroy"} /\ KeepsMutex(c) => m_poolMutex = c

(* A head is an allocation no call is about to register, or it is empty    *)
(* and about to be erased.                                                 *)
HeadInv ==
  /\ Disjoint(allocated)
  /\ HeadsDisjoint
  /\ \A b \in DOMAIN m_poolHeads :
       \/ /\ b \in allocated
          /\ \A c \in Client : Pending(c) => call[c].buffer # b
       \/ /\ m_poolHeads[b] = 0
          /\ \E c \in Client : pc[c] = "erase" /\ call[c].buffer = b

(* Nobody else has what a call was given.                                  *)
OwnerInv ==
  /\ live \cap lost = {}
  /\ \A c \in Client :
       /\ live \cap Held(c) = {} /\ lost \cap Held(c) = {}
       /\ \A d \in Client : d # c => Held(c) \cap Held(d) = {}

(* Each object is in a buffer that counts.                                 *)
BackedInv ==
  /\ Disjoint(Existing)
  /\ \A o \in Existing :
       \E b \in DOMAIN m_poolHeads \cap allocated :
         m_poolHeads[b] > 0 /\ Cells(o) \subseteq Cells(b)

(* The counts.                                                             *)
CountInv ==
  \A b \in DOMAIN m_poolHeads :
    m_poolHeads[b] = Cardinality({o \in Existing : HeadsOf(o) = {b}})

(* There is a file only where there are geometries.                        *)
FileInv == file # NoFile => "geometry" \in Kinds

Inv == TypeOK /\ FileInv /\ CallInv /\ HeadInv /\ OwnerInv /\ BackedInv /\ CountInv

-----------------------------------------------------------------------------
LEMMA NoCallTyped ==
  NoCall \in [op : {"none", "create", "compact", "load", "destroy"},
              kind : {"geometry", "scene"}, buffer : Buffer,
              in : SUBSET Object, out : SUBSET Object]
BY SizeAssumption DEF NoCall, Buffer, Addr

LEMMA InitInv == Init => Inv
<1> SUFFICES ASSUME Init PROVE Inv
  OBVIOUS
<1> USE DEF Init
<1>1. TypeOK
  BY NoCallTyped DEF TypeOK
<1>2. Existing = {}
  BY DEF Existing, Held, NoCall, Registered
<1>3. CallInv /\ FileInv
  BY DEF CallInv, Pending, NoCall, FileInv
<1>4. HeadInv /\ OwnerInv
  BY DEF HeadInv, HeadsDisjoint, Disjoint, OwnerInv, Held, NoCall, Registered
<1> QED BY <1>1, <1>2, <1>3, <1>4 DEF Inv, BackedInv, CountInv, Disjoint

-----------------------------------------------------------------------------
(* As long as heads and objects stay, so do counts and backing.            *)
LEMMA SameObjects ==
  ASSUME Inv, Existing' = Existing, m_poolHeads' = m_poolHeads,
         \A b \in DOMAIN m_poolHeads : m_poolHeads[b] > 0 /\ b \in allocated => b \in allocated'
  PROVE  BackedInv' /\ CountInv'
<1>1. \A o : HeadsOf(o)' = HeadsOf(o)
  BY DEF HeadsOf
<1>2. CountInv'
  BY <1>1 DEF Inv, CountInv
<1>3. BackedInv'
  BY DEF Inv, BackedInv
<1> QED BY <1>2, <1>3

(* A call that allocates, by creation, compaction or loading.              *)
LEMMA AllocationKeepsInv ==
  ASSUME Inv, NEW c \in Client,
         NEW op \in {"create", "compact", "load"}, NEW kind \in {"geometry", "scene"},
         NEW b \in Buffer, NEW in \in SUBSET live, NEW out \in SUBSET Object,
         NEW next \in {"copy", "register"},
         Malloc(b), Begin(c, op, kind, b, in, out, next),
         \A o \in out : Cells(o) \subseteq Cells(b), Disjoint(out), out # {},
         op # "compact" => in = {},
         UNCHANGED <<m_poolHeads, m_poolMutex, lost, file>>
  PROVE  Inv'
<1> USE DEF Inv, Begin
<1>1. TypeOK' /\ FileInv'
  BY DEF TypeOK, FileInv, Malloc
<1>2. pc[c] = "idle" /\ ~Registered(c) /\ ~Registered(c)' /\ Held(c) = {} /\ Held(c)' = in
  BY DEF TypeOK, CallInv, Held, Registered
<1>3. \A d \in Client : d # c => /\ pc'[d] = pc[d] /\ call'[d] = call[d]
                                 /\ Held(d)' = Held(d) /\ KeepsMutex(d)' = KeepsMutex(d)
                                 /\ Pending(d)' = Pending(d)
  BY DEF TypeOK, Held, Registered, KeepsMutex, Pending
<1>4. /\ call'[c].buffer = b /\ call'[c].in = in /\ call'[c].out = out /\ pc'[c] = next
      /\ call'[c].op = op
      /\ Pending(c)' /\ ~Pending(c)
  BY <1>2 DEF TypeOK, Pending
<1>5. b \notin allocated
  BY NotEmpty DEF Malloc, Free
<1>51. in \cap out = {}
  <2> SUFFICES ASSUME NEW o \in in, o \in out PROVE FALSE
    OBVIOUS
  <2>1. PICK z \in allocated : Cells(o) \subseteq Cells(z)
    BY DEF BackedInv, Existing
  <2>2. o.ptr \in Cells(o) /\ Cells(o) \subseteq Cells(b)
    BY NotEmpty
  <2> QED BY <2>1, <2>2 DEF Malloc, Free
<1>6. CallInv'
  BY <1>2, <1>3, <1>4, <1>5, <1>51 DEF CallInv, Malloc, Pending
<1>7. HeadInv'
  <2>1. Disjoint(allocated)'
    BY DEF HeadInv, Disjoint, Malloc, Free
  <2>2. HeadsDisjoint'
    BY DEF HeadInv, HeadsDisjoint
  <2>3. \A z \in DOMAIN m_poolHeads : z \in allocated => z # b
    BY <1>5
  <2> QED BY <1>2, <1>3, <1>4, <2>1, <2>2, <2>3 DEF HeadInv, Malloc
<1>8. OwnerInv'
  BY <1>2, <1>3 DEF OwnerInv
<1>9. Existing' = Existing
  BY <1>2, <1>3 DEF Existing
<1>10. BackedInv' /\ CountInv'
  BY <1>9, SameObjects DEF Malloc
<1> QED BY <1>1, <1>6, <1>7, <1>8, <1>10

LEMMA CreateKeepsInv ==
  ASSUME Inv, NEW c \in Client, Create(c)
  PROVE  Inv'
<1>0. PICK kind \in Kinds, b \in Buffer :
        /\ Malloc(b)
        /\ \E T \in Slices(kind, b) :
             Begin(c, "create", kind, b, {},
                   {[ptr |-> s.ptr, size |-> s.size, used |-> 0, m_size |-> 0, kind |-> kind] : s \in T},
                   "register")
        /\ UNCHANGED <<m_poolHeads, m_poolMutex, lost, file>>
  BY DEF Create
<1>1. PICK T \in Slices(kind, b) :
        Begin(c, "create", kind, b, {},
              {[ptr |-> s.ptr, size |-> s.size, used |-> 0, m_size |-> 0, kind |-> kind] : s \in T},
              "register")
  BY <1>0
<1> DEFINE made(s) == [ptr |-> s.ptr, size |-> s.size, used |-> 0, m_size |-> 0, kind |-> kind]
           out == {made(s) : s \in T}
<1>2. T \subseteq Buffer /\ Disjoint(T) /\ T # {} /\ \A s \in T : Cells(s) \subseteq Cells(b)
  BY SlicesAreSlices
<1>3. \A s \in T : made(s) \in Object /\ Cells(made(s)) = Cells(s)
  BY <1>2, SizeAssumption DEF Object, Buffer, Cells
<1>4. \A s \in T, t \in T : made(s) # made(t) => s # t
  OBVIOUS
<1>5. Begin(c, "create", kind, b, {}, out, "register")
  BY <1>1
<1> HIDE DEF made
<1>6. out \in SUBSET Object /\ Disjoint(out) /\ out # {} /\ \A o \in out : Cells(o) \subseteq Cells(b)
  BY <1>2, <1>3, <1>4 DEF Disjoint
<1> HIDE DEF out
<1>7. kind \in {"geometry", "scene"}
  BY KindAssumption
<1> QED BY <1>0, <1>5, <1>6, <1>7, AllocationKeepsInv, Zenon

LEMMA CompactKeepsInv ==
  ASSUME Inv, NEW c \in Client, Compact(c)
  PROVE  Inv'
<1>1. PICK kind \in Kinds, b \in Buffer :
        /\ Malloc(b)
        /\ \E S \in SUBSET Built(kind), T \in Cuts[b] :
             \E f \in Bijection(S, T) :
               /\ \A o \in S : f[o].size = o.used
               /\ Begin(c, "compact", kind, b, S, {Compacted(o, f[o]) : o \in S}, "copy")
        /\ UNCHANGED <<m_poolHeads, m_poolMutex, lost, file>>
  BY DEF Compact
<1>2. PICK S \in SUBSET Built(kind), T \in Cuts[b] :
        \E f \in Bijection(S, T) :
          Begin(c, "compact", kind, b, S, {Compacted(o, f[o]) : o \in S}, "copy")
  BY <1>1
<1>3. PICK f \in Bijection(S, T) :
        Begin(c, "compact", kind, b, S, {Compacted(o, f[o]) : o \in S}, "copy")
  BY <1>2
<1> DEFINE out == {Compacted(o, f[o]) : o \in S}
<1>4. T \subseteq Buffer /\ Disjoint(T) /\ T # {} /\ \A s \in T : Cells(s) \subseteq Cells(b)
  BY CutsAreSlices
<1>5. S \in SUBSET live /\ S \subseteq Object
  BY DEF Built, Inv, TypeOK
<1>6. \A o \in S : f[o] \in T
  BY DEF Bijection, Injection
<1>7. \A o \in S : Compacted(o, f[o]) \in Object /\ Cells(Compacted(o, f[o])) = Cells(f[o])
  <2> SUFFICES ASSUME NEW o \in S
               PROVE  Compacted(o, f[o]) \in Object /\ Cells(Compacted(o, f[o])) = Cells(f[o])
    OBVIOUS
  <2>1. o \in Object /\ f[o] \in Buffer
    BY <1>4, <1>5, <1>6
  <2> QED BY <2>1 DEF Compacted, Object, Buffer, Cells
<1>8. \A o \in S, q \in S : Compacted(o, f[o]) # Compacted(q, f[q]) => f[o] # f[q]
  BY DEF Bijection, Injection, IsInjective
<1>9. out \in SUBSET Object /\ Disjoint(out) /\ out # {} /\ \A o \in out : Cells(o) \subseteq Cells(b)
  <2>1. S # {}
    BY <1>4 DEF Bijection, Surjection
  <2> QED BY <2>1, <1>4, <1>6, <1>7, <1>8 DEF Disjoint
<1>10. Begin(c, "compact", kind, b, S, out, "copy")
  BY <1>3
<1> HIDE DEF out
<1>11. kind \in {"geometry", "scene"}
  BY KindAssumption
<1> QED BY <1>1, <1>5, <1>9, <1>10, <1>11, AllocationKeepsInv, Zenon

LEMMA LoadKeepsInv ==
  ASSUME Inv, NEW c \in Client, Load(c)
  PROVE  Inv'
<1>1. PICK b \in Buffer :
        /\ Malloc(b)
        /\ Begin(c, "load", "geometry", b, {},
                 {[ptr |-> b.ptr, size |-> b.size, used |-> file.used,
                   m_size |-> file.m_size, kind |-> "geometry"]}, "copy")
        /\ b.size = file.m_size
        /\ UNCHANGED <<m_poolHeads, m_poolMutex, lost, file>>
  BY DEF Load
<1> DEFINE o == [ptr |-> b.ptr, size |-> b.size, used |-> file.used,
                 m_size |-> file.m_size, kind |-> "geometry"]
<1>2. "geometry" \in Kinds /\ file.used \in 0 .. DeviceSize /\ file.m_size \in 0 .. DeviceSize
  BY DEF Load, Inv, FileInv, TypeOK
<1>3. o \in Object /\ Cells(o) = Cells(b)
  BY <1>2 DEF Object, Buffer, Cells
<1>4. Begin(c, "load", "geometry", b, {}, {o}, "copy")
  BY <1>1
<1> HIDE DEF o
<1>5. {o} \in SUBSET Object /\ Disjoint({o}) /\ \A q \in {o} : Cells(q) \subseteq Cells(b)
  BY <1>3 DEF Disjoint
<1> QED BY <1>1, <1>4, <1>5, AllocationKeepsInv, Zenon

LEMMA DestroyKeepsInv ==
  ASSUME Inv, NEW c \in Client, Destroy(c)
  PROVE  Inv'
<1>1. PICK S \in SUBSET live, kind \in Kinds : Begin(c, "destroy", kind, NoCall.buffer, S, {}, "destroy")
  BY DEF Destroy
<1> USE DEF Inv, Begin
<1>2. UNCHANGED <<allocated, m_poolHeads, m_poolMutex, lost, file>>
  BY DEF Destroy
<1>3. TypeOK' /\ FileInv'
  <2>1. NoCall.buffer \in Buffer /\ kind \in {"geometry", "scene"}
    BY NoCallTyped, KindAssumption
  <2> QED BY <1>1, <1>2, <2>1 DEF TypeOK, FileInv
<1>4. /\ pc[c] = "idle" /\ Held(c) = {} /\ Held(c)' = S
      /\ ~Pending(c) /\ ~Pending(c)' /\ ~KeepsMutex(c)' /\ call'[c].out = {}
  BY <1>1 DEF TypeOK, CallInv, Held, Registered, Pending, KeepsMutex
<1>5. \A d \in Client : d # c => /\ pc'[d] = pc[d] /\ call'[d] = call[d]
                                 /\ Held(d)' = Held(d) /\ KeepsMutex(d)' = KeepsMutex(d)
                                 /\ Pending(d)' = Pending(d)
  BY <1>1 DEF TypeOK, Held, Registered, KeepsMutex, Pending
<1>6. CallInv'
  <2>1. pc'[c] = "destroy"
    BY <1>1 DEF TypeOK
  <2> QED BY <1>2, <1>4, <1>5, <2>1 DEF CallInv
<1>7. HeadInv'
  BY <1>2, <1>4, <1>5 DEF HeadInv, HeadsDisjoint
<1>8. OwnerInv' /\ Existing' = Existing
  BY <1>1, <1>2, <1>4, <1>5 DEF OwnerInv, Existing
<1>9. BackedInv' /\ CountInv'
  BY <1>2, <1>8, SameObjects
<1> QED BY <1>3, <1>6, <1>7, <1>8, <1>9

LEMMA SaveKeepsInv ==
  ASSUME Inv, NEW c \in Client, Save(c)
  PROVE  Inv'
<1> USE DEF Inv, Save
<1>1. TypeOK' /\ FileInv'
  BY DEF TypeOK, FileInv, Built, Object
<1>2. /\ Existing' = Existing
      /\ \A d \in Client : Held(d)' = Held(d) /\ Pending(d)' = Pending(d) /\ KeepsMutex(d)' = KeepsMutex(d)
  BY DEF Existing, Held, Registered, Pending, KeepsMutex
<1>3. CallInv' /\ HeadInv' /\ OwnerInv'
  BY <1>2 DEF CallInv, HeadInv, HeadsDisjoint, OwnerInv
<1>4. BackedInv' /\ CountInv'
  BY <1>2, SameObjects
<1> QED BY <1>1, <1>3, <1>4

LEMMA CopyKeepsInv ==
  ASSUME Inv, NEW c \in Client, Copy(c)
  PROVE  Inv'
<1>1. TypeOK' /\ FileInv'
  BY DEF Inv, TypeOK, FileInv, Copy
<1>2. \A d \in Client : /\ Held(d)' = Held(d) /\ Pending(d)' = Pending(d)
                        /\ KeepsMutex(d)' = KeepsMutex(d)
                        /\ d # c => pc'[d] = pc[d]
  BY DEF Inv, TypeOK, Held, Registered, Pending, KeepsMutex, Copy
<1>3. pc[c] = "copy" /\ pc'[c] = "register"
  BY DEF Inv, TypeOK, Copy
<1>31. Existing' = Existing
  BY <1>2 DEF Existing, Copy
<1>4. CallInv'
  BY <1>2, <1>3 DEF Inv, CallInv, Pending, Copy
<1>41. HeadInv' /\ OwnerInv'
  BY <1>2, <1>3 DEF Inv, HeadInv, Copy, HeadsDisjoint, OwnerInv
<1>5. BackedInv' /\ CountInv'
  BY <1>31, SameObjects DEF Copy
<1> QED BY <1>1, <1>4, <1>41, <1>5 DEF Inv

LEMMA SyncKeepsInv ==
  ASSUME Inv, NEW c \in Client, Sync(c)
  PROVE  Inv'
<1>1. TypeOK' /\ FileInv'
  BY DEF Inv, TypeOK, FileInv, Sync
<1>2. \A d \in Client : /\ Held(d)' = Held(d) /\ Pending(d)' = Pending(d)
                        /\ KeepsMutex(d)' = KeepsMutex(d)
                        /\ d # c => pc'[d] = pc[d]
  BY DEF Inv, TypeOK, Held, Registered, Pending, KeepsMutex, Sync
<1>3. pc[c] = "sync" /\ pc'[c] = "destroy"
  BY DEF Inv, TypeOK, Sync
<1>4. Existing' = Existing
  BY <1>2 DEF Existing, Sync
<1>5. CallInv'
  BY <1>2, <1>3 DEF Inv, CallInv, Sync
<1>6. HeadInv' /\ OwnerInv'
  BY <1>2, <1>3 DEF Inv, HeadInv, Sync, HeadsDisjoint, OwnerInv
<1>7. BackedInv' /\ CountInv'
  BY <1>2, <1>3, <1>4, SameObjects DEF Sync
<1> QED BY <1>1, <1>5, <1>6, <1>7 DEF Inv

(* What a compaction made stays in the buffer, without a handle.           *)
LEMMA SyncFailsKeepsInv ==
  ASSUME Inv, NEW c \in Client, SyncFails(c)
  PROVE  Inv'
<1> USE DEF Inv, SyncFails, Throw
<1>1. TypeOK' /\ FileInv'
  BY NoCallTyped DEF TypeOK, FileInv
<1>2. /\ pc[c] = "sync" /\ pc'[c] = "idle" /\ Held(c) = call[c].in \cup call[c].out
      /\ Held(c)' = {} /\ live' = live \cup call[c].in /\ lost' = lost \cup call[c].out
      /\ ~Pending(c)' /\ call'[c].in = {} /\ call'[c].out = {}
  BY DEF TypeOK, Held, Registered, NoCall, Pending
<1>3. \A d \in Client : d # c => /\ pc'[d] = pc[d] /\ call'[d] = call[d]
                                 /\ Held(d)' = Held(d) /\ KeepsMutex(d)' = KeepsMutex(d)
                                 /\ Pending(d)' = Pending(d)
  BY DEF TypeOK, Held, Registered, KeepsMutex, Pending
<1>4. \A d \in Client : d # c /\ m_poolMutex = d => m_poolMutex' = d
  BY <1>2 DEF CallInv
<1>5. CallInv' /\ HeadInv'
  BY <1>2, <1>3, <1>4 DEF CallInv, HeadInv, HeadsDisjoint
<1>6. call[c].in \cap call[c].out = {}
  BY DEF CallInv
<1>7. OwnerInv'
  BY <1>2, <1>3, <1>6 DEF OwnerInv
<1>8. Existing' = Existing
  BY <1>2, <1>3 DEF Existing
<1>9. BackedInv' /\ CountInv'
  BY <1>2, <1>3, <1>8, SameObjects
<1> QED BY <1>1, <1>5, <1>7, <1>9

LEMMA CopyFailsKeepsInv ==
  ASSUME Inv, NEW c \in Client, CopyFails(c)
  PROVE  Inv'
<1> USE DEF Inv, CopyFails, Throw
<1>1. TypeOK' /\ FileInv'
  BY NoCallTyped DEF TypeOK, FileInv
<1>2. /\ pc[c] = "copy" /\ pc'[c] = "idle" /\ Held(c) = call[c].in /\ Held(c)' = {}
      /\ live' = live \cup call[c].in /\ lost' = lost /\ ~Pending(c)'
      /\ call'[c].in = {} /\ call'[c].out = {}
  BY DEF TypeOK, Held, Registered, NoCall, Pending
<1>3. \A d \in Client : d # c => /\ pc'[d] = pc[d] /\ call'[d] = call[d]
                                 /\ Held(d)' = Held(d) /\ KeepsMutex(d)' = KeepsMutex(d)
                                 /\ Pending(d)' = Pending(d)
  BY DEF TypeOK, Held, Registered, KeepsMutex, Pending
<1>4. CallInv' /\ HeadInv'
  BY <1>2, <1>3 DEF CallInv, HeadInv, HeadsDisjoint
<1>5. OwnerInv'
  BY <1>2, <1>3 DEF OwnerInv
<1>6. Existing' = Existing
  BY <1>2, <1>3 DEF Existing
<1>7. BackedInv' /\ CountInv'
  BY <1>6, SameObjects
<1> QED BY <1>1, <1>4, <1>5, <1>7

LEMMA LockKeepsInv ==
  ASSUME Inv, NEW c \in Client, Lock(c)
  PROVE  Inv'
<1>1. TypeOK' /\ FileInv'
  BY ClientAssumption DEF Inv, TypeOK, FileInv, Lock
<1>2. \A d \in Client : /\ Held(d)' = Held(d) /\ Pending(d)' = Pending(d)
                        /\ KeepsMutex(d)' = KeepsMutex(d)
                        /\ d # c => pc'[d] = pc[d]
  BY DEF Inv, TypeOK, Held, Registered, Pending, KeepsMutex, Lock
<1>3. pc[c] = "destroy" /\ pc'[c] = "drop"
  BY DEF Inv, TypeOK, Lock
<1>31. Existing' = Existing
  BY <1>2 DEF Existing, Lock
<1>4. CallInv'
  BY <1>2, <1>3, ClientAssumption DEF Inv, CallInv, Lock
<1>5. HeadInv' /\ OwnerInv'
  BY <1>2, <1>3 DEF Inv, HeadInv, Lock, HeadsDisjoint, OwnerInv
<1>6. BackedInv' /\ CountInv'
  BY <1>31, SameObjects DEF Lock
<1> QED BY <1>1, <1>4, <1>5, <1>6 DEF Inv

LEMMA UnlockKeepsInv ==
  ASSUME Inv, NEW c \in Client, Unlock(c)
  PROVE  Inv'
<1> USE DEF Inv, Unlock, Return
<1>1. TypeOK' /\ FileInv'
  BY NoCallTyped DEF TypeOK, FileInv
<1>2. /\ pc[c] = "drop" /\ pc'[c] = "idle" /\ Held(c) = call[c].out /\ Held(c)' = {}
      /\ live' = live \cup call[c].out /\ ~Pending(c)'
      /\ call'[c].in = {} /\ call'[c].out = {} /\ m_poolMutex = c
  BY DEF TypeOK, CallInv, Held, Registered, NoCall, Pending, Doomed
<1>3. \A d \in Client : d # c => /\ pc'[d] = pc[d] /\ call'[d] = call[d]
                                 /\ Held(d)' = Held(d) /\ KeepsMutex(d)' = KeepsMutex(d)
                                 /\ Pending(d)' = Pending(d)
  BY DEF TypeOK, Held, Registered, KeepsMutex, Pending
<1>4. CallInv' /\ HeadInv'
  BY <1>2, <1>3 DEF CallInv, HeadInv, HeadsDisjoint
<1>5. OwnerInv'
  BY <1>2, <1>3 DEF OwnerInv
<1>6. Existing' = Existing
  BY <1>2, <1>3 DEF Existing
<1>7. BackedInv' /\ CountInv'
  BY <1>6, SameObjects
<1> QED BY <1>1, <1>4, <1>5, <1>7

-----------------------------------------------------------------------------
(* An object that exists is in exactly one head, its buffer.               *)
LEMMA BufferOf ==
  ASSUME Inv, NEW o \in Existing
  PROVE  \E b \in DOMAIN m_poolHeads \cap allocated :
           m_poolHeads[b] > 0 /\ Cells(o) \subseteq Cells(b) /\ HeadsOf(o) = {b}
<1>1. PICK b \in DOMAIN m_poolHeads \cap allocated :
        m_poolHeads[b] > 0 /\ Cells(o) \subseteq Cells(b)
  BY DEF Inv, BackedInv
<1>2. o \in Object
  BY DEF Inv, TypeOK, Existing, Held
<1>3. o.ptr \in Cells(b)
  BY <1>1, <1>2, NotEmpty
<1>4. HeadsOf(o) = {b}
  BY <1>1, <1>3 DEF Inv, HeadInv, HeadsDisjoint, Disjoint, HeadsOf
<1> QED BY <1>1, <1>4

LEMMA ExistingTyped ==
  ASSUME Inv
  PROVE  /\ Existing \subseteq Object
         /\ \A b : IsFiniteSet({o \in Existing : HeadsOf(o) = {b}})
<1>1. Existing \subseteq Object
  BY DEF Inv, TypeOK, Existing, Held
<1> QED BY <1>1, ObjectsFinite, FS_Subset

LEMMA BuildKeepsInv ==
  ASSUME Inv, NEW c \in Client, Build(c)
  PROVE  Inv'
<1> USE DEF Inv
<1>1. PICK o \in live :
        /\ o.m_size = 0
        /\ \E used \in 1 .. o.size :
             live' = (live \ {o}) \cup {[o EXCEPT !.used = used, !.m_size = o.size]}
  BY DEF Build
<1>2. PICK used \in 1 .. o.size :
        live' = (live \ {o}) \cup {[o EXCEPT !.used = used, !.m_size = o.size]}
  BY <1>1
<1> DEFINE n == [o EXCEPT !.used = used, !.m_size = o.size]
<1>3. UNCHANGED <<allocated, m_poolHeads, m_poolMutex, lost, file, pc, call>>
  BY DEF Build
<1>4. o \in Object /\ o \in Existing
  BY DEF TypeOK, Existing
<1>5. n \in Object /\ n # o /\ Cells(n) = Cells(o) /\ n.ptr = o.ptr
  <2>1. o.size \in 1 .. DeviceSize /\ used \in 0 .. DeviceSize /\ o.size \in 0 .. DeviceSize
    BY <1>4, SizeAssumption DEF Object
  <2>2. n \in Object /\ n.m_size = o.size /\ n.ptr = o.ptr /\ n.size = o.size
    BY <1>4, <2>1 DEF Object
  <2> HIDE DEF n
  <2>3. n # o
    BY <1>1, <2>1, <2>2
  <2> QED BY <2>2, <2>3 DEF Cells
<1>6. live' = (live \ {o}) \cup {n}
  BY <1>2
<1> HIDE DEF n
<1>7. n \notin Existing
  BY <1>4, <1>5, NotEmpty DEF BackedInv, Disjoint
<1>8. TypeOK' /\ FileInv'
  BY <1>3, <1>5, <1>6 DEF TypeOK, FileInv
<1>9. \A d \in Client : /\ Held(d)' = Held(d) /\ Pending(d)' = Pending(d)
                        /\ KeepsMutex(d)' = KeepsMutex(d)
  BY <1>3 DEF Held, Registered, Pending, KeepsMutex
<1>10. CallInv' /\ HeadInv'
  BY <1>3, <1>9 DEF CallInv, HeadInv, HeadsDisjoint
<1>11. OwnerInv'
  <2>1. n \notin lost /\ \A d \in Client : n \notin Held(d)
    BY <1>7 DEF Existing
  <2> QED BY <2>1, <1>3, <1>6, <1>9 DEF OwnerInv
<1>12. Existing' = (Existing \ {o}) \cup {n}
  <2>1. o \notin lost /\ \A d \in Client : o \notin Held(d)
    BY DEF OwnerInv
  <2> QED BY <2>1, <1>3, <1>6, <1>9 DEF Existing
<1>13. BackedInv'
  BY <1>3, <1>4, <1>5, <1>12 DEF BackedInv, Disjoint
<1>14. CountInv'
  <2> SUFFICES ASSUME NEW b \in DOMAIN m_poolHeads
               PROVE  m_poolHeads[b] = Cardinality({x \in Existing' : HeadsOf(x)' = {b}})
    BY <1>3 DEF CountInv
  <2> DEFINE Q == {x \in Existing : HeadsOf(x) = {b}}
             R == {x \in Existing' : HeadsOf(x)' = {b}}
  <2>1. \A x : HeadsOf(x)' = HeadsOf(x)
    BY <1>3 DEF HeadsOf
  <2>2. HeadsOf(n) = HeadsOf(o)
    BY <1>5 DEF HeadsOf
  <2>3. R = IF o \in Q THEN (Q \ {o}) \cup {n} ELSE Q
    BY <1>4, <1>7, <1>12, <2>1, <2>2
  <2>4. IsFiniteSet(Q) /\ m_poolHeads[b] = Cardinality(Q) /\ n \notin Q
    BY ExistingTyped, <1>7 DEF CountInv
  <2> HIDE DEF Q, R
  <2>5. Cardinality(R) = Cardinality(Q)
    <3>1. CASE o \in Q
      <4>1. IsFiniteSet(Q \ {o}) /\ Cardinality(Q \ {o}) = Cardinality(Q) - 1
        BY <2>4, <3>1, FS_RemoveElement
      <4>2. Cardinality((Q \ {o}) \cup {n}) = Cardinality(Q \ {o}) + 1
        BY <2>4, <4>1, FS_AddElement
      <4>3. Cardinality(Q) \in Nat
        BY <2>4, FS_CardinalityType
      <4> QED BY <2>3, <3>1, <4>1, <4>2, <4>3
    <3>2. CASE o \notin Q
      BY <2>3, <3>2
    <3> QED BY <3>1, <3>2
  <2> QED BY <2>4, <2>5 DEF R
<1> QED BY <1>8, <1>10, <1>11, <1>13, <1>14

LEMMA RegisterKeepsInv ==
  ASSUME Inv, NEW c \in Client, Register(c)
  PROVE  Inv'
<1> USE DEF Inv
<1> DEFINE b == call[c].buffer
           out == call[c].out
<1>1. /\ pc[c] = "register" /\ m_poolMutex = NoClient /\ Pending(c) /\ ~Registered(c)
      /\ b \in allocated /\ b \in Buffer /\ out \subseteq Object /\ IsFiniteSet(out) /\ out # {}
      /\ Disjoint(out) /\ \A o \in out : Cells(o) \subseteq Cells(b)
  BY ObjectsFinite, FS_Subset DEF Register, Pending, Registered, CallInv, TypeOK
<1>2. \A d \in Client : pc[d] \notin {"drop", "erase"}
  BY <1>1, ClientAssumption DEF CallInv
<1>3. \A z \in DOMAIN m_poolHeads : z \in allocated /\ z # b
  BY <1>1, <1>2 DEF HeadInv
<1>4. /\ HeadCount(c) = Cardinality(out) /\ HeadCount(c) \in Nat /\ HeadCount(c) > 0
  <2>1. Cardinality(out) \in Nat /\ Cardinality(out) # 0
    BY <1>1, FS_CardinalityType, FS_EmptySet
  <2> QED BY <2>1 DEF HeadCount
<1>5. /\ DOMAIN m_poolHeads' = {b} \cup DOMAIN m_poolHeads
      /\ m_poolHeads'[b] = HeadCount(c)
      /\ \A z \in DOMAIN m_poolHeads : m_poolHeads'[z] = m_poolHeads[z]
      /\ allocated' = allocated /\ file' = file /\ lost' = lost
  BY <1>3 DEF Register
<1>6. m_poolHeads' \in [DOMAIN m_poolHeads' -> Nat]
  BY <1>4 DEF TypeOK, Register
<1>7. \A d \in Client : d # c => /\ pc'[d] = pc[d] /\ call'[d] = call[d]
                                 /\ Held(d)' = Held(d) /\ KeepsMutex(d)' = KeepsMutex(d)
                                 /\ Pending(d)' = Pending(d)
  BY DEF TypeOK, Register, Return, Held, Registered, KeepsMutex, Pending
<1>8. \/ /\ call[c].op = "compact" /\ pc' = [pc EXCEPT ![c] = "sync"]
         /\ UNCHANGED <<live, call>>
      \/ call[c].op # "compact" /\ Return(c) /\ call[c].in = {}
  BY <1>1 DEF Register, CallInv
<1>9. /\ m_poolMutex' = IF KeepsMutex(c) THEN c ELSE NoClient
      /\ m_poolMutex' = NoClient \/ call[c].op = "compact"
  BY DEF Register, KeepsMutex
<1>10. TypeOK' /\ FileInv'
  BY <1>1, <1>5, <1>6, <1>8, <1>9, NoCallTyped DEF TypeOK, FileInv, Return
<1>11. /\ ~Pending(c)' /\ pc'[c] \in {"sync", "idle"}
       /\ pc'[c] = "idle" => call'[c].in = {} /\ call'[c].out = {}
       /\ pc'[c] = "sync" => KeepsMutex(c)' = KeepsMutex(c)
       /\ call'[c].in \cap call'[c].out = {}
  BY <1>8 DEF TypeOK, CallInv, Return, NoCall, Pending, KeepsMutex
<1>12. CallInv'
  <2>1. \A d \in Client : d # c => pc[d] \notin {"drop", "erase"} /\ ~(pc[d] \in {"sync", "destroy"} /\ KeepsMutex(d))
    BY <1>1, <1>2, ClientAssumption DEF CallInv
  <2> QED BY <1>1, <1>5, <1>7, <1>9, <1>11, <2>1 DEF CallInv
<1>13. HeadInv'
  <2>1. HeadsDisjoint'
    BY <1>1, <1>3, <1>5 DEF HeadInv, HeadsDisjoint, Disjoint
  <2>2. \A d \in Client : Pending(d)' => call'[d].buffer # b
    BY <1>1, <1>7, <1>11 DEF CallInv
  <2> QED BY <1>1, <1>3, <1>4, <1>5, <1>7, <1>11, <2>1, <2>2 DEF HeadInv
<1>14. \A o \in Existing, q \in out : Cells(o) \cap Cells(q) = {}
  BY <1>1, <1>3 DEF BackedInv, HeadInv, Disjoint
<1>15. out \cap Existing = {}
  BY <1>1, <1>14, NotEmpty
<1>16. Held(c) = call[c].in /\ ((live' = live /\ Held(c)' = Held(c) \cup out)
                              \/ (live' = live \cup out /\ Held(c) = {} /\ Held(c)' = {}))
  BY <1>1, <1>8 DEF TypeOK, Return, NoCall, Held, Registered
<1>17. OwnerInv'
  <2>1. (live \cup lost) \cap out = {} /\ \A d \in Client : Held(d) \cap out = {}
    BY <1>15 DEF Existing
  <2> HIDE DEF out
  <2> QED BY <1>5, <1>7, <1>16, <2>1 DEF OwnerInv
<1>18. Existing' = Existing \cup out
  <2> HIDE DEF out
  <2> QED BY <1>5, <1>7, <1>16 DEF Existing
<1>19. BackedInv'
  <2>1. \A o \in out : b \in DOMAIN m_poolHeads' \cap allocated' /\ m_poolHeads'[b] > 0 /\ Cells(o) \subseteq Cells(b)
    BY <1>1, <1>4, <1>5
  <2>2. \A o \in Existing :
          \E z \in DOMAIN m_poolHeads' \cap allocated' : m_poolHeads'[z] > 0 /\ Cells(o) \subseteq Cells(z)
    BY <1>5 DEF BackedInv
  <2>3. Disjoint(Existing \cup out)
    BY <1>1, <1>14 DEF BackedInv, Disjoint
  <2> HIDE DEF out, b
  <2> QED BY <1>18, <2>1, <2>2, <2>3 DEF BackedInv
<1>20. \A o \in Existing : HeadsOf(o)' = HeadsOf(o)
  <2> SUFFICES ASSUME NEW o \in Existing PROVE HeadsOf(o)' = HeadsOf(o)
    OBVIOUS
  <2>1. PICK z \in DOMAIN m_poolHeads : Cells(o) \subseteq Cells(z)
    BY DEF BackedInv
  <2>2. o.ptr \in Cells(z)
    BY <2>1, NotEmpty, ExistingTyped
  <2>3. o.ptr \notin Cells(b)
    BY <1>1, <1>3, <2>2 DEF HeadInv, Disjoint
  <2> QED BY <1>5, <2>3 DEF HeadsOf
<1>21. \A o \in out : HeadsOf(o)' = {b}
  <2> SUFFICES ASSUME NEW o \in out PROVE HeadsOf(o)' = {b}
    OBVIOUS
  <2>1. o.ptr \in Cells(b)
    BY <1>1, NotEmpty
  <2> QED BY <1>5, <1>13, <2>1 DEF HeadInv, HeadsDisjoint, Disjoint, HeadsOf
<1>22. b \notin DOMAIN m_poolHeads
  BY <1>3
<1>23. CountInv'
  <2> SUFFICES ASSUME NEW z \in DOMAIN m_poolHeads'
               PROVE  m_poolHeads'[z] = Cardinality({x \in Existing' : HeadsOf(x)' = {z}})
    BY DEF CountInv
  <2> HIDE DEF b, out
  <2>1. CASE z = b
    <3>1. \A x \in Existing : HeadsOf(x)' # {b}
      BY <1>20, <1>22 DEF HeadsOf
    <3>2. {x \in Existing' : HeadsOf(x)' = {z}} = out
      BY <2>1, <3>1, <1>18, <1>21
    <3> QED BY <2>1, <3>2, <1>4, <1>5
  <2>2. CASE z # b
    <3>1. {x \in Existing' : HeadsOf(x)' = {z}} = {x \in Existing : HeadsOf(x) = {z}}
      BY <2>2, <1>18, <1>20, <1>21
    <3> QED BY <2>2, <3>1, <1>5 DEF CountInv
  <2> QED BY <2>1, <2>2
<1> QED BY <1>10, <1>12, <1>13, <1>17, <1>19, <1>23

LEMMA DropKeepsInv ==
  ASSUME Inv, NEW c \in Client, Drop(c)
  PROVE  Inv'
<1> USE DEF Inv
<1>1. /\ pc[c] = "drop" /\ m_poolMutex = c /\ ~KeepsMutex(c) /\ Registered(c) /\ ~Pending(c)
  BY DEF Drop, CallInv, Registered, Pending
<1>2. PICK o \in call[c].in :
        HeadsOf(o) # {} =>
          \E b \in HeadsOf(o) :
            /\ call' = [call EXCEPT ![c] = Dropped(c, o, b)]
            /\ m_poolHeads' = [m_poolHeads EXCEPT ![b] = @ - 1]
            /\ IF IsLast(b)
               THEN allocated' = allocated \ {b} /\ pc' = [pc EXCEPT ![c] = "erase"]
               ELSE UNCHANGED <<allocated, pc>>
  BY <1>1 DEF Drop, Doomed
<1>3. o \in Held(c) /\ o \in Existing /\ o \in Object
  BY DEF Held, Existing, TypeOK
<1>4. PICK b \in DOMAIN m_poolHeads \cap allocated :
        m_poolHeads[b] > 0 /\ Cells(o) \subseteq Cells(b) /\ HeadsOf(o) = {b}
  BY <1>3, BufferOf
<1>5. m_poolHeads[b] \in Nat
  BY DEF TypeOK
<1>60. call' = [call EXCEPT ![c] = Dropped(c, o, b)]
  BY <1>2, <1>4
<1>6. /\ m_poolHeads' = [m_poolHeads EXCEPT ![b] = @ - 1]
      /\ \/ m_poolHeads[b] = 1 /\ allocated' = allocated \ {b} /\ pc' = [pc EXCEPT ![c] = "erase"]
         \/ m_poolHeads[b] > 1 /\ UNCHANGED <<allocated, pc>>
  BY <1>2, <1>4, <1>5 DEF IsLast
<1>7. /\ DOMAIN m_poolHeads' = DOMAIN m_poolHeads /\ m_poolHeads'[b] = m_poolHeads[b] - 1
      /\ \A z \in DOMAIN m_poolHeads : z # b => m_poolHeads'[z] = m_poolHeads[z]
      /\ m_poolHeads' \in [DOMAIN m_poolHeads -> Nat]
  BY <1>4, <1>5, <1>6 DEF TypeOK
<1>8. UNCHANGED <<m_poolMutex, live, lost, file>>
  BY DEF Drop
<1>9. TypeOK' /\ FileInv'
  <2>1. call' \in [Client -> [op : {"none", "create", "compact", "load", "destroy"},
                              kind : {"geometry", "scene"}, buffer : Buffer,
                              in : SUBSET Object, out : SUBSET Object]]
    <3>1. call \in [Client -> [op : {"none", "create", "compact", "load", "destroy"},
                               kind : {"geometry", "scene"}, buffer : Buffer,
                               in : SUBSET Object, out : SUBSET Object]]
      BY DEF TypeOK
    <3>2. b \in Buffer
      BY <1>4 DEF TypeOK
    <3>3. Dropped(c, o, b) \in [op : {"none", "create", "compact", "load", "destroy"},
                               kind : {"geometry", "scene"}, buffer : Buffer,
                               in : SUBSET Object, out : SUBSET Object]
      BY <3>1, <3>2 DEF Dropped
    <3> QED BY <1>60, <3>1, <3>3
  <2> QED BY <1>6, <1>7, <1>8, <2>1 DEF TypeOK, FileInv
<1>10. /\ call'[c].in = call[c].in \ {o} /\ call'[c].out = call[c].out \ {o}
       /\ call'[c].op = call[c].op /\ call'[c].kind = call[c].kind
       /\ call'[c].buffer = b /\ pc'[c] \in {"drop", "erase"}
  BY <1>1, <1>60, <1>6 DEF TypeOK, Dropped
<1>11. /\ Held(c)' = Held(c) \ {o} /\ ~Pending(c)' /\ ~KeepsMutex(c)'
  BY <1>1, <1>10 DEF Held, Registered, Pending, KeepsMutex
<1>12. \A d \in Client : d # c => /\ pc'[d] = pc[d] /\ call'[d] = call[d]
                                  /\ Held(d)' = Held(d) /\ KeepsMutex(d)' = KeepsMutex(d)
                                  /\ Pending(d)' = Pending(d)
  BY <1>60, <1>6 DEF TypeOK, Held, Registered, KeepsMutex, Pending
<1>13. \A z \in allocated : z # b => z \in allocated'
  BY <1>6
<1>14. \A d \in Client : Pending(d) => call[d].buffer \in allocated /\ call[d].buffer # b
  BY <1>4 DEF CallInv, HeadInv
<1>15. CallInv'
  <2>1. pc'[c] = "erase" => m_poolHeads'[b] = 0
    BY <1>1, <1>6, <1>7
  <2>2. \A d \in Client : d # c => pc[d] # "erase"
    BY <1>1 DEF CallInv
  <2> QED BY <1>1, <1>8, <1>10, <1>11, <1>12, <1>13, <1>14, <2>1, <2>2 DEF CallInv
<1>16. HeadInv'
  <2>1. Disjoint(allocated)' /\ HeadsDisjoint'
    BY <1>6, <1>7 DEF HeadInv, HeadsDisjoint, Disjoint
  <2>2. m_poolHeads[b] = 1 => pc'[c] = "erase" /\ m_poolHeads'[b] = 0
    BY <1>6, <1>7, <1>10 DEF TypeOK
  <2>3. m_poolHeads[b] > 1 => b \in allocated'
    BY <1>4, <1>5, <1>6, <1>7
  <2>4. \A d \in Client : Pending(d)' => Pending(d) /\ call'[d].buffer = call[d].buffer
    BY <1>11, <1>12
  <2>5. \A d \in Client : pc[d] = "erase" => pc'[d] = "erase" /\ call'[d].buffer = call[d].buffer
    BY <1>1, <1>12
  <2> QED BY <1>4, <1>5, <1>6, <1>7, <1>10, <1>13, <1>14, <2>1, <2>2, <2>3, <2>4, <2>5 DEF HeadInv
<1>17. OwnerInv'
  BY <1>8, <1>11, <1>12 DEF OwnerInv
<1>18. Existing' = Existing \ {o}
  <2>1. o \notin live /\ o \notin lost /\ \A d \in Client : d # c => o \notin Held(d)
    BY <1>3 DEF OwnerInv
  <2> QED BY <1>8, <1>11, <1>12, <2>1 DEF Existing
<1>19. \A x : HeadsOf(x)' = HeadsOf(x)
  BY <1>7 DEF HeadsOf
<1>20. CountInv'
  <2> SUFFICES ASSUME NEW z \in DOMAIN m_poolHeads
               PROVE  m_poolHeads'[z] = Cardinality({x \in Existing' : HeadsOf(x)' = {z}})
    BY <1>7 DEF CountInv
  <2> DEFINE Q == {x \in Existing : HeadsOf(x) = {z}}
             R == {x \in Existing' : HeadsOf(x)' = {z}}
  <2>1. R = Q \ {o}
    BY <1>18, <1>19
  <2>2. IsFiniteSet(Q) /\ m_poolHeads[z] = Cardinality(Q)
    BY ExistingTyped DEF CountInv
  <2>3. o \in Q <=> z = b
    BY <1>3, <1>4
  <2> HIDE DEF Q, R
  <2>4. Cardinality(R) = IF z = b THEN Cardinality(Q) - 1 ELSE Cardinality(Q)
    BY <2>1, <2>2, <2>3, FS_RemoveElement
  <2> QED BY <1>7, <2>2, <2>4 DEF R
<1>21. BackedInv'
  <2>1. Disjoint(Existing)'
    BY <1>18 DEF BackedInv, Disjoint
  <2>2. ASSUME NEW x \in Existing'
        PROVE  \E z \in DOMAIN m_poolHeads' \cap allocated' :
                 m_poolHeads'[z] > 0 /\ Cells(x) \subseteq Cells(z)
    <3>1. x \in Existing
      BY <1>18
    <3>2. PICK z \in DOMAIN m_poolHeads \cap allocated :
            m_poolHeads[z] > 0 /\ Cells(x) \subseteq Cells(z) /\ HeadsOf(x) = {z}
      BY <3>1, BufferOf
    <3>3. m_poolHeads'[z] > 0
      <4>1. m_poolHeads'[z] # 0
        <5>1. x \in {y \in Existing' : HeadsOf(y)' = {z}}
          BY <1>19, <3>2
        <5>2. IsFiniteSet({y \in Existing' : HeadsOf(y)' = {z}})
          <6>1. Existing' \subseteq Object
            BY <1>18, ExistingTyped
          <6> QED BY <6>1, ObjectsFinite, FS_Subset
        <5>3. Cardinality({y \in Existing' : HeadsOf(y)' = {z}}) # 0
          BY <5>1, <5>2, FS_EmptySet
        <5> QED BY <5>3, <1>7, <1>20 DEF CountInv
      <4> QED BY <4>1, <1>7
    <3>4. z \in allocated'
      BY <1>4, <1>5, <1>6, <1>7, <1>13, <3>2, <3>3
    <3> QED BY <1>7, <3>2, <3>3, <3>4
  <2> QED BY <2>1, <2>2 DEF BackedInv
<1> QED BY <1>9, <1>15, <1>16, <1>17, <1>20, <1>21

(* An oroFree that fails leaves an empty head with its buffer.             *)
LEMMA FreeFailsKeepsInv ==
  ASSUME Inv, NEW c \in Client, FreeFails(c)
  PROVE  Inv'
<1> USE DEF Inv
<1>1. /\ pc[c] = "drop" /\ m_poolMutex = c /\ ~KeepsMutex(c) /\ Registered(c) /\ ~Pending(c)
      /\ m_poolMutex' = NoClient /\ allocated' = allocated /\ file' = file
  BY DEF FreeFails, CallInv, Registered, Pending
<1>2. PICK o \in call[c].in :
        /\ \E b \in HeadsOf(o) : IsLast(b) /\ m_poolHeads' = [m_poolHeads EXCEPT ![b] = @ - 1]
        /\ Throw(c, {}, (call[c].in \cup call[c].out) \ {o})
  BY <1>1 DEF FreeFails, Doomed
<1>3. o \in Held(c) /\ o \in Existing /\ o \in Object /\ Held(c) = call[c].in \cup call[c].out
  BY <1>1 DEF Held, Existing, TypeOK
<1>4. PICK b \in DOMAIN m_poolHeads \cap allocated :
        m_poolHeads[b] > 0 /\ Cells(o) \subseteq Cells(b) /\ HeadsOf(o) = {b}
  BY <1>3, BufferOf
<1>5. m_poolHeads[b] = 1 /\ m_poolHeads' = [m_poolHeads EXCEPT ![b] = @ - 1]
  BY <1>2, <1>4 DEF IsLast
<1>6. /\ DOMAIN m_poolHeads' = DOMAIN m_poolHeads /\ m_poolHeads'[b] = 0
      /\ \A z \in DOMAIN m_poolHeads : z # b => m_poolHeads'[z] = m_poolHeads[z]
      /\ m_poolHeads' \in [DOMAIN m_poolHeads -> Nat]
  BY <1>4, <1>5 DEF TypeOK
<1>7. /\ live' = live /\ lost' = lost \cup (Held(c) \ {o})
      /\ call' = [call EXCEPT ![c] = NoCall] /\ pc' = [pc EXCEPT ![c] = "idle"]
  BY <1>2, <1>3 DEF Throw
<1>8. TypeOK' /\ FileInv'
  <2>1. Held(c) \subseteq Object
    BY DEF TypeOK, Held
  <2> QED BY <1>1, <1>6, <1>7, <2>1, NoCallTyped DEF TypeOK, FileInv
<1>9. /\ pc'[c] = "idle" /\ call'[c].in = {} /\ call'[c].out = {} /\ Held(c)' = {}
      /\ ~Pending(c)'
  BY <1>7 DEF TypeOK, Held, Registered, NoCall, Pending
<1>10. \A d \in Client : d # c => /\ pc'[d] = pc[d] /\ call'[d] = call[d]
                                  /\ Held(d)' = Held(d) /\ KeepsMutex(d)' = KeepsMutex(d)
                                  /\ Pending(d)' = Pending(d)
  BY <1>7 DEF TypeOK, Held, Registered, KeepsMutex, Pending
<1>11. \A d \in Client : pc[d] # "erase" /\ (d # c => m_poolMutex # d)
  BY <1>1 DEF CallInv
<1>12. CallInv'
  BY <1>1, <1>9, <1>10, <1>11 DEF CallInv
<1>13. HeadInv'
  BY <1>1, <1>6, <1>9, <1>10, <1>11 DEF HeadInv, HeadsDisjoint
<1>14. OwnerInv'
  BY <1>7, <1>9, <1>10 DEF OwnerInv
<1>15. Existing' = Existing \ {o}
  <2>1. o \notin live /\ o \notin lost /\ \A d \in Client : d # c => o \notin Held(d)
    BY <1>3 DEF OwnerInv
  <2> QED BY <1>7, <1>9, <1>10, <2>1 DEF Existing
<1>16. \A x : HeadsOf(x)' = HeadsOf(x)
  BY <1>6 DEF HeadsOf
<1>17. CountInv'
  <2> SUFFICES ASSUME NEW z \in DOMAIN m_poolHeads
               PROVE  m_poolHeads'[z] = Cardinality({x \in Existing' : HeadsOf(x)' = {z}})
    BY <1>6 DEF CountInv
  <2> DEFINE Q == {x \in Existing : HeadsOf(x) = {z}}
             R == {x \in Existing' : HeadsOf(x)' = {z}}
  <2>1. R = Q \ {o}
    BY <1>15, <1>16
  <2>2. IsFiniteSet(Q) /\ m_poolHeads[z] = Cardinality(Q)
    BY ExistingTyped DEF CountInv
  <2>3. o \in Q <=> z = b
    BY <1>3, <1>4
  <2> HIDE DEF Q, R
  <2>4. Cardinality(R) = IF z = b THEN Cardinality(Q) - 1 ELSE Cardinality(Q)
    BY <2>1, <2>2, <2>3, FS_RemoveElement
  <2> QED BY <1>5, <1>6, <2>2, <2>4 DEF R
<1>18. \A x \in Existing : HeadsOf(x) = {b} => x = o
  <2> DEFINE Q == {x \in Existing : HeadsOf(x) = {b}}
  <2>1. IsFiniteSet(Q) /\ Cardinality(Q) = 1 /\ o \in Q
    BY <1>3, <1>4, <1>5, ExistingTyped DEF CountInv
  <2> HIDE DEF Q
  <2>2. IsFiniteSet(Q \ {o}) /\ Cardinality(Q \ {o}) = 0
    BY <2>1, FS_RemoveElement
  <2>3. Q \ {o} = {}
    BY <2>2, FS_EmptySet
  <2> QED BY <2>3 DEF Q
<1>19. BackedInv'
  <2>1. Disjoint(Existing)'
    BY <1>15 DEF BackedInv, Disjoint
  <2>2. ASSUME NEW x \in Existing'
        PROVE  \E z \in DOMAIN m_poolHeads' \cap allocated' :
                 m_poolHeads'[z] > 0 /\ Cells(x) \subseteq Cells(z)
    <3>1. x \in Existing /\ x # o
      BY <1>15
    <3>2. PICK z \in DOMAIN m_poolHeads \cap allocated :
            m_poolHeads[z] > 0 /\ Cells(x) \subseteq Cells(z) /\ HeadsOf(x) = {z}
      BY <3>1, BufferOf
    <3>3. z # b
      BY <1>18, <3>1, <3>2
    <3> QED BY <1>1, <1>6, <3>2, <3>3
  <2> QED BY <2>1, <2>2 DEF BackedInv
<1> QED BY <1>8, <1>12, <1>13, <1>14, <1>17, <1>19

LEMMA EraseKeepsInv ==
  ASSUME Inv, NEW c \in Client, Erase(c)
  PROVE  Inv'
<1> USE DEF Inv
<1>1. pc[c] = "erase" /\ m_poolMutex = c /\ \A d \in Client : d # c => pc[d] # "erase"
  BY DEF Erase, CallInv
<1>2. /\ DOMAIN m_poolHeads' = OtherHeads(c)
      /\ OtherHeads(c) \subseteq DOMAIN m_poolHeads /\ call[c].buffer \notin OtherHeads(c)
      /\ \A z \in OtherHeads(c) : m_poolHeads'[z] = m_poolHeads[z]
      /\ UNCHANGED <<allocated, m_poolMutex, live, lost, file, call>>
      /\ pc' = [pc EXCEPT ![c] = "drop"]
  BY DEF Erase, OtherHeads
<1>20. m_poolHeads[call[c].buffer] = 0
  BY <1>1 DEF CallInv
<1>3. TypeOK' /\ FileInv'
  <2>1. m_poolHeads' \in [OtherHeads(c) -> Nat]
    BY <1>2 DEF TypeOK, Erase
  <2> QED BY <1>2, <2>1 DEF TypeOK, FileInv
<1>4. \A d \in Client : /\ Held(d)' = Held(d) /\ Pending(d)' = Pending(d)
                        /\ KeepsMutex(d)' = KeepsMutex(d)
                        /\ d # c => pc'[d] = pc[d]
  BY <1>1, <1>2 DEF TypeOK, Held, Registered, Pending, KeepsMutex
<1>5. pc'[c] = "drop"
  BY <1>2 DEF TypeOK
<1>6. CallInv'
  BY <1>1, <1>2, <1>4, <1>5 DEF CallInv
<1>7. HeadInv'
  <2>1. \A z \in OtherHeads(c) : z \in allocated /\ \A d \in Client : Pending(d) => call[d].buffer # z
    BY <1>1, <1>2 DEF HeadInv
  <2>2. HeadsDisjoint'
    BY <1>2 DEF HeadInv, HeadsDisjoint, Disjoint
  <2> QED BY <1>2, <1>4, <2>1, <2>2 DEF HeadInv
<1>8. OwnerInv' /\ Existing' = Existing
  BY <1>2, <1>4 DEF OwnerInv, Existing
<1>9. BackedInv'
  <2>1. \A z \in DOMAIN m_poolHeads : m_poolHeads[z] > 0 => z \in OtherHeads(c)
    BY <1>20 DEF OtherHeads
  <2> QED BY <1>2, <1>8, <2>1 DEF BackedInv
<1>10. \A x \in Existing : HeadsOf(x)' = HeadsOf(x)
  <2> SUFFICES ASSUME NEW x \in Existing PROVE HeadsOf(x)' = HeadsOf(x)
    OBVIOUS
  <2>1. PICK z \in DOMAIN m_poolHeads : m_poolHeads[z] > 0 /\ HeadsOf(x) = {z}
    BY BufferOf
  <2>2. z \in OtherHeads(c)
    BY <1>20, <2>1 DEF OtherHeads
  <2> QED BY <1>2, <2>1, <2>2 DEF HeadsOf
<1>11. CountInv'
  BY <1>2, <1>8, <1>10 DEF CountInv
<1> QED BY <1>3, <1>6, <1>7, <1>8, <1>9, <1>11

-----------------------------------------------------------------------------
LEMMA StepKeepsInv == Inv /\ [Next]_vars => Inv'
<1> SUFFICES ASSUME Inv, [Next]_vars PROVE Inv'
  OBVIOUS
<1>1. ASSUME NEW c \in Client, Call(c) PROVE Inv'
  BY <1>1, CreateKeepsInv, BuildKeepsInv, CompactKeepsInv, SaveKeepsInv, LoadKeepsInv,
     DestroyKeepsInv DEF Call
<1>2. ASSUME NEW c \in Client, Step(c) PROVE Inv'
  BY <1>2, CopyKeepsInv, CopyFailsKeepsInv, RegisterKeepsInv, SyncKeepsInv, SyncFailsKeepsInv,
     LockKeepsInv, DropKeepsInv, FreeFailsKeepsInv, EraseKeepsInv, UnlockKeepsInv DEF Step
<1>3. CASE UNCHANGED vars
  <2>1. Existing' = Existing /\ \A c \in Client : Held(c)' = Held(c)
    BY <1>3 DEF vars, Existing, Held, Registered
  <2>2. TypeOK' /\ FileInv' /\ CallInv' /\ HeadInv' /\ OwnerInv'
    BY <1>3, <2>1 DEF Inv, vars, TypeOK, FileInv, CallInv, Pending, KeepsMutex, HeadInv,
                      HeadsDisjoint, OwnerInv
  <2>3. BackedInv' /\ CountInv'
    BY <1>3, <2>1, SameObjects DEF vars
  <2> QED BY <2>2, <2>3 DEF Inv
<1> QED BY <1>1, <1>2, <1>3 DEF Next

LEMMA Invariant == Spec => []Inv
BY InitInv, StepKeepsInv, PTL DEF Spec

(* The state of the pools is well typed.                                   *)
THEOREM PoolTypeCorrect == Spec => []TypeOK
<1>1. Inv => TypeOK
  BY DEF Inv
<1> QED BY <1>1, Invariant, PTL

(* Every object has memory of its own in a registered allocation, in every *)
(* interleaving of any number of threads and through calls that fail.      *)
THEOREM ObjectsStayBacked == Spec => []ObjectsBacked
<1>1. Inv => ObjectsBacked
  BY DEF Inv, BackedInv, ObjectsBacked
<1> QED BY <1>1, Invariant, PTL

(* The counts of the pool heads are exact, and an empty head whose buffer  *)
(* is gone is about to be erased, through calls that fail half-way.        *)
THEOREM CountsStayExact == Spec => []CountsExact
<1>1. Inv => CountsExact
  BY DEF Inv, CountInv, HeadInv, CountsExact
<1> QED BY <1>1, Invariant, PTL

(* What an action frees holds no object that still exists.                 *)
THEOREM OnlyEmptyIsFreed == Spec => FreedWhenEmpty
<1> DEFINE Empty == \A b \in allocated \ allocated' :
                      \A o \in Existing' : Cells(o) \cap Cells(b) = {}
<1>1. ASSUME Inv, Inv', [Next]_vars PROVE Empty
  <2>1. allocated' \subseteq allocated \/ allocated \subseteq allocated'
    BY <1>1 DEF Next, Call, Create, Build, Compact, Malloc, Save, Load, Destroy, Step, Copy,
                CopyFails, Register, Sync, SyncFails, Lock, Drop, FreeFails, Erase, Unlock, vars
  <2>2. ASSUME NEW b \in allocated \ allocated', NEW o \in Existing'
        PROVE  Cells(o) \cap Cells(b) = {}
    <3>1. PICK z \in allocated' : Cells(o) \subseteq Cells(z)
      BY <1>1 DEF Inv, BackedInv
    <3>2. z \in allocated /\ b \in allocated /\ z # b
      BY <2>1, <2>2
    <3> QED BY <1>1, <3>1, <3>2 DEF Inv, HeadInv, Disjoint
  <2> QED BY <2>2
<1>2. Inv /\ Inv' /\ [Next]_vars => [Empty]_vars
  BY <1>1
<1> QED BY <1>2, Invariant, PTL DEF Spec, FreedWhenEmpty

-----------------------------------------------------------------------------
(* A head that counts keeps counting, unless a free that fails strands it. *)
LEMMA CountingStays ==
  ASSUME Inv, [Next]_vars, NEW b \in allocated', b \in DOMAIN m_poolHeads, m_poolHeads[b] > 0,
         \A c \in Client : ~Strands(c, b)
  PROVE  b \in DOMAIN m_poolHeads' /\ m_poolHeads'[b] > 0
<1>1. m_poolHeads \in [DOMAIN m_poolHeads -> Nat]
  BY DEF Inv, TypeOK
<1>2. ASSUME NEW c \in Client, Register(c)
      PROVE  b \in DOMAIN m_poolHeads' /\ m_poolHeads'[b] > 0
  <2>1. b # call[c].buffer
    BY <1>2 DEF Inv, HeadInv, Register, Pending
  <2> QED BY <1>2, <2>1 DEF Register
<1>3. ASSUME NEW c \in Client, Drop(c)
      PROVE  b \in DOMAIN m_poolHeads' /\ m_poolHeads'[b] > 0
  <2>1. CASE UNCHANGED m_poolHeads
    BY <2>1
  <2>2. ASSUME NEW z \in DOMAIN m_poolHeads,
               m_poolHeads' = [m_poolHeads EXCEPT ![z] = @ - 1],
               m_poolHeads[z] = 1 => allocated' = allocated \ {z}
        PROVE  b \in DOMAIN m_poolHeads' /\ m_poolHeads'[b] > 0
    BY <1>1, <2>2
  <2> QED BY <1>3, <2>1, <2>2 DEF Drop, HeadsOf, IsLast
<1>4. ASSUME NEW c \in Client, FreeFails(c)
      PROVE  b \in DOMAIN m_poolHeads' /\ m_poolHeads'[b] > 0
  <2>0. PICK o \in Doomed(c) :
          \E z \in HeadsOf(o) : IsLast(z) /\ m_poolHeads' = [m_poolHeads EXCEPT ![z] = @ - 1]
    BY <1>4 DEF FreeFails
  <2>1. PICK z \in HeadsOf(o) : m_poolHeads' = [m_poolHeads EXCEPT ![z] = @ - 1]
    BY <2>0
  <2>2. o \in Held(c)
    BY <1>4, <2>1 DEF FreeFails, Doomed, Held, Registered
  <2>3. z # b
    BY <1>4, <2>1, <2>2 DEF Strands
  <2> QED BY <1>1, <2>1, <2>3
<1>5. ASSUME NEW c \in Client, Erase(c)
      PROVE  b \in DOMAIN m_poolHeads' /\ m_poolHeads'[b] > 0
  <2>1. b # call[c].buffer
    BY <1>5 DEF Erase, Inv, CallInv
  <2> QED BY <1>5, <2>1 DEF Erase, OtherHeads
<1> QED BY <1>2, <1>3, <1>4, <1>5 DEF Next, Call, Create, Build, Compact, Save, Load, Destroy,
                                      Step, Copy, CopyFails, Sync, SyncFails, Lock, Unlock, vars

(* Handles are only lost to failing calls, and with them buffers.          *)
LEMMA LostBy ==
  ASSUME Inv, [Next]_vars, NEW b, \A c \in Client : ~Strands(c, b), NEW o \in lost' \ lost
  PROVE  b \notin HeadsOf(o)
<1>1. PICK c \in Client : Step(c)
  BY DEF Next, Call, Create, Build, Compact, Save, Load, Destroy, vars
<1>2. CASE SyncFails(c)
  <2>1. o \in call[c].out
    BY <1>2 DEF SyncFails, Throw
  <2> QED BY <1>2, <2>1 DEF Strands
<1>3. CASE FreeFails(c)
  <2>1. o \in Held(c)
    BY <1>3 DEF FreeFails, Throw, Held, Registered
  <2> QED BY <1>3, <2>1 DEF Strands
<1>4. SyncFails(c) \/ FreeFails(c)
  BY <1>1 DEF Step, Copy, CopyFails, Throw, Sync, Register, Lock, Drop, Erase, Unlock
<1> QED BY <1>2, <1>3, <1>4

(* A buffer that is registered is tracked: nothing in it was lost before.  *)
LEMMA RegisterTracks ==
  ASSUME Inv, NEW d \in Client, Register(d), NEW b, b = call[d].buffer
  PROVE  Tracked(b)'
<1>1. Cardinality(call[d].out) \in Nat /\ Cardinality(call[d].out) # 0
  <2>1. IsFiniteSet(call[d].out) /\ call[d].out # {}
    BY ObjectsFinite, FS_Subset DEF Inv, TypeOK, CallInv, Register, Pending
  <2> QED BY <2>1, FS_CardinalityType, FS_EmptySet
<1>2. b \in DOMAIN m_poolHeads' /\ m_poolHeads'[b] > 0 /\ lost' = lost
  BY <1>1 DEF Register, HeadCount
<1>3. b \in allocated /\ b \notin DOMAIN m_poolHeads
  BY ClientAssumption DEF Inv, CallInv, HeadInv, Register, Pending
<1>4. ASSUME NEW o \in lost PROVE o.ptr \notin Cells(b)
  <2>1. PICK z \in DOMAIN m_poolHeads \cap allocated : Cells(o) \subseteq Cells(z)
    BY DEF Inv, BackedInv, Existing
  <2>2. o.ptr \in Cells(z)
    BY <2>1, NotEmpty DEF Inv, TypeOK
  <2> QED BY <1>3, <2>1, <2>2 DEF Inv, HeadInv, Disjoint
<1>5. \A o \in lost' : b \notin HeadsOf(o)'
  BY <1>2, <1>4 DEF HeadsOf
<1> QED BY <1>2, <1>5 DEF Tracked

(* A call that is about to register its buffer does so or fails.           *)
LEMMA PendingStays ==
  ASSUME Inv, [Next]_vars, NEW d \in Client, Pending(d), ~CopyFails(d), ~Register(d)
  PROVE  Pending(d)' /\ call'[d].buffer = call[d].buffer
<1>1. CASE UNCHANGED vars
  BY <1>1 DEF vars, Pending
<1>2. ASSUME NEW c \in Client, Call(c)
      PROVE  Pending(d)' /\ call'[d].buffer = call[d].buffer
  <2>1. UNCHANGED <<pc, call>> \/ c # d
    BY <1>2 DEF Call, Create, Build, Compact, Save, Load, Destroy, Begin, Pending
  <2>2. c # d => pc'[d] = pc[d] /\ call'[d] = call[d]
    BY <1>2 DEF Call, Create, Build, Compact, Save, Load, Destroy, Begin, Inv, TypeOK
  <2> QED BY <2>1, <2>2 DEF Pending
<1>3. ASSUME NEW c \in Client, Step(c), c # d
      PROVE  Pending(d)' /\ call'[d].buffer = call[d].buffer
  <2>1. pc'[d] = pc[d] /\ call'[d] = call[d]
    BY <1>3 DEF Step, Copy, CopyFails, Throw, Register, Sync, SyncFails, Lock, Drop, FreeFails,
                Erase, Unlock, Return, Inv, TypeOK
  <2> QED BY <2>1 DEF Pending
<1>4. ASSUME Step(d)
      PROVE  Pending(d)' /\ call'[d].buffer = call[d].buffer
  <2>1. Copy(d)
    BY <1>4 DEF Step, Sync, SyncFails, Lock, Drop, FreeFails, Erase, Unlock, Pending
  <2> QED BY <2>1 DEF Copy, Pending, Inv, TypeOK
<1> QED BY <1>1, <1>2, <1>3, <1>4 DEF Next

(* No allocation is lost but by a driver call that fails, and then only    *)
(* those of the objects the failing operation worked on.                   *)
THEOREM NothingLeaks == Spec => NoLeak
<1> DEFINE Kept == \A b \in allocated' :
                     Tracked(b)' \/ (b \in allocated /\ ~Tracked(b)) \/ \E c \in Client : Strands(c, b)
<1>1. ASSUME Inv, [Next]_vars, NEW b \in allocated', Tracked(b), \A c \in Client : ~Strands(c, b)
      PROVE  Tracked(b)'
  <2>1. CASE b \in DOMAIN m_poolHeads /\ m_poolHeads[b] > 0 /\ \A o \in lost : b \notin HeadsOf(o)
    <3>1. b \in DOMAIN m_poolHeads' /\ m_poolHeads'[b] > 0
      BY <1>1, <2>1, CountingStays
    <3>2. \A o \in lost' : b \notin HeadsOf(o)
      BY <1>1, <2>1, LostBy
    <3>3. \A o \in lost' : b \notin HeadsOf(o)'
      BY <2>1, <3>2 DEF HeadsOf
    <3> QED BY <3>1, <3>3 DEF Tracked
  <2>2. ASSUME NEW d \in Client, Pending(d), call[d].buffer = b
        PROVE  Tracked(b)'
    <3>1. CASE Register(d)
      BY <1>1, <2>2, <3>1, RegisterTracks
    <3>2. ~CopyFails(d)
      BY <1>1, <2>2 DEF Strands
    <3>3. CASE ~Register(d)
      <4>1. Pending(d)' /\ call'[d].buffer = b
        BY <1>1, <2>2, <3>2, <3>3, PendingStays
      <4> QED BY <4>1 DEF Tracked, Pending
    <3> QED BY <3>1, <3>3
  <2> QED BY <1>1, <2>1, <2>2 DEF Tracked, Pending
<1>2. ASSUME Inv, [Next]_vars, NEW b \in allocated', b \notin allocated
      PROVE  Tracked(b)'
  <2>1. PICK c \in Client : Create(c) \/ Compact(c) \/ Load(c)
    BY <1>2 DEF Next, Call, Build, Save, Destroy, Step, Copy, CopyFails, Register, Sync, SyncFails,
                Lock, Drop, FreeFails, Erase, Unlock, vars
  <2>2. pc'[c] \in {"copy", "register"} /\ call'[c].buffer = b
    BY <1>2, <2>1 DEF Create, Compact, Load, Malloc, Begin, Inv, TypeOK
  <2> QED BY <2>2 DEF Tracked
<1>3. Inv /\ [Next]_vars => Kept
  BY <1>1, <1>2
<1> QED BY <1>3, Invariant, PTL DEF Spec, NoLeak
=============================================================================
