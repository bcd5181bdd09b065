------------------------------- MODULE GpuPool -------------------------------
(***************************************************************************)
(* A GpuContext gives the geometries (or scenes) of one create call a      *)
(* single device buffer, and remembers in m_poolHeads how many of them are *)
(* left: the buffer is freed with the last.  Creation, compaction and      *)
(* loading allocate before they take m_poolMutex, destruction frees while  *)
(* it holds the mutex.                                                     *)
(*                                                                         *)
(* Device memory is an interval of units and oroMalloc may return any part *)
(* that is free.  An object is a handle (ptr), the slice of the buffer it  *)
(* was given (size), the part its nodes take up (used) and m_size of its   *)
(* header (0 before the build).  A failed oroMalloc leaves everything as   *)
(* it was and is a stuttering step.  A later driver call that fails throws *)
(* out of the operation with what it has done so far; memory whose oroFree *)
(* failed is taken to be still allocated.  Clients use a handle until they *)
(* hand it to a destroy or compact call, and never two at a time; after a  *)
(* failed destroy they cannot tell what is left and use none of it.        *)
(***************************************************************************)
EXTENDS Integers, FiniteSets, Functions

CONSTANTS
  Client,           \* threads that call the context
  Kinds,            \* the kinds of object in use: "geometry", "scene"
  DeviceSize,       \* bound: the units of device memory
  MaxBatch,         \* bound: the objects of one call
  CallsMayFail,     \* whether copies, synchronisations and oroFree can fail
  NoClient, NoFile

ASSUME ClientAssumption == NoClient \notin Client
ASSUME KindAssumption   == Kinds \subseteq {"geometry", "scene"}
ASSUME SizeAssumption   == DeviceSize \in Nat \ {0} /\ MaxBatch \in Nat
ASSUME FailAssumption   == CallsMayFail \in BOOLEAN

Addr   == 0 .. DeviceSize - 1
Buffer == {b \in [ptr : Addr, size : 1 .. DeviceSize] : b.ptr + b.size <= DeviceSize}
Object == [ptr : Addr, size : 1 .. DeviceSize, used : 0 .. DeviceSize,
           m_size : 0 .. DeviceSize, kind : Kinds]

Cells(b)     == b.ptr .. b.ptr + b.size - 1
Disjoint(S)  == \A s, t \in S : s # t => Cells(s) \cap Cells(t) = {}

(* How memory is cut into consecutive slices.                              *)
Cuts == [b \in Buffer |->
  {T \in SUBSET {s \in Buffer : Cells(s) \subseteq Cells(b)} :
     /\ Cardinality(T) <= MaxBatch
     /\ UNION {Cells(s) : s \in T} = Cells(b)
     /\ Disjoint(T)}]

(* The slices createGeometries and createScenes make.  The latter adds the *)
(* size of a scene that is built in a batch twice, which leaves some room. *)
Slices(kind, b) ==
  IF kind = "geometry" THEN Cuts[b]
  ELSE UNION {Cuts[a] : a \in {x \in Buffer : x.ptr = b.ptr /\ x.size <= b.size}}

VARIABLES
  allocated,        \* the device allocations that are not freed
  m_poolHeads,      \* of each pool head, the objects left in it
  m_poolMutex,      \* the client that holds it
  live,             \* the objects whose handles the clients hold
  lost,             \* the objects left in a buffer without a handle
  file,             \* the last saved geometry
  pc,               \* where each client is in its call
  call              \* the call: its buffer, and the objects it takes and makes

vars == <<allocated, m_poolHeads, m_poolMutex, live, lost, file, pc, call>>

NoCall == [op |-> "none", kind |-> "geometry", buffer |-> [ptr |-> 0, size |-> 1],
           in |-> {}, out |-> {}]

Init ==
  /\ allocated = {}
  /\ m_poolHeads = [b \in {} |-> 0]
  /\ m_poolMutex = NoClient
  /\ live = {}
  /\ lost = {}
  /\ file = NoFile
  /\ pc = [c \in Client |-> "idle"]
  /\ call = [c \in Client |-> NoCall]

Free(b) == \A a \in allocated : Cells(a) \cap Cells(b) = {}

Begin(c, op, kind, b, in, out, next) ==
  /\ pc[c] = "idle"
  /\ call' = [call EXCEPT ![c] =
       [op |-> op, kind |-> kind, buffer |-> b, in |-> in, out |-> out]]
  /\ pc' = [pc EXCEPT ![c] = next]
  /\ live' = live \ in

Malloc(b) == Free(b) /\ allocated' = allocated \cup {b}

(* createGeometries, createScenes: one buffer, a slice for each input.     *)
Create(c) ==
  \E kind \in Kinds, b \in Buffer :
    /\ Malloc(b)
    /\ \E T \in Slices(kind, b) :
         Begin(c, "create", kind, b, {},
               {[ptr |-> s.ptr, size |-> s.size, used |-> 0, m_size |-> 0, kind |-> kind] : s \in T},
               "register")
    /\ UNCHANGED <<m_poolHeads, m_poolMutex, lost, file>>

(* A build leaves the size of the storage in the header; the nodes it      *)
(* makes take up that much of it or less.                                  *)
Build(c) ==
  /\ pc[c] = "idle"
  /\ \E o \in live :
       /\ o.m_size = 0
       /\ \E used \in 1 .. o.size :
            live' = (live \ {o}) \cup {[o EXCEPT !.used = used, !.m_size = o.size]}
  /\ UNCHANGED <<allocated, m_poolHeads, m_poolMutex, lost, file, pc, call>>

Built(kind) == {o \in live : o.kind = kind /\ o.m_size # 0}

(* What compaction makes of an object: a slice of just the size its nodes  *)
(* need, and a copy of the header in which only the pointers are replaced. *)
Compacted(o, s) == [o EXCEPT !.ptr = s.ptr, !.size = s.size]

(* compactGeometries, compactScenes: read the headers, allocate.           *)
Compact(c) ==
  \E kind \in Kinds, b \in Buffer :
    /\ Malloc(b)
    /\ \E S \in SUBSET Built(kind), T \in Cuts[b] :
         \E f \in Bijection(S, T) :
           /\ \A o \in S : f[o].size = o.used
           /\ Begin(c, "compact", kind, b, S, {Compacted(o, f[o]) : o \in S}, "copy")
    /\ UNCHANGED <<m_poolHeads, m_poolMutex, lost, file>>

Copy(c) ==
  /\ pc[c] = "copy"
  /\ pc' = [pc EXCEPT ![c] = "register"]
  /\ UNCHANGED <<allocated, m_poolHeads, m_poolMutex, live, lost, file, call>>

(* checkOro throws: the client keeps some handles and loses others.        *)
Throw(c, kept, dropped) ==
  /\ CallsMayFail
  /\ live' = live \cup kept
  /\ lost' = lost \cup dropped
  /\ pc' = [pc EXCEPT ![c] = "idle"]
  /\ call' = [call EXCEPT ![c] = NoCall]

(* A copy of a compaction, or the one of loadGeometry: nothing frees the   *)
(* buffer.                                                                 *)
CopyFails(c) ==
  /\ pc[c] = "copy"
  /\ Throw(c, call[c].in, {})
  /\ UNCHANGED <<allocated, m_poolHeads, m_poolMutex, file>>

(* saveGeometry writes as many bytes as the header says.                   *)
Save(c) ==
  /\ pc[c] = "idle"
  /\ \E o \in Built("geometry") : file' = [m_size |-> o.m_size, used |-> o.used]
  /\ UNCHANGED <<allocated, m_poolHeads, m_poolMutex, live, lost, pc, call>>

(* loadGeometry: a buffer of its own, registered like the others.          *)
Load(c) ==
  /\ file # NoFile
  /\ \E b \in Buffer :
       /\ b.size = file.m_size
       /\ Malloc(b)
       /\ Begin(c, "load", "geometry", b, {},
                {[ptr |-> b.ptr, size |-> b.size, used |-> file.used,
                  m_size |-> file.m_size, kind |-> "geometry"]}, "copy")
  /\ UNCHANGED <<m_poolHeads, m_poolMutex, lost, file>>

(* Mutation: the head stands for one object, whatever the batch.           *)
OneObject(c) == 1

HeadCount(c) == Cardinality(call[c].out)

Return(c) ==
  /\ live' = live \cup call[c].out
  /\ pc' = [pc EXCEPT ![c] = "idle"]
  /\ call' = [call EXCEPT ![c] = NoCall]

(* The lock_guard of compactGeometries has a block of its own, that of     *)
(* compactScenes lives to the end of the function.                         *)
KeepsMutex(c) == call[c].op = "compact" /\ call[c].kind = "scene"

Register(c) ==
  /\ pc[c] = "register"
  /\ m_poolMutex = NoClient
  /\ m_poolHeads' = [b \in DOMAIN m_poolHeads \cup {call[c].buffer} |->
                      IF b = call[c].buffer THEN HeadCount(c) ELSE m_poolHeads[b]]
  /\ m_poolMutex' = IF KeepsMutex(c) THEN c ELSE NoClient
  /\ IF call[c].op = "compact"
     THEN pc' = [pc EXCEPT ![c] = "sync"] /\ UNCHANGED <<live, call>>
     ELSE Return(c)
  /\ UNCHANGED <<allocated, lost, file>>

(* oroStreamSynchronize, which also reports the copies that failed behind  *)
(* the host's back: then the new head counts objects nobody was given.     *)
Sync(c) ==
  /\ pc[c] = "sync"
  /\ pc' = [pc EXCEPT ![c] = "destroy"]
  /\ UNCHANGED <<allocated, m_poolHeads, m_poolMutex, live, lost, file, call>>

SyncFails(c) ==
  /\ pc[c] = "sync"
  /\ Throw(c, call[c].in, call[c].out)
  /\ m_poolMutex' = IF KeepsMutex(c) THEN NoClient ELSE m_poolMutex
  /\ UNCHANGED <<allocated, m_poolHeads, file>>

(* destroyGeometries, destroyScenes as a call of their own.                *)
Destroy(c) ==
  /\ \E S \in SUBSET live, kind \in Kinds :
       /\ S # {} /\ Cardinality(S) <= MaxBatch
       /\ \A o \in S : o.kind = kind
       /\ Begin(c, "destroy", kind, NoCall.buffer, S, {}, "destroy")
  /\ UNCHANGED <<allocated, m_poolHeads, m_poolMutex, lost, file>>

(* Mutation: compactGeometries passes its outputs as well.                 *)
NewObjects(c) == IF call[c].op = "compact" THEN call[c].out ELSE call[c].in

(* The objects destroyed: compactScenes passes scenesOut.                  *)
Doomed(c) == IF KeepsMutex(c) THEN call[c].out ELSE call[c].in

(* lock() by the thread that holds a std::mutex is undefined; the mutexes  *)
(* of the platforms the library is built for make it wait for itself.      *)
Lock(c) ==
  /\ pc[c] = "destroy"
  /\ m_poolMutex = NoClient
  /\ m_poolMutex' = c
  /\ pc' = [pc EXCEPT ![c] = "drop"]
  /\ UNCHANGED <<allocated, m_poolHeads, live, lost, file, call>>

HeadsOf(o) == {b \in DOMAIN m_poolHeads : o.ptr \in Cells(b)}

(* Mutation: freed when one object is left.                                *)
NearlyLast(b) == m_poolHeads[b] <= 2

IsLast(b) == m_poolHeads[b] = 1

Dropped(c, o, b) == [call[c] EXCEPT !.in = @ \ {o}, !.out = @ \ {o}, !.buffer = b]

(* One round of the loop; an object of no head gets a warning.             *)
Drop(c) ==
  /\ pc[c] = "drop"
  /\ \E o \in Doomed(c) :
       IF HeadsOf(o) = {}
       THEN /\ call' = [call EXCEPT ![c] = Dropped(c, o, @.buffer)]
            /\ UNCHANGED <<allocated, m_poolHeads, pc>>
       ELSE \E b \in HeadsOf(o) :
              /\ call' = [call EXCEPT ![c] = Dropped(c, o, b)]
              /\ m_poolHeads' = [m_poolHeads EXCEPT ![b] = @ - 1]
              /\ IF IsLast(b)
                 THEN allocated' = allocated \ {b} /\ pc' = [pc EXCEPT ![c] = "erase"]
                 ELSE UNCHANGED <<allocated, pc>>
  /\ UNCHANGED <<m_poolMutex, live, lost, file>>

(* oroFree fails: the head stays, with a count of zero, and the rest of    *)
(* the batch is not looked at.                                             *)
FreeFails(c) ==
  /\ pc[c] = "drop"
  /\ \E o \in Doomed(c) :
       /\ \E b \in HeadsOf(o) : IsLast(b) /\ m_poolHeads' = [m_poolHeads EXCEPT ![b] = @ - 1]
       /\ Throw(c, {}, (call[c].in \cup call[c].out) \ {o})
  /\ m_poolMutex' = NoClient
  /\ UNCHANGED <<allocated, file>>

(* Mutation: the heads after it go with it.                                *)
HeadsBefore(c) == {b \in DOMAIN m_poolHeads : b.ptr < call[c].buffer.ptr}

OtherHeads(c) == DOMAIN m_poolHeads \ {call[c].buffer}

(* erase, between oroFree and the end of the round.                        *)
Erase(c) ==
  /\ pc[c] = "erase"
  /\ m_poolHeads' = [b \in OtherHeads(c) |-> m_poolHeads[b]]
  /\ pc' = [pc EXCEPT ![c] = "drop"]
  /\ UNCHANGED <<allocated, m_poolMutex, live, lost, file, call>>

Unlock(c) ==
  /\ pc[c] = "drop"
  /\ Doomed(c) = {}
  /\ m_poolMutex' = NoClient
  /\ Return(c)
  /\ UNCHANGED <<allocated, m_poolHeads, lost, file>>

(* The rest of a call that has begun.                                      *)
Step(c) ==
  \/ Copy(c) \/ Register(c) \/ Sync(c) \/ Lock(c) \/ Drop(c) \/ Erase(c) \/ Unlock(c)
  \/ CopyFails(c) \/ SyncFails(c) \/ FreeFails(c)

Call(c) == Create(c) \/ Build(c) \/ Compact(c) \/ Save(c) \/ Load(c) \/ Destroy(c)

Next == \E c \in Client : Call(c) \/ Step(c)

Spec == Init /\ [][Next]_vars

(* A thread inside a call keeps running; nothing makes it start another.   *)
FairSpec == Spec /\ \A c \in Client : WF_vars(Step(c))

-----------------------------------------------------------------------------
TypeOK ==
  /\ allocated \subseteq Buffer
  /\ m_poolHeads \in [DOMAIN m_poolHeads -> Nat] /\ DOMAIN m_poolHeads \subseteq Buffer
  /\ m_poolMutex \in Client \cup {NoClient}
  /\ live \subseteq Object /\ lost \subseteq Object
  /\ file \in [m_size : 0 .. DeviceSize, used : 0 .. DeviceSize] \cup {NoFile}
  /\ pc \in [Client -> {"idle", "copy", "register", "sync", "destroy", "drop", "erase"}]
  /\ call \in [Client -> [op : {"none", "create", "compact", "load", "destroy"},
                          kind : {"geometry", "scene"}, buffer : Buffer,
                          in : SUBSET Object, out : SUBSET Object]]

(* The objects that exist: those clients hold, those without a handle, and *)
(* those of a call that are not destroyed yet, once in a registered buffer.*)
Registered(c) == pc[c] \in {"sync", "destroy", "drop", "erase"}
Held(c) == call[c].in \cup IF Registered(c) THEN call[c].out ELSE {}
Existing == live \cup lost \cup UNION {Held(c) : c \in Client}

(* Every object that exists has its slice in a buffer that is allocated    *)
(* and registered, and no two share memory.                                *)
ObjectsBacked ==
  /\ Disjoint(Existing)
  /\ \A o \in Existing :
       \E b \in DOMAIN m_poolHeads \cap allocated : Cells(o) \subseteq Cells(b)

(* The count of a pool head is the number of objects left in its buffer,   *)
(* those included that a call which failed left without a handle; and an   *)
(* empty head that has lost its buffer is about to be erased, so that the  *)
(* objects of a later buffer never count for an old head.                  *)
CountsExact ==
  \A b \in DOMAIN m_poolHeads :
    /\ m_poolHeads[b] = Cardinality({o \in Existing : HeadsOf(o) = {b}})
    /\ b \in allocated \/ (m_poolHeads[b] = 0
                           /\ \E c \in Client : pc[c] = "erase" /\ call[c].buffer = b)

(* Between oroFree and erase another thread may be given the same memory;  *)
(* it cannot register it before the old head is gone.                      *)
HeadsDisjoint == Disjoint(DOMAIN m_poolHeads)

(* A buffer is tracked when a call is about to register it, or when it is  *)
(* freed as soon as all the handles that count for it are handed back.     *)
Tracked(b) ==
  \/ b \in DOMAIN m_poolHeads /\ m_poolHeads[b] > 0 /\ \A o \in lost : b \notin HeadsOf(o)
  \/ \E c \in Client : pc[c] \in {"copy", "register"} /\ call[c].buffer = b

(* The buffers a driver call that fails can strand: the one it was to      *)
(* fill, the one whose objects it keeps from the client, and those of the  *)
(* objects a destroy has not got to.                                       *)
Strands(c, b) ==
  \/ CopyFails(c) /\ call[c].buffer = b
  \/ SyncFails(c) /\ \E o \in call[c].out : b \in HeadsOf(o)
  \/ FreeFails(c) /\ \E o \in Held(c) : b \in HeadsOf(o)

(* No buffer is lost but those.                                            *)
NoLeak ==
  [][\A b \in allocated' :
       Tracked(b)' \/ (b \in allocated /\ ~Tracked(b)) \/ \E c \in Client : Strands(c, b)]_vars

(* Freeing takes nothing away from anyone.                                 *)
FreedWhenEmpty ==
  [][\A b \in allocated \ allocated' :
       \A o \in Existing' : Cells(o) \cap Cells(b) = {}]_vars

(* A compaction that has made its copies destroys what it copied.          *)
InputsDestroyed ==
  \A c \in Client : call[c].op = "compact" /\ pc[c] = "register"
                      ~> pc[c] = "drop" /\ call[c].in = {}

(* What saveGeometry reads of a geometry belongs to the geometry.          *)
SaveInBounds == \A o \in Built("geometry") : o.m_size <= o.size
=============================================================================
