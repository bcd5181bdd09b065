---------------------------- MODULE HybridMirror ----------------------------
(***************************************************************************)
(* A HybridContext owns a GpuContext and a CpuContext and keeps an Embree  *)
(* mirror of everything that is built on the GPU.  Clients hold GPU        *)
(* handles; m_gpuToCpuGeom / m_gpuToCpuScene lead to the CPU data object,  *)
(* and so does the process-wide registry the trace functions look in,      *)
(* which the CpuContext fills with its own handles as well.                *)
(*                                                                         *)
(* Calls to one context come one at a time (hiprt.h).  Geometries and      *)
(* scenes go through code of the same shape; here they share maps, and a   *)
(* handle says which it is.  What a geometry holds is a set of primitives  *)
(* named by the input they came from; a scene holds its instances, on the  *)
(* GPU the handles, on the CPU the Embree scenes their mirrors had at the  *)
(* build.  Transforms, frames and masks are left out.  A batch is built    *)
(* entry by entry, so builds are modelled with one entry; those after a    *)
(* failed one are left with the GPU side built and the CPU side not.       *)
(* Clients build and update as often as they like, after errors as well.   *)
(* Compaction and loading are refused in hybrid mode and change nothing.   *)
(***************************************************************************)
EXTENDS Integers, FiniteSets, Functions

CONSTANTS
  Geometry, Scene,  \* the GPU addresses geometries and scenes are created at
  Data,             \* the heap addresses of CPU data objects
  Input,            \* the build inputs of geometries
  Boxes,            \* those that are AABB lists
  RtcCount,         \* bound: the Embree scenes alive at a time
  MaxBatch,         \* bound: the handles of one create or destroy call
  MaxFaults,        \* bound: the GPU and Embree calls that fail
  Mixing,           \* bound: the handles whose builds add to what is attached
  Null, NotBuilt

ASSUME HandleAssumption == Geometry \cap Scene = {} /\ (Geometry \cup Scene) \cap Data = {}
ASSUME InputAssumption  == Boxes \subseteq Input /\ Input \cap (Nat \cup Geometry \cup Scene) = {}
ASSUME BoundAssumption  == {RtcCount, MaxBatch, MaxFaults} \subseteq Nat
ASSUME MixAssumption    == Mixing \subseteq Geometry \cup Scene
ASSUME NullAssumption   == Null \notin Nat \cup Input
ASSUME BuiltAssumption  == \A S \in SUBSET (Input \cup Geometry \cup Scene) : S # NotBuilt

Handle   == Geometry \cup Scene
RtcScene == 1 .. RtcCount

VARIABLES
  gpu,        \* of each GPU allocation: what was built into it
  mirror,     \* m_gpuToCpuGeom, m_gpuToCpuScene
  registry,   \* g_cpuGeomMap, g_cpuSceneMap
  data,       \* of each CPU data object: its rtcScene
  rtc,        \* of each Embree scene: what is attached to it
  known,      \* the handles the client holds
  failed,     \* those of a call that returned an error
  stale,      \* scenes whose instances changed after their own build
  doubtful,   \* those a call without an error has left with another mirror
  faults      \* the calls of the GPU and of Embree that failed

vars == <<gpu, mirror, registry, data, rtc, known, failed, stale, doubtful, faults>>

None == [x \in {} |-> Null]

(* A map with the entries of another put in.                               *)
With(f, g) == [x \in DOMAIN f \cup DOMAIN g |-> IF x \in DOMAIN g THEN g[x] ELSE f[x]]

Init ==
  /\ gpu = None /\ mirror = None /\ registry = None /\ data = None /\ rtc = None
  /\ known = {} /\ failed = {} /\ stale = {} /\ doubtful = {} /\ faults = 0

(* The calls of the GPU and of Embree that fail are counted, and bounded. *)
MayFail == faults < MaxFaults

Count(fails) == faults' = IF fails THEN faults + 1 ELSE faults

Batch(S) == {H \in SUBSET S : H # {} /\ Cardinality(H) <= MaxBatch
                                /\ (H \subseteq Geometry \/ H \subseteq Scene)}

(* What the references next lead to, any number of steps from a set: it is *)
(* in each set that holds the first and, with each, those it refers to.    *)
Closed(S, next) == \A x \in S : next[x] \cap DOMAIN next \subseteq S

Reach(from, next) ==
  LET closed == {S \in SUBSET DOMAIN next : from \subseteq S /\ Closed(S, next)}
  IN  {x \in DOMAIN next : \A S \in closed : x \in S}

(* Embree frees a scene with the last reference to it.                     *)
Below(scenes, attached) == Reach(scenes, attached)

Released(scenes, attached) == Restrict(attached, Below(scenes \ {Null}, attached))

Roots(d) == {d[x] : x \in DOMAIN d}

(* An update releases the Embree scene of its object before it asks for    *)
(* another, which may then be at the same address.                         *)
LetGo(d) == Released(Roots([data EXCEPT ![d] = Null]), rtc)

(* Mutation: the handle of the GPU is left out of the registry.            *)
CpuOnly(f, H) == [d \in {f[h] : h \in H} |-> d]

(* Both sides register: the CpuContext its own handle, the HybridContext   *)
(* the GPU handle.                                                         *)
Registered(f, H) == With(f, [d \in {f[h] : h \in H} |-> d])

(* createGeometries, createScenes: the GPU side, then the CPU side.  When  *)
(* the CPU side throws, the client gets no handle at all; a failure of the *)
(* GPU side changes nothing here.                                          *)
Create(H) ==
  /\ gpu' = With(gpu, [h \in H |-> NotBuilt])
  /\ \E f \in Injection(H, Data \ DOMAIN data), made \in SUBSET H :
       LET new == CHOOSE s \in Injection(made, RtcScene \ DOMAIN rtc) : TRUE
       IN /\ made = H \/ MayFail
          /\ Count(made # H)
          /\ Injection(made, RtcScene \ DOMAIN rtc) # {}
          /\ data' = With(data, [d \in {f[h] : h \in made} |->
                                   new[CHOOSE h \in made : f[h] = d]])
          /\ rtc' = With(rtc, [r \in {new[h] : h \in made} |-> {}])
          /\ IF made = H
             THEN /\ mirror' = With(mirror, f)
                  /\ registry' = With(registry, Registered(f, H))
                  /\ known' = known \cup H
             ELSE /\ registry' = With(registry, CpuOnly(f, made))
                  /\ UNCHANGED <<mirror, known>>
  /\ UNCHANGED <<failed, stale, doubtful>>

(* What a GPU allocation holds: nothing before it is built.                *)
Content(h) == IF gpu[h] = NotBuilt THEN {} ELSE gpu[h]

Less(f, S) == Restrict(f, DOMAIN f \ S)

(* Mutation: the GPU handle stays in the registry.                         *)
UnregisterCpu(M) == {mirror[h] : h \in M}

Unregister(M) == M \cup {mirror[h] : h \in M}

(* Mutation: the CPU data of the batch is deleted only if one is left.     *)
DoomedFew(M) == IF Cardinality(M) = 1 THEN {mirror[h] : h \in M} ELSE {}

DoomedData(M) == {mirror[h] : h \in M}

(* destroyGeometries, destroyScenes.  A client lets go of a scene before   *)
(* what it instances.  If the GPU side throws, after it let go of some of  *)
(* the handles, the CPU data outlives its entries.                         *)
Destroy(H) ==
  LET M == H \cap DOMAIN mirror
  IN /\ \A s \in (Scene \cap known) \ H : Content(s) \cap H = {}
     /\ mirror' = Less(mirror, M)
     /\ known' = known \ H
     /\ failed' = failed \ H
     /\ stale' = stale \ H
     /\ doubtful' = doubtful \ H
     /\ \/ /\ gpu' = Less(gpu, H)
           /\ registry' = Less(registry, Unregister(M))
           /\ data' = Less(data, DoomedData(M))
           /\ rtc' = Released(Roots(data'), rtc)
           /\ Count(FALSE)
        \/ /\ MayFail
           /\ Count(TRUE)
           /\ \E D \in SUBSET H : gpu' = Less(gpu, D)
           /\ registry' = Less(registry, M)
           /\ UNCHANGED <<data, rtc>>

(* What is below a handle on the GPU, where an instance is a pointer.      *)
GpuFrom(h) == Reach({h}, [x \in DOMAIN gpu |-> Content(x)])

GpuBelow(h) == UNION {Content(x) : x \in GpuFrom(h)}

Above(h) == {s \in Scene \cap known : h \in GpuBelow(s)}

Trusted(h) == gpu[h] # NotBuilt /\ h \notin failed \cup stale

(* What a client may build into a handle, and what it may update it with:  *)
(* an update keeps the topology (hiprt.h), so a geometry keeps its kind    *)
(* and a scene its instances.                                              *)
Inputs(h, update) ==
  IF h \in Geometry
  THEN {{i} : i \in {j \in Input : update => (j \in Boxes <=> gpu[h] \subseteq Boxes)}}
  ELSE {S \in SUBSET {c \in known : gpu[c] # NotBuilt /\ c # h} :
          \A c \in S : h \notin GpuBelow(c)} \cap (IF update THEN {gpu[h]} ELSE SUBSET Handle)

(* What the CPU side attaches.  AABB lists are left out with a warning; an *)
(* instance becomes a reference to the present rtcScene of its mirror.     *)
Attachments(h, in) ==
  IF h \in Geometry THEN in \ Boxes ELSE {data[mirror[c]] : c \in in}

(* Mutation: an instance without an Embree scene is attached too.          *)
AttachedUnchecked(h, in) ==
  IF h \in Geometry THEN {Attachments(h, in)}
  ELSE {A \in SUBSET Attachments(h, in) : MayFail \/ A = Attachments(h, in)}

(* The attachments made, all of them or those before an error; an instance *)
(* whose child has no Embree scene is one.                                 *)
Attached(h, in) ==
  IF h \in Geometry THEN {Attachments(h, in)} \cup (IF MayFail THEN {{}} ELSE {})
  ELSE {A \in SUBSET (Attachments(h, in) \ {Null}) : MayFail \/ A = Attachments(h, in) \ {Null}}

(* Mutation: an update attaches to the Embree scene there is.              *)
AlwaysKept(update) == TRUE

(* A build goes on with the Embree scene there is, an update with a new    *)
(* one.                                                                    *)
KeepsScene(update) == ~update

(* How the Embree side ends.  Only a missing geometry, instance or child   *)
(* scene is an error: whether a buffer was shared, a geometry attached or  *)
(* a scene committed is checked nowhere.                                   *)
Ends(h, in, A) ==
  IF A = Attachments(h, in) THEN {"done"} \cup (IF MayFail THEN {"silent"} ELSE {})
  ELSE {"error"} \cup (IF Null \in Attachments(h, in) THEN {} ELSE {"silent"})

(* A build adds to what an earlier one has attached.                       *)
Mixes(h, update) == ~update /\ data[mirror[h]] # Null /\ rtc[data[mirror[h]]] # {}

(* What the client knows after the call: whether it failed, and which      *)
(* scenes have to be built again; and what it does not know.               *)
Finish(h, in, ok, exact) ==
  IF ok
  THEN /\ failed' = failed \ {h}
       /\ stale' = (IF \A c \in in \cap Handle : Trusted(c) THEN stale \ {h} ELSE stale \cup {h})
                     \cup Above(h)
       /\ doubtful' = IF exact /\ in \cap doubtful = {} THEN doubtful \ {h} ELSE doubtful \cup {h}
  ELSE /\ failed' = failed \cup {h}
       /\ stale' = stale \cup Above(h)
       /\ UNCHANGED doubtful

(* buildGeometries, updateGeometries and their twins for scenes, the GPU   *)
(* side first.  A geometry or scene without an Embree scene is not built.  *)
Build(h, in, update) ==
  /\ gpu' = [gpu EXCEPT ![h] = in]
  /\ IF data[mirror[h]] = Null /\ KeepsScene(update)
     THEN UNCHANGED <<data, rtc>> /\ Finish(h, in, FALSE, FALSE) /\ Count(FALSE)
     ELSE \E A \in Attached(h, in) : \E end \in Ends(h, in, A) :
            LET left == IF KeepsScene(update) THEN rtc ELSE LetGo(mirror[h])
                new  == IF KeepsScene(update) THEN data[mirror[h]]
                        ELSE CHOOSE r \in RtcScene : r \notin DOMAIN left
                then == IF KeepsScene(update) THEN rtc[new] \cup A ELSE A
            IN /\ KeepsScene(update) \/ RtcScene \ DOMAIN left # {}
               /\ data' = [data EXCEPT ![mirror[h]] = new]
               /\ rtc' = Released(Roots(data'), With(left, [r \in {new} |-> then]))
               /\ Finish(h, in, end # "error", end = "done" /\ ~Mixes(h, update))
               /\ Count(end = "silent" \/ A # Attachments(h, in) \ {Null})
  /\ UNCHANGED <<mirror, registry, known>>

(* The other ways to fail: the GPU build leaves nothing to rely on; after  *)
(* it the synchronisation fails, or an earlier entry of the batch does; an *)
(* update has released its Embree scene and is not given another.          *)
BuildFails(h, in, update) ==
  /\ MayFail /\ Count(TRUE)
  /\ \/ gpu' = [gpu EXCEPT ![h] = NotBuilt] /\ UNCHANGED <<data, rtc>>
     \/ gpu' = [gpu EXCEPT ![h] = in] /\ UNCHANGED <<data, rtc>>
     \/ /\ update
        /\ gpu' = [gpu EXCEPT ![h] = in]
        /\ data' = [data EXCEPT ![mirror[h]] = Null]
        /\ rtc' = Released(Roots(data'), rtc)
  /\ Finish(h, in, FALSE, FALSE)
  /\ UNCHANGED <<mirror, registry, known>>

Next ==
  \/ \E H \in Batch(Handle \ DOMAIN gpu) : Create(H)
  \/ \E H \in Batch(known) : Destroy(H)
  \/ \E h \in known, update \in BOOLEAN :
       /\ IF update THEN gpu[h] # NotBuilt ELSE Mixes(h, update) => h \in Mixing
       /\ \E in \in Inputs(h, update) : Build(h, in, update) \/ BuildFails(h, in, update)

Spec == Init /\ [][Next]_vars

-----------------------------------------------------------------------------
TypeOK ==
  /\ DOMAIN gpu \subseteq Handle /\ known \subseteq DOMAIN gpu
  /\ \A h \in DOMAIN gpu :
       gpu[h] = NotBuilt \/ gpu[h] \subseteq IF h \in Geometry THEN Input ELSE Handle
  /\ DOMAIN mirror \subseteq Handle
  /\ DOMAIN registry \subseteq Handle \cup Data
  /\ DOMAIN data \subseteq Data /\ Roots(data) \subseteq DOMAIN rtc \cup {Null}
  /\ \A r \in DOMAIN rtc : rtc[r] \subseteq Input \cup DOMAIN rtc
  /\ failed \cup stale \cup doubtful \subseteq known /\ faults \in 0 .. MaxFaults

(* Every handle a client holds has a mirror of its own, and the registry   *)
(* leads to the same one, from the GPU handle and from the CPU handle.     *)
Mirrored ==
  /\ \A h \in known :
       /\ h \in DOMAIN mirror /\ mirror[h] \in DOMAIN data
       /\ {h, mirror[h]} \subseteq DOMAIN registry
       /\ registry[h] = mirror[h] /\ registry[mirror[h]] = mirror[h]
  /\ \A g, h \in known : g # h => mirror[g] # mirror[h]

(* The registry never leads to freed data, even when a call fails half way *)
(* and addresses are used again; nor do clients get to data that is gone.  *)
NoDangling == \A k \in DOMAIN registry : registry[k] \in DOMAIN data

(* As long as no call has failed, nothing outlives the handle it belongs   *)
(* to.                                                                     *)
NoOrphans ==
  faults = 0 =>
  /\ DOMAIN gpu = known /\ DOMAIN mirror = known
  /\ DOMAIN data = {mirror[h] : h \in known}
  /\ DOMAIN registry = known \cup DOMAIN data

(* What a ray can hit on either side.                                      *)
OnGpu(h) == GpuBelow(h) \cap Input

OnCpu(h) ==
  UNION {rtc[r] \cap Input : r \in Below({data[mirror[h]]} \ {Null}, rtc)}

(* The two sides of a hybrid trace see the same primitives, AABB lists     *)
(* apart, wherever the client may rely on a handle (its last build or      *)
(* update succeeded and nothing below it has changed since) and, in it and *)
(* below it, no Embree call has failed unseen and no build went on with    *)
(* what an earlier one had attached.                                       *)
Sound(h) == Trusted(h) /\ h \notin doubtful

SidesAgree == \A h \in known : Sound(h) => OnCpu(h) = OnGpu(h) \ Boxes
=============================================================================
