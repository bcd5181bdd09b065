---------------------------- MODULE HybridProofs ----------------------------
(***************************************************************************)
(* Proofs about a hybrid context: first the mirror of its objects, then    *)
(* the tracing of batches.  The two specifications share no variable.      *)
(*                                                                         *)
(* The mirror: for any addresses, batches and failures the handles of      *)
(* clients lead to data of their own, the registry to data that exists,    *)
(* and the two sides of a trace to the same primitives.                    *)
(***************************************************************************)
EXTENDS HybridMirror, HybridTrace, TLAPS

(* An entry of the registry is that of a CPU handle or that of a handle a  *)
(* client holds.                                                           *)
RegistryInv ==
  \A k \in DOMAIN registry :
    /\ registry[k] \in DOMAIN data
    /\ \/ k \in Data /\ registry[k] = k
       \/ k \in known /\ registry[k] = mirror[k]

Inv ==
  /\ known \subseteq DOMAIN gpu /\ DOMAIN gpu \subseteq Handle
  /\ DOMAIN mirror = known /\ DOMAIN data \subseteq Data
  /\ faults \in Nat
  /\ RegistryInv /\ Mirrored /\ NoOrphans

-----------------------------------------------------------------------------
LEMMA InitInv == Init => Inv
<1> SUFFICES ASSUME Init PROVE Inv
  OBVIOUS
<1>1. DOMAIN None = {}
  BY DEF None
<1> QED BY <1>1 DEF Init, Inv, RegistryInv, Mirrored, NoOrphans

LEMMA BatchTyped ==
  ASSUME NEW S, NEW H \in Batch(S)
  PROVE  H \subseteq S
BY DEF Batch

LEMMA CreateKeepsInv ==
  ASSUME Inv, NEW H \in Batch(Handle \ DOMAIN gpu), Create(H)
  PROVE  Inv'
<1> USE DEF Inv
<1>1. H \subseteq Handle /\ H \cap DOMAIN gpu = {} /\ H \cap known = {} /\ H \cap Data = {}
  BY BatchTyped, HandleAssumption DEF Handle
<1>2. PICK f \in Injection(H, Data \ DOMAIN data), made \in SUBSET H :
        LET new == CHOOSE s \in Injection(made, RtcScene \ DOMAIN rtc) : TRUE
        IN /\ made = H \/ MayFail
           /\ Count(made # H)
           /\ data' = With(data, [d \in {f[h] : h \in made} |-> new[CHOOSE h \in made : f[h] = d]])
           /\ IF made = H
              THEN /\ mirror' = With(mirror, f)
                   /\ registry' = With(registry, Registered(f, H))
                   /\ known' = known \cup H
              ELSE /\ registry' = With(registry, CpuOnly(f, made))
                   /\ UNCHANGED <<mirror, known>>
  BY DEF Create
<1> DEFINE F(S) == {f[h] : h \in S}
<1>3. /\ f \in [H -> Data \ DOMAIN data]
      /\ \A g, h \in H : g # h => f[g] # f[h]
  BY DEF Injection, IsInjective
<1>4. DOMAIN data' = DOMAIN data \cup F(made)
  BY <1>2 DEF With
<1>5. DOMAIN gpu' = DOMAIN gpu \cup H
  BY DEF Create, With
<1>6. faults' \in Nat /\ (made # H => faults' # 0) /\ (made = H => faults' = faults)
  BY <1>2 DEF Count
<1>7. F(H) \subseteq Data /\ F(H) \cap DOMAIN data = {} /\ F(H) \cap Handle = {} /\ \A h \in H : f[h] \in F(H)
  BY <1>3, HandleAssumption DEF Handle
<1>8. CASE made = H
  <2>1. /\ DOMAIN Registered(f, H) = H \cup F(H)
        /\ \A h \in H : Registered(f, H)[h] = f[h]
        /\ \A d \in F(H) : Registered(f, H)[d] = d
    <3> DEFINE g == [d \in {f[h] : h \in H} |-> d]
    <3>1. DOMAIN g = F(H) /\ \A d \in F(H) : g[d] = d
      OBVIOUS
    <3>2. Registered(f, H) = With(f, g)
      BY DEF Registered
    <3> HIDE DEF g
    <3>3. \A h \in H : h \notin F(H)
      BY <1>1, <1>7
    <3> HIDE DEF F
    <3> QED BY <1>3, <3>1, <3>2, <3>3 DEF With
  <2>2. /\ DOMAIN registry' = DOMAIN registry \cup H \cup F(H)
        /\ \A h \in H : registry'[h] = f[h]
        /\ \A d \in F(H) : registry'[d] = d
        /\ \A k \in DOMAIN registry : k \notin H \cup F(H) => registry'[k] = registry[k]
    BY <1>2, <1>8, <2>1 DEF With
  <2>3. /\ DOMAIN mirror' = known \cup H /\ known' = known \cup H
        /\ \A h \in H : mirror'[h] = f[h]
        /\ \A h \in known : mirror'[h] = mirror[h]
    BY <1>1, <1>2, <1>3, <1>8 DEF With
  <2> HIDE DEF F
  <2>4. RegistryInv'
    BY <1>4, <1>7, <1>8, <2>2, <2>3 DEF RegistryInv
  <2>5. Mirrored'
    BY <1>1, <1>3, <1>4, <1>7, <1>8, <2>2, <2>3 DEF Mirrored
  <2>6. NoOrphans'
    <3> SUFFICES ASSUME faults' = 0
                 PROVE  /\ DOMAIN gpu' = known' /\ DOMAIN mirror' = known'
                        /\ DOMAIN data' = {mirror'[h] : h \in known'}
                        /\ DOMAIN registry' = known' \cup DOMAIN data'
      BY DEF NoOrphans
    <3>1. DOMAIN gpu = known /\ DOMAIN data = {mirror[h] : h \in known} /\ DOMAIN registry = known \cup DOMAIN data
      BY <1>6, <1>8 DEF NoOrphans
    <3>2. DOMAIN data' = {mirror'[h] : h \in known'}
      BY <1>4, <1>8, <2>3, <3>1 DEF F
    <3> QED BY <1>4, <1>5, <1>8, <2>2, <2>3, <3>1, <3>2
  <2> QED BY <1>1, <1>4, <1>5, <1>6, <1>7, <1>8, <2>3, <2>4, <2>5, <2>6
<1>9. CASE made # H
  <2>1. DOMAIN CpuOnly(f, made) = F(made) /\ \A d \in F(made) : CpuOnly(f, made)[d] = d
    BY DEF CpuOnly
  <2>2. /\ DOMAIN registry' = DOMAIN registry \cup F(made)
        /\ \A d \in F(made) : registry'[d] = d
        /\ \A k \in DOMAIN registry : k \notin F(made) => registry'[k] = registry[k]
        /\ UNCHANGED <<mirror, known>>
    BY <1>2, <1>9, <2>1 DEF With
  <2>3. F(made) \subseteq F(H)
    OBVIOUS
  <2> HIDE DEF F
  <2>4. RegistryInv'
    BY <1>4, <1>7, <2>2, <2>3 DEF RegistryInv
  <2>5. Mirrored'
    BY <1>1, <1>4, <1>7, <2>2, <2>3 DEF Mirrored
  <2>6. NoOrphans'
    BY <1>6, <1>9 DEF NoOrphans
  <2> QED BY <1>1, <1>4, <1>5, <1>6, <1>7, <2>2, <2>3, <2>4, <2>5, <2>6
<1> QED BY <1>8, <1>9

LEMMA DestroyKeepsInv ==
  ASSUME Inv, NEW H \in Batch(known), Destroy(H)
  PROVE  Inv'
<1> USE DEF Inv
<1>1. H \subseteq known /\ H \subseteq Handle /\ H \cap DOMAIN mirror = H /\ H \cap Data = {}
  BY BatchTyped, HandleAssumption DEF Handle
<1>2. /\ mirror' = Less(mirror, H)
      /\ known' = known \ H
      /\ \/ /\ gpu' = Less(gpu, H)
            /\ registry' = Less(registry, Unregister(H))
            /\ data' = Less(data, DoomedData(H))
            /\ faults' = faults
         \/ /\ faults' = faults + 1
            /\ \E D \in SUBSET H : gpu' = Less(gpu, D)
            /\ registry' = Less(registry, H)
            /\ data' = data
  BY <1>1 DEF Destroy, Count
<1>3. /\ DOMAIN mirror' = known \ H
      /\ \A h \in known \ H : mirror'[h] = mirror[h]
  BY <1>2 DEF Less, Restrict
<1>4. \A h \in known \ H : mirror[h] \notin DoomedData(H)
  BY <1>1 DEF Mirrored, DoomedData
<1>5. CASE /\ gpu' = Less(gpu, H) /\ faults' = faults
           /\ registry' = Less(registry, Unregister(H))
           /\ data' = Less(data, DoomedData(H))
  <2>1. /\ DOMAIN gpu' = DOMAIN gpu \ H /\ DOMAIN data' = DOMAIN data \ DoomedData(H)
        /\ DOMAIN registry' = DOMAIN registry \ (H \cup DoomedData(H))
        /\ \A k \in DOMAIN registry \ (H \cup DoomedData(H)) : registry'[k] = registry[k]
    BY <1>5 DEF Less, Restrict, Unregister, DoomedData
  <2>2. RegistryInv'
    BY <1>2, <1>3, <1>4, <2>1 DEF RegistryInv
  <2>3. \A h \in known \ H : h \notin DoomedData(H)
    BY <1>1, HandleAssumption DEF Mirrored, DoomedData, Handle
  <2>4. Mirrored'
    BY <1>1, <1>2, <1>3, <1>4, <2>1, <2>3 DEF Mirrored
  <2>5. NoOrphans'
    <3> SUFFICES ASSUME faults = 0
                 PROVE  /\ DOMAIN gpu' = known' /\ DOMAIN mirror' = known'
                        /\ DOMAIN data' = {mirror'[h] : h \in known'}
                        /\ DOMAIN registry' = known' \cup DOMAIN data'
      BY <1>5 DEF NoOrphans
    <3>1. DOMAIN gpu = known /\ DOMAIN data = {mirror[h] : h \in known} /\ DOMAIN registry = known \cup DOMAIN data
      BY DEF NoOrphans
    <3>2. DOMAIN data' = {mirror'[h] : h \in known'}
      BY <1>2, <1>3, <1>4, <2>1, <3>1 DEF DoomedData
    <3>3. H \cap DOMAIN data = {}
      BY <1>1
    <3> QED BY <1>2, <1>3, <2>1, <2>3, <3>1, <3>2, <3>3
  <2> QED BY <1>2, <1>3, <1>5, <2>1, <2>2, <2>4, <2>5
<1>6. CASE /\ faults' = faults + 1 /\ data' = data
           /\ \E D \in SUBSET H : gpu' = Less(gpu, D)
           /\ registry' = Less(registry, H)
  <2>1. /\ DOMAIN registry' = DOMAIN registry \ H
        /\ \A k \in DOMAIN registry \ H : registry'[k] = registry[k]
    BY <1>6 DEF Less, Restrict
  <2>2. DOMAIN gpu \ H \subseteq DOMAIN gpu' /\ DOMAIN gpu' \subseteq DOMAIN gpu
    BY <1>6 DEF Less, Restrict
  <2>3. RegistryInv'
    BY <1>2, <1>3, <1>6, <2>1 DEF RegistryInv
  <2>4. Mirrored'
    BY <1>1, <1>2, <1>3, <1>6, <2>1 DEF Mirrored
  <2>5. NoOrphans'
    BY <1>6 DEF NoOrphans
  <2> QED BY <1>2, <1>3, <1>6, <2>2, <2>3, <2>4, <2>5
<1> QED BY <1>2, <1>5, <1>6

(* A build or an update replaces contents, and no entry of a map.          *)
LEMMA ContentsKeepInv ==
  ASSUME Inv, UNCHANGED <<mirror, registry, known>>,
         DOMAIN gpu' = DOMAIN gpu, DOMAIN data' = DOMAIN data,
         faults' \in {faults, faults + 1}
  PROVE  Inv'
BY DEF Inv, RegistryInv, Mirrored, NoOrphans

LEMMA StepKeepsInv == Inv /\ [Next]_vars => Inv'
<1> SUFFICES ASSUME Inv, [Next]_vars PROVE Inv'
  OBVIOUS
<1>1. ASSUME NEW h \in known, NEW update \in BOOLEAN, NEW in \in Inputs(h, update),
             Build(h, in, update) \/ BuildFails(h, in, update)
      PROVE  Inv'
  <2>1. /\ UNCHANGED <<mirror, registry, known>> /\ DOMAIN gpu' = DOMAIN gpu
        /\ DOMAIN data' = DOMAIN data /\ faults' \in {faults, faults + 1}
    <3>1. CASE Build(h, in, update)
      BY <3>1 DEF Build, Count
    <3>2. CASE BuildFails(h, in, update)
      BY <3>2 DEF BuildFails, Count
    <3> QED BY <1>1, <3>1, <3>2
  <2> QED BY <2>1, ContentsKeepInv
<1>2. CASE UNCHANGED vars
  BY <1>2, ContentsKeepInv DEF vars
<1> QED BY <1>1, <1>2, CreateKeepsInv, DestroyKeepsInv DEF Next

LEMMA Invariant == Spec => []Inv
BY InitInv, StepKeepsInv, PTL DEF Spec

(* Every handle a client holds has CPU data of its own, and both registry  *)
(* entries lead to it, whatever failed before.                             *)
THEOREM HandlesStayMirrored == Spec => []Mirrored
<1>1. Inv => Mirrored
  BY DEF Inv
<1> QED BY <1>1, Invariant, PTL

(* The registry never leads to data that was freed.                        *)
THEOREM RegistryNeverDangles == Spec => []NoDangling
<1>1. Inv => NoDangling
  BY DEF Inv, RegistryInv, NoDangling
<1> QED BY <1>1, Invariant, PTL

(* Without failures nothing outlives its handle.                           *)
THEOREM NothingIsOrphaned == Spec => []NoOrphans
<1>1. Inv => NoOrphans
  BY DEF Inv
<1> QED BY <1>1, Invariant, PTL

-----------------------------------------------------------------------------
(* The set Reach describes is closed itself, and the least such set.       *)
LEMMA ReachFacts ==
  ASSUME NEW from, NEW next, from \subseteq DOMAIN next
  PROVE  /\ Reach(from, next) \subseteq DOMAIN next
         /\ from \subseteq Reach(from, next)
         /\ Closed(Reach(from, next), next)
         /\ \A S \in SUBSET DOMAIN next :
              from \subseteq S /\ Closed(S, next) => Reach(from, next) \subseteq S
<1> DEFINE closed == {S \in SUBSET DOMAIN next : from \subseteq S /\ Closed(S, next)}
<1>1. Reach(from, next) = {x \in DOMAIN next : \A S \in closed : x \in S}
  BY DEF Reach
<1>2. \A S \in closed : from \subseteq S /\ \A x \in S : next[x] \cap DOMAIN next \subseteq S
  BY DEF Closed
<1>3. \A S \in SUBSET DOMAIN next : from \subseteq S /\ Closed(S, next) => S \in closed
  OBVIOUS
<1> HIDE DEF closed
<1>4. Closed(Reach(from, next), next)
  BY <1>1, <1>2 DEF Closed
<1> QED BY <1>1, <1>2, <1>3, <1>4

(* Embree keeps the scenes that are referred to, and what they refer to.   *)
LEMMA ReleasedFacts ==
  ASSUME NEW S, NEW a, S \subseteq DOMAIN a \cup {Null},
         \A r \in DOMAIN a : a[r] \subseteq Input \cup DOMAIN a
  PROVE  /\ DOMAIN Released(S, a) \subseteq DOMAIN a
         /\ S \subseteq DOMAIN Released(S, a) \cup {Null}
         /\ \A r \in DOMAIN Released(S, a) :
              /\ Released(S, a)[r] = a[r]
              /\ a[r] \subseteq Input \cup DOMAIN Released(S, a)
<1> DEFINE B == Reach(S \ {Null}, a)
<1>1. B \subseteq DOMAIN a /\ S \ {Null} \subseteq B /\ \A r \in B : a[r] \cap DOMAIN a \subseteq B
  BY ReachFacts DEF Closed
<1>2. Released(S, a) = [r \in B |-> a[r]]
  BY DEF Released, Below, Restrict
<1> HIDE DEF B
<1> QED BY <1>1, <1>2

-----------------------------------------------------------------------------
(* What is attached on the CPU side, and what is built on the GPU, exists. *)
(* No two CPU data objects have the same Embree scene.                     *)
Wired ==
  /\ DOMAIN rtc \subseteq RtcScene
  /\ Roots(data) \subseteq DOMAIN rtc \cup {Null}
  /\ \A r \in DOMAIN rtc : rtc[r] \subseteq Input \cup DOMAIN rtc
  /\ \A c, d \in DOMAIN data : c # d /\ data[c] = data[d] => data[c] = Null

Held ==
  /\ \A h \in DOMAIN gpu :
       gpu[h] = NotBuilt \/ gpu[h] \subseteq IF h \in Geometry THEN Input ELSE Handle
  /\ \A h \in Scene \cap known : Content(h) \subseteq known
  /\ failed \cup stale \cup doubtful \subseteq known /\ faults \in 0 .. MaxFaults

(* A sound handle has exactly its attachments, and sound children.         *)
AgreeOn(h) ==
  Sound(h) => /\ data[mirror[h]] # Null
              /\ rtc[data[mirror[h]]] = Attachments(h, gpu[h])
              /\ \A c \in Content(h) \cap Handle : Sound(c)

AgreeInv == \A h \in known : AgreeOn(h)

LEMMA SyncInit == Init => Wired /\ Held /\ AgreeInv
<1> SUFFICES ASSUME Init PROVE Wired /\ Held /\ AgreeInv
  OBVIOUS
<1>1. DOMAIN None = {}
  BY DEF None
<1>2. MaxFaults \in Nat
  BY BoundAssumption
<1> QED BY <1>1, <1>2 DEF Init, Wired, Held, AgreeInv, Roots

(* Handles a step leaves alone, with all that is directly below them, stay *)
(* in agreement.                                                           *)
LEMMA AgreeKept ==
  ASSUME Inv, Held, NEW h \in known, AgreeOn(h),
         gpu'[h] = gpu[h], h \in failed => h \in failed', h \in stale => h \in stale',
         h \in doubtful => h \in doubtful', mirror'[h] = mirror[h], data'[mirror[h]] = data[mirror[h]],
         data[mirror[h]] # Null => rtc'[data[mirror[h]]] = rtc[data[mirror[h]]],
         \A c \in Content(h) \cap known : mirror'[c] = mirror[c] /\ data'[mirror[c]] = data[mirror[c]],
         Sound(h)' => \A c \in Content(h) \cap known : Sound(c) => Sound(c)'
  PROVE  AgreeOn(h)'
<1>1. Sound(h)' => Sound(h)
  BY DEF Sound, Trusted
<1>2. h \in Handle /\ (h \in Scene \/ h \in Geometry) /\ h \in DOMAIN gpu
  BY DEF Inv, Handle
<1>3. h \in Geometry => Content(h) \cap Handle = {}
  BY <1>2, InputAssumption DEF Held, Content, Handle
<1>4. h \notin Geometry => Content(h) \subseteq known
  BY <1>2 DEF Held
<1>5. Content(h)' = Content(h)
  BY DEF Content
<1>6. ASSUME Sound(h)
      PROVE  Attachments(h, gpu[h])' = Attachments(h, gpu[h])
  <2>1. gpu[h] = Content(h)
    BY <1>6 DEF Sound, Trusted, Content
  <2>2. CASE h \in Geometry
    BY <2>2 DEF Attachments
  <2>3. CASE h \notin Geometry
    BY <1>4, <2>1, <2>3 DEF Attachments
  <2> QED BY <2>2, <2>3
<1>7. ASSUME Sound(h)'
      PROVE  /\ data'[mirror'[h]] # Null
             /\ rtc'[data'[mirror'[h]]] = Attachments(h, gpu[h])'
             /\ \A c \in Content(h)' \cap Handle : Sound(c)'
  BY <1>1, <1>3, <1>4, <1>5, <1>6, <1>7 DEF AgreeOn
<1> QED BY <1>7 DEF AgreeOn

(* What createGeometries and createScenes leave in the maps.               *)
LEMMA CreateEffect ==
  ASSUME Inv, Wired, NEW H \in Batch(Handle \ DOMAIN gpu), Create(H)
  PROVE  /\ DOMAIN gpu' = DOMAIN gpu \cup H
         /\ \A h \in H : gpu'[h] = NotBuilt
         /\ \A h \in DOMAIN gpu : gpu'[h] = gpu[h]
         /\ \A d \in DOMAIN data : d \in DOMAIN data' /\ data'[d] = data[d]
         /\ \A r \in DOMAIN rtc : r \in DOMAIN rtc' /\ rtc'[r] = rtc[r]
         /\ \A r \in DOMAIN rtc' \ DOMAIN rtc : r \in RtcScene /\ rtc'[r] = {}
         /\ \A d \in DOMAIN data' \ DOMAIN data : data'[d] \in DOMAIN rtc' \ DOMAIN rtc
         /\ \A c, d \in DOMAIN data' \ DOMAIN data : data'[c] = data'[d] => c = d
         /\ \/ UNCHANGED <<mirror, known>>
            \/ /\ known' = known \cup H
               /\ \A h \in known : mirror'[h] = mirror[h]
               /\ \A h \in H : mirror'[h] \in DOMAIN data' \ DOMAIN data
         /\ UNCHANGED <<failed, stale, doubtful>>
         /\ faults' \in {faults, faults + 1} /\ (faults' = faults \/ MayFail)
<1>1. H \subseteq Handle /\ H \cap DOMAIN gpu = {} /\ H \cap known = {}
  BY BatchTyped DEF Inv
<1>2. PICK f \in Injection(H, Data \ DOMAIN data), made \in SUBSET H :
        LET new == CHOOSE s \in Injection(made, RtcScene \ DOMAIN rtc) : TRUE
        IN /\ made = H \/ MayFail
           /\ Count(made # H)
           /\ Injection(made, RtcScene \ DOMAIN rtc) # {}
           /\ data' = With(data, [d \in {f[h] : h \in made} |-> new[CHOOSE h \in made : f[h] = d]])
           /\ rtc' = With(rtc, [r \in {new[h] : h \in made} |-> {}])
           /\ IF made = H
              THEN mirror' = With(mirror, f) /\ known' = known \cup H
              ELSE UNCHANGED <<mirror, known>>
  BY DEF Create
<1> DEFINE new == CHOOSE s \in Injection(made, RtcScene \ DOMAIN rtc) : TRUE
           F == {f[h] : h \in made}
           N == {new[h] : h \in made}
           m == [d \in F |-> new[CHOOSE h \in made : f[h] = d]]
           e == [r \in N |-> {}]
<1>3. new \in Injection(made, RtcScene \ DOMAIN rtc)
  BY <1>2
<1>4. data' = With(data, m) /\ rtc' = With(rtc, e)
  BY <1>2
<1>5. UNCHANGED <<failed, stale, doubtful>> /\ gpu' = With(gpu, [h \in H |-> NotBuilt])
  BY DEF Create
<1>6. faults' \in {faults, faults + 1} /\ (faults' = faults \/ MayFail)
  BY <1>2 DEF Count
<1>7. /\ f \in [H -> Data \ DOMAIN data] /\ \A g, h \in H : f[g] = f[h] => g = h
  BY DEF Injection, IsInjective
<1> HIDE DEF new
<1>8. /\ new \in [made -> RtcScene \ DOMAIN rtc] /\ \A g, h \in made : new[g] = new[h] => g = h
  BY <1>3 DEF Injection, IsInjective
<1>9. /\ DOMAIN m = F /\ F \cap DOMAIN data = {}
      /\ \A h \in made : f[h] \in F /\ m[f[h]] = new[h]
      /\ \A d \in F : \E h \in made : d = f[h]
  <2>1. ASSUME NEW h \in made PROVE (CHOOSE g \in made : f[g] = f[h]) = h
    BY <1>7
  <2> QED BY <1>7, <2>1
<1>10. /\ DOMAIN e = N /\ N \subseteq RtcScene /\ N \cap DOMAIN rtc = {}
       /\ \A h \in made : new[h] \in N
       /\ \A r \in N : e[r] = {}
  BY <1>8
<1> HIDE DEF F, N, m, e
<1>11. /\ DOMAIN data' = DOMAIN data \cup F /\ \A h \in made : data'[f[h]] = new[h]
       /\ \A d \in DOMAIN data : data'[d] = data[d]
  BY <1>4, <1>9 DEF With
<1>12. /\ DOMAIN rtc' = DOMAIN rtc \cup N /\ \A r \in N : rtc'[r] = {}
       /\ \A r \in DOMAIN rtc : rtc'[r] = rtc[r]
  BY <1>4, <1>10 DEF With
<1>13. /\ DOMAIN gpu' = DOMAIN gpu \cup H /\ \A h \in H : gpu'[h] = NotBuilt
       /\ \A h \in DOMAIN gpu : gpu'[h] = gpu[h]
  BY <1>1, <1>5 DEF With
<1>14. \/ UNCHANGED <<mirror, known>>
       \/ /\ known' = known \cup H
          /\ \A h \in known : mirror'[h] = mirror[h]
          /\ \A h \in H : mirror'[h] \in DOMAIN data' \ DOMAIN data
  <2>1. CASE made = H
    <3>1. mirror' = With(mirror, f) /\ known' = known \cup H /\ DOMAIN f = H
      BY <1>2, <1>7, <2>1
    <3>2. \A h \in known : mirror'[h] = mirror[h]
      BY <1>1, <3>1 DEF With, Inv
    <3>3. \A h \in H : mirror'[h] = f[h]
      BY <3>1 DEF With
    <3> QED BY <1>9, <1>11, <2>1, <3>1, <3>2, <3>3
  <2>2. CASE made # H
    BY <1>2, <2>2
  <2> QED BY <2>1, <2>2
<1>15. \A d \in DOMAIN data' \ DOMAIN data : data'[d] \in DOMAIN rtc' \ DOMAIN rtc
  BY <1>9, <1>10, <1>11, <1>12
<1>16. \A c, d \in DOMAIN data' \ DOMAIN data : data'[c] = data'[d] => c = d
  BY <1>8, <1>9, <1>11
<1> QED BY <1>5, <1>6, <1>10, <1>11, <1>12, <1>13, <1>14, <1>15, <1>16

LEMMA CreateKeepsSync ==
  ASSUME Inv, Wired, Held, NEW H \in Batch(Handle \ DOMAIN gpu), Create(H)
  PROVE  Wired' /\ Held' /\ (AgreeInv => AgreeInv')
<1>0. H \subseteq Handle /\ H \cap DOMAIN gpu = {} /\ H \cap known = {}
  BY BatchTyped DEF Inv
<1>1. /\ DOMAIN gpu' = DOMAIN gpu \cup H
      /\ \A h \in H : gpu'[h] = NotBuilt
      /\ \A h \in DOMAIN gpu : gpu'[h] = gpu[h]
  BY CreateEffect
<1>2. /\ \A d \in DOMAIN data : d \in DOMAIN data' /\ data'[d] = data[d]
      /\ \A r \in DOMAIN rtc : r \in DOMAIN rtc' /\ rtc'[r] = rtc[r]
      /\ \A r \in DOMAIN rtc' \ DOMAIN rtc : r \in RtcScene /\ rtc'[r] = {}
      /\ \A d \in DOMAIN data' \ DOMAIN data : data'[d] \in DOMAIN rtc' \ DOMAIN rtc
      /\ \A c, d \in DOMAIN data' \ DOMAIN data : data'[c] = data'[d] => c = d
  BY CreateEffect
<1>3. /\ \/ UNCHANGED <<mirror, known>>
         \/ /\ known' = known \cup H
            /\ \A h \in known : mirror'[h] = mirror[h]
            /\ \A h \in H : mirror'[h] \in DOMAIN data' \ DOMAIN data
      /\ UNCHANGED <<failed, stale, doubtful>>
      /\ faults' \in {faults, faults + 1} /\ (faults' = faults \/ MayFail)
  BY CreateEffect
<1>4. /\ known \subseteq known' /\ known' \subseteq known \cup H
      /\ \A h \in known : mirror'[h] = mirror[h]
  BY <1>3
<1>5. Null \notin RtcScene
  BY NullAssumption DEF RtcScene
<1>6. Wired'
  <2>1. \A d \in DOMAIN data : data[d] \in DOMAIN rtc \cup {Null}
    BY DEF Wired, Roots
  <2>2. DOMAIN rtc' \subseteq RtcScene
    BY <1>2 DEF Wired
  <2>3. Roots(data)' \subseteq DOMAIN rtc' \cup {Null}
    BY <1>2, <2>1 DEF Roots
  <2>4. \A r \in DOMAIN rtc' : rtc'[r] \subseteq Input \cup DOMAIN rtc'
    BY <1>2 DEF Wired
  <2>5. ASSUME NEW c \in DOMAIN data', NEW d \in DOMAIN data', c # d, data'[c] = data'[d]
        PROVE  data'[c] = Null
    <3>1. CASE c \in DOMAIN data /\ d \in DOMAIN data
      BY <1>2, <2>5, <3>1 DEF Wired
    <3>2. CASE c \in DOMAIN data /\ d \notin DOMAIN data
      BY <1>2, <1>5, <2>1, <2>2, <2>5, <3>2
    <3>3. CASE c \notin DOMAIN data /\ d \in DOMAIN data
      BY <1>2, <1>5, <2>1, <2>2, <2>5, <3>3
    <3>4. CASE c \notin DOMAIN data /\ d \notin DOMAIN data
      BY <1>2, <2>5, <3>4
    <3> QED BY <3>1, <3>2, <3>3, <3>4
  <2> QED BY <2>2, <2>3, <2>4, <2>5 DEF Wired
<1>7. Held'
  <2>1. \A h \in Scene \cap known' : Content(h)' \subseteq known'
    <3> SUFFICES ASSUME NEW h \in Scene \cap known' PROVE Content(h)' \subseteq known'
      OBVIOUS
    <3>1. CASE h \in known
      BY <1>1, <1>4, <3>1 DEF Held, Content, Inv
    <3>2. CASE h \in H
      BY <1>1, <3>2 DEF Content
    <3> QED BY <1>4, <3>1, <3>2
  <2>2. faults' \in 0 .. MaxFaults
    BY <1>3, BoundAssumption DEF Held, MayFail
  <2>3. \A h \in DOMAIN gpu' : gpu'[h] = NotBuilt \/ gpu'[h] \subseteq IF h \in Geometry THEN Input ELSE Handle
    BY <1>1 DEF Held
  <2> QED BY <1>3, <1>4, <2>1, <2>2, <2>3 DEF Held
<1>8. ASSUME AgreeInv, NEW h \in known' PROVE AgreeOn(h)'
  <2>1. CASE h \in known
    <3>1. \A c \in known : /\ c \in DOMAIN gpu /\ mirror[c] \in DOMAIN data
                           /\ data[mirror[c]] \in DOMAIN rtc \cup {Null}
      BY DEF Inv, Mirrored, Wired, Roots
    <3>2. \A c \in known : /\ gpu'[c] = gpu[c] /\ data'[mirror[c]] = data[mirror[c]]
                           /\ data[mirror[c]] # Null => rtc'[data[mirror[c]]] = rtc[data[mirror[c]]]
      BY <1>1, <1>2, <3>1
    <3>3. \A c \in known : Sound(c) => Sound(c)'
      BY <1>3, <3>2 DEF Sound, Trusted
    <3> QED BY <1>3, <1>4, <1>8, <2>1, <3>2, <3>3, AgreeKept DEF AgreeInv
  <2>2. CASE h \in H
    <3>1. ~Sound(h)'
      BY <1>1, <2>2 DEF Sound, Trusted
    <3> QED BY <3>1 DEF AgreeOn
  <2> QED BY <1>4, <2>1, <2>2
<1> QED BY <1>6, <1>7, <1>8 DEF AgreeInv

(* A destruction removes entries and releases Embree scenes.               *)
LEMMA DestroyKeepsSync ==
  ASSUME Inv, Wired, Held, NEW H \in Batch(known), Destroy(H)
  PROVE  Wired' /\ Held' /\ (AgreeInv => AgreeInv')
<1>1. H \subseteq known /\ H \cap DOMAIN mirror = H /\ known' = known \ H
  BY BatchTyped DEF Inv, Destroy
<1>2. /\ \A s \in (Scene \cap known) \ H : Content(s) \cap H = {}
      /\ mirror' = Less(mirror, H) /\ failed' = failed \ H /\ stale' = stale \ H /\ doubtful' = doubtful \ H
      /\ faults' \in {faults, faults + 1} /\ (faults' = faults \/ MayFail)
      /\ \E D \in SUBSET H : gpu' = Less(gpu, D)
      /\ \/ data' = Less(data, DoomedData(H)) /\ rtc' = Released(Roots(data'), rtc)
         \/ UNCHANGED <<data, rtc>>
  BY <1>1 DEF Destroy, Count
<1>3. /\ DOMAIN gpu' \subseteq DOMAIN gpu /\ DOMAIN gpu \ H \subseteq DOMAIN gpu'
      /\ \A h \in DOMAIN gpu' : gpu'[h] = gpu[h]
  BY <1>2 DEF Less, Restrict
<1>4. \A h \in known \ H : mirror'[h] = mirror[h]
  BY <1>1, <1>2 DEF Less, Restrict, Inv
<1>5. /\ DOMAIN data' \subseteq DOMAIN data /\ \A d \in DOMAIN data' : data'[d] = data[d]
      /\ \A d \in DOMAIN data : d \notin DoomedData(H) => d \in DOMAIN data'
  BY <1>2 DEF Less, Restrict
<1>6. Roots(data)' \subseteq Roots(data) /\ \A d \in DOMAIN data' : data[d] \in Roots(data)'
  BY <1>5 DEF Roots
<1>7. /\ DOMAIN rtc' \subseteq DOMAIN rtc /\ Roots(data)' \subseteq DOMAIN rtc' \cup {Null}
      /\ \A r \in DOMAIN rtc' : rtc'[r] = rtc[r] /\ rtc'[r] \subseteq Input \cup DOMAIN rtc'
  <2>1. CASE UNCHANGED <<data, rtc>>
    BY <1>6, <2>1 DEF Wired
  <2>2. CASE rtc' = Released(Roots(data)', rtc)
    <3>1. Roots(data)' \subseteq DOMAIN rtc \cup {Null}
      BY <1>6 DEF Wired
    <3> HIDE DEF Roots
    <3> QED BY <2>2, <3>1, ReleasedFacts DEF Wired
  <2> QED BY <1>2, <2>1, <2>2
<1>8. \A h \in known \ H : mirror[h] \in DOMAIN data'
  <2>1. \A h \in known \ H : mirror[h] \in DOMAIN data /\ mirror[h] \notin DoomedData(H)
    BY <1>1 DEF Inv, Mirrored, DoomedData
  <2> QED BY <1>5, <2>1
<1>9. Wired'
  BY <1>5, <1>7 DEF Wired
<1>10. Held'
  <2>1. \A h \in Scene \cap known' : Content(h)' \subseteq known'
    BY <1>1, <1>2, <1>3 DEF Held, Content, Inv
  <2>2. faults' \in 0 .. MaxFaults
    BY <1>2, BoundAssumption DEF Held, MayFail
  <2> QED BY <1>1, <1>2, <1>3, <2>1, <2>2 DEF Held
<1>11. ASSUME AgreeInv, NEW h \in known' PROVE AgreeOn(h)'
  <2>1. \A c \in known \ H : gpu'[c] = gpu[c] /\ data'[mirror[c]] = data[mirror[c]]
    BY <1>3, <1>5, <1>8 DEF Inv
  <2>2. data[mirror[h]] # Null => rtc'[data[mirror[h]]] = rtc[data[mirror[h]]]
    BY <1>1, <1>6, <1>7, <1>8
  <2>3. \A c \in known \ H : Sound(c) => Sound(c)'
    BY <1>2, <2>1 DEF Sound, Trusted
  <2>4. Content(h) \cap H = {}
    <3>1. CASE h \in Scene
      BY <1>1, <1>2, <3>1
    <3>2. CASE h \in Geometry
      <4>1. Content(h) \subseteq Input /\ H \subseteq Handle
        BY <1>1, <3>2 DEF Held, Content, Inv
      <4> QED BY <4>1, InputAssumption DEF Handle
    <3> QED BY <1>1, <3>1, <3>2 DEF Inv, Handle
  <2>5. \A c \in Content(h) \cap known : c \in known \ H
    BY <2>4
  <2> QED BY <1>1, <1>2, <1>4, <1>11, <2>1, <2>2, <2>3, <2>5, AgreeKept DEF AgreeInv
<1> QED BY <1>9, <1>10, <1>11 DEF AgreeInv

(* Where a CPU data object is given another Embree scene, or none, what it *)
(* attaches exists: whatever is still referred to is kept as it is.        *)
Rewire(d, new, w) ==
  /\ data' = [data EXCEPT ![d] = new] /\ rtc' = Released(Roots(data'), w)
  /\ DOMAIN w \subseteq RtcScene /\ new \in DOMAIN w \cup {Null}
  /\ \A r \in DOMAIN w : w[r] \subseteq Input \cup DOMAIN w
  /\ \A c \in DOMAIN data \ {d} : /\ data[c] \in DOMAIN w \cup {Null}
                                  /\ data[c] = new => new = Null

LEMMA Rewired ==
  ASSUME Inv, Wired, NEW d \in DOMAIN data, NEW new, NEW w, Rewire(d, new, w)
  PROVE  /\ Wired'
         /\ \A c \in DOMAIN data : data'[c] # Null => rtc'[data'[c]] = w[data'[c]]
<1> USE DEF Rewire
<1>1. /\ DOMAIN data' = DOMAIN data
      /\ \A c \in DOMAIN data : data'[c] = IF c = d THEN new ELSE data[c]
  OBVIOUS
<1>3. /\ Roots(data') \subseteq DOMAIN w \cup {Null}
      /\ \A c \in DOMAIN data : data'[c] \in Roots(data')
  BY <1>1 DEF Roots
<1> HIDE DEF Roots
<1>4. /\ DOMAIN rtc' \subseteq DOMAIN w /\ Roots(data') \subseteq DOMAIN rtc' \cup {Null}
      /\ \A r \in DOMAIN rtc' : rtc'[r] = w[r] /\ rtc'[r] \subseteq Input \cup DOMAIN rtc'
  BY <1>3, ReleasedFacts
<1>5. \A b, c \in DOMAIN data' : b # c /\ data'[b] = data'[c] => data'[b] = Null
  BY <1>1 DEF Wired
<1> QED BY <1>3, <1>4, <1>5 DEF Wired

(* What a build or an update makes of the handle on the GPU.               *)
LEMMA FinishKeepsHeld ==
  ASSUME Inv, Held, NEW h \in known, NEW update \in BOOLEAN, NEW in \in Inputs(h, update),
         NEW v \in {in, NotBuilt}, gpu' = [gpu EXCEPT ![h] = v], UNCHANGED known,
         NEW ok \in BOOLEAN, NEW exact \in BOOLEAN, Finish(h, in, ok, exact), faults' \in 0 .. MaxFaults
  PROVE  Held'
<1>1. h \in DOMAIN gpu /\ known \subseteq Handle /\ (h \in Geometry \/ h \in Scene)
  BY DEF Inv, Handle
<1>2. /\ h \in Geometry => in \subseteq Input
      /\ h \notin Geometry => in \subseteq known
  BY DEF Inputs
<1>3. /\ DOMAIN gpu' = DOMAIN gpu /\ gpu'[h] = v
      /\ \A g \in DOMAIN gpu : g # h => gpu'[g] = gpu[g]
  BY <1>1
<1>4. h \in Scene => h \notin Geometry
  BY HandleAssumption
<1>5. failed' \cup stale' \cup doubtful' \subseteq known
  BY DEF Finish, Held, Above
<1>6. \A g \in Scene \cap known' : Content(g)' \subseteq known'
  <2> SUFFICES ASSUME NEW g \in Scene \cap known PROVE Content(g)' \subseteq known
    OBVIOUS
  <2>1. CASE g = h
    BY <1>2, <1>3, <1>4, <2>1 DEF Content
  <2>2. CASE g # h
    BY <1>3, <2>2 DEF Held, Content, Inv
  <2> QED BY <2>1, <2>2
<1>7. \A g \in DOMAIN gpu' : gpu'[g] = NotBuilt \/ gpu'[g] \subseteq IF g \in Geometry THEN Input ELSE Handle
  BY <1>1, <1>2, <1>3 DEF Held
<1> QED BY <1>5, <1>6, <1>7 DEF Held

(* What is below a child is below its parent.                              *)
LEMMA BelowFacts ==
  ASSUME Inv, Held, NEW g \in Scene \cap known
  PROVE  /\ Content(g) \subseteq GpuBelow(g)
         /\ \A c \in Content(g) : GpuBelow(c) \subseteq GpuBelow(g)
<1> DEFINE next == [x \in DOMAIN gpu |-> Content(x)]
<1>1. DOMAIN next = DOMAIN gpu /\ \A x \in DOMAIN gpu : next[x] = Content(x)
  OBVIOUS
<1>2. \A x : GpuFrom(x) = Reach({x}, next)
  BY DEF GpuFrom
<1>3. g \in DOMAIN gpu /\ Content(g) \subseteq DOMAIN gpu
  BY DEF Inv, Held
<1> HIDE DEF next
<1>4. /\ g \in GpuFrom(g) /\ GpuFrom(g) \subseteq DOMAIN gpu /\ Closed(GpuFrom(g), next)
  <2>1. {g} \subseteq DOMAIN next
    BY <1>1, <1>3
  <2> QED BY <1>1, <1>2, <2>1, ReachFacts
<1>5. ASSUME NEW c \in Content(g) PROVE GpuFrom(c) \subseteq GpuFrom(g)
  <2>1. {c} \subseteq DOMAIN next /\ GpuFrom(g) \in SUBSET DOMAIN next
    BY <1>1, <1>3, <1>4
  <2>2. {c} \subseteq GpuFrom(g)
    BY <1>1, <1>3, <1>4 DEF Closed
  <2> QED BY <1>2, <1>4, <2>1, <2>2, ReachFacts
<1> QED BY <1>4, <1>5 DEF GpuBelow

(* The handles above the one of the call are no longer trusted; the others *)
(* keep what they had.                                                     *)
LEMMA OthersAgree ==
  ASSUME Inv, Held, AgreeInv,
         NEW h \in known, NEW update \in BOOLEAN, NEW in \in Inputs(h, update),
         NEW v \in {in, NotBuilt}, gpu' = [gpu EXCEPT ![h] = v], UNCHANGED <<mirror, known>>,
         NEW ok \in BOOLEAN, NEW exact \in BOOLEAN, Finish(h, in, ok, exact),
         \A c \in known \ {h} :
           /\ data'[mirror[c]] = data[mirror[c]]
           /\ data[mirror[c]] # Null => rtc'[data[mirror[c]]] = rtc[data[mirror[c]]],
         NEW g \in known, g # h
  PROVE  AgreeOn(g)'
<1>1. /\ failed \subseteq failed' \cup {h} /\ stale \subseteq stale' \cup {h}
      /\ failed' \subseteq failed \cup {h} /\ stale' \subseteq stale \cup {h} \cup Above(h)
      /\ Above(h) \subseteq stale'
      /\ doubtful \subseteq doubtful' \cup {h} /\ doubtful' \subseteq doubtful \cup {h}
  BY DEF Finish
<1>2. \A c \in known \ {h} : gpu'[c] = gpu[c]
  BY DEF Inv
<1>3. g \in Geometry => Content(g) \cap known = {}
  <2>1. g \in Geometry => Content(g) \subseteq Input
    BY DEF Held, Content, Inv
  <2> QED BY <2>1, InputAssumption DEF Inv, Handle
<1>4. ASSUME NEW c \in Content(g) \cap known PROVE Sound(g)' => c # h /\ c \notin Above(h)
  <2>1. g \in Scene \cap known
    BY <1>3, <1>4 DEF Inv, Handle
  <2>2. Sound(g)' => g \notin Above(h)
    BY <1>1 DEF Sound, Trusted
  <2>3. g \notin Above(h) => h \notin GpuBelow(g)
    BY <2>1 DEF Above
  <2>4. c \in Above(h) => h \in GpuBelow(c)
    BY DEF Above
  <2> QED BY <2>1, <2>2, <2>3, <2>4, BelowFacts
<1>5. Sound(g)' => \A c \in Content(g) \cap known : Sound(c) => Sound(c)'
  BY <1>1, <1>2, <1>4 DEF Sound, Trusted
<1>6. g \in known \ {h} /\ mirror'[g] = mirror[g] /\ AgreeOn(g)
  BY DEF AgreeInv
<1>7. CASE Sound(g)'
  <2>1. \A c \in Content(g) \cap known : mirror'[c] = mirror[c] /\ data'[mirror[c]] = data[mirror[c]]
    BY <1>4, <1>7
  <2> QED BY <1>1, <1>2, <1>5, <1>6, <2>1, AgreeKept
<1>8. CASE ~Sound(g)'
  BY <1>8 DEF AgreeOn
<1> QED BY <1>7, <1>8

(* A call that did all it should has attached everything there is.         *)
LEMMA HandleAgrees ==
  ASSUME Inv, Held, NEW h \in known, NEW update \in BOOLEAN, NEW in \in Inputs(h, update),
         gpu' = [gpu EXCEPT ![h] = in], UNCHANGED <<mirror, known>>,
         Finish(h, in, TRUE, TRUE),
         \A c \in known \ {h} : data'[mirror[c]] = data[mirror[c]],
         data'[mirror[h]] # Null, rtc'[data'[mirror[h]]] = Attachments(h, in)
  PROVE  AgreeOn(h)'
<1>1. gpu'[h] = in /\ \A c \in known \ {h} : gpu'[c] = gpu[c]
  BY DEF Inv
<1>2. in \in SUBSET (Input \cup Geometry \cup Scene)
  BY DEF Inputs, Inv, Handle
<1>3. gpu'[h] # NotBuilt
  BY <1>1, <1>2, BuiltAssumption
<1>4. Content(h)' = in
  BY <1>1, <1>3 DEF Content
<1>5. h \in Handle /\ known \subseteq Handle
  BY DEF Inv
<1>6. CASE h \in Geometry
  <2>1. in \cap Handle = {}
    BY <1>6, InputAssumption DEF Inputs, Handle
  <2>2. Attachments(h, gpu[h])' = Attachments(h, in)
    BY <1>1, <1>6 DEF Attachments
  <2> QED BY <1>3, <1>4, <2>1, <2>2 DEF AgreeOn
<1>7. CASE h \notin Geometry
  <2>1. \A c \in in : c \in known \ {h} /\ h \notin GpuBelow(c)
    BY <1>7 DEF Inputs
  <2>2. Attachments(h, gpu[h])' = Attachments(h, in)
    BY <1>1, <1>7, <2>1 DEF Attachments
  <2>3. ASSUME Sound(h)', NEW c \in in PROVE Sound(c)'
    <3>1. c \in Handle /\ c \notin Above(h)
      BY <1>5, <2>1 DEF Above
    <3>2. Sound(c)
      BY <2>3, <3>1 DEF Finish, Sound, Trusted
    <3> QED BY <1>1, <2>1, <3>1, <3>2 DEF Finish, Sound, Trusted
  <2> QED BY <1>3, <1>4, <2>2, <2>3 DEF AgreeOn
<1> QED BY <1>6, <1>7

(* Any other call leaves a handle that is not sound.                       *)
LEMMA FailedAgrees ==
  ASSUME NEW h \in known, NEW in, NEW ok \in BOOLEAN, NEW exact \in BOOLEAN,
         ~(ok /\ exact), Finish(h, in, ok, exact)
  PROVE  AgreeOn(h)'
BY DEF Finish, AgreeOn, Sound, Trusted

LEMMA AttachmentsThere ==
  ASSUME Inv, Wired, NEW h \in known, NEW update \in BOOLEAN, NEW in \in Inputs(h, update),
         NEW A \in Attached(h, in)
  PROVE  /\ A \subseteq Input \cup DOMAIN rtc
         /\ A \subseteq Input \cup {data[mirror[c]] : c \in known \ {h}}
         /\ A = Attachments(h, in) \ {Null} \/ MayFail
<1>1. CASE h \in Geometry
  <2>1. Attachments(h, in) \subseteq Input
    BY <1>1 DEF Attachments, Inputs
  <2> QED BY <1>1, <2>1, NullAssumption DEF Attached
<1>2. CASE h \notin Geometry
  <2>1. \A c \in in : data[mirror[c]] \in DOMAIN rtc \cup {Null}
    BY <1>2 DEF Inputs, Inv, Mirrored, Wired, Roots
  <2>2. Attachments(h, in) \subseteq DOMAIN rtc \cup {Null}
    BY <1>2, <2>1 DEF Attachments
  <2>3. Attachments(h, in) \subseteq {data[mirror[c]] : c \in known \ {h}}
    BY <1>2 DEF Attachments, Inputs
  <2> QED BY <1>2, <2>2, <2>3 DEF Attached
<1> QED BY <1>1, <1>2

LEMMA CountBounded ==
  ASSUME Held, NEW fails \in BOOLEAN, Count(fails), fails => MayFail
  PROVE  faults' \in 0 .. MaxFaults
BY BoundAssumption DEF Held, Count, MayFail

(* An object that lets go of its Embree scene takes nothing from another.  *)
LEMMA LetGoFacts ==
  ASSUME Inv, Wired, NEW d \in DOMAIN data
  PROVE  /\ DOMAIN LetGo(d) \subseteq DOMAIN rtc
         /\ \A c \in DOMAIN data \ {d} : data[c] \in DOMAIN LetGo(d) \cup {Null}
         /\ \A r \in DOMAIN LetGo(d) : /\ LetGo(d)[r] = rtc[r]
                                      /\ rtc[r] \subseteq Input \cup DOMAIN LetGo(d)
<1> DEFINE S == Roots([data EXCEPT ![d] = Null])
<1>1. S \subseteq DOMAIN rtc \cup {Null} /\ \A c \in DOMAIN data \ {d} : data[c] \in S
  BY DEF Wired, Roots
<1>2. LetGo(d) = Released(S, rtc)
  BY DEF LetGo
<1> HIDE DEF S
<1>3. /\ DOMAIN Released(S, rtc) \subseteq DOMAIN rtc
      /\ S \subseteq DOMAIN Released(S, rtc) \cup {Null}
      /\ \A r \in DOMAIN Released(S, rtc) :
           /\ Released(S, rtc)[r] = rtc[r]
           /\ rtc[r] \subseteq Input \cup DOMAIN Released(S, rtc)
  BY <1>1, ReleasedFacts DEF Wired
<1> QED BY <1>1, <1>2, <1>3

(* The Embree side of a build or an update that gets to its attachments.   *)
LEMMA BuildKeepsSync ==
  ASSUME Inv, Wired, Held, NEW h \in known, NEW update \in BOOLEAN,
         NEW in \in Inputs(h, update), Build(h, in, update)
  PROVE  Wired' /\ Held' /\ (AgreeInv => AgreeInv')
<1>1. gpu' = [gpu EXCEPT ![h] = in] /\ UNCHANGED <<mirror, registry, known>>
  BY DEF Build
<1>2. mirror[h] \in DOMAIN data /\ \A c \in known \ {h} : mirror[c] \in DOMAIN data /\ mirror[c] # mirror[h]
  BY DEF Inv, Mirrored
<1>3. Null \notin RtcScene
  BY NullAssumption DEF RtcScene
<1>4. CASE data[mirror[h]] = Null /\ KeepsScene(update)
  <2>1. UNCHANGED <<data, rtc>> /\ Finish(h, in, FALSE, FALSE) /\ Count(FALSE)
    BY <1>4 DEF Build
  <2>2. Wired'
    BY <2>1 DEF Wired, Roots
  <2>3. Held'
    BY <1>1, <2>1, CountBounded, FinishKeepsHeld
  <2>4. ASSUME AgreeInv, NEW g \in known PROVE AgreeOn(g)'
    BY <1>1, <2>1, <2>4, OthersAgree, FailedAgrees
  <2> QED BY <1>1, <2>2, <2>3, <2>4 DEF AgreeInv
<1>5. CASE ~(data[mirror[h]] = Null /\ KeepsScene(update))
  <2> DEFINE left == IF KeepsScene(update) THEN rtc ELSE LetGo(mirror[h])
             new == IF KeepsScene(update) THEN data[mirror[h]]
                    ELSE CHOOSE r \in RtcScene : r \notin DOMAIN left
  <2>1. PICK A \in Attached(h, in) : \E end \in Ends(h, in, A) :
          LET then == IF KeepsScene(update) THEN rtc[new] \cup A ELSE A
          IN /\ KeepsScene(update) \/ RtcScene \ DOMAIN left # {}
             /\ data' = [data EXCEPT ![mirror[h]] = new]
             /\ rtc' = Released(Roots(data'), With(left, [r \in {new} |-> then]))
             /\ Finish(h, in, end # "error", end = "done" /\ ~Mixes(h, update))
             /\ Count(end = "silent" \/ A # Attachments(h, in) \ {Null})
    BY <1>5 DEF Build
  <2> DEFINE then == IF KeepsScene(update) THEN rtc[new] \cup A ELSE A
             w == With(left, [r \in {new} |-> then])
  <2>2. PICK end \in Ends(h, in, A) :
          /\ KeepsScene(update) \/ RtcScene \ DOMAIN left # {}
          /\ data' = [data EXCEPT ![mirror[h]] = new]
          /\ rtc' = Released(Roots(data'), w)
          /\ Finish(h, in, end # "error", end = "done" /\ ~Mixes(h, update))
          /\ Count(end = "silent" \/ A # Attachments(h, in) \ {Null})
    BY <2>1
  <2>3. A \subseteq Input \cup {data[mirror[c]] : c \in known \ {h}} /\ A \subseteq Input \cup DOMAIN rtc
        /\ (A = Attachments(h, in) \ {Null} \/ MayFail)
    BY AttachmentsThere
  <2>4. /\ end = "done" => A = Attachments(h, in)
        /\ end = "silent" => A # Attachments(h, in) \ {Null} \/ MayFail
    BY <2>2 DEF Ends
  <2>5. /\ DOMAIN left \subseteq DOMAIN rtc
        /\ \A c \in DOMAIN data \ {mirror[h]} : data[c] \in DOMAIN left \cup {Null}
        /\ \A r \in DOMAIN left : left[r] = rtc[r] /\ rtc[r] \subseteq Input \cup DOMAIN left
    <3>1. CASE KeepsScene(update)
      BY <3>1 DEF Wired, Roots
    <3>2. CASE ~KeepsScene(update)
      <4>1. left = LetGo(mirror[h])
        BY <3>2
      <4> HIDE DEF left
      <4> QED BY <1>2, <4>1, LetGoFacts
    <3> QED BY <3>1, <3>2
  <2>6. /\ new \in RtcScene
        /\ IF KeepsScene(update) THEN new = data[mirror[h]] /\ new \in DOMAIN left ELSE new \notin DOMAIN left
    <3>1. CASE KeepsScene(update)
      BY <1>2, <1>5, <3>1 DEF Wired, Roots
    <3>2. CASE ~KeepsScene(update)
      <4>1. \E r \in RtcScene : r \notin DOMAIN left
        BY <2>2, <3>2
      <4>2. new = CHOOSE r \in RtcScene : r \notin DOMAIN left
        BY <3>2
      <4> HIDE DEF left, new
      <4> QED BY <3>2, <4>1, <4>2
    <3> QED BY <3>1, <3>2
  <2>7. /\ DOMAIN w = DOMAIN left \cup {new} /\ w[new] = then
        /\ \A r \in DOMAIN left : r # new => w[r] = left[r]
    <3> DEFINE e == [r \in {new} |-> then]
    <3>1. DOMAIN e = {new} /\ e[new] = then
      OBVIOUS
    <3> HIDE DEF e, new, then, left
    <3> QED BY <3>1 DEF With
  <2>8. then = IF KeepsScene(update) THEN rtc[new] \cup A ELSE A
    OBVIOUS
  <2>9. KeepsScene(update) => left = rtc
    OBVIOUS
  <2> HIDE DEF left, new, then, w
  <2>10. faults' \in 0 .. MaxFaults
    BY <2>2, <2>3, <2>4, CountBounded
  <2>11. A \subseteq Input \cup DOMAIN left
    <3>1. ASSUME NEW c \in known \ {h}, data[mirror[c]] \in DOMAIN rtc PROVE data[mirror[c]] \in DOMAIN left
      <4>1. Null \notin DOMAIN rtc
        BY <1>3 DEF Wired
      <4> QED BY <1>2, <2>5, <3>1, <4>1
    <3> QED BY <2>3, <3>1
  <2>12. /\ \A r \in DOMAIN w : w[r] \subseteq Input \cup DOMAIN w
         /\ DOMAIN w \subseteq RtcScene /\ new \in DOMAIN w
    <3>1. then \subseteq Input \cup DOMAIN left
      BY <2>5, <2>6, <2>8, <2>11
    <3> QED BY <2>5, <2>6, <2>7, <3>1 DEF Wired
  <2>13. \A c \in DOMAIN data \ {mirror[h]} : data[c] # new
    <3>1. new # Null
      BY <1>3, <2>6
    <3> QED BY <1>2, <2>5, <2>6, <3>1 DEF Wired
  <2>14. /\ Wired'
         /\ \A c \in DOMAIN data : data'[c] # Null => rtc'[data'[c]] = w[data'[c]]
    <3>1. Rewire(mirror[h], new, w)
      BY <2>2, <2>5, <2>7, <2>12, <2>13 DEF Rewire
    <3> QED BY <1>2, <3>1, Rewired
  <2>15. Held'
    BY <1>1, <2>2, <2>10, FinishKeepsHeld
  <2>16. ASSUME AgreeInv, NEW g \in known PROVE AgreeOn(g)'
    <3>1. \A c \in known \ {h} : data'[mirror[c]] = data[mirror[c]]
      BY <1>2, <2>2
    <3>2. \A c \in known \ {h} : data[mirror[c]] # Null => rtc'[data[mirror[c]]] = rtc[data[mirror[c]]]
      BY <1>2, <2>5, <2>7, <2>13, <2>14, <3>1
    <3>3. CASE g # h
      BY <1>1, <2>2, <2>16, <3>1, <3>2, <3>3, OthersAgree
    <3>4. CASE ~(end = "done" /\ ~Mixes(h, update))
      BY <2>2, <3>3, <3>4, FailedAgrees
    <3>5. CASE end = "done" /\ ~Mixes(h, update)
      <4>1. Finish(h, in, TRUE, TRUE)
        BY <2>2, <3>5 DEF Finish
      <4>2. data'[mirror[h]] = new /\ new # Null
        BY <1>2, <1>3, <2>2, <2>6
      <4>3. KeepsScene(update) => rtc[new] = {}
        BY <2>6, <3>5, <4>2 DEF KeepsScene, Mixes
      <4>4. rtc'[data'[mirror[h]]] = Attachments(h, in)
        BY <1>2, <2>4, <2>7, <2>8, <2>14, <3>5, <4>2, <4>3
      <4>5. AgreeOn(h)'
        BY <1>1, <3>1, <4>1, <4>2, <4>4, HandleAgrees
      <4> QED BY <3>3, <4>5
    <3> QED BY <3>4, <3>5
  <2> QED BY <1>1, <2>14, <2>15, <2>16 DEF AgreeInv
<1> QED BY <1>4, <1>5

LEMMA BuildFailsKeepsSync ==
  ASSUME Inv, Wired, Held, NEW h \in known, NEW update \in BOOLEAN,
         NEW in \in Inputs(h, update), BuildFails(h, in, update)
  PROVE  Wired' /\ Held' /\ (AgreeInv => AgreeInv')
<1>1. /\ UNCHANGED <<mirror, registry, known>> /\ Finish(h, in, FALSE, FALSE)
      /\ MayFail /\ Count(TRUE)
  BY DEF BuildFails
<1>2. mirror[h] \in DOMAIN data /\ \A c \in known \ {h} : mirror[c] \in DOMAIN data /\ mirror[c] # mirror[h]
  BY DEF Inv, Mirrored
<1>3. PICK v \in {in, NotBuilt} : gpu' = [gpu EXCEPT ![h] = v]
  BY DEF BuildFails
<1>4. Held'
  BY <1>1, <1>3, CountBounded, FinishKeepsHeld
<1>5. /\ Wired'
      /\ \A c \in known \ {h} :
           /\ data'[mirror[c]] = data[mirror[c]]
           /\ data[mirror[c]] # Null => rtc'[data[mirror[c]]] = rtc[data[mirror[c]]]
  <2>1. CASE UNCHANGED <<data, rtc>>
    BY <2>1 DEF Wired, Roots
  <2>2. CASE data' = [data EXCEPT ![mirror[h]] = Null] /\ rtc' = Released(Roots(data'), rtc)
    <3>1. /\ Wired'
          /\ \A c \in DOMAIN data : data'[c] # Null => rtc'[data'[c]] = rtc[data'[c]]
      <4>1. DOMAIN rtc \subseteq RtcScene /\ \A r \in DOMAIN rtc : rtc[r] \subseteq Input \cup DOMAIN rtc
        BY DEF Wired
      <4>2. \A c \in DOMAIN data : data[c] \in DOMAIN rtc \cup {Null}
        BY DEF Wired, Roots
      <4>3. Rewire(mirror[h], Null, rtc)
        BY <2>2, <4>1, <4>2 DEF Rewire
      <4> QED BY <1>2, <4>3, Rewired
    <3> QED BY <1>2, <2>2, <3>1
  <2> QED BY <2>1, <2>2 DEF BuildFails
<1>6. ASSUME AgreeInv, NEW g \in known PROVE AgreeOn(g)'
  BY <1>1, <1>3, <1>5, <1>6, OthersAgree, FailedAgrees
<1> QED BY <1>1, <1>4, <1>5, <1>6 DEF AgreeInv

LEMMA SyncUnchanged ==
  ASSUME UNCHANGED vars
  PROVE  /\ Wired => Wired'
         /\ Held => Held'
         /\ AgreeInv => AgreeInv'
<1>1. Wired => Wired'
  BY DEF vars, Wired, Roots
<1>2. Held => Held'
  BY DEF vars, Held, Content
<1>3. AgreeInv => AgreeInv'
  <2>1. UNCHANGED <<gpu, mirror, data, rtc, known, failed, stale, doubtful>>
    BY DEF vars
  <2>2. \A h : Content(h)' = Content(h) /\ (Sound(h)' <=> Sound(h))
    BY <2>1 DEF Content, Sound, Trusted
  <2>3. \A h : Attachments(h, gpu[h])' = Attachments(h, gpu[h])
    BY <2>1 DEF Attachments
  <2> QED BY <2>1, <2>2, <2>3 DEF AgreeInv, AgreeOn
<1> QED BY <1>1, <1>2, <1>3

LEMMA SyncStep ==
  Inv /\ Wired /\ Held /\ [Next]_vars => Wired' /\ Held' /\ (AgreeInv => AgreeInv')
BY CreateKeepsSync, DestroyKeepsSync, BuildKeepsSync, BuildFailsKeepsSync, SyncUnchanged DEF Next

LEMMA WiredAndHeld == Spec => [](Inv /\ Wired /\ Held)
<1>1. Init => Wired /\ Held
  BY SyncInit
<1>2. Inv /\ Wired /\ Held /\ [Next]_vars => Wired' /\ Held'
  BY SyncStep
<1> QED BY <1>1, <1>2, Invariant, PTL DEF Spec

-----------------------------------------------------------------------------
(* The Embree scenes at and below that of a sound handle are those of the  *)
(* handles at and below it.                                                *)
LEMMA AgreeBelow ==
  ASSUME Inv, Wired, Held, AgreeInv, NEW h \in known, Sound(h)
  PROVE  OnCpu(h) = OnGpu(h) \ Boxes
<1> DEFINE next == [x \in DOMAIN gpu |-> Content(x)]
           F == GpuFrom(h)
           B == Below({data[mirror[h]]} \ {Null}, rtc)
           scene(x) == data[mirror[x]]
           T == {x \in known : Sound(x)}
<1>1. DOMAIN next = DOMAIN gpu /\ \A x \in DOMAIN gpu : next[x] = Content(x)
  OBVIOUS
<1>2. F = Reach({h}, next)
  BY DEF GpuFrom
<1>3. ASSUME NEW x \in T
      PROVE  /\ x \in DOMAIN gpu /\ scene(x) \in DOMAIN rtc
             /\ rtc[scene(x)] = Attachments(x, gpu[x]) /\ gpu[x] = Content(x)
             /\ x \in Geometry => Content(x) \subseteq Input
             /\ x \notin Geometry => Content(x) \subseteq T
  <2>1. /\ x \in known /\ Sound(x) /\ AgreeOn(x) /\ x \in DOMAIN gpu /\ x \in Handle
        /\ data[mirror[x]] \in DOMAIN rtc \cup {Null}
    BY DEF AgreeInv, Inv, Mirrored, Wired, Roots
  <2>2. gpu[x] = Content(x)
    BY <2>1 DEF Sound, Trusted, Content
  <2>3. x \notin Geometry => Content(x) \subseteq known /\ known \subseteq Handle
    BY <2>1 DEF Held, Inv, Handle
  <2>4. x \in Geometry => Content(x) \subseteq Input
    BY <2>1, <2>2 DEF Held, Sound, Trusted
  <2> QED BY <2>1, <2>2, <2>3, <2>4 DEF AgreeOn
<1>4. h \in T /\ T \subseteq DOMAIN gpu
  BY DEF Inv
<1> HIDE DEF next
<1>5. /\ h \in F /\ F \subseteq DOMAIN gpu
      /\ \A x \in F : Content(x) \cap DOMAIN gpu \subseteq F
      /\ \A S \in SUBSET DOMAIN gpu :
           h \in S /\ (\A x \in S : Content(x) \cap DOMAIN gpu \subseteq S) => F \subseteq S
  <2>1. {h} \subseteq DOMAIN next
    BY <1>1, <1>4
  <2>2. \A S \in SUBSET DOMAIN gpu : (\A x \in S : Content(x) \cap DOMAIN gpu \subseteq S) => Closed(S, next)
    BY <1>1 DEF Closed
  <2>3. Closed(F, next) => \A x \in F : Content(x) \cap DOMAIN gpu \subseteq F
    <3>1. F \subseteq DOMAIN gpu
      BY <1>1, <1>2, <2>1, ReachFacts
    <3> QED BY <1>1, <3>1 DEF Closed
  <2> HIDE DEF F
  <2> QED BY <1>1, <1>2, <2>1, <2>2, <2>3, ReachFacts
<1>6. \A x \in Geometry : x \in T => Content(x) \cap Handle = {}
  BY <1>3, InputAssumption DEF Handle
<1>7. F \subseteq T
  <2>1. \A x \in T : Content(x) \cap DOMAIN gpu \subseteq T
    <3>1. DOMAIN gpu \subseteq Handle
      BY DEF Inv
    <3> HIDE DEF T
    <3> QED BY <1>3, <1>6, <3>1
  <2> QED BY <1>4, <1>5, <2>1
<1>8. scene(h) \in DOMAIN rtc /\ scene(h) # Null
  <2>1. Null \notin DOMAIN rtc
    BY NullAssumption DEF Wired, RtcScene
  <2> QED BY <1>3, <1>4, <2>1
<1>9. /\ scene(h) \in B /\ B \subseteq DOMAIN rtc
      /\ \A r \in B : rtc[r] \cap DOMAIN rtc \subseteq B
      /\ \A S \in SUBSET DOMAIN rtc :
           scene(h) \in S /\ (\A r \in S : rtc[r] \cap DOMAIN rtc \subseteq S) => B \subseteq S
  <2>1. B = Reach({scene(h)}, rtc) /\ {scene(h)} \subseteq DOMAIN rtc
    BY <1>8 DEF Below
  <2> HIDE DEF B
  <2> QED BY <2>1, ReachFacts DEF Closed
<1> HIDE DEF F, B, T
<1>10. ASSUME NEW x \in F
       PROVE  /\ x \in Geometry => rtc[scene(x)] = Content(x) \ Boxes /\ Content(x) \subseteq Input
              /\ x \notin Geometry => /\ rtc[scene(x)] = {scene(c) : c \in Content(x)}
                                      /\ Content(x) \subseteq F /\ Content(x) \subseteq Handle
  <2>1. x \in T
    BY <1>7
  <2>2. x \notin Geometry => Content(x) \subseteq F
    BY <1>3, <1>4, <1>5, <2>1
  <2>3. F \subseteq Handle
    BY <1>5 DEF Inv
  <2> QED BY <1>3, <2>1, <2>2, <2>3 DEF Attachments
<1>11. Input \cap DOMAIN rtc = {}
  BY InputAssumption DEF Wired, RtcScene
<1>12. B \subseteq {scene(x) : x \in F}
  <2> DEFINE S == {scene(x) : x \in F}
  <2>1. S \in SUBSET DOMAIN rtc /\ scene(h) \in S
    BY <1>3, <1>5, <1>7
  <2>2. ASSUME NEW x \in F PROVE rtc[scene(x)] \cap DOMAIN rtc \subseteq S
    BY <1>10, <1>11
  <2>3. \A r \in S : rtc[r] \cap DOMAIN rtc \subseteq S
    BY <2>2
  <2> HIDE DEF S, scene
  <2>4. B \subseteq S
    BY <1>9, <2>1, <2>3
  <2> QED BY <2>4 DEF S
<1>13. \A x \in F : scene(x) \in B
  <2> DEFINE S == {x \in F : scene(x) \in B}
  <2>1. ASSUME NEW x \in S PROVE Content(x) \cap DOMAIN gpu \subseteq S
    <3>1. x \in F /\ scene(x) \in B
      OBVIOUS
    <3>2. CASE x \in Geometry
      BY <1>6, <1>7, <3>1, <3>2 DEF Inv
    <3>3. CASE x \notin Geometry
      <4>1. \A c \in Content(x) : scene(c) \in DOMAIN rtc /\ c \in F
        BY <1>3, <1>7, <1>10, <3>1, <3>3
      <4>2. \A c \in Content(x) : scene(c) \in B
        BY <1>9, <1>10, <3>1, <3>3, <4>1
      <4> QED BY <4>1, <4>2
    <3> QED BY <3>2, <3>3
  <2>2. h \in S /\ S \in SUBSET DOMAIN gpu
    BY <1>5, <1>9
  <2> HIDE DEF S
  <2>3. F \subseteq S
    BY <1>5, <2>1, <2>2
  <2> QED BY <2>3 DEF S
<1>14. OnCpu(h) = UNION {rtc[r] \cap Input : r \in B}
  BY DEF OnCpu, B
<1>15. OnGpu(h) = (UNION {Content(x) : x \in F}) \cap Input
  <2>1. GpuBelow(h) = UNION {Content(x) : x \in F}
    BY DEF GpuBelow, F
  <2> QED BY <2>1 DEF OnGpu
<1>16. \A x \in F : rtc[scene(x)] \cap Input = (Content(x) \cap Input) \ Boxes
  <2> SUFFICES ASSUME NEW x \in F PROVE rtc[scene(x)] \cap Input = (Content(x) \cap Input) \ Boxes
    OBVIOUS
  <2>1. CASE x \in Geometry
    BY <1>10, <2>1
  <2>2. CASE x \notin Geometry
    <3>1. rtc[scene(x)] \subseteq DOMAIN rtc
      BY <1>3, <1>7, <1>10, <2>2
    <3>2. Content(x) \cap Input = {}
      BY <1>10, <2>2, InputAssumption DEF Handle
    <3> QED BY <1>11, <3>1, <3>2
  <2> QED BY <2>1, <2>2
<1>17. \A i : i \in OnCpu(h) <=> \E x \in F : i \in rtc[scene(x)] \cap Input
  BY <1>12, <1>13, <1>14
<1> HIDE DEF scene
<1>18. \A i : i \in OnGpu(h) <=> \E x \in F : i \in Content(x) \cap Input
  BY <1>15
<1>19. \A i : i \in OnCpu(h) <=> i \in OnGpu(h) \ Boxes
  BY <1>16, <1>17, <1>18
<1> QED BY <1>19

(* The two sides are well typed: the maps lead to objects that exist, and  *)
(* no Embree scene has an attachment that was freed.                       *)
THEOREM MirrorTypeCorrect == Spec => []TypeOK
<1>1. Inv /\ Wired /\ Held => TypeOK
  BY DEF Inv, Wired, Held, RegistryInv, TypeOK
<1> QED BY <1>1, WiredAndHeld, PTL

(* The two sides of a hybrid trace see the same primitives, at any depth   *)
(* of instances and after any failures, wherever calls have returned no    *)
(* error, no unchecked Embree call has failed and no build has added to an *)
(* Embree scene that held something.                                       *)
THEOREM SidesAlwaysAgree == Spec => []SidesAgree
<1>1. Init => AgreeInv
  BY SyncInit
<1>2. Inv /\ Wired /\ Held /\ AgreeInv /\ [Next]_vars => AgreeInv'
  BY SyncStep
<1>3. Inv /\ Wired /\ Held /\ AgreeInv => SidesAgree
  BY AgreeBelow DEF SidesAgree
<1> QED BY <1>1, <1>2, <1>3, WiredAndHeld, PTL DEF Spec

-----------------------------------------------------------------------------
(* Tracing: for any number of contexts and threads, any width of the       *)
(* integers, and any size of blocks.                                       *)
(* The split.                                                              *)

LEMMA ShareTyped ==
  ASSUME NEW n, NEW f
  PROVE  Share(n, f) \subseteq Uint
<1> DEFINE share == RoundFloat(RoundFloat(n) * f) \div Unit
<1>1. CASE f = Wild
  BY <1>1 DEF Share
<1>2. CASE f # Wild
  <2>1. Share(n, f) = IF share \in Uint THEN {share} ELSE Uint
    BY <1>2 DEF Share
  <2> HIDE DEF share
  <2> QED BY <2>1
<1> QED BY <1>1, <1>2

LEMMA SplitSound ==
  ASSUME NEW n \in Uint, NEW share \in Uint, NEW m \in Uint
  PROVE  LET gpuPart == computeGpuRayCount(n, share, m)
         IN  /\ gpuPart \in 0 .. n
             /\ gpuPart \in Uint
             /\ n - gpuPart = 0 \/ n - gpuPart >= m \/ n <= m
BY WidthAssumption DEF computeGpuRayCount, Uint

(* A grid that is not empty covers its rays: a sum that wraps around       *)
(* leaves less than a block.                                               *)
LEMMA GridCovers ==
  ASSUME NEW n \in Uint, gridSize(n) > 0
  PROVE  Traced(n) = 0 .. n - 1
<1> DEFINE sum == n + blockSize - 1
           low == sum % Width
<1>1. Width \in Nat /\ blockSize \in Nat /\ blockSize > 0 /\ blockSize < Width
      /\ n \in Nat /\ n < Width
  BY WidthAssumption DEF Uint
<1>2. ASSUME NEW a \in Nat, NEW b \in Nat, b > 0
      PROVE  /\ a \div b \in Nat /\ a % b \in 0 .. b - 1
             /\ a = b * (a \div b) + (a % b)
  <2>1. a \div b \in Nat
    BY <1>2
  <2>2. a % b \in 0 .. b - 1
    BY <1>2
  <2>3. a = b * (a \div b) + (a % b)
    BY <1>2
  <2> QED BY <2>1, <2>2, <2>3
<1>3. sum \in Nat /\ sum < 2 * Width
  BY <1>1
<1>4. low = sum
  <2>1. CASE sum < Width
    BY <2>1, <1>1, <1>3
  <2>2. CASE sum >= Width
    <3>1. low = sum - Width
      BY <2>2, <1>1, <1>3
    <3>2. low \in Nat /\ low < blockSize
      BY <3>1, <2>2, <1>1
    <3>3. low \div blockSize = 0
      BY <3>2, <1>1
    <3> QED BY <3>3 DEF gridSize
  <2> QED BY <2>1, <2>2, <1>1, <1>3
<1>5. /\ gridSize(n) \in Nat
      /\ sum = blockSize * gridSize(n) + (sum % blockSize)
      /\ sum % blockSize \in 0 .. blockSize - 1
  BY <1>1, <1>2, <1>3, <1>4 DEF gridSize
<1>6. gridSize(n) * blockSize \in Nat /\ gridSize(n) * blockSize >= n
  <2>1. gridSize(n) * blockSize = blockSize * gridSize(n)
    BY <1>1, <1>5
  <2>2. blockSize * gridSize(n) \in Nat
    BY <1>1, <1>5
  <2> HIDE DEF sum
  <2>3. sum = n + blockSize - 1
    BY DEF sum
  <2>4. blockSize * gridSize(n) = sum - (sum % blockSize)
    BY <1>5, <1>3, <2>2
  <2> QED BY <2>1, <2>2, <2>3, <2>4, <1>1, <1>5
<1> QED BY <1>1, <1>6 DEF Traced

-----------------------------------------------------------------------------
(* Types.                                                                  *)

(* A call that is under way is one of a context that exists.               *)
InContext ==
  \A t \in Thread : pc[t] \notin {"idle", "done"} => call[t].context \in created

TypeInv == TraceTypeOK /\ InContext

LEMMA NoCallTyped == NoCall \in Calls
<1>1. 0 \in Uint
  BY WidthAssumption DEF Uint
<1>2. (CHOOSE k \in Kernel : TRUE) \in Kernel
  BY KernelAssumption
<1> QED BY <1>1, <1>2 DEF NoCall, Calls

LEMMA CountsStayTyped ==
  ASSUME NEW A, NEW B, NEW f \in [A -> [B -> Nat]], NEW a \in A, NEW b \in B
  PROVE  [f EXCEPT ![a][b] = @ + 1] \in [A -> [B -> Nat]]
<1>1. [f[a] EXCEPT ![b] = @ + 1] \in [B -> Nat]
  OBVIOUS
<1> QED BY <1>1

LEMMA TypeInit == TraceInit => TypeInv
BY NoCallTyped, NoneAssumption DEF TraceInit, TypeInv, TraceTypeOK, InContext

LEMMA TypeNext == TypeInv /\ [TraceNext]_traceVars => TypeInv'
<1> SUFFICES ASSUME TypeInv, [TraceNext]_traceVars
             PROVE  TypeInv'
  OBVIOUS
<1> USE DEF TypeInv, TraceTypeOK, InContext
<1>1. ASSUME NEW t \in Thread, NEW c \in Context, CreateContext(t, c)
      PROVE  TypeInv'
  BY <1>1 DEF CreateContext, Created, NotCreated, Return
<1>2. ASSUME NEW t \in Thread, NEW c \in Context, OtherCall(t, c)
      PROVE  TypeInv'
  BY <1>2 DEF OtherCall
<1>3. ASSUME NEW t \in Thread, Start(t)
      PROVE  TypeInv'
  <2>1. PICK c \in created, k \in Kernel, own \in BOOLEAN, s \in Stream \cup {NullStream},
             n \in RayCount[t], f \in Fraction, m \in MinCpuBatch :
          \E gpuPart \in {computeGpuRayCount(n, share, m) : share \in Share(n, f)} :
            /\ call' = [call EXCEPT ![t] =
                          [context |-> c, kernel |-> k, own |-> own, stream |-> s,
                           rayCount |-> n, gpuCount |-> gpuPart, minCpuBatch |-> m]]
            /\ Goto(t, IF gpuPart > 0 THEN "resolve" ELSE "cpu")
    BY <1>3, ZenonT(60) DEF Start
  <2>2. n \in Uint /\ m \in Uint
    BY CountAssumption, BatchAssumption DEF Uint
  <2>3. PICK gpuPart \in {computeGpuRayCount(n, share, m) : share \in Share(n, f)} :
          /\ call' = [call EXCEPT ![t] =
                        [context |-> c, kernel |-> k, own |-> own, stream |-> s,
                         rayCount |-> n, gpuCount |-> gpuPart, minCpuBatch |-> m]]
          /\ Goto(t, IF gpuPart > 0 THEN "resolve" ELSE "cpu")
    BY <2>1
  <2>4. gpuPart \in Uint
    BY <2>2, SplitSound, ShareTyped
  <2>5. [context |-> c, kernel |-> k, own |-> own, stream |-> s, rayCount |-> n,
         gpuCount |-> gpuPart, minCpuBatch |-> m] \in Calls
    BY <2>2, <2>4 DEF Calls
  <2>6. call' \in [Thread -> Calls]
    BY <2>3, <2>5
  <2>7. pc' \in [Thread -> {"idle", "resolve", "compile", "launch", "sync", "cpu", "done"}]
        /\ pc'[t] # "compile" /\ (\A u \in Thread \ {t} : pc'[u] = pc[u])
        /\ UNCHANGED result
    BY <2>3 DEF Goto
  <2>8. call'[t].context = c /\ \A u \in Thread \ {t} : call'[u] = call[u]
    BY <2>3
  <2> QED BY <1>3, <2>6, <2>7, <2>8 DEF Start
<1>4. ASSUME NEW t \in Thread, Refuse(t) \/ Resolved(t) \/ StartCompile(t)
      PROVE  TypeInv'
  <2>1. CASE Refuse(t)
    BY <2>1 DEF Refuse, Return
  <2>2. CASE Resolved(t)
    BY <2>2 DEF Resolved, Keep, Goto
  <2>3. CASE StartCompile(t)
    <3>1. mutex[call[t].context] = NoThread /\ mutex' = [mutex EXCEPT ![call[t].context] = t]
          /\ call' = call /\ pc' = [pc EXCEPT ![t] = "compile"]
          /\ call[t].context \in Context
      BY <2>3 DEF StartCompile, MayLock, Keep, Goto
    <3>2. \A u \in Thread : pc'[u] = "compile" => mutex'[call'[u].context] = u
      BY <3>1, NoneAssumption
    <3> QED BY <2>3, <3>1, <3>2 DEF StartCompile, Keep, Goto
  <2> QED BY <1>4, <2>1, <2>2, <2>3
<1>5. ASSUME NEW t \in Thread, Compile(t)
      PROVE  TypeInv'
  <2> DEFINE c == call[t].context
             k == call[t].kernel
  <2>1. c \in created /\ c \in Context /\ k \in Kernel /\ pc[t] = "compile" /\ mutex[c] = t
    BY <1>5 DEF Compile, Calls
  <2>2. current' \in [Thread -> created \cup {NoContext}]
    BY <1>5, <2>1 DEF Compile
  <2>3. m_batchKernels' \in [Context -> SUBSET Kernel]
    <3>1. \/ m_batchKernels' = m_batchKernels
          \/ m_batchKernels' = [m_batchKernels EXCEPT ![c] = @ \cup {k}]
      BY <1>5 DEF Compile
    <3>2. m_batchKernels[c] \cup {k} \in SUBSET Kernel
      BY <2>1
    <3> QED BY <2>1, <3>1, <3>2
  <2>4. compiled' \in [Context -> [Kernel -> Nat]]
    <3>1. compiled' = compiled \/ compiled' = [compiled EXCEPT ![c][k] = @ + 1]
      BY <1>5 DEF Compile
    <3> HIDE DEF c, k
    <3>2. [compiled EXCEPT ![c][k] = @ + 1] \in [Context -> [Kernel -> Nat]]
      BY ONLY compiled \in [Context -> [Kernel -> Nat]], <2>1, CountsStayTyped
    <3>3. compiled \in [Context -> [Kernel -> Nat]]
      OBVIOUS
    <3> QED BY ONLY <3>1, <3>2, <3>3
  <2>5. mutex' \in [Context -> Thread \cup {NoThread}]
    BY <1>5, <2>1 DEF Compile
  <2>6. /\ pc' \in [Thread -> {"idle", "resolve", "compile", "launch", "sync", "cpu", "done"}]
        /\ pc'[t] # "compile" /\ \A u \in Thread \ {t} : pc'[u] = pc[u]
        /\ result' \in [Thread -> {"none", "success", "invalid", "internal"}]
    BY <1>5 DEF Compile, Goto, Return
  <2>7. \A u \in Thread : pc'[u] = "compile" => mutex'[call[u].context] = u
    BY <1>5, <2>1, <2>6 DEF Compile
  <2>8. UNCHANGED <<created, call, inflight, gpuHits, cpuHits>>
    BY <1>5 DEF Compile, Keep
  <2> QED BY <2>1, <2>2, <2>3, <2>4, <2>5, <2>6, <2>7, <2>8
<1>6. ASSUME NEW t \in Thread, Launch(t) \/ Sync(t)
      PROVE  TypeInv'
  <2>1. /\ pc' \in [Thread -> {"idle", "resolve", "compile", "launch", "sync", "cpu", "done"}]
        /\ pc'[t] # "compile" /\ \A u \in Thread \ {t} : pc'[u] = pc[u]
        /\ pc[t] \notin {"idle", "done"}
    BY <1>6 DEF Launch, Sync, Goto, Return
  <2>2. result' \in [Thread -> {"none", "success", "invalid", "internal"}]
    BY <1>6 DEF Launch, Sync, Goto, Return
  <2>3. inflight' \subseteq Thread
    BY <1>6 DEF Launch, Sync
  <2>4. UNCHANGED <<created, current, m_batchKernels, mutex, compiled, call, gpuHits, cpuHits>>
    BY <1>6 DEF Launch, Sync
  <2> QED BY <2>1, <2>2, <2>3, <2>4
<1>7. ASSUME NEW t \in Thread, TraceBatch(t)
      PROVE  TypeInv'
  <2>1. call[t].gpuCount \in Uint /\ call[t].rayCount \in Uint
    BY DEF Calls
  <2>2. call[t].gpuCount .. call[t].rayCount - 1 \subseteq Uint
    BY <2>1, WidthAssumption DEF Uint
  <2> QED BY <1>7, <2>2 DEF TraceBatch, Return
<1>8. ASSUME NEW t \in Thread, Leave(t)
      PROVE  TypeInv'
  BY <1>8, NoCallTyped DEF Leave
<1>9. ASSUME NEW t \in Thread, Run(t)
      PROVE  TypeInv'
  <2>1. call[t].gpuCount \in Uint
    BY DEF Calls
  <2>2. Traced(call[t].gpuCount) \subseteq Uint
    BY <2>1, WidthAssumption DEF Traced, Uint
  <2> QED BY <1>9, <2>2 DEF Run
<1>10. CASE UNCHANGED traceVars
  BY <1>10 DEF traceVars
<1> QED BY <1>1, <1>2, <1>3, <1>4, <1>5, <1>6, <1>7, <1>8, <1>9, <1>10 DEF TraceNext, Dispatch

(* The state is well typed, and a thread that compiles holds the mutex, in *)
(* any number of contexts and threads.                                     *)
THEOREM TraceTypeCorrect == TraceSpec => []TraceTypeOK
<1>1. TraceSpec => []TypeInv
  BY TypeInit, TypeNext, PTL DEF TraceSpec
<1>2. TypeInv => TraceTypeOK
  BY DEF TypeInv
<1> QED BY <1>1, <1>2, PTL

-----------------------------------------------------------------------------
(* The cache of kernels.                                                   *)

(* Only a kernel that is not cached is being compiled.                     *)
Missing ==
  \A t \in Thread : pc[t] = "compile" => call[t].kernel \notin m_batchKernels[call[t].context]

CacheInv == CompiledOnce /\ Missing

LEMMA CacheInit == TraceInit => CacheInv
BY DEF TraceInit, CacheInv, CompiledOnce, Missing

LEMMA CacheNext == TypeInv /\ CacheInv /\ [TraceNext]_traceVars => CacheInv'
<1> SUFFICES ASSUME TypeInv, CacheInv, [TraceNext]_traceVars
             PROVE  CacheInv'
  OBVIOUS
<1> USE DEF CacheInv
<1>1. ASSUME UNCHANGED <<compiled, m_batchKernels>>,
             \A t \in Thread : pc'[t] = "compile" => pc[t] = "compile" /\ call'[t] = call[t]
      PROVE  CacheInv'
  BY <1>1 DEF CompiledOnce, Missing
<1>2. ASSUME NEW t \in Thread, NEW c \in Context, CreateContext(t, c) \/ OtherCall(t, c)
      PROVE  CacheInv'
  BY <1>1, <1>2 DEF CreateContext, OtherCall, Created, NotCreated, Return, TypeInv, TraceTypeOK
<1>3. ASSUME NEW t \in Thread, Start(t)
      PROVE  CacheInv'
  <2>1. /\ UNCHANGED <<compiled, m_batchKernels>>
        /\ \A u \in Thread \ {t} : pc'[u] = pc[u] /\ call'[u] = call[u]
        /\ pc'[t] # "compile"
    BY <1>3 DEF Start, Goto, TypeInv, TraceTypeOK
  <2> QED BY <1>1, <2>1
<1>4. ASSUME NEW t \in Thread,
             \/ Refuse(t) \/ Resolved(t) \/ Launch(t) \/ Sync(t) \/ TraceBatch(t)
             \/ Leave(t) \/ Run(t)
      PROVE  CacheInv'
  <2>1. /\ UNCHANGED <<compiled, m_batchKernels>>
        /\ \A u \in Thread \ {t} : pc'[u] = pc[u] /\ call'[u] = call[u]
        /\ pc'[t] = "compile" => pc[t] = "compile" /\ call'[t] = call[t]
    BY <1>4 DEF Refuse, Resolved, Launch, Sync, TraceBatch, Leave, Run, Keep, Goto, Return,
                TypeInv, TraceTypeOK
  <2> QED BY <1>1, <2>1
<1>5. ASSUME NEW t \in Thread, StartCompile(t)
      PROVE  CacheInv'
  BY <1>5 DEF StartCompile, Keep, Goto, TypeInv, TraceTypeOK, CompiledOnce, Missing
<1>6. ASSUME NEW t \in Thread, Compile(t)
      PROVE  CacheInv'
  <2> DEFINE c == call[t].context
             k == call[t].kernel
  <2>1. c \in Context /\ k \in Kernel /\ k \notin m_batchKernels[c]
    BY <1>6 DEF Compile, TypeInv, TraceTypeOK, InContext, Missing, Calls
  <2>2. \A u \in Thread \ {t} : pc[u] = "compile" => call[u].context # c
    BY <1>6 DEF Compile, TypeInv, TraceTypeOK
  <2>3. /\ pc'[t] # "compile" /\ UNCHANGED call
        /\ \A u \in Thread \ {t} : pc'[u] = pc[u]
    BY <1>6 DEF Compile, Keep, Goto, Return, TypeInv, TraceTypeOK
  <2>4. CASE UNCHANGED <<compiled, m_batchKernels>>
    BY <2>3, <2>4, <1>1
  <2>5. CASE /\ compiled' = [compiled EXCEPT ![c][k] = @ + 1]
             /\ m_batchKernels' = [m_batchKernels EXCEPT ![c] = @ \cup {k}]
    <3> HIDE DEF c, k
    <3>0. compiled[c][k] \in Nat
      BY <2>1 DEF TypeInv, TraceTypeOK
    <3>1. compiled[c][k] = 0
      BY <3>0, <2>1 DEF CompiledOnce
    <3>2. /\ compiled'[c][k] = 1
          /\ \A d \in Context, l \in Kernel :
               d # c \/ l # k => compiled'[d][l] = compiled[d][l]
      BY <2>1, <2>5, <3>1 DEF TypeInv, TraceTypeOK
    <3>3. /\ m_batchKernels'[c] = m_batchKernels[c] \cup {k}
          /\ \A d \in Context : d # c => m_batchKernels'[d] = m_batchKernels[d]
      BY <2>1, <2>5 DEF TypeInv, TraceTypeOK
    <3>4. CompiledOnce'
      BY <2>1, <3>2, <3>3 DEF CompiledOnce
    <3>5. Missing'
      BY <2>2, <2>3, <3>3 DEF Missing, TypeInv, TraceTypeOK, InContext
    <3> QED BY <3>4, <3>5
  <2> QED BY <1>6, <2>4, <2>5 DEF Compile
<1>7. CASE UNCHANGED traceVars
  BY <1>1, <1>7 DEF traceVars
<1> QED BY <1>2, <1>3, <1>4, <1>5, <1>6, <1>7 DEF TraceNext, Dispatch

(* However many threads ask for a kernel at the same time, and however     *)
(* often its compilation fails, a context compiles it at most once.        *)
THEOREM KernelsCompiledOnce == TraceSpec => []CompiledOnce
<1>1. TraceSpec => [](TypeInv /\ CacheInv)
  BY TypeInit, TypeNext, CacheInit, CacheNext, PTL DEF TraceSpec
<1>2. CacheInv => CompiledOnce
  BY DEF CacheInv
<1> QED BY <1>1, <1>2, PTL

-----------------------------------------------------------------------------
(* The shares and the hits.                                                *)

LEMMA SharesInit == TraceInit => ShareSound
BY DEF TraceInit, ShareSound, NoCall

LEMMA SharesNext == TypeInv /\ ShareSound /\ [TraceNext]_traceVars => ShareSound'
<1> SUFFICES ASSUME TypeInv, ShareSound, [TraceNext]_traceVars
             PROVE  ShareSound'
  OBVIOUS
<1>1. ASSUME NEW t \in Thread, Start(t)
      PROVE  ShareSound'
  <2>1. PICK c \in created, k \in Kernel, own \in BOOLEAN, s \in Stream \cup {NullStream},
             n \in RayCount[t], f \in Fraction, m \in MinCpuBatch :
          \E gpuPart \in {computeGpuRayCount(n, share, m) : share \in Share(n, f)} :
            call' = [call EXCEPT ![t] =
                      [context |-> c, kernel |-> k, own |-> own, stream |-> s,
                       rayCount |-> n, gpuCount |-> gpuPart, minCpuBatch |-> m]]
    BY <1>1, ZenonT(60) DEF Start
  <2>2. n \in Uint /\ m \in Uint
    BY CountAssumption, BatchAssumption DEF Uint
  <2>3. PICK gpuPart \in {computeGpuRayCount(n, share, m) : share \in Share(n, f)} :
          call' = [call EXCEPT ![t] =
                    [context |-> c, kernel |-> k, own |-> own, stream |-> s,
                     rayCount |-> n, gpuCount |-> gpuPart, minCpuBatch |-> m]]
    BY <2>1
  <2>4. gpuPart \in 0 .. n /\ (n - gpuPart = 0 \/ n - gpuPart >= m \/ n <= m)
    BY <2>2, SplitSound, ShareTyped
  <2>5. /\ call'[t].rayCount = n /\ call'[t].gpuCount = gpuPart /\ call'[t].minCpuBatch = m
        /\ \A u \in Thread \ {t} : call'[u] = call[u]
    BY <2>3 DEF TypeInv, TraceTypeOK
  <2> QED BY <2>2, <2>4, <2>5 DEF ShareSound, Uint
<1>2. ASSUME NEW t \in Thread, Leave(t)
      PROVE  ShareSound'
  BY <1>2 DEF Leave, ShareSound, NoCall, TypeInv, TraceTypeOK
<1>3. CASE UNCHANGED call
  BY <1>3 DEF ShareSound
<1> QED
  BY <1>1, <1>2, <1>3 DEF TraceNext, Dispatch, CreateContext, OtherCall, Refuse, Resolved, StartCompile,
                          Compile, Launch, Sync, TraceBatch, Run, Keep, traceVars

(* For every size of batch, fraction and minimal CPU batch, and whatever   *)
(* an undefined conversion gives, the split is sound.                      *)
THEOREM SharesAlwaysSound == TraceSpec => []ShareSound
BY TypeInit, TypeNext, SharesInit, SharesNext, PTL DEF TraceSpec

(* How far the hits of a thread are.  A call that waits does so in its own *)
(* context, and for a kernel whose grid is not empty.                      *)
Untouched(t) == t \notin inflight /\ gpuHits[t] = {} /\ cpuHits[t] = {} /\ result[t] = "none"

GpuPartDone(t) == t \notin inflight /\ gpuHits[t] = 0 .. call[t].gpuCount - 1

Phase(t) ==
  /\ pc[t] = "idle" => call[t] = NoCall /\ Untouched(t)
  /\ pc[t] \in {"resolve", "compile", "launch"} => Untouched(t)
  /\ pc[t] = "sync" =>
       /\ current[t] = call[t].context
       /\ gridSize(call[t].gpuCount) > 0
       /\ cpuHits[t] = {} /\ result[t] = "none"
       /\ IF t \in inflight THEN gpuHits[t] = {} ELSE GpuPartDone(t)
  /\ pc[t] = "cpu" => GpuPartDone(t) /\ cpuHits[t] = {} /\ result[t] = "none"
  /\ pc[t] = "done" =>
       /\ t \notin inflight
       /\ IF result[t] = "success"
            THEN /\ GpuPartDone(t)
                 /\ cpuHits[t] = call[t].gpuCount .. call[t].rayCount - 1
            ELSE /\ gpuHits[t] \in {{}, 0 .. call[t].gpuCount - 1}
                 /\ cpuHits[t] = {}

HitsInv == \A t \in Thread : Phase(t)

(* A thread that takes no part in a step keeps its phase.                  *)
LEMMA PhaseKept ==
  ASSUME NEW t \in Thread, Phase(t),
         pc'[t] = pc[t], call'[t] = call[t], current'[t] = current[t],
         gpuHits'[t] = gpuHits[t], cpuHits'[t] = cpuHits[t], result'[t] = result[t],
         t \in inflight' <=> t \in inflight
  PROVE  Phase(t)'
BY DEF Phase, Untouched, GpuPartDone

LEMMA HitsInit == TraceInit => HitsInv
BY DEF TraceInit, HitsInv, Phase, Untouched

LEMMA HitsNext == TypeInv /\ HitsInv /\ [TraceNext]_traceVars => HitsInv'
<1> SUFFICES ASSUME TypeInv, HitsInv, [TraceNext]_traceVars
             PROVE  HitsInv'
  OBVIOUS
<1>1. \A t \in Thread : Phase(t) /\ pc[t] \in {"idle", "resolve", "compile", "launch", "sync", "cpu", "done"}
  BY DEF HitsInv, TypeInv, TraceTypeOK
<1>2. ASSUME NEW t \in Thread, Phase(t)',
             \A u \in Thread \ {t} :
               /\ pc'[u] = pc[u] /\ call'[u] = call[u] /\ current'[u] = current[u]
               /\ gpuHits'[u] = gpuHits[u] /\ cpuHits'[u] = cpuHits[u]
               /\ result'[u] = result[u] /\ (u \in inflight' <=> u \in inflight)
      PROVE  HitsInv'
  BY <1>1, <1>2, PhaseKept DEF HitsInv
<1> USE DEF TypeInv, TraceTypeOK
<1>3. ASSUME NEW t \in Thread, NEW c \in Context, CreateContext(t, c)
      PROVE  HitsInv'
  <2>1. 0 .. NoCall.gpuCount - 1 = {} /\ NoCall.gpuCount .. NoCall.rayCount - 1 = {}
    BY DEF NoCall
  <2>2. call'[t] = NoCall /\ t \notin inflight' /\ gpuHits'[t] = {} /\ cpuHits'[t] = {}
        /\ pc'[t] = "done"
    BY <1>1, <1>3 DEF CreateContext, Created, NotCreated, Return, Phase, Untouched
  <2>3. Phase(t)'
    BY <2>1, <2>2 DEF Phase, Untouched, GpuPartDone
  <2> QED BY <1>2, <1>3, <2>3 DEF CreateContext, Created, NotCreated, Return
<1>4. ASSUME NEW t \in Thread, NEW c \in Context, OtherCall(t, c)
      PROVE  HitsInv'
  <2>1. Phase(t)'
    BY <1>1, <1>4 DEF OtherCall, Phase, Untouched
  <2> QED BY <1>2, <1>4, <2>1 DEF OtherCall
<1>5. ASSUME NEW t \in Thread, Start(t)
      PROVE  HitsInv'
  <2>1. PICK c \in created, k \in Kernel, own \in BOOLEAN, s \in Stream \cup {NullStream},
             n \in RayCount[t], f \in Fraction, m \in MinCpuBatch :
          \E gpuPart \in {computeGpuRayCount(n, share, m) : share \in Share(n, f)} :
            /\ call' = [call EXCEPT ![t] =
                          [context |-> c, kernel |-> k, own |-> own, stream |-> s,
                           rayCount |-> n, gpuCount |-> gpuPart, minCpuBatch |-> m]]
            /\ Goto(t, IF gpuPart > 0 THEN "resolve" ELSE "cpu")
    BY <1>5, ZenonT(60) DEF Start
  <2>2. n \in Uint /\ m \in Uint
    BY CountAssumption, BatchAssumption DEF Uint
  <2>3. PICK gpuPart \in {computeGpuRayCount(n, share, m) : share \in Share(n, f)} :
          /\ call' = [call EXCEPT ![t] =
                        [context |-> c, kernel |-> k, own |-> own, stream |-> s,
                         rayCount |-> n, gpuCount |-> gpuPart, minCpuBatch |-> m]]
          /\ Goto(t, IF gpuPart > 0 THEN "resolve" ELSE "cpu")
    BY <2>1
  <2>4. gpuPart \in Uint
    BY <2>2, SplitSound, ShareTyped
  <2>5. gpuPart > 0 \/ 0 .. gpuPart - 1 = {}
    BY <2>4 DEF Uint
  <2>6. call'[t].gpuCount = gpuPart /\ pc'[t] = (IF gpuPart > 0 THEN "resolve" ELSE "cpu")
        /\ \A u \in Thread \ {t} : pc'[u] = pc[u] /\ call'[u] = call[u]
    BY <2>3 DEF Goto
  <2>7. UNCHANGED <<current, inflight, gpuHits, cpuHits, result>> /\ Untouched(t)
    BY <1>1, <1>5, <2>3 DEF Start, Phase, Goto
  <2>8. Phase(t)'
    BY <2>5, <2>6, <2>7 DEF Phase, Untouched, GpuPartDone
  <2> QED BY <1>2, <2>6, <2>7, <2>8
<1>6. ASSUME NEW t \in Thread, Refuse(t)
      PROVE  HitsInv'
  <2>1. Phase(t)'
    BY <1>1, <1>6 DEF Refuse, Return, Phase, Untouched
  <2> QED BY <1>2, <1>6, <2>1 DEF Refuse, Return
<1>7. ASSUME NEW t \in Thread, Resolved(t) \/ StartCompile(t)
      PROVE  HitsInv'
  <2>1. Phase(t)'
    BY <1>1, <1>7 DEF Resolved, StartCompile, Keep, Goto, Phase, Untouched
  <2> QED BY <1>2, <1>7, <2>1 DEF Resolved, StartCompile, Keep, Goto
<1>8. ASSUME NEW t \in Thread, Compile(t)
      PROVE  HitsInv'
  <2>1. Phase(t)'
    BY <1>1, <1>8 DEF Compile, Keep, Goto, Return, Phase, Untouched
  <2> QED BY <1>2, <1>8, <2>1 DEF Compile, Keep, Goto, Return
<1>9. ASSUME NEW t \in Thread, Launch(t)
      PROVE  HitsInv'
  <2>1. Phase(t)'
    BY <1>1, <1>9 DEF Launch, Goto, Return, Phase, Untouched
  <2> QED BY <1>2, <1>9, <2>1 DEF Launch, Goto, Return
<1>10. ASSUME NEW t \in Thread, Run(t)
      PROVE  HitsInv'
  <2>1. pc[t] = "sync"
    BY <1>1, <1>10 DEF Run, Phase, Untouched, GpuPartDone
  <2>2. gpuHits'[t] = 0 .. call[t].gpuCount - 1
    BY <1>1, <1>10, <2>1, GridCovers DEF Run, Phase, Calls
  <2>3. Phase(t)'
    BY <1>1, <1>10, <2>1, <2>2 DEF Run, Phase, GpuPartDone
  <2> QED BY <1>2, <1>10, <2>3 DEF Run
<1>11. ASSUME NEW t \in Thread, Sync(t)
      PROVE  HitsInv'
  <2>1. t \in Awaited(t)
    BY <1>1, <1>11 DEF Sync, Phase, Awaited
  <2>2. Phase(t)'
    BY <1>1, <1>11, <2>1 DEF Sync, Goto, Return, Phase, GpuPartDone
  <2> QED BY <1>2, <1>11, <2>2 DEF Sync, Goto, Return
<1>12. ASSUME NEW t \in Thread, TraceBatch(t)
      PROVE  HitsInv'
  <2>1. Phase(t)'
    BY <1>1, <1>12 DEF TraceBatch, Return, Phase, GpuPartDone
  <2> QED BY <1>2, <1>12, <2>1 DEF TraceBatch, Return
<1>13. ASSUME NEW t \in Thread, Leave(t)
      PROVE  HitsInv'
  <2>1. Phase(t)'
    BY <1>1, <1>13 DEF Leave, Phase, Untouched
  <2> QED BY <1>2, <1>13, <2>1 DEF Leave
<1>14. CASE UNCHANGED traceVars
  BY <1>1, <1>14, PhaseKept DEF traceVars, HitsInv
<1> QED BY <1>3, <1>4, <1>5, <1>6, <1>7, <1>8, <1>9, <1>10, <1>11, <1>12, <1>13, <1>14
        DEF TraceNext, Dispatch

(* A call that succeeds has traced each ray of its batch exactly once, the *)
(* GPU before the CPU: for batches of any size, up to the sums that wrap   *)
(* around, in any interleaving and with any failures of the driver.        *)
THEOREM RaysTracedOnce == TraceSpec => []EachRayOnce
<1>1. ASSUME TypeInv, HitsInv, NEW t \in Thread
      PROVE  /\ gpuHits[t] \in {{}, 0 .. call[t].gpuCount - 1}
             /\ result[t] = "success" => /\ gpuHits[t] = 0 .. call[t].gpuCount - 1
                                         /\ cpuHits[t] = call[t].gpuCount .. call[t].rayCount - 1
             /\ result[t] # "success" => cpuHits[t] = {}
  <2>1. Phase(t) /\ pc[t] \in {"idle", "resolve", "compile", "launch", "sync", "cpu", "done"}
    BY <1>1 DEF HitsInv, TypeInv, TraceTypeOK
  <2>2. CASE pc[t] = "done"
    BY <2>1, <2>2 DEF Phase, GpuPartDone
  <2>3. CASE pc[t] # "done"
    BY <2>1, <2>3 DEF Phase, Untouched, GpuPartDone
  <2> QED BY <2>2, <2>3
<1>2. TypeInv /\ HitsInv => EachRayOnce
  BY <1>1 DEF EachRayOnce
<1>3. TraceSpec => [](TypeInv /\ HitsInv)
  BY TypeInit, TypeNext, HitsInit, HitsNext, PTL DEF TraceSpec
<1> QED BY <1>2, <1>3, PTL

=============================================================================
