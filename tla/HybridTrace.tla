----------------------------- MODULE HybridTrace -----------------------------
(***************************************************************************)
(* Tracing a batch of rays in a hybrid context: the batch is split by a    *)
(* fraction computed in floating point, the first part is launched on the  *)
(* GPU and waited for, the rest is traced by Embree in the calling thread. *)
(* The kernels of the simple overloads are compiled at their first use and *)
(* cached in the context.                                                  *)
(*                                                                         *)
(* The driver keeps one current context per thread, and launches kernels   *)
(* and waits in that one.  Contexts are on different devices.  Every call  *)
(* of the driver may fail.  Calls are not serialised: m_batchKernelMutex   *)
(* lets several threads trace in one context, which is more than hiprt.h   *)
(* asks for.                                                               *)
(*                                                                         *)
(* Integers are below Width, floats have Precision bits of mantissa and    *)
(* round to nearest, ties to even.  A fraction is a number of 1/Unit;      *)
(* Wild is one whose product with a count has no value as an integer (it   *)
(* is negative or not a number), so its conversion may give any.           *)
(***************************************************************************)
EXTENDS Integers, FiniteSets

CONSTANTS
  Context,          \* the hybrid contexts, on different devices
  DeviceType,       \* of each context, the flags of its creation input
  Thread,           \* threads of the client
  Kernel,           \* the kinds of batch kernel
  Stream,           \* streams the client may pass
  RayCount,         \* of each thread, the sizes of its batches
  Width,            \* one more than the largest integer
  Precision, Unit,  \* the floats
  Fraction,         \* values of gpuFraction
  MinCpuBatch,      \* values of minCpuBatch
  blockSize,        \* threads of a block
  DriverMayFail,    \* whether calls of the driver can fail
  Wild, NullStream, NoContext, NoThread

ASSUME DeviceAssumption == DeviceType \in [Context -> SUBSET {"AMD", "NVIDIA", "CPU"}]
ASSUME CountAssumption  == RayCount \in [Thread -> SUBSET (0 .. Width - 1)]
ASSUME KernelAssumption == Kernel # {}
ASSUME BatchAssumption  == MinCpuBatch \subseteq 0 .. Width - 1
ASSUME FloatAssumption  == Precision \in Nat \ {0} /\ \E e \in 0 .. 31 : Unit = 2^e
ASSUME WidthAssumption  == Width \in Nat /\ blockSize \in 1 .. Width - 1
ASSUME NoneAssumption   == /\ NoContext \notin Context /\ NoThread \notin Thread
                           /\ NullStream \notin Stream /\ Wild \notin Int

Uint == 0 .. Width - 1

VARIABLES
  created,          \* the contexts that exist
  current,          \* of each thread, its current context
  m_batchKernels,   \* of each context, the kernels it has cached
  mutex,            \* of each context, who holds m_batchKernelMutex
  compiled,         \* of each context and kernel, how often it was compiled
  pc, call,         \* where each thread is, and its call
  inflight,         \* the threads whose launched kernel has not run
  gpuHits, cpuHits, \* of the buffer of each call, the hits each side has written
  result            \* of each call, what it returned

traceVars == <<created, current, m_batchKernels, mutex, compiled, pc, call, inflight,
          gpuHits, cpuHits, result>>

Calls == [context : Context \cup {NoContext}, kernel : Kernel, own : BOOLEAN,
          stream : Stream \cup {NullStream}, rayCount : Uint, gpuCount : Uint,
          minCpuBatch : Uint]

NoCall == [context |-> NoContext, kernel |-> CHOOSE k \in Kernel : TRUE, own |-> FALSE,
           stream |-> NullStream, rayCount |-> 0, gpuCount |-> 0, minCpuBatch |-> 0]

TraceInit ==
  /\ created = {}
  /\ current = [t \in Thread |-> NoContext]
  /\ m_batchKernels = [c \in Context |-> {}]
  /\ mutex = [c \in Context |-> NoThread]
  /\ compiled = [c \in Context |-> [k \in Kernel |-> 0]]
  /\ pc = [t \in Thread |-> "idle"]
  /\ call = [t \in Thread |-> NoCall]
  /\ inflight = {}
  /\ gpuHits = [t \in Thread |-> {}]
  /\ cpuHits = [t \in Thread |-> {}]
  /\ result = [t \in Thread |-> "none"]

Return(t, r) ==
  /\ pc' = [pc EXCEPT ![t] = "done"]
  /\ result' = [result EXCEPT ![t] = r]

Goto(t, next) ==
  /\ pc' = [pc EXCEPT ![t] = next]
  /\ UNCHANGED result

(* The interface hiprtCreateContext loads, and the one of the GpuContext.  *)
LoadedApi(type)  == IF "AMD" \in type THEN "HIP" ELSE "CUDA"
GpuApi(type)     == IF type = {"AMD"} THEN "HIP" ELSE "CUDA"

Created(t, c) ==
  /\ created' = created \cup {c}
  /\ current' = [current EXCEPT ![t] = c]
  /\ Return(t, "success")

(* No context comes of an interface that is not loaded.                    *)
NotCreated(t) ==
  /\ UNCHANGED <<created, current>>
  /\ Return(t, "internal")

CreateContext(t, c) ==
  /\ pc[t] = "idle"
  /\ c \notin created
  /\ \/ LoadedApi(DeviceType[c]) = GpuApi(DeviceType[c]) /\ Created(t, c)
     \/ LoadedApi(DeviceType[c]) # GpuApi(DeviceType[c]) /\ NotCreated(t)
     \/ DriverMayFail /\ NotCreated(t)
  /\ UNCHANGED <<m_batchKernels, mutex, compiled, call, inflight, gpuHits, cpuHits>>

(* Every other call of a context makes it current, and leaves it so.       *)
OtherCall(t, c) ==
  /\ pc[t] = "idle"
  /\ c \in created
  /\ current' = [current EXCEPT ![t] = c]
  /\ UNCHANGED <<created, m_batchKernels, mutex, compiled, pc, call, inflight,
                 gpuHits, cpuHits, result>>

(* The nearest float, of numbers in any unit that is a power of two.       *)
RoundFloat(x) ==
  LET ulp  == CHOOSE u \in {2^e : e \in 0 .. Width} :
                /\ x < u * 2^Precision
                /\ u = 1 \/ x >= (u \div 2) * 2^Precision
      down == x \div ulp
      rest == 2 * (x % ulp)
      up   == rest > ulp \/ (rest = ulp /\ down % 2 = 1)
  IN  (IF up THEN down + 1 ELSE down) * ulp

(* What the conversion of the product to an integer may give.              *)
Share(rayCount, fraction) ==
  IF fraction = Wild
    THEN Uint
    ELSE LET share == RoundFloat(RoundFloat(rayCount) * fraction) \div Unit
         IN  IF share \in Uint THEN {share} ELSE Uint

(* Mutation: the share is only ever compared with the batch.               *)
Clamped(rayCount, share, minCpuBatch) == IF share > rayCount THEN rayCount ELSE share

computeGpuRayCount(rayCount, share, minCpuBatch) ==
  LET gpuCount == IF share > rayCount THEN rayCount ELSE share
      cpuCount == rayCount - gpuCount
  IN  IF cpuCount > 0 /\ cpuCount < minCpuBatch /\ rayCount > minCpuBatch
        THEN rayCount - minCpuBatch
        ELSE gpuCount

(* Null pointers, a context that is not hybrid, a handle that is not in    *)
(* the registry.                                                           *)
Refuse(t) ==
  /\ pc[t] = "idle"
  /\ Return(t, "invalid")
  /\ UNCHANGED <<created, current, m_batchKernels, mutex, compiled, call, inflight,
                 gpuHits, cpuHits>>

(* The client has seen what the call returned.                             *)
Leave(t) ==
  /\ pc[t] = "done"
  /\ pc' = [pc EXCEPT ![t] = "idle"]
  /\ call' = [call EXCEPT ![t] = NoCall]
  /\ gpuHits' = [gpuHits EXCEPT ![t] = {}]
  /\ cpuHits' = [cpuHits EXCEPT ![t] = {}]
  /\ result' = [result EXCEPT ![t] = "none"]
  /\ UNCHANGED <<created, current, m_batchKernels, mutex, compiled, inflight>>

(* A call of dispatchHybrid with buffers of its own.                       *)
Start(t) ==
  /\ pc[t] = "idle"
  /\ \E c \in created, k \in Kernel, own \in BOOLEAN, s \in Stream \cup {NullStream},
        n \in RayCount[t], f \in Fraction, m \in MinCpuBatch :
       \E gpu \in {computeGpuRayCount(n, share, m) : share \in Share(n, f)} :
         /\ call' = [call EXCEPT ![t] =
                       [context |-> c, kernel |-> k, own |-> own, stream |-> s,
                        rayCount |-> n, gpuCount |-> gpu, minCpuBatch |-> m]]
         /\ Goto(t, IF gpu > 0 THEN "resolve" ELSE "cpu")
  /\ UNCHANGED <<created, current, m_batchKernels, mutex, compiled, inflight,
                 gpuHits, cpuHits>>

Keep(t) == UNCHANGED <<created, call, inflight, gpuHits, cpuHits>>

(* Mutation: the cache is used without its mutex.                          *)
MayLook(c) == TRUE

MayLock(c) == mutex[c] = NoThread

(* The kernel of the caller, or a cached one; the current context is not   *)
(* touched.                                                                *)
Resolved(t) ==
  LET c == call[t].context
  IN  /\ pc[t] = "resolve"
      /\ \/ call[t].own
         \/ MayLock(c) /\ call[t].kernel \in m_batchKernels[c]
      /\ Goto(t, "launch")
      /\ UNCHANGED <<current, m_batchKernels, mutex, compiled>>
      /\ Keep(t)

(* The mutex is held while the kernel is compiled.                         *)
StartCompile(t) ==
  LET c == call[t].context
  IN  /\ pc[t] = "resolve"
      /\ ~call[t].own
      /\ MayLock(c)
      /\ call[t].kernel \notin m_batchKernels[c]
      /\ mutex' = [mutex EXCEPT ![c] = t]
      /\ Goto(t, "compile")
      /\ UNCHANGED <<current, m_batchKernels, compiled>>
      /\ Keep(t)

Compile(t) ==
  LET c == call[t].context
      k == call[t].kernel
  IN  /\ pc[t] = "compile"
      /\ mutex' = [mutex EXCEPT ![c] = NoThread]
      /\ \/ /\ current' = [current EXCEPT ![t] = c]
            /\ compiled' = [compiled EXCEPT ![c][k] = @ + 1]
            /\ m_batchKernels' = [m_batchKernels EXCEPT ![c] = @ \cup {k}]
            /\ Goto(t, "launch")
         \/ /\ DriverMayFail
            /\ current' \in {current, [current EXCEPT ![t] = c]}
            /\ UNCHANGED <<compiled, m_batchKernels>>
            /\ Return(t, "internal")
      /\ Keep(t)

(* Mutation: no block for the last rays.                                   *)
FullBlocks(numRays) == numRays \div blockSize

gridSize(numRays) == ((numRays + blockSize - 1) % Width) \div blockSize

(* The driver launches kernels of the current context only, and no empty   *)
(* grid.                                                                   *)
Launch(t) ==
  LET accepted == /\ current[t] = call[t].context
                  /\ gridSize(call[t].gpuCount) > 0
  IN  /\ pc[t] = "launch"
      /\ \/ accepted /\ inflight' = inflight \cup {t} /\ Goto(t, "sync")
         \/ ~accepted /\ UNCHANGED inflight /\ Return(t, "internal")
         \/ DriverMayFail /\ UNCHANGED inflight /\ Return(t, "internal")
      /\ UNCHANGED <<created, current, m_batchKernels, mutex, compiled, call,
                     gpuHits, cpuHits>>

(* The batch kernel, one thread for each index of the grid.                *)
Traced(numRays) == {i \in 0 .. gridSize(numRays) * blockSize - 1 : i < numRays}

Run(t) ==
  /\ t \in inflight
  /\ inflight' = inflight \ {t}
  /\ gpuHits' = [gpuHits EXCEPT ![t] = Traced(call[t].gpuCount)]
  /\ UNCHANGED <<created, current, m_batchKernels, mutex, compiled, pc, call,
                 cpuHits, result>>

(* What a wait is for: the stream of the call, or the current device.      *)
Awaited(t) ==
  {u \in Thread :
     IF call[t].stream # NullStream
       THEN call[u].context = call[t].context /\ call[u].stream = call[t].stream
       ELSE call[u].context = current[t]}

(* A wait that fails is the end of the kernel.                             *)
Sync(t) ==
  /\ pc[t] = "sync"
  /\ \/ Awaited(t) \cap inflight = {} /\ UNCHANGED inflight /\ Goto(t, "cpu")
     \/ DriverMayFail /\ inflight' = inflight \ {t} /\ Return(t, "internal")
  /\ UNCHANGED <<created, current, m_batchKernels, mutex, compiled, call,
                 gpuHits, cpuHits>>

(* Embree traces the rest; without a scene it reports misses.              *)
TraceBatch(t) ==
  /\ pc[t] = "cpu"
  /\ cpuHits' = [cpuHits EXCEPT ![t] = call[t].gpuCount .. call[t].rayCount - 1]
  /\ Return(t, "success")
  /\ UNCHANGED <<created, current, m_batchKernels, mutex, compiled, call, inflight,
                 gpuHits>>

Dispatch(t) == \/ Start(t) \/ Refuse(t) \/ Resolved(t) \/ StartCompile(t) \/ Compile(t)
               \/ Launch(t) \/ Sync(t) \/ TraceBatch(t) \/ Leave(t)

TraceNext ==
  \E t \in Thread :
    \/ \E c \in Context : CreateContext(t, c) \/ OtherCall(t, c)
    \/ Dispatch(t)
    \/ Run(t)

TraceSpec == TraceInit /\ [][TraceNext]_traceVars

-----------------------------------------------------------------------------

(* The state is well typed; a thread that compiles holds the mutex.        *)
TraceTypeOK ==
  /\ created \subseteq Context
  /\ current \in [Thread -> created \cup {NoContext}]
  /\ m_batchKernels \in [Context -> SUBSET Kernel]
  /\ mutex \in [Context -> Thread \cup {NoThread}]
  /\ compiled \in [Context -> [Kernel -> Nat]]
  /\ pc \in [Thread -> {"idle", "resolve", "compile", "launch", "sync", "cpu", "done"}]
  /\ call \in [Thread -> Calls]
  /\ inflight \subseteq Thread
  /\ gpuHits \in [Thread -> SUBSET Uint] /\ cpuHits \in [Thread -> SUBSET Uint]
  /\ result \in [Thread -> {"none", "success", "invalid", "internal"}]
  /\ \A t \in Thread : pc[t] = "compile" => mutex[call[t].context] = t

(* When a call succeeds, each ray of its batch has been traced exactly     *)
(* once, the first ones by the GPU and the others by the CPU, and neither  *)
(* wrote past the batch; a call that fails has left the part of the CPU    *)
(* alone (dispatchHybrid, launchBatchKernel, the batch kernels).           *)
EachRayOnce ==
  \A t \in Thread :
    LET split == call[t].gpuCount
    IN  /\ gpuHits[t] \subseteq 0 .. split - 1
        /\ result[t] = "success" =>
             /\ gpuHits[t] = 0 .. split - 1
             /\ cpuHits[t] = split .. call[t].rayCount - 1
        /\ result[t] # "success" => cpuHits[t] = {}

(* Whatever the fraction, the GPU is not given more rays than there are,   *)
(* and the CPU none or enough to be worth it, unless the whole batch is    *)
(* not (computeGpuRayCount).                                               *)
ShareSound ==
  \A t \in Thread :
    LET cpuCount == call[t].rayCount - call[t].gpuCount
    IN  cpuCount >= 0 /\ (\/ cpuCount = 0
                          \/ cpuCount >= call[t].minCpuBatch
                          \/ call[t].rayCount <= call[t].minCpuBatch)

(* A context compiles each kernel at most once, also when several threads  *)
(* want it at the same time and after failures (getBatchKernel).           *)
CompiledOnce ==
  \A c \in Context, k \in Kernel :
    /\ compiled[c][k] <= 1
    /\ k \in m_batchKernels[c] <=> compiled[c][k] = 1
=============================================================================
