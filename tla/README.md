# HIPRT with an Embree mirror: a TLA+ model

HIPRT builds bounding volume hierarchies (BVHs) on a GPU and traces rays through
them; this repository adds a hybrid mode in which every build is mirrored in
Embree, so that a batch of rays can be shared between GPU and CPU. The library
is a host part in C++ (`hiprt/impl/*.cpp`, `*.h`) and device kernels
(`hiprt/impl/*Kernels.h`) that are launched one after another on a stream.

What is hard about it sits in five places:

* **device kernels that synchronise through atomics inside one launch** - a
  persistent-thread loop with a task queue, and climbs of a tree in which the
  last child to arrive goes on;
* **sizes and counters computed before the tree is known**, with no check
  where they index an array;
* **a search that is interrupted and continued** - the traversal of nested
  scenes keeps in a few fields and on a stack what the next call needs;
* **host state shared by threads** - the pool of device buffers under a mutex;
* **two sides that have to stay the same** - the GPU objects and their Embree
  mirror, through failures half way and reuse of addresses.

All paths below are relative to the source tree's root directory `src/`.

## Inventory

Every component is also listed in `PROJECT.json`, with its status.

| component | state | operations | interacts with | hard behaviour | what makes it correct |
|---|---|---|---|---|---|
| Collapse kernel (`BvhBuilderKernels.h` 137-193, 1088-1258) | task queue, `m_boxNodeCount`, `m_referenceCount`, box nodes, ranges of `referenceIndices` | poll, load a task word by word, open a node, allocate, publish tasks, emit | reads the binary tree of a builder; `PackLeaves` reads its ranges | spinning subwarps, torn tasks, exit race, array sizes | a wide tree over exactly the references, no overrun, termination |
| LBVH topology kernel (`LbvhBuilderKernels.h` 40-134) | parent counters, links, boxes | emit leaf, meet sibling, fit, link | sorted Morton codes in, `Collapse` out | two siblings meet in any order; fences | the radix tree of the codes, each box fitted after its children |
| Refit kernels (`BvhBuilderKernels.h` 550-772) | `m_updateCounter`, boxes | reset and rewrite leaves, climb | launched by every builder's `update` | stale counters, stale boxes, repeated updates | after each update every box is made of this update's primitives |
| Leaf packing (`BvhBuilderKernels.h` 1410-1480, 1770-2080) | the task queue, `m_primNodeCount`, primitive nodes | compact the queue, allocate and write primitive nodes, patch children | reads what `Collapse` leaves in queue and ranges | compaction in place by several warps, array sizes | each range packed once, no overrun |
| Fat leaves (`BvhBuilderKernels.h` 956-1072) | triangle counts, counters | parent links, climb | before `Collapse` | the same climb over the internal children alone, right after another kernel wrote the tree | counts right, flags on small subtrees only |
| Oriented bounds (`BvhBuilderKernels.h` 817-923) | k-DOPs, counters | climb by whole warps | after `PackLeaves` | `any(!done)` loop over a warp | children first |
| PLOC builder (`PlocBuilderKernels.h` 40-307) | clusters of each range, counters, nodes | climb to a range, take the clusters of its halves, merge nearest neighbours, store | sorted Morton codes in, `Collapse` out | clusters handed from warp to warp, rounds that need a pair that chooses each other | one binary tree, no cluster merged twice, the rounds end |
| SBVH builder | references, bins | bin, split, distribute | alternative to LBVH | counters shared by warps, a budget of references | a binary tree over all references within the budget |
| Batch builder (`BatchBuilderKernels.h`) | the arrays of the other builders, in shared memory | all stages of a build in one block | calls `EmitTopologyAndFitBounds`, `Collapse`, `PackLeaves` | barriers between the stages, arrays that share memory | that of the stages it calls |
| `GpuContext` pools (`GpuContext.cpp` 52-456, 657-853) | `m_poolHeads`, `m_poolMutex`, device memory | create, build, compact, save, load, destroy | builders fill the slices | threads, memory reused between free and erase, failed copies, batches that die one by one | objects live in a buffer until they are destroyed; a buffer is freed with its last object |
| `HybridContext` (`HybridContext.cpp`) | maps from GPU handle to CPU data, kernel cache | the calls of the API, on both sides | owns a `GpuContext` and a `CpuContext` | one side fails, handles come back for new objects | each handle has its own mirror with the same content |
| `CpuContext` (`CpuContext.cpp`) | data objects, Embree scenes (reference-counted) | create, destroy, build, update | Embree | instances refer to a scene that a child's update replaces | as above |
| CPU data registry (`hiprt.cpp` 40-100) | two process-wide maps | register, unregister, look up | used by CPU traversal | entries of dead objects | never leads to freed data |
| Hybrid trace (`hiprt_hybrid.cpp`, `hiprt_cpu.h`, `kernels/`) | cached batch kernels; the driver's current context per thread | split a batch, launch, wait, CPU part | both sides | rounding of the split, asynchronous hits, error half way, context left behind by another call | every ray traced once or an error |
| API layer (`hiprt.cpp`) | none | create contexts, parameter checks, exceptions to error codes | contexts | - | - |
| Kernel compiler (`Compiler.cpp`) | module cache, cache files | compile, load, store | contexts | cache shared by threads and processes | a kernel compiled for these options |
| Device traversal (`hiprt_device_impl.h` 249-1204) | node index, triangle mask, stack, instance ids, instance stack, ray | `getNextHit`: test boxes, pairs, packets, enter and leave instances | trees of the builders, a stack of the caller | continued calls, trees that end together, stack overflow | each hit once; ray and boxes in one space |
| Dynamic stacks (`hiprt_device_impl.h` 132-247, `GpuContext.cpp` 752-779) | a buffer of flags and stacks, a ring in shared memory per lane | allocate; acquire, push, pop, reset, release | device traversal | flags shared by all warps, spilling, sizes in words and in entries | each lane has a stack of its own |
| Node formats, mathematics, utilities, vendored code | - | - | - | - | not behaviour, or not this project's |

## The modules

| module | models | refined by / implements |
|---|---|---|
| `TreeSplit` | what `Collapse` promises: a node is open until it is replaced by its children; leaves come out | implemented by `Collapse` (`ImplementsTreeSplit`) |
| `Collapse` | the Collapse kernel | implements `TreeSplit` |
| `PackLeaves` | the kernels of a build from `Collapse` on: `Collapse`, then `CompactTasks` and `PackLeaves` | extends `Collapse` |
| `BottomUp` | what the climbing kernels promise: each node fitted once, children first | implemented by `LbvhEmit`, by the counting of `FatLeaves`, and by each update of `Refit` |
| `MortonCode` | sorted codes as the climbing kernels see them: how much neighbours differ | used by `LbvhEmit` and `Ploc` |
| `LbvhEmit` | `EmitTopologyAndFitBounds` | implements `BottomUp` |
| `FatLeaves` | the kernels of a build up to `Collapse`: `LbvhEmit`, then `ComputeParentAddrs` and `ComputeFatLeaves` | extends `LbvhEmit`, implements `BottomUp` once more (`CountsBottomUp`) |
| `Agglomeration` | what a bottom-up builder promises: clusters are united two by two, none of them twice | implemented by `Ploc` |
| `PlocNeighbours` | one round of nearest-neighbour search in a warp, as operators | used by `Ploc` |
| `Ploc` | `HPloc` | implements `Agglomeration` |
| `Refit` | `LbvhBuilder::update`: the reset kernel, `FitBounds`, the end of the stream | implements `BottomUp` between resets |
| `Lifo` | what a traversal needs of its stack: each lane has one of its own | implemented by `GlobalStack` |
| `GlobalStack` | dynamic stack buffers: allocation, assignment to warps, ring and spill | implements `Lifo` (`ImplementsLifo`) |
| `Traversal` | `SceneTraversal` for one ray, over any scene | |
| `GpuPool` | the object pools of `GpuContext` | |
| `HybridMirror` | `HybridContext` + `CpuContext` + registry, with Embree scenes as an external | |
| `HybridTrace` | `hiprtTraceHybrid*`, the kernel cache, creation of contexts | |
| `CollapseProofs`, `RefitProofs`, `HybridProofs`, `GlobalStackProofs`, `LbvhProofs`, `PlocProofs`, `GpuPoolProofs`, `TraversalProofs` | theorems; `HybridProofs` about both `HybridMirror` and `HybridTrace` | |
| `MCCollapse`, `MCRefit`, `MCHybridMirror`, `MCHybridTrace`, `MCGlobalStack`, `MCTraversal` | trees, batches, scenes and symmetry for TLC | |

### Collapse

A binary node is the set of references below it. The state is the code's: the
registers of a subwarp (`task`, `front` after `openNodes`), the queue slots
(`taskQueue`), the two header counters, the box nodes and the ranges written.
`laneTask` is what a lane knows it stored for an address. One action per step
that other subwarps can see: `Dispatch` (a block starts when the device has
room), `Poll` (line 1114), `LoadTask` word by word (1122), `Retry`, `Claim`
(open the node, one `atomicAdd` for all internal children), `Publish` word by
word, `Emit` (write the box node, allocate and write the range, leave the loop).
Which child is opened next depends on box areas; the model allows every order
(`Fronts`). The three words of a task are read and become visible in any order,
because `atomic_load` / `atomic_store` of a `uint3` are three relaxed accesses
(lines 46-68).

Subwarps share a warp, and tell their lanes apart by `subwarpMask` (lines 1104-1105),
an `int` shifted by up to the width of the warp. `Masked` is the set of subwarps such
a mask can let through: the own one where an `int` has the bits; all later ones
as well for the subwarp whose mask is negative and is widened; and anything
where the shift is as wide as the `int`. The size of a range (`RangeSizes`), whether a task is
left for `PackLeaves` (`Emit`) and what a subwarp opens (`OpenNodes`) depend on it.
`WarpSubwarps` and `IntSubwarps` are constants: 8 and 8 (or 4 and 4) on warps of 32
lanes, 16 and 8 on warps of 64. `MasksExact` says that the first is no more than the
second. A lane of another subwarp is in a ballot only if that subwarp is in the same iteration,
which the model leaves open.

### PackLeaves

`kernel` says which of the three kernels of the stream runs. `LaunchCompact`
takes over the slots: a range where the subwarp of the slot had leaves, otherwise
`InvalidValue` (line 1187 clears the task before the leaves are looked at).
`CompactTasks` is one block; a round is `LoadSlots` of each warp, the barrier at
line 1419 (`AllLoaded`), `StoreTasks` with one `atomicAdd`, and the barrier at line
1435 (`NextRound`). `Pack` is what a warp does with its tasks as far as others see it:
the `atomicAdd` on `m_primNodeCount`. How many packets a range takes depends on
the vertices its triangles share and on the bits of their indices
(`TrianglePacketData::tryAddTrianglePair`). All the model keeps is that
`MinPairs` pairs always fit and `MaxPairs` may (`NodesFor`); with the numbers of
`BvhNode.h` 42-46 two pairs take at most 52 + 96 * 8 + 29 * 2 + 32 * 4 = 1006 of
the 1024 bits. Contents of primitive nodes, and the links of children to them,
are left out.

### LbvhEmit

One thread per code. Keys are seen only through how much neighbours differ
(`differ`), as in `findParent`. Plain stores go to `pending` and reach `memory`
at any time, at the latest at a `__threadfence`; on a device that keeps stores
in order they arrive at once. Which of the two the device is, is chosen in the
initial state. The position widens a key as in `MortonCode.h` 282-283; the
width in bits is scaled to the instance.

### FatLeaves

`kernel` says which of the three kernels of the stream runs; a kernel starts when
all threads of the one before have ended and their stores have arrived. The
kernels work on the links `LbvhEmit` has left in `memory`, not on a tree given
as a constant. `waiting` are the threads that have not been started: of the
third kernel only those at nodes without internal children do anything
(`Starts`). The flag is a field of the node, `fatLeaves` the set of children that
have it. A count is a plain store: on a device whose stores lag it is `unseen`
until it arrives, at the latest at the `__threadfence` before the `atomicAdd`
(`Fenced`).

### Ploc

The threads of a warp climb as those of `LbvhEmit` do (`Climb`, one atomicExch
each, in any order), then the warp votes (`Elect`) and merges the ranges of its
threads one after the other: `Load` takes the clusters of the two halves,
`Cluster` is one round of nearest-neighbour merging with one `atomicAdd` for all
new nodes, `Store` leaves half a warp of clusters at the start of the range. A
cluster is the set of leaves below it. Distances are areas of boxes; the model
draws any distances in every round, ties included, and keeps what the code makes
of them: one number of distance and encoded offset per lane, whose minimum
decides (`PlocNeighbours`). Half a warp of places exists at the
start of a range, and as many at a time are stored at the end (`Stretch`), even
if the build has fewer references: `Store` writes what that reaches. The first
third of `taskQueue` holds the clusters, the second the counters of the climb,
the third is not used, and what was allocated next starts where the size, rounded
up to the alignment, ends (`QueueEnd`). For a mesh that is paired these are the
pairs, `pairIndices`. `queueCount` is the number of primitives the buffers were
made for, before pairing; `primCount` what is left of them. A build of a single
reference does not get here (`PlocBuilder.h:229-241`).

### GlobalStack

The buffer is a function from words to values; a store outside of it would make
its domain larger, which `BufferIntact` forbids. `Start` gives a warp room on the
device, `TryLock` is one round of the constructor's loop, `Reset`, `PushShared`,
`PushGlobal` and `Pop` are the operations of a lane, `Leave` is the destructor.
`m_sharedIndex` goes around the ring as in lines 197 and 226. The clearing of the
flags by the host (`GpuContext.cpp:769`), which writes one word for every stack,
is part of `Init`.

### Traversal

`m` holds the fields of the traversal object, `l` the local variables of
`getNextHit`, which the next call does not see. A space is the bag of
transforms that lead to it (in what order they were applied is given by how the
scenes nest), so that `RayInSpace` can say that the ray, its inverse direction
and the boxes it is tested against belong together. A path is a sequence of
instances that lead through scenes to a geometry, at most `MaxInstanceLevels`
of them. A box test
lets through at least the children below which there is a hit that still counts
(`Entered`), provided that ray and boxes are in one space; if they are not,
anything may come out. A primitive is hit at a time or missed (`hitTime`), which
is chosen in the initial state, as is what the object was made for (`config`).
`TestPair` and `TestPacket` keep the mask that tells the next call where in a
leaf to go on; `Unwound` is the loop that leaves the trees whose marks are
popped. Filters, times and user data do not change the control and are left out.

### Refit

A box is the set of primitives it was grown from, each tagged with the update
it was seen at, so one stale child shows. The host's order of kernels is
`phase`. History variables `fitted` and `arrived` say which nodes were written
and which were counted at their parent in the update under way. The number of internal children
a subwarp expects comes from a ballot under the same mask as in `Collapse`
(lines 709-710, 726, 764): `Masked`, `InternalLanes` and `Under` say what it can be, `MasksExact`
when it is that of the node. A count of zero less one is the largest integer, so
that such an arrival never goes on (`OthersArrived`).

### GpuPool

Device memory is an interval of units; `oroMalloc` may return any free part, so
reuse of addresses is covered. `create`, `compact` and `load` allocate first
and register under the mutex; `destroy` frees inside the critical section and
erases the map entry as a separate step, between which another thread may be
given the same memory. A client uses a handle until it passes it to `destroy` or
`compact`, and two clients never pass the same one.

Every driver call behind the allocation can fail, and `checkOro` throws out of the call
with what it has done so far. `CopyFails` is a copy of a compaction or of `loadGeometry` (line 847),
before the buffer is registered. `SyncFails` is the synchronisation of a compaction (line 351; 708 for
scenes), which also reports asynchronous copies that failed, with the new head registered and
nobody given its objects; these go to `lost`, and clients keep the inputs. (The `oroCtxSetCurrent`
that starts the destruction of the inputs leaves the same behind.) `FreeFails` is `oroFree` in the
middle of a batch (line 132; 447 for scenes): the head stays at zero and the rest of the batch, which the
client can no longer tell from what was destroyed, goes to `lost`. Memory whose `oroFree` failed is taken to be still
allocated. `createScenes` adds the size of a scene built in a batch twice (lines 375-381), so its
slices may leave room at the end (`Slices`).

### HybridMirror

Calls to a context come one at a time, so a call is one action; where a call
can fail half way, the states it can leave behind are alternatives of its
action. GPU content is the set of inputs (or instanced handles), Embree content
the set of attachments. `failed` and `stale` are what a client can know: the
handles whose last call returned an error, and the scenes something below which
has been built or updated since. `doubtful` are those it cannot know: an Embree call that nobody
checks has failed (`Ends`, "silent": a shared buffer, an attachment, a commit; `CpuContext.cpp` 131-140,
162-164, 175, 323, 352-358), or a build went on with a scene that an earlier one, or the first half of a failed
one, had filled (`Mixes`), in the handle or in what it was built from. An update starts with a new Embree
scene and clears the mark. `Sound` is a handle the client may rely on that is not doubtful. Clients
build and update as often as they like; `Mixing` is a bound of the run, the handles that may be built on
top of an earlier build. Addresses of GPU objects, data objects and
Embree scenes are reused. `faults` counts the calls of the GPU and of Embree that
failed, up to `MaxFaults`.

### HybridTrace

`pc` follows `dispatchHybrid`: the split when a call starts, then `Resolved` or
`StartCompile` and `Compile` (`getBatchKernel`, under `m_batchKernelMutex`),
`Launch`, `Sync`, `TraceBatch`. The kernel itself runs at any time after its
launch (`Run`), which is what the wait is for. `current` is the context the
driver remembers for a thread: `CreateContext`, `OtherCall` and a compilation set it,
a launch and a wait for the null stream use it. Integers and floats keep a
width: `Share` rounds the count and the product to the precision of floats, and
where the conversion back has no defined result it may be any integer;
`gridSize` wraps around. A hit is an index; which hits each side has written is
all the properties need. `compiled`, `fault` and `result` are history.

## The runs

| run | instance | question |
|---|---|---|
| `collapse` | 13 references with fat leaves of 2, fan-out 3, blocks of two subwarps, one at a time; compaction by 2 warps of 2 lanes, packets of 2 to 3 | Is work handed over whole, does nobody leave too early, is the result a tree over all references with packed ranges, do the sizes computed before the build suffice for box and primitive nodes, does the compaction in place lose nothing, do the kernels end although blocks wait for room, and does `Collapse` implement `TreeSplit`? |
| `lbvh` | every sorted sequence of 4 codes out of 4, both kinds of device, fat leaves of up to 2, three kernels one after another | Is the tree the radix tree of the codes in every interleaving, are nodes fitted children first, does each subtree get the right count and flag, and do the kernels end? |
| `ploc` | every sorted sequence of 6 codes of one bit, 2 warps of 4 lanes, radius 2, distances out of 3 | Is one tree built with its root at address 0, does a range always find its clusters, does every round find a pair, and are clusters united two by two? |
| `refit` | 7 box nodes, 3 updates | Is every box fresh after each update? |
| `stacks` | 3 warps of 2 lanes, one half full, room for 2; 2 entries in the buffer, 0 or 2 in the ring | Does everybody stay in the buffer and in the own stack, and is a running warp served although nobody leaves? |
| `traversal` | a mesh, and a scene with hair and the mesh again; up to 2 hits; any and closest, pairs and packets, masks, identities, small and large stacks | Does a search give each hit once, is the ray always in the space of its boxes, do marks and levels match, does each call return? |
| `pool` | 2 threads, 3 units of memory, batches of 2, geometries and scenes, copies, synchronisations and frees that fail | Does memory safety survive every interleaving, and are counts right, and does nothing but a failed call lose a buffer? |
| `hybrid_mirror` | 1 geometry, 2 scenes, 3 data objects, triangle and AABB inputs, batches of 2, one call that fails anywhere, with or without an error; the geometry is built again and again, a scene once | Are handles always mirrored and the registry free of dangling entries, do both sides agree wherever a handle is sound, also through a scene in a scene, and does nothing outlive its handle before the failure? |
| `hybrid_trace` | 2 threads, 2 NVIDIA contexts and one AMD, 3-bit integers, 2-bit floats, blocks of 2, every driver call may fail | Is each ray traced exactly once when a call succeeds, is the split sound, and is a kernel compiled once? |
| `scene_compaction`, `save_compacted`, `traversal_identity` | one thread; one ray | the findings below |

Why these bounds are enough for what they ask:

* Thirteen references with fan-out three give five box nodes: a root of three
  internal children, whose slot is left without a range, nodes whose front can be
  made in several ways, and one that publishes a task and has leaves of its own.
  Two subwarps run at a time, so that a parent publishes to a child that spins in
  its own block, or to one whose block waits until this block has left.
  With fat leaves, counting lanes instead of references breaks the ranges, and
  an array sized for full nodes breaks the size bound. Five slots take the block of two warps
  two rounds of compaction.
* `PrimNodesFit` is as tight as the formula of the code: an array of half the size
  fails. It is no fact about all constants: with fat leaves of two, large trees of nodes with a
  single leaf above nodes of three references would need more. With the values of
  the code (fat leaves of four, at least two pairs in a packet) it is proved for
  every tree (`PrimNodesAlwaysFit`).
* Four codes give all five shapes of a binary tree with four leaves, runs of
  equal keys of every length, and two levels of siblings meeting at once. Fat
  leaves of two are single triangles and pairs, next to subtrees of three and
  four that are none.
* Six codes in two warps of four: the root range is merged by either warp, a
  warp merges clusters the other has left, half a warp (2) is less than what a
  range can hold, and a radius of two makes chains of preferences in which a lane
  chooses one that has chosen another. Three distances give ties, and chains of
  three different ones.
* The run has no build of PLOC with fewer references than half a warp. The theorems
  about `Ploc` hold for two or more, and the known divergence about `PlocBuilderKernels.h:296`
  says what such a build may overwrite.
* Three warps for two flags: one waits, takes over stacks others have used, and
  tries flags in either order. Two entries in a ring of two and two in the buffer
  make the ring wrap and spill twice.
* The scene has an instance next to a scene, and below the scene two instances
  that are its last, so that a leaf, the geometry, the scene in it and the search
  end together. The mesh is two levels deep, which is what a continued call that
  loses a subtree needs. A stack of four overflows in a box test and at an
  instance, one of eight never.
* The refit tree has nodes with one, two and three internal children, and with
  and without leaves; the third update starts from the state a second one leaves.
* Three units and batches of two: an allocation can be reused while a stale map
  entry for the same addresses exists, with a second object next to it. Two
  threads are what a mutex is about; objects of a batch die one by one.
* In `HybridMirror` three handles and three data objects force reuse after one
  destruction; two scenes are the shortest chain an update has to travel. With
  four Embree scenes, two levels of it can be updated while what they replace is
  still referred to; chains of any length are in `SidesAlwaysAgree`. The geometry
  is built on top of earlier builds (`Mixing`), of which the scenes above take over
  what they attach. One failure can hit each call of a history; what a second one
  adds is more leaked objects of the same kinds.
* Three bits hold counts below, at and above a block and the minimal CPU batch,
  counts that floats of two bits round down (5), up (7, past the largest
  integer) and not at all, and counts whose grid wraps around (7). The second
  thread traces single rays: it is there to compete for mutex, cache and device.

`CHECK_DEADLOCK FALSE` stands where the system may stop: in `pool` and
`scene_compaction` because a scene compaction waits for itself, in
`hybrid_mirror` because leaked objects use up the bounded pools, in `traversal`
and `traversal_identity` because nothing follows the end of a search.

### Fairness

* `PackLeaves`: `WF(StartBlock)` - the device starts a waiting block when there is
  room - and `WF(CollapseStep(s))` for every subwarp - the warps of a resident block keep
  being scheduled. The kernel is a loop of persistent threads that spin; without
  the second it could not work on any device, and nothing is assumed of blocks
  that are not resident. The kernels behind it do not spin: `WF(BackEnd)`, the
  device does not stop.
* `FatLeaves` and `Ploc`: `WF(BuildNext)` and `WF(Next)`, the device does not stop; no thread waits
  for another.
* `GlobalStack`: `WF(TryLock(w))`, a warp that is resident keeps being scheduled.
  That a warp ever gives its stacks back is not assumed.
* `Traversal`: `WF(Work)`, a lane inside `getNextHit` keeps running. A caller need
  not ask again.
* `GpuPool` (`FairSpec`, only in `scene_compaction`): a thread inside a call
  keeps running. No thread is forced to make a call.

### What is not promised: a store that lags

`EmitTopologyAndFitBounds` stores the reference and the link of a leaf
(lines 90-98) and goes straight to the `atomicExch` at line 100; the first
`__threadfence` comes after it. On a device that lets plain stores lag behind a
thread's own atomics, the sibling can read a leaf whose box is not there yet:
`BoxesFit` fails in the model on such a device and is therefore stated for
devices that keep stores in order. The shape of the tree does not depend on it:
`RadixTree` holds on both.

## Findings

* `scene_compaction`: `GpuContext::compactScenes` holds `m_poolMutex` for the
  rest of the function and calls `destroyScenes( scenesOut )` at line 709, which
  locks it again, and with the outputs where `scenesIn` is meant (the twin for
  geometries passes its inputs, in a block of its own). The call never returns
  and the inputs are never destroyed.
* `save_compacted`: `compactGeometries` copies the header and replaces only the
  pointers, so `m_size` stays what it was; `saveGeometry` then reads that many
  bytes from the smaller slice.
* `traversal_identity`: a continued any-hit search inside an instance leaves the
  inverse direction to `transformRay`, which sets it only for a transform that is
  not the identity (lines 1064, 964, 994). With pairs of triangles the boxes left
  in that geometry are tested with an uninitialised value. All other statements
  about traversal exclude any-hit searches of pairs below identity instances.

Known divergences that no run is spent on, each with its line among the hazards
or here:

* A launch happens in the context that is current in the calling thread
  (`hiprt_hybrid.cpp:146`). A compilation makes the own context current, but a
  cached kernel or the kernel of the caller does not, so a trace in another
  thread than the one that built, or after a call of another context, is refused.
  In the model such a call returns an error (`Launch`), and `EachRayOnce` holds.
* `hiprtCreateContext` tests the AMD bit, the constructor of `GpuContext` compares
  the whole type with `hiprtDeviceAMD` (`GpuContext.cpp:39`). A hybrid context on
  an AMD device therefore asks for CUDA, which was not loaded, and cannot be
  created; in the model `CreateContext` fails for it.
* A dynamic stack buffer for instance stacks is too small: `Cell` counts the
  flags in entries, `bufferSize` in words. With `entryWords` larger than one
  `BufferIntact` fails; the run and the theorem take one.
* On devices with warps of 64 lanes and a fan-out of four, the mask of subwarp 7
  in `Collapse` (`15 << 28`, `BvhBuilderKernels.h:1104-1105`) is a negative `int`
  that is sign-extended, and for subwarps 8 to 15 the shift is 32 or more. The sizes
  of their ranges are not the number of references stored there, so leaves are
  packed twice or not at all. In the model: `WarpSubwarps = 4`, `IntSubwarps = 2`,
  fan-out two and the references `{1, 2}`, `{3, 4}` below the root violate
  `RangesPacked`.
* The same mask in `FitBounds` (lines 709-710): subwarps start or wait for the
  wrong number of children and boxes keep the values of the last update. In the
  model: a root with a child of leaves and one with two internal children,
  `WarpSubwarps = 3` and `IntSubwarps = 2`, violate `BoxesFresh` in one update.
* PLOC stores half a warp of words for a range whatever its length
  (`PlocBuilderKernels.h:296`). With 64 lanes that is 128 bytes; a mesh of three to
  five triangles has 64 bytes of `taskQueue` (`PlocBuilder.h:155`,
  `MemoryArena.h:42`) and then the pairs that pairing has just written
  (`PlocBuilder.h:249`), which `PackLeaves` reads later (`TriangleMesh.h:82-85`). In
  the model: `WarpSize = 64`, `primCount = 3`, `queueCount = 5`, `Alignment = 16`
  violate `PairsKept`. On warps of 32 lanes the 64 bytes always suffice, which is
  `PairsAlwaysKept`.
* `PairTriangles` (`BvhBuilderKernels.h:404`, not modelled) takes the lane it has
  paired out of a mask of 64 bits with `~( 1u << firstPairedLane )`, which has 32
  bits. On warps of 64 lanes this takes out the upper half of the warp as well, so
  triangles there that have no partner yet get no pair, not even with themselves.
* `HybridContext.h:14` says "Build ops update both sides". A failed Embree attachment
  or commit goes unseen (`CpuContext.cpp` 131-140, 162-164, 175, 323, 352-358), the
  build returns success and the mirror has less than the GPU. And the build
  operation on a handle that is built replaces the GPU side and adds to the Embree
  scene (`CpuContext.cpp:163` and 354), without any failure; the same happens to
  a client that repeats a build that failed after its first attachments. In the
  model the handles this concerns are `doubtful`; without that in `Sound`,
  `SidesAgree` fails with either.
* Three things about the batch builder, from reading it along with the kernels it
  calls. `BatchBuilderKernels.h:130` places the values of the Morton codes with
  pointer arithmetic on `uint3`, so they start where the queue ends and not where
  the keys do; in a block of 512 threads (`batchBuildMaxPrimCount` above 256)
  that is past the shared memory. The threads that take no part in the last round
  of the loop at line 195 do not wait for it and may pack leaves from slots
  another subwarp has not emitted. Line 72 passes the sizes of box and instance
  nodes in swapped order, so that `m_size` of a scene built in a batch is not the
  size of its slice; nothing reads it, for scenes cannot be saved.

## Proofs

Each theorem holds for every value of the constants its module allows:
`CollapseProofs` and `RefitProofs` are about every tree, fan-out, block size and
device, `HybridProofs` about any objects, addresses and number of failures, and any
contexts, threads, widths, precisions and block sizes, `GlobalStackProofs` about any warps, lanes, stack sizes and values,
`LbvhProofs` about any number of codes and any widths of them, `PlocProofs` about
any number of codes from two on, warps, lanes, distances and any radius, `GpuPoolProofs` about any threads,
memory and batches, `TraversalProofs` about any scenes, rays, branching factors,
stack sizes and orders in which boxes let their children through. Those about `Collapse`,
`PackLeaves` and `Refit` assume `MasksExact`, no more lanes in a warp than bits in an `int`, for without
it they fail as said among the known divergences; only `TypeCorrect`, `TasksUntorn` and `BuildCollapses`
hold on all warps. Every safety
property and every refinement a passing run checks is stated by one of them.

| theorem | says | rests on |
|---|---|---|
| `TypeCorrect` | `Spec => []TypeOK` | `WordInv` |
| `TasksUntorn` | `Spec => []UntornTask` | `WordInv` |
| `ReferencesNeverLost` | `MasksExact` implies `Spec => []ReferencesPartitioned` | `TaskInv` |
| `CountIsExact` | `MasksExact` implies `Spec => []CountExact` | the two above |
| `BoxNodesAlwaysFit` | `MasksExact` implies `Spec => []BoxNodesFit` | `BudgetInv`, `NestInv` |
| `ExitsAreSafe` | `MasksExact` implies `Spec => []NoTaskAbandoned` | `ExitInv`, `CountExact`, `BoxNodesFit` |
| `RangesStayPacked` | `MasksExact` implies `Spec => []RangesPacked` | `TileInv` |
| `WideTreeBuilt` | `MasksExact` implies `Spec => []WideTree` | `WideInv`, `ReferencesPartitioned`, `BoxNodesFit` |
| `QueueNeverOverruns` | `MasksExact` implies `Spec => []QueueFits` | `NestInv` |
| `Refinement` | `MasksExact` implies `Spec => ImplementsTreeSplit` | `TaskInv`, `NestInv`, `ReferencesPartitioned` |
| `BuildCollapses` | `BuildSpec => Spec`: `PackLeaves` leaves `Collapse` as it is | the frame of its actions |
| `LeavesAlwaysPacked` | `MasksExact` implies `BuildSpec => []LeavesPacked` | `TaskInv`, `RangeInv`, `CompactInv`, `PackedInv` |
| `PrimNodesAlwaysFit` | `MasksExact` and `CodeSizes` imply `BuildSpec => []PrimNodesFit` | the same, `SpendInv`, `SpentInv`, `WideTreeBuilt` |
| `RefitTypeCorrect`, `BoxesAlwaysFresh`, `BoxesWrittenOnce`, `FitsChildrenFirst` | `MasksExact` implies the properties of `Refit` | `Inv` of `RefitProofs` |
| `TraceTypeCorrect` | `TraceSpec => []TraceTypeOK` | `TypeInv` |
| `KernelsCompiledOnce` | `TraceSpec => []CompiledOnce` | `CacheInv` |
| `SharesAlwaysSound` | `TraceSpec => []ShareSound` | `SplitSound`, `ShareTyped` |
| `RaysTracedOnce` | `TraceSpec => []EachRayOnce` | `HitsInv`, `GridCovers` |
| `StacksAreLifo` | `Spec => ImplementsLifo` | `Inv` of `GlobalStackProofs` |
| `BufferStaysIntact` | `entryWords = 1` implies `Spec => []BufferIntact` | the same |
| `RadixTreeBuilt` | `Spec => []RadixTree` | `ClimbInv`, `StoreInv` |
| `FitsBottomUp` | `Spec => ImplementsBottomUp` | the same |
| `BoxesAlwaysFit` | `Spec => []BoxesFit` | the same, `BoxInv` |
| `BuildEmits` | `BuildSpec => Spec`: `FatLeaves` leaves `LbvhEmit` as it is | the frame of its actions |
| `FatLeavesAlwaysExact` | `BuildSpec => []FatLeavesExact` | `ClimbInv`, `StoreInv`, `FatInv` |
| `CountsChildrenFirst` | `BuildSpec => CountsBottomUp` | the same |
| `PairMerges` | among two or more clusters some pair chooses each other | `NearestIsNearest`, `SameGap` |
| `BuildKeepsInv` | `Ploc`'s `Spec => []IInv` | one lemma per action (`LeaveKeeps` to `IterateKeeps`) |
| `RangesAlwaysComplete` | `Spec => []RangeComplete` | `IInv` |
| `AlwaysOneTree` | `Spec => []OneTree` | `IInv`, `SomeoneHasAll` |
| `BuildAgglomerates` | `Spec => ImplementsAgglomeration` | `IInv`, `RoundKeepsNodes` |
| `PairsAlwaysKept` | `Half <= QueueEnd` implies `Spec => []PairsKept` | `IInv`, `StoreStaysInside` |
| `RoundsAlwaysUnite` | `Spec => RoundsUnite`: every round of the merge loop stores a node | `IInv`, `PairMerges` |
| `PoolTypeCorrect`, `ObjectsStayBacked`, `CountsStayExact` | `Spec => []TypeOK`, `[]ObjectsBacked`, `[]CountsExact` | `Inv` of `GpuPoolProofs` |
| `OnlyEmptyIsFreed`, `NothingLeaks` | `Spec => FreedWhenEmpty`, `NoLeak` | the same |
| `HandlesStayMirrored`, `RegistryNeverDangles`, `NothingIsOrphaned` | `Spec => []Mirrored`, `[]NoDangling`, `[]NoOrphans` | `Inv` of `HybridProofs` |
| `MirrorTypeCorrect` | `Spec => []TypeOK` of `HybridMirror` | the same |
| `SidesAlwaysAgree` | `Spec => []SidesAgree` | the same, `Wired`, `Held`, `AgreeInv` |
| `StackIsSound` | `Spec => []StackInv` of `TraversalProofs` | one lemma per action (`CallStack` to `FinishStack`) |
| `MarksAlwaysMatch` | `Spec => []MarksMatch` | `StackInv` |
| `RayAlwaysInSpace` | `SoundConfigurations` implies `Spec => []RayInSpace` | `StackInv`, `Boxed` |
| `HitsAlwaysExact` | `SoundConfigurations` implies `Spec => []HitsExact` | `StackInv`, `Boxed`, `HitsInv` |

**Collapse.** `UntornTask` is not inductive: that the words of a task fit
together depends on where each word came from. `WordInv` therefore says that
every word in a slot and in a register is either invalid or the word of the
one task the slot's address was allocated for, on any warps; `TaskInv` adds what an opened node
leaves in the lanes, which needs `MasksExact`. With it a valid task is the
allocated task (`ValidTask`), and `Claim` can be reasoned about as if the
queue were atomic. `ReferencesPartitioned` is then inductive by one case per
place a reference moves from: `Claim` moves it from a slot to other slots and
lanes, `Emit` from lanes to a range. `ExitInv` says that a subwarp leaves the
loop only after its own emission or when everything is emitted. `NestInv` says
that the tasks ever allocated are distinct nodes with more than one reference,
of which a full tree has at most one per reference less one.

The array of box nodes is sized before the tree is known, to `L + 1 + L / (F - 1)`
nodes (rounded up) for fan-out `F`, where `L` is the number of references divided
by the smallest size of a node that is no fat leaf, `M + 1`. `BudgetInv` is the
account that shows it suffices: an opened node costs `(M + 1)(F - 1)`, and what is
queued pays `F` for each reference it holds less `M + 1` for each node. A node that is opened into internal children uses all of
its lanes, each of which takes at least one reference (`FrontBudget`), and
queued nodes are disjoint sets of more than `M` references each
(`DisjointNodesCount`), so that the account is never overdrawn. Since addresses
then always lie in the array and below the number of subwarps launched, there is
a subwarp for every task, which `ExitInv` needs to conclude that no task is
abandoned.

`TileInv` says that the ranges written so far cover exactly the counted part of
the array; `WideInv` that a node already taken holds what its leaves and the
tasks it published hold. When everything is emitted there are no tasks left,
and both together give the finished tree.

**Behind Collapse.** The block compacts in place: it stores to slots that may hold
tasks it has yet to read. `CompactInv` says that it never does. The first
`taskCount` slots list exactly the ranges whose slots have been moved, once each;
the slots of later rounds, and of this round until every warp has loaded, are what Collapse
left; and the registers of a warp hold the slots of its threads. A store
keeps it because there are no more tasks among the slots moved than slots, so that the
places it takes lie before the end of the round, and the barrier has everybody in the
round loaded. `RankFacts` is the lemma behind the lane numbers: counting the
valid lanes below gives each of them a place of its own, without gaps. `PackedInv`
then follows the single counter of the packers: what a warp takes
starts where all others ended.

That the primitive nodes fit is an account again, between kernels. A node of `l`
references takes at most `Most(l)` primitive nodes: `l`, or half of it rounded up.
`SpendInv` compares, three times these and twice what is queued, with twice the
references plus the number of queued tasks. Opening a node with `k`
internal children and `l` references in its leaves keeps it if
`3 Most(l) <= 2 l + k - 1`, which fails for one, two or three
references without enough children next to them. Such a node cannot be: the lanes are all in use, so that
`k` is zero only if its leaves hold everything a task holds, which is more than a fat leaf,
and `l` is at least the fan-out less `k`. That is where the theorem needs
`CodeSizes`: two pairs in each packet and fat leaves of three or more. (The root may be
small, and the last term of the account is its exception.) When the packers run, nothing is
queued and two thirds of the references are what the array has room for. `SpentInv`
says that the counter is no more than the tasks packed so far can take.

Assumptions: the nodes are a finite laminar family with the set of all
references as root (`TreeAssumption`); there are as many inner nodes as a full
binary tree has (`FullTreeAssumption`); fan-out is larger than a fat leaf
(`SizeAssumption`: packets of four exist only where the fan-out is eight, and
leaves are single elsewhere).

**Refit.** `Inv` joins four facts: a counter is the number of children counted
so far; subwarps that are still climbing are at different nodes; a fitted node
has a fresh box; and a node that is not fitted although all its children are
counted has somebody on the way to it. From the last one, that the kernel ends
with every node fitted follows by looking at the unfitted node with the largest
address, for parents have smaller addresses than children (`TreeAssumption`).
The reset covers all counters because its threads, one per primitive, are no
fewer than the box nodes (`LaunchAssumption`, which `QueueNeverOverruns`
justifies: a build never has more box nodes than references).

**Hybrid trace.** `GridCovers` is the arithmetic: a grid that is not empty
covers its rays, for a sum that wraps around is less than a block and makes the
grid empty, which the driver refuses. `HitsInv` says for each place in a call
which hits are written; the wait is enough because a call that waits does so
in its own context (its launch was accepted there and nothing of the thread
happened since), so its own kernel is among those waited for. `Missing` makes
`CompiledOnce` inductive: who compiles holds the mutex and found no kernel.
Assumed are the ranges of the inputs and a block smaller than the integers.

**Dynamic stacks.** Cells of different lanes, flags or heights are different
words, by arithmetic on the layout (a lane number is below the warp size, a
height below the stack size). The invariant says that owners of a flag are unique
and that the registers of a lane describe a ring: with it, every operation of a
lane changes the top of its own sequence of entries and nobody else's.

**LBVH.** First the codes are left behind. `DifferencesGraded` says what the climb
relies on: the two ends differ more than any neighbours do, and between two
boundaries that differ in the same highest bit there is one that differs in a
higher one. Since a key is widened by its position no two keys are equal, which
is what makes it true of equal codes as well. From there on the tree is one of ranges whose inner boundaries differ
less than their ends (`IsRange`): every node's range has two halves, the halves
are the only ranges that climb to it (`HalvesClimb`), and every range of
more than one code is that of some node (`RangeHasNode`).

`ClimbInv` says that a thread that still climbs is alone in its range, and that of a
node nobody has entered either no half was left, or some were, with their far
end in the counter. The second sibling therefore reads the far end of the
other half (`MeetsSibling`). When all threads have left, every node was entered: of the
smallest that was not, both halves would have been left, with two different
far ends in one counter (`AllEntered`). `StoreInv` follows the stores, arrived or
not. A link is stored when its item is passed. A box that a sibling may have been
told of has arrived, for a fence stands between; and a box that is on its way finds the
boxes of its children arrived. The last two hold with stores that lag, and give
the refinement. Only for what the boxes hold (`BoxInv`) does the proof need
stores in order.

The counts of `FatLeaves` are made by threads that climb from the nodes without internal
children, and a count may still be on its way when its thread moves on. In `CountInv` a node is
counted once its count is stored, or on its way, and its thread has left it. Then no
two threads visit one node or have counts of one node on the way (`ApartInv`), the counter
of a node is the number of its counted children, a thread visits it only when all of them are
counted, and a node with all its children counted is visited or has a count itself
(`NodeInv`). When the kernel has ended, a smallest node without a count would have
all its children counted, so there is none (`AllStored`). `PhaseInv` ties the kernels
together: the second starts when the first has left the radix tree, the third when every
parent link is stored.

**PLOC.** A round is idle only if no two clusters choose each other, and then the
warp would loop for ever. What a lane minimises is one number of the distance and
the encoded offset, so ties are decided by the offset. `PairMerges` takes
the pairs with the smallest distance and, among those, the smallest gap. If that
gap is odd, both lanes of a pair encode their partner on the same side, and a pair
on the side that wins is mutual. If it is even, all lanes of one parity prefer one
direction, and where such a chain of lanes ends its last two choose each other.
The model checks the same through `Termination`, for three
distances and a radius of two; the theorem is about all of them, and
`RoundsAlwaysUnite` uses it to show that each round of the kernel stores a node.

The theorems about whole builds do not need the radix tree, only this: ranges that no
other range holds (`Top`) partition the codes, and whatever a thread finds in a counter
is the far end of the range next to its own (`FindsSibling`). Hence `ClimbInv`: a range
that is left waits at one counter, which holds its far end, and a counter between two
such ranges is otherwise empty. When no thread is left, one has all codes
(`SomeoneHasAll`): of the ranges that wait for their right neighbour, the last meets one that
waits for its left neighbour, and both would have their far ends in one counter.

`ClusterInv` says where the clusters of a range are: in the shared array of the warp
that merges it, at the starts of its two halves while it is pending, or at its own start; each
time they are clusters without a parent, apart from each other, that hold every code of the
range. A warp writes only what lies in its own range (`OthersApart`), which is why a
range is found complete by a thread of another warp. `Store` writes half a warp of words. In a range of
more than half a warp of codes they are its own. In a build of fewer codes than that the only range
merged is the last, which begins with the array; the words behind it are no
leaves, but may be counters, and these nobody reads any more, for no thread is left that climbs (`CountersSpent`).
With half a warp of words up to `QueueEnd` nothing else is reached (`StoreStaysInside`). A range that was never merged is short and still has its leaves
in place, so that `Elect` may pass it on. `NodeInv` says that clusters without a parent partition
the leaves, that their number and that of the nodes add up, and that the addresses taken
are the last ones of the array. A round keeps it because the pairs of a round share no lane
(`MergingPaired`), lanes of a ballot are numbered without gaps (`BallotNumbers`), and what
the compaction leaves is again spread over the range (`AfterSpread`).

Assumptions: two leaves or more (a single reference is a case of its own in the host code), warps
enough for them, as the launch has, an even warp size (`WarpAssumption`), and buffers made for at least as many
primitives as pairing leaves (`QueueAssumption`).

**Pools.** `Inv` says who owns what: allocations are disjoint, and each is a head
that counts, or pending with one call that has not registered it yet, or left behind by
a driver call that failed. A head with
count zero that has lost its buffer exists only between `oroFree` and the erasure of the entry, and
only while somebody holds the mutex; every other head counts the objects inside
of it, `lost` ones included. That is why a buffer given out again in this window cannot meet
its old head: who wants to register it needs the mutex. Each of the actions of a
call is one lemma. `NothingLeaks` compares a step with the exceptions the property names (`Strands`):
a copy strands the new buffer, a synchronisation the buffer of the objects it keeps, `oroFree` those of
the rest of its batch. No other step takes an allocation from those who would free it.

**Mirror.** `RegistryInv` says whose each entry of the registry is: that of a CPU
handle itself, or that of a GPU handle a client holds, and in both cases it leads
to data that exists. A failed creation leaves only entries of the first kind, so
an address that comes back as a GPU handle has no old entry.

`SidesAgree` compares the contents of a handle on both sides: what is below a
scene, through scenes in it. `Reach` states that as the least closed set, which the
prover can use where a recursive function is out of its reach. `Wired` says that what is
attached to an Embree scene exists, and that no two CPU data objects share a scene; `Held`
the same of what a GPU scene was built from; and `AgreeInv` that the Embree scene
of a handle the client may still rely on has exactly the attachments of what the GPU
handle was built from, and that what these refer to can be relied on as well. The contents of both
sides, any number of references below, follow from this one step of it. It is claimed of handles that
are `Sound`: `doubtful` takes out what a build without an error has left different, and whatever is
built from it, until an update.

**Traversal.** The stack is the plan of what is left to do, and `StackInv` says how to
read it. The entries between two marks are nodes of one tree; how many marks there are
up to an entry says which, for the instances the ray is in are a path through the
scenes, and the entry belongs to the tree its beginning leads to (`PathAt`). Hence a
pop never takes the index of one tree for that of another, and when several marks are
popped together (`Ended`), as many trees are left as marks. `Nested` says that the instance stack
holds what each scene on the path was entered with, so that what `restoreRay` puts back is the
space of the tree that is left for (`Around`). `InTree` is `RayInSpace` for the ray and the
arrays, `Boxed` for the inverse direction. Both hold only inside of a call, for the local
variables are set up anew by the next one; that this set-up agrees with what the fields say is
the case of `Call`.

`HitsExact` is not inductive: a hit that has not been given must still be reached.
`HitsInv` says that every hit the mask leaves is given or pending, never both, and
pending in one place only (`Once`): below the current node or below one entry of the stack. In a
leaf where a call has left off only the rest of it counts (`LeftIn`): the pair to go on with, but
for its first primitive if the mask says so, and the pairs after it. Each action moves
places: a box test hands the hits below a node to the children it lets through, which share no
leaves and include all those with a hit (`InSpace` is needed here, which is why `HitsInv` rests
on `StackInv` and `Boxed`); an instance hands those below its leaf to the
root of its tree; a leaf gives one hit and keeps the others (`Outcome`, one lemma per kind of
leaf). For closest-hit a hit that is later than the one found may be dropped,
so what is pending or found is only what is nearer. When the search is finished the
stack is empty, nothing is pending, and all hits are given. TLC checked the invariants on
the scene of the run before they were proved.

Assumptions: trees are what a builder makes, each leaf below one child of a node at most
(`TreeAssumption`); the leaves of a scene are distinct instances
(`InstanceAssumption`); no primitive of a geometry is in two leaves or pairs
(`PrimitiveAssumption`), which leaves out trees with spatial splits, where a search may well
meet a primitive twice; times are before the end of the ray (`ConfigurationAssumption`).
`SoundConfigurations` excludes what `traversal_identity` shows to fail: any-hit searches of pairs
with identity transforms.

**Only model-checked**: liveness, which is out of the prover's reach:
`Termination` of the builds with `Collapse` and of `HPloc`, `BuildEnds`,
`EveryWarpServed` and `CallReturns`. Of `HPloc` it is proved that none of its
rounds is idle.

## Not modelled, and why

Floating-point and bit-layout code (node formats, transforms, box arithmetic,
surface areas) has no behaviour over time; the models leave its results open
or abstract them to sets. Embree, Orochi and the radix sort are external: they
appear as what the code relies on. The API layer adds parameter checks around
calls that are modelled. Compaction and import of hybrid objects are refused by
the code. Two calls that use one handle at the same time, and a handle used
after its destruction, are misuse and left out.

## Plan

1. `FitOrientedBounds`: the climb of `FatLeaves` with a whole warp per node.
2. What packets hold and where children are patched to: that a leaf is found again
   from its packet and its range flags.
3. The batch builder's barriers and its layout of shared memory; the counters of
   the SBVH builder's reference budget; the module cache of the compiler.
