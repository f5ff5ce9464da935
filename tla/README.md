# GPCS4 in TLA+

GPCS4 runs PlayStation 4 programs on a PC. A game's machine code runs
natively; the calls it makes into the console's system libraries are served by
modules of the emulator, and the command buffers it builds for the console's
GPU are parsed, translated and recorded for Vulkan. This directory holds a
model of the parts of GPCS4 whose correctness depends on order, on sharing or
on bounded resources, with what TLC checks of them and what TLAPS proves.

Paths below are relative to the repository; `Violet/`, `Gnm/` and `Sce/` stand
for `GPCS4/Graphics/Violet/` and its neighbours.

## 1. The system

    game code ── calls ──> SceModules (libkernel, GnmDriver, AudioOut, ...)
        │                        │
        │ writes PM4 packets     │ SceGnmDriver
        v                        v
    command rings ────────>  Sce: queues, swapchain, resource tracker
                                 │ record
                                 v
                             Gnm: command processor, command buffers, labels
                                 │ draw state, copies, label operations
                                 v
                             Violet: contexts, command lists, staging, memory
                                 │
                                 v
                             Vulkan driver and GPU

The threads that matter: the *graphics thread* (the one of the game that calls
`sceGnmSubmitAndFlipCommandBuffers`) records and submits a frame, waits for it,
presents it and cleans up; any thread that rings the doorbell of a *compute
queue* records and submits its packets; *label tasks*, started with
`std::async`, store label values once the GPU has signalled; *game threads*
synchronise through libkernel's event flags and semaphores; the GPU executes
each VkQueue in order. The program has no tests. Its documents
(`ReadMe.md`, `Doc/*.md`) describe the layers and the override policy of the
module system, and nothing else that is modelled here; what a component
promises is in the comments of its header.

### Inventory

| Component | State it keeps | Operations | What is hard | What makes it correct | Module |
|---|---|---|---|---|---|
| **Device memory** `Violet/VltMemory.cpp` | per heap: bytes allocated and used; per type: a list of chunks, each with a vector of free slices | `alloc`, `free`, and the sweeps of empty chunks they cause; everything under one mutex | allocations die in any order; alignment at both ends of a slice; six fallbacks that share one state; a raw pointer to the chunk | a byte has one owner; nothing is lost; a chunk is destroyed only when unused; the statistics are true | `VltMemoryChunk`, `VltFreeList`, `VltMemoryAllocator` |
| **Command lists** `Violet/VltQueue.cpp`, `VltCmdList.cpp`, `VltLifetime.cpp`, `VltRecycler.h` | a list per context; the recycler's slots; fences; tracked resources and their use counts | begin, track, submit, synchronise, reset, recycle | several threads submit without a lock; a recycled object keeps flags and fences of its last use; a submission, a wait or the reset of a fence may fail | a list has one owner; a list the GPU has is left alone; a resource is not called idle too early | `VltCommandLists` |
| **GPU labels** `Gnm/GnmGpuLabel.cpp`, `GnmLabelManager.cpp` | address → label with a timeline semaphore and the future of a task | `writeAtEndOfPipe`/`writeReleaseMemEvent`, `waitOnAddress`, reset at the end of a frame | three kinds of threads; a lock held while futures are joined; operations that overtake the list that is being recorded; results of the driver that nobody looks at | no task outlives its label; labels go when the queue is drained; a frame ends | `GnmLabels` |
| **Staging** `Violet/VltStaging.cpp` | the current buffer and offset, up to two buffers put aside | `alloc` from upload, update and download | a buffer is reused on the word of its use count | staged bytes stay until the list has read them | `VltStaging` |
| **Compute queues** `Sce/SceComputeQueue.cpp` | ring bounds, command pointer, read pointer in guest memory | `dingDong` | the game writes while the driver reads; the ring wraps | each packet once, in order, before its room is given back | `SceComputeQueue` |
| **Event flags** `SceModules/SceLibkernel/SceEventFlag.cpp` | bits, the mark of a single waiter | `Set`, `Wait` (`Poll`, `Clear`, `Cancel` are stubs) | wake-ups, timeouts, others that clear the bits meanwhile | a wait returns with what it waited for, and returns when that stays true | `SceEventFlag` |
| **Semaphores** `SceModules/SceLibkernel/SceSemaphore.cpp` | the count | `Signal`, `Wait` (`Poll` has no caller) | whom `notify_one` wakes | the count stays in its bounds; no wake-up is lost | `SceSemaphore` |
| **Swapchain, presenter** `Sce/SceSwapchain.cpp`, `ScePresenter.cpp` | images, semaphores, frame index | acquire, submit, present, recreate | results of the driver that are not looked at | an image is presented after it was acquired and drawn | planned |
| **Driver facade** `Sce/SceGnmDriver.cpp` | graphics queue, 56 compute queues, swapchain | submit and flip, map, unmap, ring, present, clean up | identifiers of queues collide (§6) | a queue's identifier is its own | frame in `GnmLabels`; mapping planned |
| **Resource tracker** `Sce/SceResourceTracker.cpp` | guest address → resource, under a spinlock | track, find, transform, download, reset | two of its walks take no lock; a pointer leaves the lock | a resource in use stays in the map | planned |
| **Descriptor pools** `Violet/VltDescriptor.cpp` | a pool per context, the pools each list tracks, a recycler | allocate a set, next pool, track, reset, recycle | a pool serves several lists and is reset with the one during which it filled up | a set is valid until its list has executed | `VltDescriptorPools` |
| **Barriers, passes, clears** `Violet/VltContext.cpp`, `VltBarrier.cpp` | dirty slices and pending transitions, bound framebuffer, layouts of its targets, deferred clears | draw, dispatch, copy, update, clear, bind targets, flush | each command relies on what earlier ones registered; a layout is kept in three places; clears are put off | a conflicting access waits; an image is in the layout it is named in; a clear keeps its place | `VltContext` |
| **PM4 processor, command buffers** `Gnm/GnmCommandProcessor.cpp`, `GnmCommandBuffer*.cpp` | register state | one handler per packet | translation of data | | label commands in `GnmLabels`, batches in `SceComputeQueue` |
| **Shader control flow** `Gcn/ControlFlowGraph/` | graph, dominators, loops, token list | build, optimise, remove gotos, split by EXEC | the structure of any program from a depth-first search and lists edited while they are walked, by walks inside walks | the structured list runs the blocks the graph does; it verifies; no goto is left | `GcnControlFlowGraph`, `GcnTokenList`, `GcnStackifier`, `GcnDivergentFlow` |
| **Shader translation** the rest of `Graphics/Gcn/`, `Graphics/SpirV/` | none across shaders | decode, emit | a large mapping of instructions | | not modelled |
| **Guest memory** `Emulator/Memory.cpp` | the host's mappings, the list of records | map, unmap, reallocate | the search takes no lock, and the list changes outside the lock that releases the range | the records are those of the mappings | `GuestMemory` |
| **TLS** `Emulator/TLSHandler.cpp` | modules' TLS images, their offsets | register, allocate, free, `__tls_get_addr` | the layout may change between allocation and release | what is freed is what was allocated | planned |
| **Module system, loader** `Emulator/`, `Loader/`, `Doc/ModuleSystem.md` | modules, symbols, override policy | register, load, link | the policy has three levels | a symbol resolves as the policy says | planned |
| **Handles, files, threads** `SceModules/MapSlot.h`, `SceLibkernel/` | slots | open, close, create, join | a slot is found and filled in two steps | a slot has one owner | planned |
| **Audio output** `SceModules/SceAudioOut/` | ports, a blocking queue | output, callback, close | a callback of another library | no buffer is lost or used after close | planned |
| Other system modules, platform, utilities, vendored code | | | | | not modelled |

`PROJECT.json` lists every component with its sources and the reason when it is
not modelled, and the hazards with the line at which each of them bites.

## 2. Modules

| Module | Models | Extends / uses |
|---|---|---|
| `VltSlices` | slices of a chunk: best fit, carving with alignment, coalescing; pure operators | |
| `VltMemoryChunk` | one chunk with its free list as a *set*: the abstract specification | `VltSlices` |
| `VltSliceList` | the same operations on the *vector* of the code: first best slice, push_back, the single merging pass of `free` | `VltSlices` |
| `VltFreeList` | one chunk with the vector; implements `VltMemoryChunk` | `VltSliceList` |
| `VltMemoryAllocator` | heaps, types, chunks, every fallback of `alloc`, every path of `free` | `VltSliceList` |
| `VltListLife` | the life of a list (begun, submitted, executed, returned) for one context at a time: the abstract specification | `VltThreads` |
| `VltCommandLists` | contexts, recycler, queue, fences, use counts; implements `VltListLife` | `VltThreads` |
| `VltStaging` | the staging ring and its callers | |
| `VltThreads` | the contexts and the null value | |
| `VltDescriptorPools` | descriptor pools of contexts, lists and the recycler | `VltThreads`; assumes of its lists `VltListLife` |
| `VltContext` | barriers, render passes, deferred clears of one context | |
| `GnmLabels` | labels, their tasks, two GPU queues, the frame | |
| `SceComputeQueue` | ring, doorbell, recording, read pointer | |
| `SceEventFlag`, `SceSemaphore` | libkernel's objects over a mutex and a condition variable | |
| `GuestMemory` | the search for a free region, release, the list of records | |
| `GcnControlFlowGraph` | blocks of a program, dominators, the depth-first search that finds loops, reducibility; pure operators | |
| `GcnTokenList` | tokens, the edits of the list, the verifier of the code, and what a list executes | |
| `GcnStackifier` | the builder, the six passes of the optimizer, the removal of gotos: one step per vertex, pass and goto | the two above |
| `GcnDivergentFlow` | the split of a block by EXEC, one step per instruction | |
| `...Proofs` | the theorems of §5 | the component, `TLAPS` |
| `MCVltMemoryParts`, `MCVltMemory` | chunk, vector, allocator and staging together; and on a small adapter, with `util::align` as a bit mask | `MCVltMemoryChunk`, `VltStaging`, `VltMemoryAllocator` |
| `MCVltCommandLists` | lists, pools and the commands of a context | `VltCommandLists`, `VltDescriptorPools`, `VltContext` |
| `MCGpu` | labels and compute ring | `GnmLabels`, `SceComputeQueue` |
| `MCGcnShader` | whole shaders, blocks of code | `GcnStackifier`, `GcnDivergentFlow` |
| `MCKernelSync` | event flag, semaphore, guest memory | `SceEventFlag`, `SceSemaphore`, `GuestMemory` |
| `MCVltStaging` | the staging allocator alone, for `staging_update` | `VltStaging` |

An MC module that covers several components adds a variable that says which of
them a behaviour is of; the variables of the others are at rest. So one run
explores the *sum* of the state spaces, and a step of one component can never
be taken for a step of another. Components that do interact are composed inside
their modules: the labels with the GPU queues and the frame, the lists with
recycler and use counts, the pools with the lists' life, the ring with the game.

How state and actions correspond to the code:

- **Chunk.** `freeList` is `m_freeList`; `live` the `VltMemory` objects that
  exist. `Alloc` is `VltMemoryChunk::alloc` (`VltMemory.cpp:84-140`): the
  *smallest* slice that is at least `size` long is tried, and if alignment makes
  it too small the call fails although a larger slice might do. `Free` is
  `free` (142-171).
- **Allocator.** `pool` is all the state of `VltMemoryAllocator`, threaded
  through operators that carry the names of the methods, because the fallbacks
  of `alloc` (284-312) leave the effects of a failed attempt behind. `Grants`
  is what `vkAllocateMemory` gives during a call.
- **Command lists.** `cmd[c]` is a context's `m_cmd`, `sub[c]` the list its
  thread has in `VltSubmissionQueue::submit`, and `step[c]` where in
  `submit` it is: `Submit`, `Synchronize`, `Reset`, `Recycle` are its four
  calls; `SynchronizeFails` is the second with a wait that ends with an error.
  `loose` has the lists the driver failed for in a wait or in the reset of a fence,
  until they are begun again with their fence reset. `Rc` is modelled by `Referenced`: a list no variable points to runs its
  destructor, in the same step. `recycler` keeps the reference that
  `retrieveObject` leaves in its slot.
- **Labels.** `GetLabel` is the call under the spinlock and hands out a pointer
  (`held`); `Write`/`AssignFuture` are the two halves of `write()`, because the
  assignment to `m_future` waits for the task it replaces; `LockLabels`,
  `DestroyLabel`, `UnlockLabels` are `reset()`, which joins one future after the
  other under the lock. `GpuStep` executes a queue's oldest submission, `QueueSubmit` is
  `vkQueueSubmit2`, which may refuse. `refused` and `unwaited` remember the signals
  refused and the threads whose last wait for a fence failed.
  `UseDestroyed` is the use of a pointer whose label `reset()` destroyed.
- **Staging.** `StagingAlloc` returns the next state of the allocator and the slice.
  `ListCompletes` lets each use count of a completed list fall or stay, since
  recycled lists keep theirs (§6).
- **Compute queue.** `RecordFirst`/`RecordRest` are the ranges of `dingDong()`,
  between which the game may write; `Publish` gives the room back.
- **Descriptor pools.** A list is known by the context that has it. `AllocateSet`,
  `AllocateFirstSet` and `AllocateFromNext` are the three ways through
  `allocateDescriptorSet` (`VltContext.cpp:1885-1910`); `BeginAnew` drops a list
  that was never submitted, `Destroy` is its destructor, which may come at any
  later time as the recycler may hold the last reference.
- **Context.** `context` is one record. Its first fields are those of
  `VltContext`; `layout`, `pending` and `stale` are what the recorded commands do
  to the resources, and `raced`, `misplaced`, `overtaken` collect what went wrong.
  Operators carry the names of the methods (`Spill`, `FlushClears`,
  `StartRenderPass`, `AccessImage`, `RecordCommands`) and take and return the
  record, in the order in which the code calls them.
- **Guest memory.** `Search` is one `VMQuery`, `Allocate` the `VMAllocate` that
  follows it, `Record`/`EndRecord` the append under the lock. `Release`, `Lookup`
  and `Erase` are the three steps of `memoryUnmap`, of which only the second
  holds the lock.
- **Shader control flow.** `tokens` is a list with its nodes. `VisitImmediate` and
  `VisitDelayed` take a vertex off the builder's two work lists; `Optimize` is one
  pass over the list with the iterator the code keeps while tokens are erased;
  in the pass with the first walk inside a walk (`NestsWalk`) the outer one goes on
  with references into a vector that has moved, which ends as if nothing had
  happened or in the phase `lost`, where the list is not followed any further;
  `EliminateGoto` is one `moveOutward`. `Run` executes a list: it follows the
  tokens as SPIR-V would be executed, and returns the next block.
- **Split by EXEC.** `AddDivergent`, `AddExecute`, `SkipWait` are the branches of
  the loop of `divergeCode`, `Finish` what follows it. V_CMPX_* is a kind of its own
  (`cmpx`): the pass treats it as a comparison, and it writes EXEC.
- **Event flag, semaphore.** What a thread does under the mutex is one step. A
  thread in `Wait()` is in `waiting` (asleep) or `notified` (wants the mutex);
  wake-ups may be spurious, and a timeout may come at any time.

## 3. Runs

Twelve runs; five check what holds, seven show a disagreement between the code
and what is written about it (✗).

| Run | Question | Bounds and why they are enough |
|---|---|---|
| `memory` | Is a byte of a chunk handed out twice or lost, or a used chunk called empty, and does the vector do what the set says? Do fallbacks, sweeps and frees leave a dangling chunk, a wrong statistic, a second spare chunk? Are staged bytes overwritten or outside their buffer? | *Chunk* of 10, sizes 1, 2, 3, 5, alignments 1, 2, 4: four allocations with gaps on both sides and merges before, after, both and none. *Allocator*: two heaps, one with a budget below its size; three types; requests with each kind of hint, preferred and required dedication; a driver that gives all, little or nothing in each call; 2 live allocations, so that a chunk has neighbours and an empty chunk may exist beside a used one. *Staging*: buffers of 24 with lines of 4; sizes 9 (no multiple of a line), 16 (two do not fit), 25 (more than a buffer), updates of 4, for which alone swapped arguments do no harm; up to 4 slices in a list, as many as two put-aside buffers and the current one need to come round; five buffer identities, so that there is always a new one. |
| `command_lists` | Two threads, one recycler of one slot, a driver that may fail in a submission, a wait or the reset of a fence: who owns a list, and what may a user of lists rely on? Do its descriptor sets live long enough? Do the commands of a context race, lose a layout or a clear? | *Lists*: three are as many as two threads and a slot hold, so that lists are created, recycled and dropped; a use count of 2 lets two lists use one resource; two submissions on the queue and one list at a time that the driver has failed for, so that such a list is recycled while pending, begun again, submitted a second time and dropped beside the faultless list of the other thread (the proofs of §5 have neither bound). *Pools*: four pools of two sets, one pool tracked by a list (the context's own is the second), one dropped list, so that the two contexts can hold all four: pools fill up, move between contexts through the recycler, and come round. *Context*: one colour and one larger depth-stencil image with two aspects, one buffer of two units, so that slices overlap, are equal and are disjoint; a command begins with at most two registered slices, and registers up to two more. |
| `gpu` | Labels: tasks and labels, draining, the end of a frame. Ring: order, room and completeness. | *Labels*: one address, the graphics and one compute thread, two lists each with one command, of a label or a draw: a label is destroyed and made again while the other thread uses it; three semaphores are as many as are ever alive, and which of the free ones a new label gets is chosen once and for all; one call of the driver may fail, at any place (a submission refused, a wait ended). *Ring* of 6 and batches of 1, 2 and 5, so that batches end before, at and after the ring's end and 5 fills it; 20 packets are three rounds; 3 doorbells outstanding. Packets are numbered, hence the bound, and the ring ends there. |
| `shader` | Is a shader turned into a list that verifies and does what its graph does, without gotos, as long as the optimizer's walks keep their place? Does every lane run its instructions? | *Every* program of 3 and 4 instructions, every one of 5 with at most one loop, in which each instruction is a block, all are reached the end can be reached from all, and whose loops are understood (`Understood`: reducible, each block filed in its innermost loop, each back edge known); nine larger shapes with nested and successive loops, breaks out of two loops, a loop in a branch, a switch, Ifs three deep. *Every* block of up to five instructions of the five kinds, with and without a branch at the end: a scope can open, be interrupted, close and open again. |
| `kernel_sync` | Lost wake-ups, bounds, single waiters; records of mappings. | Three threads: one that waits, one that waits for the same or clears it, one that sets; two bits; counts up to 3, signalled and waited for by one. Two threads that map: an application area of 3 pages and a system area of 4, with granules of 2, so that a mapping is rounded down, lies in neither area and is overtaken by another; two mappings. |
| `in_use` ✗ | `VltResource::isInUse` | as the lists of `command_lists`, with four of them, since a list whose count never falls keeps its identity, and with a driver that does not fail |
| `label_early_signal` ✗ | the promise of `queueSignal` | one list |
| `label_cleanup_stuck` ✗ | a wait before its write | two addresses, one list each |
| `staging_update` ✗ | staged data of updates | two slices |
| `event_flag_all` ✗ | a wait for all bits | as `kernel_sync` |
| `shader_gotos` ✗ | a goto below two Ifs | programs of 5 instructions without a loop |
| `shader_loop_info` ✗ | `GcnLoopInfo::findLoop` | programs of 4 instructions, whatever their loops |

What the passing runs show, property by property:

- `NoOverlap`, `NoLeak`, `Coalesced`: the free list and the live
  allocations partition the chunk at all times. `Coalesced` is needed for
  `isEmpty()`, which is true only of *one* slice (§5). `ImplementsChunk`: the
  vector, with its scan that stops at the first best slice and its single pass
  that moves a merged slice on, is a refinement of the set.
- `NoDanglingChunk`, `ChunksPartitioned`: the raw pointer in a `VltMemory`
  stays valid through every sweep. `StatisticsExact`: allocated and used bytes
  of a heap are what exists. `OneSpareChunk`: what the comment at
  `VltMemory.cpp:563` wants, which is remarkable as creation never looks for a
  spare chunk with other hints.
- `StagedDataIntact`, `SlicesInside`: slices that wait to be read share no byte
  and end in their buffer.
- `ListOwnedOnce`: no lock is needed in `submit` for the *lists* because a list has
  one owner, whatever the driver does. `PendingIsAwaited`: a list the GPU has is
  awaited by its thread, its fence not signalled. In the code this is false of a
  list whose wait ended with an error or whose fence was not reset
  (`VltCmdList.cpp:141`, `:168`; §6); the property exempts these lists (`loose`) and
  says that the failure does not spread to another list, by the recycler or by a
  fence that signals for the wrong submission. `UsesCovered`: the use counts never
  fall below the uses tracked by lists someone refers to.
  `AcceptedSubmissionReturns`: a thread returns from each submission that the driver
  accepted. `ListsFollowTheirLife`: whatever recycler, fences and queue do, a user of
  lists sees `VltListLife`: a list is one context's, and it is returned only after it
  was submitted and the GPU is done with it, unless the driver failed for this list.
- `SetsOutliveTheirList`, of lists whose waits and fence resets succeed: although a pool serves one list after another and is
  reset with the last of them, no pool is reset, recycled or handed to another
  context while a list recorded with one of its sets may be executed.
- `NoCommandRaces`: of two conflicting accesses the second waits for the first.
  `LayoutsAreTracked`: pass, clear, copy and descriptor agree on the layout of an
  image. `ClearsKeepTheirPlace`: a command sees an image as it would had no clear
  been put off. Each has an exemption, stated in the module and in §6.
- `TasksAreJoined`: destroying a label joins its task except under a write in
  progress. `FrameIsDrained`: a frame is cleaned up with its queue drained, unless
  the wait for the fence of its list ended with an error.
  `CleanupReturnsOrStarves`: what keeps the clean-up from ending is a wait whose
  write has not come or a signal that the driver refused (`VltCmdList.cpp:339`), and
  nothing else. That a value is stored after its signal is not a property: it
  would restate the wait in the task, and the cases in which it is false are in §6.
- `ExecutedInOrder`, `RoomIsFree`, `RungIsSubmitted`: every packet once, in order,
  before its room is given back, and in the end.
- The three properties of token lists hold as long as the walks of the optimizer
  keep their place (`WellFormed`). `ListVerifies`: after the builder and every pass the list satisfies the code's
  own `GcnTokenListVerifier`. `RunsAsTheGraph`: for every outcome of every branch
  the list visits the blocks the graph does; the two are compared over every
  reachable place of the list and value of its flags, so that loops need no bound. `GotosAreGone`:
  no goto is left, unless one had to leave an If inside an If (`shader_gotos`).
- `EachLaneRunsItsCode`: nothing is lost, the order is kept for each lane, and of
  the instructions that may write EXEC only V_CMPX stands between a condition and
  what depends on it, so that the condition is the right one up to the first V_CMPX
  of a group (and is not behind it, §6).
- `SingleWaiter`, `BlockedFindsPattern`, `NoneForgotten`, `CountIsClaimed`,
  `SemaForgetsNone`. `RecordsAreTheMappings`: although another thread may map what
  an unmapping has released before the old record is gone, the right one of two
  equal records stays; said of behaviours in which no two unmappings overlap and no
  removal of a record meets an append, which are races in the code (§6).

For each property `PROJECT.json` names a fault, an operator of the module marked
`Fault:`, which in place of the faithful definition makes TLC refute the
property.

`CHECK_DEADLOCK FALSE` is set where a behaviour may stop: in the runs of
`VltCommandLists` (a failed submission waits for ever), of `GnmLabels` (the
number of lists is bounded; a wait may have no write) and of `SceComputeQueue`
(the number of packets is bounded). The shader runs keep the deadlock check: it
says that every shader gets through `structurize()`.

## 4. Fairness

- `VltCommandLists!FairSpec`: a thread inside `submit()` is scheduled
  (`Synchronize`, `Reset`, `Recycle`), and the GPU finishes what it was given.
  Nothing says that a context records or submits, and a wait that ends with an
  error (`SynchronizeFails`) is under no fairness: it need not help. Weak fairness suffices: once
  enabled these steps stay enabled.
- `GnmLabels!FairSpec`: threads inside `write()`, `wait()`, `submit()` and
  `reset()`, tasks and GPU queues proceed when they can. The game need not
  record anything, so a wait may never be written for; and no failing call of the
  driver (`SynchronizeFails`, `RunTaskFails`) is ever owed.
- `SceComputeQueue!RingSpec`: the thread that rang the doorbell goes on.
- `VltDescriptorPools`, `VltContext`, `GuestMemory` and the shader passes state no
  liveness, and no fairness. (Of the shader passes termination is shown by the
  deadlock check, their graphs of states having no cycles.)
- `SceEventFlag`, `SceSemaphore`: a *notified* thread gets the mutex. Timeouts,
  spurious wake-ups, signals and new waits need not happen, so the two
  `ForgetsNone` properties do not lean on them.

## 5. Proofs

All proofs are checked by TLAPS to their last leaf. They assume only what the
`ASSUME`s of the modules say, each of which TLC evaluates on its instance.

**`VltMemoryChunkProofs`** — for every `MemSize > 0`, sets of positive sizes and
of positive alignments (`ChunkAssumption`): `ChunkInvariant`, `ChunkNoOverlap`,
`ChunkNoLeak`, `ChunkCoalesced`, `ChunkEmptyIsUnused` (`isEmpty()` is true exactly
when nothing is allocated, which is not a property of the runs), and
`VectorImplementsChunk`.
The inductive invariant is
`TypeOK /\ NoOverlap /\ NoLeak /\ Coalesced`; none of the three would be
inductive alone: freeing a slice keeps the partition only if its neighbours are
merged whole, and a neighbour is unique because slices do not overlap. `Pieces`
is about `Carve`: the allocation and what remains before and after it are
disjoint, stay in the slice and cover it. `MergedSlice` is about `Coalesce`:
at most one free slice ends where the freed one starts and one starts where it
ends, and what comes of them overlaps nothing else. That the vector of the code
implements the set rests on `VectorAlloc` and `VectorFree`: for any list without
duplicates (`Distinct`) whose slices are the free part of a partition, the
operators of `VltSliceList` give a list without duplicates of the slices that
`Carve` and `Coalesce` give. For `free` the pass over the vector is followed
slice by slice (`PassInv`, `AbsorbStep`): after `k` slices the freed one has
absorbed exactly those of its neighbours that are among the first `k`, and no
slice already kept becomes a neighbour of the grown one, which is why a single
pass is enough. `BothInv` then carries the partition and the duplicate-free
vector along the steps of `MCVltMemoryChunk`.

**`VltMemoryAllocatorProofs`** — for any heaps, any number of memory types, any
sizes, budgets and thresholds, any set of requests and anything the driver
grants: `AllocatorInvariant`, `AllocatorTypes`, `MemoryKeepsItsChunk`,
`AllocatorChunksPartitioned`, `AllocatorStatisticsExact`, `OneSpareChunkOfAKind`.
`PoolInv(p, L)` is said of a pool `p` and the memories `L` held in it, and not only
of the variables, because one call threads a pool through many steps and leaves
the effects of the attempts that failed. Its parts need one another: a freed
slice is given back to the right chunk because memory is found by a handle that
no other chunk has (`ChunksApart`, `MemoriesFound`); a sweep takes no chunk that is
in use because an empty free list of a chunk cut by `Partition` means that nothing
is held of it (`ChunksCut`); and what a sweep or a release subtracts is what was
added because the bytes are those of a finite set that loses just these
(`Counted`: the statistics are cardinalities of sets of pairs of handle and
byte). `SweepInv`, `DirectInv`, `NewChunkInv`, `TakeInv` show `PoolInv` of every
pool `alloc` goes through, and `DropInv`, `GiveBackInv`, `MendIs` of those of `free`.
The loops of the code (sweeping a list, probing the types, the attempts with
fewer and fewer flags, the halving of the chunk size) are recursive functions;
`Recursion` shows that such a function exists for any length and any step, and
`Climb` carries a property along it, both by a least counterexample, so that no
induction scheme is needed. `OneSpareChunkOfAKind` has the hypothesis
`ChunksAreAligned`: a chunk large enough for a request has a size that is a
multiple of the request's alignment. Otherwise `alloc` makes a new chunk, fails to
cut the slice from it and keeps an empty chunk beside the one there was. The
instance assumes it, and TLC evaluates it; sizes of the code are 128, 64 and
16 MiB halved, alignments are powers of two as well, so it holds unless a request
asks for an alignment above the size of a whole chunk.

**`VltCommandListsProofs`** — for any number of contexts, lists, resources and
recycler slots, any outcome of submissions and any failing waits and fence resets:
`ListsAreOwnedOnce`, `PendingListsAreAwaited`, `UsesAreCovered`, `CommandListTypes`,
`ListsLive`. `ListInv` adds to the two properties that a context records only
outside `submit()`, with its fence reset and its list not on the GPU unless the list
is loose (`Recording`), that it is in `submit()` exactly when it has a list there
(`InSubmit`), that the usable slots of the recycler are filled, and that only a loose
list is on the queue twice (`SubmittedOnce`). The two properties support each other:
a list the GPU has, and that is not loose, is awaited, so it is in no slot, so
`beginRecording`, which resets the fence of the list it takes, cannot touch it; and a
list with one owner can be awaited by one thread only. What a failure has made loose
stays apart from the rest because ownership (`Owned`) does not depend on the GPU.
For `UsesCovered` the uses that lists hold of a resource are counted as a set of
pairs (`Held`), whose cardinality is that of finite disjoint unions; a list that
nothing refers to has been reset and holds none (`DestroyedAreEmpty`).

*The life of a list.* `ListsLive`: `VltCommandLists` implements `VltListLife`. A
context's list is `m_cmd` or the one in `submit()` (`ListOf`), and what is done with
it is read off `m_cmd`, the place in `submit()` and the fence (`StageOf`). With
`ListInv` every step maps: `Submit` to `Submitted`, `GpuFinish` to `Finished`, or to
a stutter when the queue has the list a second time, `Synchronize` and
`SynchronizeFails` to `Executed`, because a fence that is signalled is that of a list
the GPU does not have, or of a loose one (`PendingIsAwaited`), `Recycle` to `Return`,
and `BeginRecording` to `Begin`, because the list it takes is no other context's
(`ListOwnedOnce`). `Reset` and `TrackResource` are stutters. What may be loose is the
same on both sides: the list a driver call failed for, until it is begun anew.
`VltDescriptorPools` *assumes* that life of the lists that track its pools, and
`PoolListsLive` says that it assumes no more: its lists are a behaviour of the
`VltListLife` which the command lists implement when no wait and no fence reset
fails. So what is proved of the pools rests on what is proved of the lists, and says
nothing of a list the driver failed for: its sets may be reset while it is pending.

*Descriptor pools* (in the same module, which follows a list and its pools), for any
contexts, any set of pools, recycler capacity and positive number of sets:
`PoolsOutliveTheirList`. `PoolInv` says
that a pool is in one place only (`InOnePlace`: a context's own, tracked by a
list, by a dropped list, or in the recycler, and there once), that the pools of
the recycler have been reset (`SlotsReset`), and that every pool a list was
recorded with is tracked by that list or still its context's (`SetsAreHeld`).
Without the first a list that ends would reset a pool of another list; without
the last a full pool that moves on to the next list would be lost.

*Together.* `CommandsAreTheirParts`: a behaviour of `MCVltCommandLists` is one of the
lists, one of the pools and one of a context, so that every theorem about these
holds in it; `CommandsTypes` is its type invariant.

**`VltStagingProofs`** — for any sizes, buffer size, count and line size:
`StagedDataStayIntact`, `StagedSlicesAreInside`, from `StagingInv`: a pending slice lies in a buffer that
is in use, and below the offset if that buffer is the current one. A new slice
starts at the offset of the current buffer or at 0 of one that is not in use,
above all that is pending there. The hypothesis `UpdateSizes \subseteq {LineSize}`
leaves the callers with swapped arguments only the size for which swapping does
no harm; for other sizes the property is false (§6). `AlignAssumption` says that aligning to the line size does not move an
offset down and moves it up by at most a line; for the code's mask and a line
of 64 bytes that is arithmetic on powers of two, which TLC checks on the
instance. The same module has the levels of the memory together: `MemoryIsItsParts`
(a behaviour of `MCVltMemoryParts` is one of the chunk, one of the allocator and one
of the staging buffers) and the type invariant `MemoryTypes`.

**`VltContextProofs`** — for any colour and depth images of any sizes, any
buffers and any number of registered slices: `ContextInvariant`, `ContextTypes`,
`ContextCommandsDoNotRace`, `ContextTracksLayouts`, `ContextClearsKeepTheirPlace`.
`ContextAssumption` says only that images of the two kinds and buffers are
different resources and that a buffer is not empty. That nothing has been raced,
misplaced or overtaken is kept only because of what the context remembers, so
the invariant `Rest` says what that must be, between two operations. Outside a
pass (`Outside`) every pending access is covered by a registered slice and waited
for by the registered stages, and every image is in the layout it is kept in
(`InfoLayout`) or has one registered move to it, from the layout it is in. In a
pass (`InPass`) no slice and no move is registered, only the stages of the
attachments; every pending write is one of an attachment, and the
attachments are in the layouts of the pass. In both, every aspect that is stale
has a clear deferred, but for images in `late` (`Kept`); a framebuffer that is
not dirty is that of the targets. Inside an operation `Sound(s, w)` and
`Between(s, w)` say the same of every intermediate context, with the layouts `w`
to which the registered barriers lead; an operation is a chain of such contexts
(spill, clears, barrier, pass), with a lemma for each method of the code.
`flushClears` runs through the deferred clears with a recursive function: that
the function exists is shown by `Recursion` and what it keeps by `Climb`, both
from the least number for which they fail; after `n` clears the stale aspects are
those of the clears that are left.

**`GcnDivergentFlowProofs`** — for every set of non-empty blocks of code, of any
length: `LanesRunTheirCode`. `DivergeInv` says, at the instruction the loop is at,
that everything before it is in an output entry, in the group or among the
comparisons to clear for (`PassedInv`); that the group increases, lies behind the
output and is of the kind the scope calls for (`GroupInv`); and that since the
scope was opened, of the instructions that may write EXEC only V_CMPX was passed
(`ScopeInv`). A group is
appended as a run of increasing places behind all that is in the output, so the
order is kept; and `EachLaneRunsItsCode` follows from `PassedInv` at the end of
the block.

**`GpuProofs`** — labels and compute queues.

*Labels*, for any number of threads, addresses, immediates,
semaphores and lists, and any number of failing calls: `LabelTasksAreJoined` and
`LabelFrameIsDrained`. The first
property is not inductive alone: the destructor joins the task `m_future` holds,
which during a write is not the last one. `ReplacedIsAwaited` adds that a task
`m_future` no longer holds has a thread in `write()` that waits for it, so that
without such a thread the one that is joined is the last. For the frame,
`DrainInv` says that a queue holds submissions of its own threads only
(`SubmittedBy`), that a list carries a number its thread has given and that no more
are executed than begun (`ListsAreNumbered`: a list whose wait failed is executed
late, or never), and that while the graphics thread waits, the list with the last
number is the last on the queue, and the queue is empty once it was executed
(`ListIsLast`); `LockIsHeld` ties the lock to the clean-up. `NilAssumption` says that
no semaphore or thread is the null value. `LabelTypesHold` is the type invariant.

*Compute queue*, for any ring of at least two dwords, any batches
smaller than it and any number of packets: `RingExecutesInOrder`,
`RingRoomIsFree`. A ring is full of old packets that look like new ones, so an
invariant must say which of them count. `RingInv` names the doorbells that are
not answered by the number of packets written when each was rung (`ends`), and
says that the offsets the code works with are these numbers modulo the ring
(`EndsAre`, `ReadPointerIs`), that the ring holds the packets from the last one
taken to the last one written, each at its number's place, the first of every
batch marked (`RingHolds`), and, for every place of `dingDong()`, which stretch
the command list holds (`StepIs`). The game leaves a dword free, so that a
stretch that is still to be read is never overwritten and a range that is not
empty never looks empty. That the read pointer is behind what is submitted is
`ReadPointerIs` at the step before it is published.

*Together*: `GpuIsItsParts`, and the type invariant `GpuTypes` of both.

**`KernelSyncProofs`** — event flag, semaphore and guest memory.

*Event flag*, for any number of threads, bits and requests:
`FlagHasSingleWaiter`, `FlagBlockedFindsPattern`. `FlagInv` adds that under SINGLE
at most one thread is inside `Wait()` (`AtMostOne`) and that `m_anyWaiting` is the
truth about it (`MarkIsTrue`). Each needs the other: a refused thread never waits
because the mark is true, and the mark is cleared only by the one waiter.

*Semaphore*, for any finite set of threads and any maximum: `SemaphoreTypes`, and
`SemaphoreCountIsClaimed` when it is signalled and waited for by one
(`OneAtATime`; for larger numbers it is false, §6). The count is balanced against
the cardinality of the woken threads, step by step.

*Guest memory*, for any areas, granule, sizes and any set of threads:
`MemoryRecordsAreTheMappings`. The records are a bag kept in a list, and a record
outlives its mapping while `memoryUnmap` is between its two halves, so the
invariant counts: every record is in the list as often as there are mappings
already recorded with it and unmappings about to erase it (`Balanced`). To keep
this it must know that no two threads make the same mapping (`MakersApart`), that
an unmapping finds its own record first (`FindsItsRecord`, which leans on
mappings that do not overlap and on `WholeSize`), and that it erases that one
(`ErasesItsRecord`). After two unmappings at once, or a removal of a record that met an append (`raced`), nothing is claimed (§6).

*Together*: `KernelInvariant`, by which each of the three keeps its invariant while
another is looked at, and the type invariant `KernelTypes`.

*Only model-checked:* every liveness property (fairness is beyond the prover);
and `ListVerifies`, `RunsAsTheGraph` and `GotosAreGone`, whose definitions
are recursive. Every other property that a passing run checks is a theorem.

## 6. Where the code disagrees

Found by a run:

- **`in_use`** `VltLifetime.cpp:24` — `m_notified` is set by the first
  `reset()` and never cleared, so from its second use on a recycled list does
  not release its resources, and `isInUse()` stays true for ever, against
  `VltResource.h:31-33`. (It errs on the safe side: `UsesCovered` holds.)
- **`staging_update`** `VltContext.cpp:939`, `:989` — `updateBuffer` and
  `updateImage` pass size and alignment of a staging slice in the wrong order.
- **`event_flag_all`** `SceEventFlag.cpp:169` — a wait for all bits compares
  with the flag's bits in place of the pattern and returns at once on an empty
  flag.
- **`label_early_signal`** `VltCmdList.cpp:339` — a semaphore operation is
  submitted while the list is recorded and overtakes it.
- **`shader_gotos`** `GcnStackifier.cpp:1072` — the number of moves a goto is
  given counts the loops and blocks it leaves, while each move leaves one scope
  of any kind; below two Ifs a branch out of two scopes is left.
- **`shader_loop_info`** `GcnLoopInfo.cpp:78` — the loop of a vertex that branches to
  itself leaves the stack at once, also when another back edge leads to the vertex:
  with 1 → {1, 2} and 2 → {1, 3}, block 2 belongs to the loop of 1 and is filed in
  none.
- **`label_cleanup_stuck`** `GnmLabelManager.cpp:45` — the clean-up of a frame
  joins tasks that depend on labels to be written later.

Seen while modelling, and not the subject of a run:

- `VltMemory.cpp:299`: the attempt without hint constraints passes no dedicated
  requirements, so a resource that *requires* a dedicated allocation may end in
  a shared chunk.
- `VltQueue.cpp:33`: `synchronize()` leaves its loop on every status but
  `VK_TIMEOUT` (`VltCmdList.cpp:141`) and its result is ignored, so a list whose wait
  ended with an error is reset and recycled while the GPU may have it.
  `VltCmdList.cpp:168`: when `vkResetFences` fails that is logged, and the next wait
  for the list returns at once. (Both are steps of the model; the properties exempt
  the list in question.) `VltCmdList.cpp:339`: a refused signal is not noticed; the
  task of the label waits for ever and so does the clean-up of the frame
  (`CleanupReturnsOrStarves` exempts it). `VltSemaphore.cpp:50`: a wait that ends with
  an error lets the task store its value.
- `GnmGpuLabel.cpp:51`: with the immediate 0 the task waits for 0 and stores at
  once; so does the task of a second write with the value of the first or a smaller
  one, before its own signal, and of two tasks the older may store last. `GnmLabelManager.cpp:39`: a compute thread may use a label that the
  graphics thread destroys. A wait that spans a frame may be for a label that
  the next frame makes anew, with a new semaphore.
- `SceSemaphore.cpp:31`: `notify_one` with a count above 1 leaves threads asleep
  whose count is available.
- `SceGnmDriver.cpp:233`: queue (0, 7) and queue (1, 0) get the same identifier.
- `VltCmdList.cpp:228`: `vkQueueSubmit2` is called on one queue by several
  threads without the synchronisation Vulkan asks for. `VltCmdList.h:185`:
  `notifyObjects` has no caller.
- `VltContext.cpp:302`: `copyBufferToImage` registers its source as a slice of
  length 0, so that a later write of the source does not wait for the copy
  unless it begins before it. (`NoCommandRaces` does not count that read.)
- `VltContext.cpp:2547`: a deferred clear is overtaken by a draw of a pass that is
  already bound and in which it has no part, by a dispatch while no pass is
  bound, and by the spill that ends a bound pass. (`ClearsKeepTheirPlace` exempts
  images that a command came to in this way.)
- `GnmCommandBufferDraw.cpp:1508`: a new depth image is bound without being
  initialised, so its first use names a layout it is not in.
  `GnmResourceFactory.cpp:182`: the stages of a resource are those of its first
  binding.
- `GcnStackifier.cpp:1236`: the end of the scope a goto jumps to is searched from
  a sibling of the goto's If; and `removeRedundantBlocks` takes a block off an If
  although a branch leaves the block. In both cases the list is malformed, and
  `ListVerifies`, `RunsAsTheGraph` and `GotosAreGone` do not follow it further.
- `GcnStackifier.cpp:546`: `for_each_kind` keeps references into `m_iterStack` and
  `m_removeFlagStack`, which the first walk nested in its callback (lines 900, 948)
  makes grow beyond their capacity; the outer walk goes on with references to freed
  memory, and what `erase()` does to its iterator (577-580) does not reach it. Any
  shader with a redundant block, or with two loops that begin together, gets there.
  (The model lets the walk keep its place or lose it, and claims nothing of the
  second.)
- `GcnDivergentFlow.cpp:296`: V_CMPX_* is treated as a comparison and stays in the If,
  while `GcnCompilerVectorALU.cpp:749` lets it write EXEC, so that what follows it in
  the If runs on a stale bit. (`EachLaneRunsItsCode` speaks of what precedes it.)
- `GcnLoopInfo.cpp:88`: a block behind a loop's exit that the search reaches before
  the back edge is filed in the loop.
- `Memory.cpp:150`: the record is erased without the lock, and two unmappings at
  once may erase one record twice, or an append (382-390) may come while the list
  is being changed (`RecordsAreTheMappings` exempts both).
  `Memory.cpp:232`: `sce_realloc` copies the old size into a block that may be
  smaller, and has lost the old block when `sce_malloc` fails.
- `SceResourceTracker.cpp:41-115`: `transform` and `download` take no lock,
  while the header says "It's thread safe".

## 7. What is abstracted

Data that no property is about: contents of memory, registers, packets other
than the default-state packet and label commands, formats, names, logging.
Integers are naturals; the widths that matter are those of statistics and use
counts, which would wrap below zero, and the properties exclude that. Time is a
timeout that may happen at any moment. A submission, a wait and the reset of a fence succeed or fail as
the driver likes, in the command lists and the labels, and device memory is granted
or not; a crash of the emulator loses everything, as nothing is persisted. C++
undefined behaviour appears as a thread that is lost (`UseDestroyed`) or as a walk
that loses its place or not (`Optimize`); where
Vulkan leaves the outcome open (unsynchronised submissions, a timeline signalled
with a smaller value) the model takes the calls as atomic and in order.
In the context, an image is one subresource with one view; a
recorded barrier holds back every stage after it; what the draws of a pass read
is covered by the stages after it. In the shader passes a block is what the graph
sees of it, and boost's graph algorithms are taken for what they are documented
to do. `VltStagingDataAlloc::trim`, `Poll` of a semaphore, `Cancel` and the signal
queue of a command list have no caller in the program. Deleting an event flag or
a semaphore that has waiters is not modelled.

## 8. Not modelled, and the plan

Not modelled because it is translation without a protocol of its own: the PM4
processor's draw state, the translation of shader instructions, SPIR-V emission,
the caches of Vulkan objects, the ELF loader, the stubs of the system modules;
and third-party code. Left out of modelled components: `transformImage`,
`updateImage` and GPU events of a context, and the transfer barriers of its
uploads and downloads (whose staging is in `VltStaging`); protection and queries
of guest memory, which change no state.

What a later version should add, in this order:

1. `SceResourceTracker` with the frame of `GnmLabels`; an abstract
   specification of "a resource in use stays".
2. `TLSManager` (layouts and blocks of earlier layouts).
3. `MapSlot` with open/close, `AudioOut` with its queue, both with the single
   abstraction of an owned handle.
4. `SceSwapchain`/`ScePresenter`: acquire, present and recreate against every
   result of the driver; mapping of compute queues, composed with
   `SceComputeQueue`.
5. `ModulePolicy`: the override policy as operators against the rules of
   `Doc/ModuleSystem.md`.
