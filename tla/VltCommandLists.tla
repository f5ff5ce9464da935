--------------------------- MODULE VltCommandLists ---------------------------
(***************************************************************************)
(* Command lists of one queue type of Violet: contexts record them, the    *)
(* submission queue hands them to the GPU, waits for their fence, resets   *)
(* them and returns them to the recycler.  Each context is driven by one   *)
(* thread (a graphics or compute queue, the initializer, the swapchain);   *)
(* the threads share the recycler, the VkQueue and the use counts of the   *)
(* resources, and none of VltSubmissionQueue::submit is under a lock.      *)
(*                                                                         *)
(* The driver may fail: no result of vkQueueSubmit2, vkWaitForFences and   *)
(* vkResetFences is looked at, so a list whose wait or whose fence's reset *)
(* failed goes on as if it had not.  Such a list is loose: its fence does  *)
(* not tell any more whether the GPU has it.                               *)
(*                                                                         *)
(* Source: Graphics/Violet/VltQueue.cpp, VltCmdList.cpp, VltLifetime.cpp,  *)
(* VltRecycler.h, VltResource.h, VltContext.cpp (recording).               *)
(***************************************************************************)
EXTENDS Naturals, Sequences, FiniteSets, Functions, VltThreads

CONSTANTS
  Lists,          \* identities a command list object can have
  Resources,      \* GPU resources (VltResource)
  Access,         \* kinds of access, each with its counter (VltAccess)
  Capacity,       \* N of VltRecycler<VltCommandList, N>
  Faults,         \* what may fail: vkQueueSubmit2 ("submit"), vkWaitForFences
                  \* ("wait"), vkResetFences ("fence")
  MaxTracked,     \* bound: tracked uses per list
  MaxUse,         \* bound: use count of a resource
  MaxQueued,      \* bound: submissions the GPU has
  MaxLoose        \* bound: lists the driver failed for

ASSUME CapacityAssumption == Capacity \in Nat
ASSUME NilAssumption == Nil \notin Lists
ASSUME ListsAssumption == IsFiniteSet(Lists)

VARIABLES
  cmd,        \* context -> m_cmd, the list it records
  sub,        \* context -> the list its thread is submitting
  step,       \* context -> where its thread is in VltSubmissionQueue::submit
  recycler,   \* m_recycledCommandLists: slots and m_objectId
  gpu,        \* VkQueue: lists submitted and not finished, in order
  signalled,  \* lists whose m_fence is signalled
  tracked,    \* list -> how often m_resources holds each use
  notified,   \* lists whose m_resources.m_notified is set
  useCount,   \* m_useCountR and m_useCountW of every resource
  loose       \* history: lists the driver failed for, until they are begun again
              \* with their fence reset while the GPU does not have them

vars == <<cmd, sub, step, recycler, gpu, signalled, tracked, notified, useCount, loose>>

Uses == Resources \X Access
NoUses == [u \in Uses |-> 0]
ListOrNil == Lists \cup {Nil}

\* Lists some Rc points to.  retrieveObject copies out of its slot without
\* clearing it, so a slot above m_objectId still keeps its old list alive.
Referenced == (Range(cmd) \cup Range(sub) \cup Range(recycler.objects)) \ {Nil}

Init ==
  /\ cmd = [c \in Contexts |-> Nil]
  /\ sub = [c \in Contexts |-> Nil]
  /\ step = [c \in Contexts |-> "record"]
  /\ recycler = [objects |-> [i \in 1..Capacity |-> Nil], id |-> 0]
  /\ gpu = <<>>
  /\ signalled = {}
  /\ tracked = [l \in Lists |-> NoUses]
  /\ notified = {}
  /\ useCount = NoUses
  /\ loose = {}

\* The entries of m_resources of the lists S that are for the use u: a list has
\* one for each time it tracked the use.
Held(S, u) == UNION {{l} \X (1..tracked[l][u]) : l \in S}

\* Fault: notify() releases, and reset() releases once more.
ReleaseTwice(S) == [u \in Uses |-> useCount[u] - 2 * Cardinality(Held(S \ notified, u))]

\* VltLifetimeTracker::reset for the lists S: uses are released only where
\* m_notified is still false.
Release(S) == [u \in Uses |-> useCount[u] - Cardinality(Held(S \ notified, u))]

DropUses(S) ==
  /\ useCount' = Release(S)
  /\ tracked' = [l \in Lists |-> IF l \in S THEN NoUses ELSE tracked[l]]

\* The last Rc of a list going away runs ~VltCommandList, which resets it;
\* its identity may then serve a new object.
DestroyUnreferenced ==
  LET dead == Referenced \ Referenced'
  IN  /\ DropUses(dead)
      /\ notified' = notified \ dead

\* What a new object can be: nothing points to it, and no submission was of it.
NewLists == Lists \ (Referenced \cup Range(gpu))

\* Fault: m_objectId is not decremented.
RetrieveKeeping(l) ==
  /\ l \in IF recycler.id > 0 THEN {recycler.objects[recycler.id]} ELSE NewLists
  /\ UNCHANGED recycler

\* createCommandList: a recycled list if there is one, a new one otherwise.
Retrieve(l) ==
  \/ /\ recycler.id > 0
     /\ l = recycler.objects[recycler.id]
     /\ recycler' = [recycler EXCEPT !.id = @ - 1]
  \/ /\ recycler.id = 0
     /\ l \in NewLists
     /\ UNCHANGED recycler

\* The driver fails in what it does for the list.
Fails(what, l) ==
  /\ what \in Faults
  /\ loose' = loose \cup {l}
  /\ Cardinality(loose') <= MaxLoose

\* vkResetFences; the fence of a new list is not signalled whatever it returns.
ResetFence(l) ==
  \/ /\ signalled' = signalled \ {l}
     /\ loose' = IF l \in Range(gpu) THEN loose ELSE loose \ {l}
  \/ /\ recycler.id > 0
     /\ Fails("fence", l)
     /\ UNCHANGED signalled

\* Fault: the fence of the recycled list is not reset.
BeginKeepingFence(c) ==
  /\ step[c] = "record"
  /\ \E l \in Lists :
       /\ Retrieve(l)
       /\ cmd' = [cmd EXCEPT ![c] = l]
  /\ UNCHANGED <<sub, step, gpu, signalled, loose>>
  /\ DestroyUnreferenced

\* Fault: the fences of all lists are reset.
BeginResettingFences(c) ==
  /\ step[c] = "record"
  /\ \E l \in Lists :
       /\ Retrieve(l)
       /\ cmd' = [cmd EXCEPT ![c] = l]
  /\ signalled' = {}
  /\ UNCHANGED <<sub, step, gpu, loose>>
  /\ DestroyUnreferenced

\* beginRecording(createCommandList()).  A context that already records (a
\* second default-state packet before the submission) drops its list.
BeginRecording(c) ==
  /\ step[c] = "record"
  /\ \E l \in Lists :
       /\ Retrieve(l)
       /\ cmd' = [cmd EXCEPT ![c] = l]
       /\ ResetFence(l)
  /\ UNCHANGED <<sub, step, gpu>>
  /\ DestroyUnreferenced

\* VltCommandList::trackResource while recording.
TrackResource(c, u) ==
  /\ cmd[c] # Nil
  /\ FoldFunction(+, 0, tracked[cmd[c]]) < MaxTracked
  /\ useCount[u] < MaxUse
  /\ tracked' = [tracked EXCEPT ![cmd[c]][u] = @ + 1]
  /\ useCount' = [useCount EXCEPT ![u] = @ + 1]
  /\ UNCHANGED <<cmd, sub, step, recycler, gpu, signalled, notified, loose>>

\* endRecording, then VltCommandList::submit: the result is not looked at, so
\* a failed submission goes on to wait for a fence nothing will signal.
Submit(c) ==
  /\ cmd[c] # Nil
  /\ sub' = [sub EXCEPT ![c] = cmd[c]]
  /\ cmd' = [cmd EXCEPT ![c] = Nil]
  /\ step' = [step EXCEPT ![c] = "wait"]
  /\ \/ Len(gpu) < MaxQueued /\ gpu' = Append(gpu, cmd[c])
     \/ "submit" \in Faults /\ UNCHANGED gpu
  /\ UNCHANGED <<recycler, signalled, tracked, notified, useCount, loose>>

\* VltCommandList::synchronize: goes on while the wait ends with VK_TIMEOUT.
\* Here it ends with the fence signalled.
Synchronize(c) ==
  /\ step[c] = "wait"
  /\ sub[c] \in signalled
  /\ step' = [step EXCEPT ![c] = "reset"]
  /\ UNCHANGED <<cmd, sub, recycler, gpu, signalled, tracked, notified, useCount, loose>>

\* Here it ends with an error, which submit() does not look at.
SynchronizeFails(c) ==
  /\ step[c] = "wait"
  /\ Fails("wait", sub[c])
  /\ step' = [step EXCEPT ![c] = "reset"]
  /\ UNCHANGED <<cmd, sub, recycler, gpu, signalled, tracked, notified, useCount>>

\* VltCommandList::reset.  notify() sets m_notified and nothing clears it.
Reset(c) ==
  /\ step[c] = "reset"
  /\ DropUses({sub[c]})
  /\ notified' = notified \cup {sub[c]}
  /\ step' = [step EXCEPT ![c] = "recycle"]
  /\ UNCHANGED <<cmd, sub, recycler, gpu, signalled, loose>>

\* VltRecycler::returnObject: the list is dropped when the buffer is full.
Returned(l) ==
  IF recycler.id < Capacity
  THEN [objects |-> [recycler.objects EXCEPT ![recycler.id + 1] = l], id |-> recycler.id + 1]
  ELSE recycler

\* recycleCommandList, after which submit() returns.
Recycle(c) ==
  /\ step[c] = "recycle"
  /\ recycler' = Returned(sub[c])
  /\ sub' = [sub EXCEPT ![c] = Nil]
  /\ step' = [step EXCEPT ![c] = "record"]
  /\ UNCHANGED <<cmd, gpu, signalled, loose>>
  /\ DestroyUnreferenced

\* The GPU finishes the oldest submission and signals its fence.
GpuFinish ==
  /\ gpu # <<>>
  /\ gpu' = Tail(gpu)
  /\ signalled' = signalled \cup {Head(gpu)}
  /\ UNCHANGED <<cmd, sub, step, recycler, tracked, notified, useCount, loose>>

ThreadStep(c) ==
  Submit(c) \/ Synchronize(c) \/ SynchronizeFails(c) \/ Reset(c) \/ Recycle(c)

Next ==
  \/ \E c \in Contexts :
       \/ BeginRecording(c)
       \/ \E u \in Uses : TrackResource(c, u)
       \/ ThreadStep(c)
  \/ GpuFinish

Spec == Init /\ [][Next]_vars

\* A thread inside submit() is scheduled and the GPU makes progress.
FairSpec ==
  /\ Spec
  /\ \A c \in Contexts : WF_vars(Synchronize(c) \/ Reset(c) \/ Recycle(c))
  /\ WF_vars(GpuFinish)

------------------------------------------------------------------------------
\* The list a context records, or its thread submits, and what is done with it.
ListOf == [c \in Contexts |-> IF cmd[c] # Nil THEN cmd[c] ELSE sub[c]]
StageOf ==
  [c \in Contexts |->
     CASE cmd[c] # Nil -> "recording"
       [] cmd[c] = Nil /\ step[c] = "record" -> "idle"
       [] cmd[c] = Nil /\ step[c] = "wait" -> "pending"
       [] OTHER -> "executed"]

Life == INSTANCE VltListLife WITH
  owned <- ListOf, stage <- StageOf, running <- Range(gpu),
  DriverFails <- Faults \cap {"wait", "fence"} # {}

\* Whatever the recycler, the fences and the other threads do, the list of a
\* context is its own from beginRecording to the end of submit(), and it is
\* reset and returned only after it was submitted, and not while the GPU has
\* it; but if a wait or a fence's reset fails, the one list it was for may be.
ListsFollowTheirLife == Life!LifeSpec

\* Every variable keeps its type.
TypeOK ==
  /\ cmd \in [Contexts -> ListOrNil]
  /\ sub \in [Contexts -> ListOrNil]
  /\ step \in [Contexts -> {"record", "wait", "reset", "recycle"}]
  /\ recycler \in [objects : [1..Capacity -> ListOrNil], id : 0..Capacity]
  /\ gpu \in Seq(Lists)
  /\ signalled \subseteq Lists
  /\ tracked \in [Lists -> [Uses -> Nat]]
  /\ notified \subseteq Lists
  /\ useCount \in [Uses -> Nat]
  /\ loose \subseteq Lists

\* The lists a later createCommandList may hand out.
Available == {recycler.objects[i] : i \in 1..recycler.id}

\* A command list has one owner: one context records it, or one thread
\* submits it, or it sits in exactly one usable slot of the recycler.
ListOwnedOnce ==
  /\ \A c, d \in Contexts : c # d => (cmd[c] = Nil \/ cmd[c] # cmd[d])
                                  /\ (sub[c] = Nil \/ sub[c] # sub[d])
  /\ \A c, d \in Contexts : cmd[c] = Nil \/ cmd[c] # sub[d]
  /\ \A i, j \in 1..recycler.id : i # j => recycler.objects[i] # recycler.objects[j]
  /\ Available \cap (Range(cmd) \cup Range(sub)) = {}

\* While the GPU has a list, its thread waits for the fence: the list is not
\* reset, recycled or recorded, and its fence is not signalled too early.  A
\* failed wait, or a failed reset of a fence, breaks this for the list it is
\* for, and for no other: neither by the recycler nor by the order in which
\* fences signal does it get to another list, and it ends when the list is
\* begun again with its fence reset and the GPU done with it.
PendingIsAwaited ==
  \A i \in 1..Len(gpu) :
    gpu[i] \notin loose =>
      /\ gpu[i] \notin signalled
      /\ \E c \in Contexts : sub[c] = gpu[i] /\ step[c] = "wait"

\* A use count never drops below the uses tracked by the lists someone refers
\* to: isInUse() never calls a resource idle that a list being recorded, or a
\* list whose thread waits for it (PendingIsAwaited), uses, and the unsigned
\* counters never wrap.
UsesCovered ==
  \A u \in Uses : useCount[u] >= Cardinality(Held(Referenced, u))

\* isInUse() "returns true if there are pending accesses to the resource by
\* the GPU" (VltResource.h): a resource no list tracks is idle.
InUseOnlyWhileTracked ==
  \A u \in Uses : useCount[u] > 0 => \E l \in Referenced : tracked[l][u] > 0

\* Once the driver has accepted a list, submitCommandList returns: the list
\* is executed, reset and recycled, whatever other submissions came to.
AcceptedSubmissionReturns ==
  \A c \in Contexts :
    (\E i \in 1..Len(gpu) : gpu[i] = sub[c]) ~> step[c] = "record"
==============================================================================
