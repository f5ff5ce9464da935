------------------------------ MODULE GnmLabels ------------------------------
(***************************************************************************)
(* GPU labels: memory words through which the game's command buffers and   *)
(* its CPU code synchronise.  A label owns a timeline semaphore; a write   *)
(* queues a signal on the GPU and starts an asynchronous task that waits   *)
(* for the semaphore and then stores the value in guest memory; a wait     *)
(* queues a GPU wait.  The graphics thread destroys every label at the end *)
(* of a frame while the compute threads go on using them.                  *)
(*                                                                         *)
(* The driver may refuse a submission, and may end a wait for a semaphore  *)
(* or for a fence with an error: the code goes on in each case.            *)
(*                                                                         *)
(* Source: Graphics/Gnm/GnmGpuLabel.cpp, GnmLabelManager.cpp, the label    *)
(* commands of GnmCommandBuffer*.cpp, Graphics/Violet/VltSemaphore.cpp,    *)
(* VltCmdList.cpp (submitSemaphore), Graphics/Sce/SceGnmDriver.cpp (frame).*)
(***************************************************************************)
EXTENDS Naturals, Sequences, FiniteSets, SequencesExt

CONSTANTS
  Graphics,   \* the thread of submitAndFlipCommandBuffers
  Computes,   \* the threads that ring the doorbell of a compute queue
  Addrs,      \* label addresses
  Kinds,      \* label commands the game uses, of "write" and "wait"
  Imms,       \* immediate values written and compared
  Sems,       \* identities a label's semaphore can have
  Nil,
  MaxCmds,    \* bound: commands per command list
  MaxLists,   \* bound: command lists per thread
  MaxFaults   \* bound: driver calls that fail

ASSUME ThreadsAssumption == Graphics \notin Computes
ASSUME KindsAssumption == Kinds \subseteq {"write", "wait"}
ASSUME ImmsAssumption == Imms \subseteq Nat
ASSUME NilAssumption == Nil \notin Sems \cup {Graphics}
ASSUME BoundsAssumption == MaxCmds \in Nat /\ MaxLists \in Nat /\ MaxFaults \in Nat

Threads == {Graphics} \cup Computes
Queues == {"graphics", "compute"}
QueueOf(t) == IF t = Graphics THEN "graphics" ELSE "compute"

VARIABLES
  labels,    \* m_labels: address -> semaphore of its label, Nil if absent
  counter,   \* semaphore -> timeline value
  running,   \* label -> task of m_future
  replaced,  \* label -> earlier task the assignment to m_future waits for
  memory,    \* guest memory at the label addresses
  lockedBy,  \* m_lock while reset() holds it
  pc,        \* thread -> where it is in recording and submitting
  held,      \* thread -> label pointer and command between getLabel and its use
  cmds,      \* thread -> commands in the current list
  worked,    \* thread -> whether the current list has draws or dispatches
  begun,     \* thread -> lists handed to the GPU
  executed,  \* thread -> lists the GPU has executed
  queue,     \* VkQueue -> submissions not yet executed
  refused,   \* semaphores of which the driver refused a signal (history)
  unwaited,  \* threads whose last list was not waited for to its end (history)
  faults     \* driver calls that have failed (history)

vars == <<labels, counter, running, replaced, memory, lockedBy, pc, held, cmds,
          worked, begun, executed, queue, refused, unwaited, faults>>
labelVars == <<labels, counter, running, replaced, memory, lockedBy>>
gpuVars == <<executed, queue>>
faultVars == <<refused, unwaited, faults>>

NoCmd == [addr |-> Nil, sem |-> Nil, kind |-> Nil, imm |-> Nil]
ImmOrNil == Imms \cup {Nil}

Init ==
  /\ labels = [a \in Addrs |-> Nil]
  /\ counter = [s \in Sems |-> 0]
  /\ running = [s \in Sems |-> Nil]
  /\ replaced = [s \in Sems |-> Nil]
  /\ memory = [a \in Addrs |-> Nil]
  /\ lockedBy = Nil
  /\ pc = [t \in Threads |-> "record"]
  /\ held = [t \in Threads |-> NoCmd]
  /\ cmds = [t \in Threads |-> 0]
  /\ worked = [t \in Threads |-> FALSE]
  /\ begun = [t \in Threads |-> 0]
  /\ executed = [t \in Threads |-> 0]
  /\ queue = [q \in Queues |-> <<>>]
  /\ refused = {} /\ unwaited = {} /\ faults = 0

\* The semaphore's timeline counts from 0, so an immediate of 0 is signalled
\* and awaited as 1.
SemaphoreValue(imm) == IF imm = 0 THEN 1 ELSE imm

\* Semaphores something still refers to.
InUse == {labels[a] : a \in Addrs} \cup {held[t].sem : t \in Threads}
         \cup {s \in Sems : running[s] # Nil \/ replaced[s] # Nil}
         \cup UNION {{queue[q][i].sem : i \in 1..Len(queue[q])} : q \in Queues}

\* The semaphore of a new label: which of the free identities it gets is of no
\* matter.
FreeSems == Sems \ InUse
NewSems == IF FreeSems = {} THEN {} ELSE {CHOOSE s \in FreeSems : TRUE}

\* getLabel, called for a label command: finds or creates the label under the
\* spinlock and lets a pointer to it out.
GetLabel(t, a, kind, imm) ==
  /\ pc[t] = "record" /\ lockedBy = Nil /\ cmds[t] < MaxCmds /\ begun[t] < MaxLists
  /\ \E s \in IF labels[a] # Nil THEN {labels[a]} ELSE NewSems :
       /\ labels' = [labels EXCEPT ![a] = s]
       /\ counter' = [counter EXCEPT ![s] = IF labels[a] = Nil THEN 0 ELSE @]
       /\ held' = [held EXCEPT ![t] = [addr |-> a, sem |-> s, kind |-> kind, imm |-> imm]]
       /\ refused' = IF labels[a] = Nil THEN refused \ {s} ELSE refused
  /\ pc' = [pc EXCEPT ![t] = "use"]
  /\ cmds' = [cmds EXCEPT ![t] = @ + 1]
  /\ UNCHANGED <<running, replaced, memory, lockedBy, worked, begun, gpuVars, unwaited, faults>>

\* The label a thread points to still exists.
Valid(t) == labels[held[t].addr] = held[t].sem

\* submitSemaphore: the operation is submitted to the queue while the list is
\* still being recorded.  "covers" says how many lists of the thread hold the
\* work recorded before it.
SemaphoreOp(t, op) ==
  [op |-> op, thread |-> t, sem |-> held[t].sem, value |-> SemaphoreValue(held[t].imm),
   covers |-> begun[t] + (IF worked[t] THEN 1 ELSE 0)]

Submitted(t, item) == [queue EXCEPT ![QueueOf(t)] = Append(@, item)]

\* A call of the driver fails.
Fail == faults < MaxFaults /\ faults' = faults + 1

\* vkQueueSubmit2, which may refuse; nobody looks at its result.
QueueSubmit(t, item) ==
  \/ queue' = Submitted(t, item) /\ UNCHANGED <<refused, faults>>
  \/ /\ Fail
     /\ refused' = IF item.op = "signal" THEN refused \cup {item.sem} ELSE refused
     /\ UNCHANGED queue

\* Fault: a second write reuses the signal of the first and queues none.
WriteUnsignalled(t) ==
  /\ pc[t] = "use" /\ held[t].kind = "write" /\ Valid(t)
  /\ queue' = IF counter[held[t].sem] = 0 THEN Submitted(t, SemaphoreOp(t, "signal")) ELSE queue
  /\ LET s == held[t].sem
     IN  /\ counter' = [counter EXCEPT ![s] = 0]
         /\ replaced' = [replaced EXCEPT ![s] = running[s]]
         /\ running' = [running EXCEPT ![s] = held[t].imm]
  /\ pc' = [pc EXCEPT ![t] = "assign"]
  /\ UNCHANGED <<labels, memory, lockedBy, held, cmds, worked, begun, executed, faultVars>>

\* write(): queues the signal, starts the task, and assigns its future, which
\* first waits for the task of an earlier write.
Write(t) ==
  /\ pc[t] = "use" /\ held[t].kind = "write" /\ Valid(t)
  /\ QueueSubmit(t, SemaphoreOp(t, "signal"))
  /\ LET s == held[t].sem
     IN  /\ replaced' = [replaced EXCEPT ![s] = running[s]]
         /\ running' = [running EXCEPT ![s] = held[t].imm]
  /\ pc' = [pc EXCEPT ![t] = "assign"]
  /\ UNCHANGED <<labels, counter, memory, lockedBy, held, cmds, worked, begun, executed,
                 unwaited>>

AssignFuture(t) ==
  /\ pc[t] = "assign" /\ Valid(t) /\ replaced[held[t].sem] = Nil
  /\ pc' = [pc EXCEPT ![t] = "record"]
  /\ held' = [held EXCEPT ![t] = NoCmd]
  /\ UNCHANGED <<labelVars, gpuVars, faultVars, cmds, worked, begun>>

\* wait(): queues the GPU wait; the mask is all ones.
Wait(t) ==
  /\ pc[t] = "use" /\ held[t].kind = "wait" /\ Valid(t)
  /\ QueueSubmit(t, SemaphoreOp(t, "wait"))
  /\ pc' = [pc EXCEPT ![t] = "record"]
  /\ held' = [held EXCEPT ![t] = NoCmd]
  /\ UNCHANGED <<labelVars, cmds, worked, begun, executed, unwaited>>

\* A label used after reset() destroyed it: undefined, the thread is lost.
UseDestroyed(t) ==
  /\ pc[t] \in {"use", "assign"} /\ ~Valid(t)
  /\ pc' = [pc EXCEPT ![t] = "crashed"]
  /\ UNCHANGED <<labelVars, gpuVars, faultVars, held, cmds, worked, begun>>

\* A draw or a dispatch goes into the list.
RecordWork(t) ==
  /\ pc[t] = "record" /\ ~worked[t] /\ cmds[t] < MaxCmds /\ begun[t] < MaxLists
  /\ worked' = [worked EXCEPT ![t] = TRUE]
  /\ cmds' = [cmds EXCEPT ![t] = @ + 1]
  /\ UNCHANGED <<labelVars, gpuVars, faultVars, pc, held, begun>>

\* The submission of the list t has recorded, which is its list number begun + 1.
ListItem(t) ==
  [op |-> "list", thread |-> t, sem |-> Nil, value |-> 0, covers |-> begun[t] + 1]

\* The list is submitted after everything its recording has queued.  submit()
\* goes on to the wait whatever the submission returned.
SubmitList(t) ==
  /\ pc[t] = "record" /\ begun[t] < MaxLists
  /\ QueueSubmit(t, ListItem(t))
  /\ pc' = [pc EXCEPT ![t] = "sync"]
  /\ begun' = [begun EXCEPT ![t] = @ + 1]
  /\ cmds' = [cmds EXCEPT ![t] = 0]
  /\ worked' = [worked EXCEPT ![t] = FALSE]
  /\ UNCHANGED <<labelVars, held, executed, unwaited>>

\* Where a thread goes once its list has executed: the graphics thread cleans
\* up the frame.
AfterList(t) == IF t = Graphics THEN "cleanup" ELSE "record"

\* Fault: the submission is not waited for.
SynchronizeAtOnce(t) ==
  /\ pc[t] = "sync"
  /\ pc' = [pc EXCEPT ![t] = AfterList(t)]
  /\ unwaited' = unwaited \ {t}
  /\ UNCHANGED <<labelVars, gpuVars, refused, faults, held, cmds, worked, begun>>

\* The fence of the list: submit() returns.
Synchronize(t) ==
  /\ pc[t] = "sync" /\ executed[t] = begun[t]
  /\ pc' = [pc EXCEPT ![t] = AfterList(t)]
  /\ unwaited' = unwaited \ {t}
  /\ UNCHANGED <<labelVars, gpuVars, refused, faults, held, cmds, worked, begun>>

\* The wait for the fence ends with an error, which submit() ignores.
SynchronizeFails(t) ==
  /\ pc[t] = "sync" /\ Fail
  /\ pc' = [pc EXCEPT ![t] = AfterList(t)]
  /\ unwaited' = unwaited \cup {t}
  /\ UNCHANGED <<labelVars, gpuVars, refused, held, cmds, worked, begun>>

\* cleanupFrame: reset() takes the lock and clears the map; ~GnmGpuLabel
\* joins the task of m_future.
LockLabels ==
  /\ pc[Graphics] = "cleanup" /\ lockedBy = Nil
  /\ lockedBy' = Graphics
  /\ UNCHANGED <<labels, counter, running, replaced, memory, gpuVars, faultVars, pc, held,
                 cmds, worked, begun>>

\* The task m_future holds: a write that has started its task but not yet
\* assigned the future leaves the earlier one there.
Recorded(s) ==
  IF \E t \in Threads : pc[t] = "assign" /\ held[t].sem = s THEN replaced[s] ELSE running[s]

\* Fault: the destructor does not wait for the task.
DestroyUnjoined(a) ==
  /\ lockedBy = Graphics /\ labels[a] # Nil
  /\ labels' = [labels EXCEPT ![a] = Nil]
  /\ UNCHANGED <<counter, running, replaced, memory, lockedBy, gpuVars, faultVars, pc,
                 held, cmds, worked, begun>>

DestroyLabel(a) ==
  /\ lockedBy = Graphics /\ labels[a] # Nil
  /\ Recorded(labels[a]) = Nil
  /\ labels' = [labels EXCEPT ![a] = Nil]
  /\ UNCHANGED <<counter, running, replaced, memory, lockedBy, gpuVars, faultVars, pc,
                 held, cmds, worked, begun>>

UnlockLabels ==
  /\ lockedBy = Graphics /\ \A a \in Addrs : labels[a] = Nil
  /\ lockedBy' = Nil
  /\ pc' = [pc EXCEPT ![Graphics] = "record"]
  /\ UNCHANGED <<labels, counter, running, replaced, memory, gpuVars, faultVars, held,
                 cmds, worked, begun>>

\* The asynchronous task: waits for the immediate itself, not for the value
\* the signal carries, and stores it, also when the wait has ended with an
\* error.  (A task whose label is gone would go on with a dangling this; it
\* stays in the model as an orphan.)
StoreTask(a, task, error) ==
  LET s == labels[a] IN
  /\ s # Nil /\ task[s] # Nil
  /\ counter[s] >= task[s] \/ error
  /\ memory' = [memory EXCEPT ![a] = task[s]]

FinishTask(a, error) ==
  /\ \/ /\ StoreTask(a, running, error)
        /\ running' = [running EXCEPT ![labels[a]] = Nil]
        /\ UNCHANGED replaced
     \/ /\ StoreTask(a, replaced, error)
        /\ replaced' = [replaced EXCEPT ![labels[a]] = Nil]
        /\ UNCHANGED running
  /\ UNCHANGED <<labels, counter, lockedBy, gpuVars, refused, unwaited, pc, held, cmds,
                 worked, begun>>

RunTask(a) == FinishTask(a, FALSE) /\ UNCHANGED faults
RunTaskFails(a) == FinishTask(a, TRUE) /\ Fail

\* The GPU takes the oldest submission of a queue; a wait holds the queue up.
GpuStep(q) ==
  /\ queue[q] # <<>>
  /\ LET item == Head(queue[q]) IN
     \/ /\ item.op = "signal"
        /\ counter' = [counter EXCEPT ![item.sem] = item.value]
        /\ UNCHANGED executed
     \/ /\ item.op = "wait" /\ counter[item.sem] >= item.value
        /\ UNCHANGED <<counter, executed>>
     \/ /\ item.op = "list"
        /\ executed' = [executed EXCEPT ![item.thread] = item.covers]
        /\ UNCHANGED counter
  /\ queue' = [queue EXCEPT ![q] = Tail(@)]
  /\ UNCHANGED <<labels, running, replaced, memory, lockedBy, faultVars, pc, held, cmds,
                 worked, begun>>

Record(t) ==
  \/ \E a \in Addrs, kind \in Kinds, imm \in Imms : GetLabel(t, a, kind, imm)
  \/ RecordWork(t)
  \/ SubmitList(t)

Proceed(t) == Write(t) \/ AssignFuture(t) \/ Wait(t) \/ UseDestroyed(t) \/ Synchronize(t)

Cleanup == LockLabels \/ (\E a \in Addrs : DestroyLabel(a)) \/ UnlockLabels

Next ==
  \/ \E t \in Threads : Record(t) \/ Proceed(t) \/ SynchronizeFails(t)
  \/ Cleanup
  \/ \E a \in Addrs : RunTask(a) \/ RunTaskFails(a)
  \/ \E q \in Queues : GpuStep(q)

Spec == Init /\ [][Next]_vars

\* Threads that are not waiting for the game, tasks and the GPU all proceed.  A
\* wait that ends with an error need never happen.
FairSpec ==
  /\ Spec
  /\ \A t \in Threads : WF_vars(Proceed(t))
  /\ WF_vars(Cleanup)
  /\ \A a \in Addrs : WF_vars(RunTask(a))
  /\ \A q \in Queues : WF_vars(GpuStep(q))

------------------------------------------------------------------------------
\* Every variable keeps its type.
Items == [op : {"signal", "wait", "list"}, thread : Threads, sem : Sems \cup {Nil},
          value : Nat, covers : Nat]
TypeOK ==
  /\ labels \in [Addrs -> Sems \cup {Nil}]
  /\ counter \in [Sems -> Nat]
  /\ running \in [Sems -> ImmOrNil] /\ replaced \in [Sems -> ImmOrNil]
  /\ memory \in [Addrs -> ImmOrNil]
  /\ lockedBy \in {Nil, Graphics}
  /\ pc \in [Threads -> {"record", "use", "assign", "sync", "cleanup", "crashed"}]
  /\ \A t \in Threads : held[t] = NoCmd
       \/ held[t] \in [addr : Addrs, sem : Sems, kind : Kinds, imm : Imms]
  /\ cmds \in [Threads -> 0..MaxCmds] /\ worked \in [Threads -> BOOLEAN]
  /\ begun \in [Threads -> 0..MaxLists] /\ executed \in [Threads -> 0..MaxLists]
  /\ \A q \in Queues : queue[q] \in Seq(Items)
  /\ refused \subseteq Sems /\ unwaited \subseteq Threads /\ faults \in 0..MaxFaults

\* A task outlives its label only when the label was destroyed under a write
\* in progress: ~GnmGpuLabel joins every task whose future it holds.
TasksAreJoined ==
  \A s \in Sems :
    running[s] # Nil \/ replaced[s] # Nil =>
      \/ \E a \in Addrs : labels[a] = s
      \/ \E t \in Threads : held[t].sem = s /\ pc[t] \in {"assign", "crashed"}

\* When the frame is cleaned up the graphics queue has executed everything
\* the frame queued, its signals, its waits and its list, unless the wait for
\* the fence of that list ended with an error.
FrameIsDrained ==
  pc[Graphics] = "cleanup" /\ Graphics \notin unwaited
    => queue["graphics"] = <<>> /\ executed[Graphics] = begun[Graphics]

\* "The semaphore will be submitted upon next command submission": when the
\* GPU executes a signal, the lists with the work recorded before it are done.
SignalCoversWork ==
  \A q \in Queues :
    queue[q] # <<>> /\ Head(queue[q]).op = "signal"
      => Head(queue[q]).covers <= executed[Head(queue[q]).thread]

\* A queued wait that is not satisfied yet.
Starved(q) ==
  \E i \in 1..Len(queue[q]) :
    queue[q][i].op = "wait" /\ counter[queue[q][i].sem] < queue[q][i].value

\* A task that waits for a signal the driver has refused: nobody learns of it.
Forsaken == \E s \in refused : running[s] # Nil \/ replaced[s] # Nil

\* The clean-up of a frame ends, unless the GPU holds up a queue for a label
\* that is yet to be written, or the driver has refused the signal that the
\* task of a label waits for.
CleanupReturnsOrStarves ==
  pc[Graphics] = "cleanup"
    ~> (pc[Graphics] = "record" \/ Forsaken \/ \E q \in Queues : Starved(q))

\* "waitOnAddress can be called before writeReleaseMemEvent if it's on a
\* different queue": a wait that precedes its write does not keep the graphics
\* thread, which may be the one to go on to that write, from ending its frame.
CleanupReturns == pc[Graphics] = "cleanup" ~> pc[Graphics] = "record"
==============================================================================
