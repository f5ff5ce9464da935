------------------------------ MODULE GpuProofs ------------------------------
(***************************************************************************)
(* The labels of GnmLabels: no task outlives its label except under a      *)
(* write in progress, and a frame is cleaned up with the graphics queue    *)
(* drained, for any number of threads, addresses, values and semaphores.   *)
(* And the compute queue of SceComputeQueue: its packets are submitted     *)
(* each once and in order, and their room is given back only then, for a   *)
(* ring of any size.                                                       *)
(*                                                                         *)
(* The argument for the tasks: a task that m_future does not hold any more *)
(* has a thread in write() that waits for it (ReplacedIsAwaited), so the   *)
(* destructor, which joins the task m_future holds, joins the last one.    *)
(* For the frame: the graphics thread alone puts submissions on its queue, *)
(* its list last (ListIsLast), and goes on once that was executed, if its  *)
(* wait does not fail.  Lists and signals the driver refuses never reach a *)
(* queue; the numbers of the lists (ListsAreNumbered) tell them apart.     *)
(***************************************************************************)
EXTENDS MCGpu, SequenceTheorems, TLAPS

Cmd == [addr : Addrs, sem : Sems, kind : Kinds, imm : Imms]
Places == {"record", "use", "assign", "sync", "cleanup", "crashed"}

LabelTypes ==
  /\ labels \in [Addrs -> Sems \cup {Nil}]
  /\ running \in [Sems -> ImmOrNil] /\ replaced \in [Sems -> ImmOrNil]
  /\ pc \in [Threads -> Places]
  /\ held \in [Threads -> Cmd \cup {NoCmd}]
  /\ \A t \in Threads : pc[t] \in {"use", "assign"} => held[t] \in Cmd
  /\ begun \in [Threads -> Nat] /\ executed \in [Threads -> Nat]
  /\ queue \in [Queues -> Seq(Items)]

Writing(s) == \E t \in Threads : held[t].sem = s /\ pc[t] \in {"assign", "crashed"}
ReplacedIsAwaited == \A s \in Sems : replaced[s] # Nil => Writing(s)

JoinInv == TasksAreJoined /\ ReplacedIsAwaited

\* The lock is held in cleanup only.
LockIsHeld == lockedBy = Graphics => pc[Graphics] = "cleanup"

SubmittedBy ==
  \A q \in Queues : \A i \in 1..Len(queue[q]) :
    queue[q][i].thread \in Threads /\ QueueOf(queue[q][i].thread) = q

\* A list on a queue has the number of a list that was begun.
ListsAreNumbered ==
  /\ \A t \in Threads : executed[t] <= begun[t]
  /\ \A q \in Queues : \A i \in 1..Len(queue[q]) :
       queue[q][i].op = "list" => queue[q][i].covers <= begun[queue[q][i].thread]

\* While the graphics thread waits for its list, that list is the last of the
\* queue, and executed, it has left the queue empty.
ListIsLast ==
  pc[Graphics] = "sync" =>
    /\ \A i \in 1..Len(queue["graphics"]) :
         /\ queue["graphics"][i].op = "list"
         /\ queue["graphics"][i].covers = begun[Graphics]
         => i = Len(queue["graphics"])
    /\ executed[Graphics] = begun[Graphics] => queue["graphics"] = <<>>

DrainInv == SubmittedBy /\ ListsAreNumbered /\ ListIsLast /\ FrameIsDrained

------------------------------------------------------------------------------
\* Where submissions go.
LEMMA QueueFacts ==
  /\ Graphics \in Threads /\ QueueOf(Graphics) = "graphics"
  /\ \A t \in Threads : QueueOf(t) \in Queues
  /\ \A t \in Threads : QueueOf(t) = "graphics" <=> t = Graphics
BY DEF Threads, Queues, QueueOf

LEMMA EmptyRange == 1..Len(<<>>) = {}
<1>1. Len(<<>>) = 0
  OBVIOUS
<1>2. QED BY <1>1

LEMMA AppendFacts ==
  ASSUME NEW s \in Seq(Items), NEW e \in Items
  PROVE  /\ Append(s, e) \in Seq(Items) /\ Len(Append(s, e)) = Len(s) + 1 /\ Len(s) \in Nat
         /\ \A i \in 1..Len(s) : Append(s, e)[i] = s[i]
         /\ Append(s, e)[Len(s) + 1] = e
         /\ Append(s, e) # <<>>
BY AppendProperties, LenProperties

LEMMA TailFacts ==
  ASSUME NEW s \in Seq(Items), s # <<>>
  PROVE  /\ Head(s) \in Items /\ Head(s) = s[1] /\ Tail(s) \in Seq(Items)
         /\ Len(s) \in Nat \ {0} /\ Len(Tail(s)) = Len(s) - 1
         /\ \A i \in 1..Len(Tail(s)) : Tail(s)[i] = s[i + 1]
         /\ Len(s) = 1 => Tail(s) = <<>>
<1>1. /\ Head(s) \in Items /\ Tail(s) \in Seq(Items) /\ Len(Tail(s)) = Len(s) - 1
      /\ \A i \in 1..Len(Tail(s)) : Tail(s)[i] = s[i + 1]
      /\ Len(s) \in Nat /\ Len(s) # 0
  BY HeadTailProperties, LenProperties, EmptySeq
<1>2. Head(s) = s[1]
  BY <1>1
<1>3. Len(s) = 1 => Tail(s) = <<>>
  <2>1. Tail(s) # <<>> => Len(Tail(s)) \in Nat \ {0}
    BY <1>1, EmptySeq
  <2>2. QED BY <1>1, <2>1
<1>4. QED BY <1>1, <1>2, <1>3

\* What a label operation submits.
LEMMA OpFacts ==
  ASSUME LabelTypes, NEW t \in Threads, held[t] \in Cmd, NEW op \in {"signal", "wait"}
  PROVE  /\ SemaphoreOp(t, op) \in Items
         /\ SemaphoreOp(t, op).thread = t /\ SemaphoreOp(t, op).op = op
<1>1. held[t].imm \in Nat /\ held[t].sem \in Sems
  BY ImmsAssumption DEF Cmd
<1>2. SemaphoreValue(held[t].imm) \in Nat
  BY <1>1 DEF SemaphoreValue
<1>3. begun[t] + (IF worked[t] THEN 1 ELSE 0) \in Nat
  BY DEF LabelTypes
<1>4. QED BY <1>1, <1>2, <1>3 DEF SemaphoreOp, Items

LEMMA ListFacts ==
  ASSUME LabelTypes, NEW t \in Threads
  PROVE  /\ ListItem(t) \in Items /\ ListItem(t).covers = begun[t] + 1
         /\ ListItem(t).op = "list" /\ ListItem(t).thread = t
<1>1. begun[t] + 1 \in Nat
  BY DEF LabelTypes
<1>2. QED BY <1>1 DEF ListItem, Items

LEMMA SubmitType ==
  ASSUME LabelTypes, NEW t \in Threads, NEW item \in Items, QueueSubmit(t, item)
  PROVE  queue' \in [Queues -> Seq(Items)]
<1>1. Submitted(t, item) \in [Queues -> Seq(Items)]
  BY QueueFacts, AppendFacts DEF LabelTypes, Submitted
<1>2. QED BY <1>1 DEF QueueSubmit, LabelTypes

\* What a queue holds, element by element.
LEMMA ItemFacts ==
  ASSUME LabelTypes
  PROVE  \A q \in Queues :
           /\ queue[q] \in Seq(Items) /\ Len(queue[q]) \in Nat
           /\ \A i \in 1..Len(queue[q]) : queue[q][i] \in Items /\ queue[q][i].thread \in Threads
<1> SUFFICES ASSUME NEW q \in Queues
             PROVE  /\ queue[q] \in Seq(Items) /\ Len(queue[q]) \in Nat
                    /\ \A i \in 1..Len(queue[q]) :
                         queue[q][i] \in Items /\ queue[q][i].thread \in Threads
  OBVIOUS
<1>1. queue[q] \in Seq(Items)
  BY DEF LabelTypes
<1>2. \A i \in 1..Len(queue[q]) : queue[q][i] \in Items
  BY <1>1, ElementOfSeq
<1>3. QED BY <1>1, <1>2, LenProperties DEF Items

------------------------------------------------------------------------------
\* Types.
LEMMA TypesStart == Init => LabelTypes
<1> SUFFICES ASSUME Init PROVE LabelTypes
  OBVIOUS
<1>1. queue \in [Queues -> Seq(Items)]
  BY EmptySeq DEF Init
<1>2. QED BY <1>1 DEF Init, LabelTypes, ImmOrNil, Places

\* A new label's semaphore is a free one.
LEMMA NewSemsAre == NewSems \subseteq Sems
BY DEF NewSems, FreeSems

LEMMA TypesOfRecord ==
  ASSUME LabelTypes, NEW t \in Threads, Record(t)
  PROVE  LabelTypes'
<1>1. CASE \E a \in Addrs, kind \in Kinds, imm \in Imms : GetLabel(t, a, kind, imm)
  <2> PICK a \in Addrs, kind \in Kinds, imm \in Imms : GetLabel(t, a, kind, imm)
    BY <1>1
  <2>1. PICK s \in IF labels[a] # Nil THEN {labels[a]} ELSE NewSems :
          /\ labels' = [labels EXCEPT ![a] = s]
          /\ held' = [held EXCEPT ![t] = [addr |-> a, sem |-> s, kind |-> kind, imm |-> imm]]
          /\ pc' = [pc EXCEPT ![t] = "use"]
          /\ UNCHANGED <<running, replaced, begun, executed, queue>>
    BY DEF GetLabel, gpuVars
  <2>2. s \in Sems
    BY <2>1, NewSemsAre DEF LabelTypes
  <2>3. [addr |-> a, sem |-> s, kind |-> kind, imm |-> imm] \in Cmd
    BY <2>2 DEF Cmd
  <2>4. QED BY <2>1, <2>2, <2>3 DEF LabelTypes, Places
<1>2. CASE RecordWork(t)
  BY <1>2 DEF RecordWork, labelVars, gpuVars, LabelTypes
<1>3. CASE SubmitList(t)
  <2>1. PICK e \in Items : e = ListItem(t)
    BY ListFacts
  <2>2. queue' \in [Queues -> Seq(Items)]
    BY <1>3, <2>1, SubmitType DEF SubmitList
  <2>3. QED BY <1>3, <2>2 DEF SubmitList, labelVars, LabelTypes, Places
<1>4. QED BY <1>1, <1>2, <1>3 DEF Record

LEMMA TypesOfWait ==
  ASSUME LabelTypes, NEW t \in Threads, Synchronize(t) \/ SynchronizeFails(t)
  PROVE  LabelTypes'
BY DEF Synchronize, SynchronizeFails, AfterList, labelVars, gpuVars, LabelTypes, Places

LEMMA TypesOfProceed ==
  ASSUME LabelTypes, NEW t \in Threads, Proceed(t)
  PROVE  LabelTypes'
<1>1. CASE Write(t)
  <2>1. held[t] \in Cmd /\ held[t].imm \in Imms /\ held[t].sem \in Sems
    BY <1>1 DEF Write, LabelTypes, Cmd
  <2>2. queue' \in [Queues -> Seq(Items)]
    BY <1>1, <2>1, OpFacts, SubmitType DEF Write
  <2>3. running' \in [Sems -> ImmOrNil] /\ replaced' \in [Sems -> ImmOrNil]
    BY <1>1, <2>1 DEF Write, LabelTypes, ImmOrNil
  <2>4. QED BY <1>1, <2>1, <2>2, <2>3 DEF Write, LabelTypes, Places
<1>2. CASE AssignFuture(t)
  BY <1>2 DEF AssignFuture, labelVars, gpuVars, LabelTypes, Places
<1>3. CASE Wait(t)
  <2>1. held[t] \in Cmd
    BY <1>3 DEF Wait, LabelTypes
  <2>2. queue' \in [Queues -> Seq(Items)]
    BY <1>3, <2>1, OpFacts, SubmitType DEF Wait
  <2>3. QED BY <1>3, <2>2 DEF Wait, labelVars, LabelTypes, Places
<1>4. CASE UseDestroyed(t)
  BY <1>4 DEF UseDestroyed, labelVars, gpuVars, LabelTypes, Places
<1>5. CASE Synchronize(t)
  BY <1>5, TypesOfWait
<1>6. QED BY <1>1, <1>2, <1>3, <1>4, <1>5 DEF Proceed

LEMMA TypesStep == LabelTypes /\ [Next]_vars => LabelTypes'
<1> SUFFICES ASSUME LabelTypes, [Next]_vars PROVE LabelTypes'
  OBVIOUS
<1>1. CASE \E t \in Threads : Record(t) \/ Proceed(t) \/ SynchronizeFails(t)
  BY <1>1, TypesOfRecord, TypesOfProceed, TypesOfWait
<1>2. CASE LockLabels
  BY <1>2 DEF LockLabels, gpuVars, LabelTypes
<1>3. CASE \E a \in Addrs : DestroyLabel(a)
  BY <1>3 DEF DestroyLabel, gpuVars, LabelTypes
<1>4. CASE UnlockLabels
  BY <1>4 DEF UnlockLabels, gpuVars, LabelTypes, Places
<1>5. CASE \E a \in Addrs : RunTask(a) \/ RunTaskFails(a)
  <2>1. PICK a \in Addrs, error \in BOOLEAN : FinishTask(a, error)
    BY <1>5 DEF RunTask, RunTaskFails
  <2>2. labels[a] \in Sems
    BY <2>1 DEF FinishTask, StoreTask, LabelTypes
  <2>3. running' \in [Sems -> ImmOrNil] /\ replaced' \in [Sems -> ImmOrNil]
    BY <2>1, <2>2 DEF FinishTask, LabelTypes, ImmOrNil
  <2>4. QED BY <2>1, <2>3 DEF FinishTask, gpuVars, LabelTypes
<1>6. CASE \E q \in Queues : GpuStep(q)
  <2>1. PICK q \in Queues : GpuStep(q)
    BY <1>6
  <2>2. queue[q] \in Seq(Items) /\ queue[q] # <<>>
    BY <2>1 DEF GpuStep, LabelTypes
  <2>3. /\ Head(queue[q]).thread \in Threads /\ Tail(queue[q]) \in Seq(Items)
        /\ Head(queue[q]).covers \in Nat
    BY <2>2, TailFacts DEF Items
  <2>4. queue' \in [Queues -> Seq(Items)]
    BY <2>1, <2>3 DEF GpuStep, LabelTypes
  <2>5. executed' = executed
          \/ executed' = [executed EXCEPT ![Head(queue[q]).thread] = Head(queue[q]).covers]
    BY <2>1 DEF GpuStep
  <2>6. executed' \in [Threads -> Nat]
    BY <2>3, <2>5 DEF LabelTypes
  <2>7. QED BY <2>1, <2>4, <2>6 DEF GpuStep, LabelTypes
<1>7. CASE UNCHANGED vars
  BY <1>7 DEF vars, LabelTypes
<1>8. QED BY <1>1, <1>2, <1>3, <1>4, <1>5, <1>6, <1>7 DEF Next, Cleanup

LEMMA LockStart == Init => LockIsHeld
BY NilAssumption DEF Init, LockIsHeld

LEMMA LockStep == LabelTypes /\ LockIsHeld /\ [Next]_vars => LockIsHeld'
<1> SUFFICES ASSUME LabelTypes, LockIsHeld, [Next]_vars PROVE LockIsHeld'
  OBVIOUS
<1> USE DEF LockIsHeld, LabelTypes
<1>1. ASSUME NEW t \in Threads, Record(t) PROVE LockIsHeld'
  BY <1>1, QueueFacts DEF Record, GetLabel, RecordWork, SubmitList, labelVars
<1>2. ASSUME NEW t \in Threads, Proceed(t) PROVE LockIsHeld'
  BY <1>2, QueueFacts
     DEF Proceed, Write, AssignFuture, Wait, UseDestroyed, Synchronize, labelVars
<1>3. CASE LockLabels
  BY <1>3 DEF LockLabels
<1>4. CASE \E a \in Addrs : DestroyLabel(a)
  BY <1>4 DEF DestroyLabel
<1>5. CASE UnlockLabels
  BY <1>5, NilAssumption DEF UnlockLabels
<1>6. CASE \E a \in Addrs : RunTask(a) \/ RunTaskFails(a)
  BY <1>6 DEF RunTask, RunTaskFails, FinishTask
<1>7. CASE \E q \in Queues : GpuStep(q)
  BY <1>7 DEF GpuStep
<1>8. CASE UNCHANGED vars
  BY <1>8 DEF vars
<1>9. ASSUME NEW t \in Threads, SynchronizeFails(t) PROVE LockIsHeld'
  BY <1>9, QueueFacts DEF SynchronizeFails, labelVars
<1>10. QED BY <1>1, <1>2, <1>3, <1>4, <1>5, <1>6, <1>7, <1>8, <1>9 DEF Next, Cleanup

------------------------------------------------------------------------------
\* Tasks and their labels.
LEMMA JoinStart == Init => JoinInv
BY DEF Init, JoinInv, TasksAreJoined, ReplacedIsAwaited

\* A step that starts no task, destroys no label and ends no write.
LEMMA JoinKept ==
  ASSUME JoinInv, UNCHANGED <<running, replaced>>,
         \A s \in Sems : Writing(s) => Writing(s)',
         \A s \in Sems : (\E a \in Addrs : labels[a] = s) => (\E a \in Addrs : labels'[a] = s)
  PROVE  JoinInv'
BY DEF JoinInv, TasksAreJoined, ReplacedIsAwaited, Writing

LEMMA JoinOfRecord ==
  ASSUME LabelTypes, JoinInv, NEW t \in Threads, Record(t)
  PROVE  JoinInv'
<1>1. CASE \E a \in Addrs, kind \in Kinds, imm \in Imms : GetLabel(t, a, kind, imm)
  <2> PICK a \in Addrs, kind \in Kinds, imm \in Imms : GetLabel(t, a, kind, imm)
    BY <1>1
  <2>1. PICK s \in IF labels[a] # Nil THEN {labels[a]} ELSE NewSems :
          /\ labels' = [labels EXCEPT ![a] = s]
          /\ held' = [held EXCEPT ![t] = [addr |-> a, sem |-> s, kind |-> kind, imm |-> imm]]
          /\ pc' = [pc EXCEPT ![t] = "use"] /\ pc[t] = "record"
          /\ UNCHANGED <<running, replaced>>
    BY DEF GetLabel
  <2>2. \A u \in Sems : Writing(u) => Writing(u)'
    BY <2>1 DEF Writing, LabelTypes
  <2>3. \A u \in Sems : (\E b \in Addrs : labels[b] = u) => (\E b \in Addrs : labels'[b] = u)
    BY <2>1, NilAssumption DEF LabelTypes
  <2>4. QED BY <2>1, <2>2, <2>3, JoinKept
<1>2. CASE RecordWork(t)
  BY <1>2, JoinKept DEF RecordWork, labelVars, Writing
<1>3. CASE SubmitList(t)
  <2>1. \A u \in Sems : Writing(u) => Writing(u)'
    BY <1>3 DEF SubmitList, Writing, LabelTypes
  <2>2. QED BY <1>3, <2>1, JoinKept DEF SubmitList, labelVars
<1>4. QED BY <1>1, <1>2, <1>3 DEF Record

LEMMA JoinOfWait ==
  ASSUME LabelTypes, JoinInv, NEW t \in Threads, Synchronize(t) \/ SynchronizeFails(t)
  PROVE  JoinInv'
<1>1. \A u \in Sems : Writing(u) => Writing(u)'
  BY DEF Synchronize, SynchronizeFails, Writing, LabelTypes
<1>2. QED BY <1>1, JoinKept DEF Synchronize, SynchronizeFails, labelVars

LEMMA JoinOfProceed ==
  ASSUME LabelTypes, JoinInv, NEW t \in Threads, Proceed(t)
  PROVE  JoinInv'
<1>1. CASE Write(t)
  <2>1. PICK s \in Sems : /\ held[t].sem = s /\ held[t].addr \in Addrs
                         /\ labels[held[t].addr] = s
    BY <1>1 DEF Write, Valid, LabelTypes, Cmd
  <2>2. /\ replaced' = [replaced EXCEPT ![s] = running[s]]
        /\ running' = [running EXCEPT ![s] = held[t].imm]
        /\ pc' = [pc EXCEPT ![t] = "assign"] /\ UNCHANGED <<labels, held>>
        /\ pc[t] = "use"
    BY <1>1, <2>1 DEF Write
  <2>3. Writing(s)' /\ \A u \in Sems : Writing(u) => Writing(u)'
    BY <2>1, <2>2 DEF Writing, LabelTypes
  <2>4. ReplacedIsAwaited'
    BY <2>1, <2>2, <2>3 DEF ReplacedIsAwaited, JoinInv, LabelTypes
  <2>5. TasksAreJoined'
    <3> SUFFICES ASSUME NEW u \in Sems, running'[u] # Nil \/ replaced'[u] # Nil
                 PROVE  (\E a \in Addrs : labels'[a] = u) \/ Writing(u)'
      BY DEF TasksAreJoined, Writing
    <3>2. CASE u # s
      <4>1. running[u] # Nil \/ replaced[u] # Nil
        BY <2>1, <2>2, <3>2 DEF LabelTypes
      <4>2. (\E a \in Addrs : labels[a] = u) \/ Writing(u)
        BY <4>1 DEF JoinInv, TasksAreJoined, Writing
      <4>3. QED BY <2>2, <2>3, <4>2
    <3>3. QED
      <4>1. CASE u = s
        <5>1. labels'[held[t].addr] = s
          BY <2>1, <2>2
        <5>2. QED BY <2>1, <4>1, <5>1
      <4>2. QED BY <3>2, <4>1
  <2>6. QED BY <2>4, <2>5 DEF JoinInv
<1>2. CASE AssignFuture(t)
  <2> DEFINE s == held[t].sem
  <2>1. /\ pc[t] = "assign" /\ s \in Sems /\ held[t].addr \in Addrs
        /\ labels[held[t].addr] = s /\ replaced[s] = Nil
    BY <1>2 DEF AssignFuture, Valid, LabelTypes, Cmd
  <2>2. /\ pc' = [pc EXCEPT ![t] = "record"] /\ held' = [held EXCEPT ![t] = NoCmd]
        /\ UNCHANGED <<labels, running, replaced>>
    BY <1>2 DEF AssignFuture, labelVars
  <2>3. \A u \in Sems \ {s} : Writing(u) => Writing(u)'
    BY <2>2 DEF Writing, LabelTypes
  <2>4. ReplacedIsAwaited'
    BY <2>1, <2>2, <2>3 DEF ReplacedIsAwaited, JoinInv
  <2>5. TasksAreJoined'
    <3> SUFFICES ASSUME NEW u \in Sems, running[u] # Nil \/ replaced[u] # Nil
                 PROVE  (\E a \in Addrs : labels[a] = u) \/ Writing(u)'
      BY <2>2 DEF TasksAreJoined, Writing
    <3>1. CASE u = s
      BY <2>1, <3>1
    <3>2. CASE u # s
      BY <2>3, <3>2 DEF JoinInv, TasksAreJoined, Writing
    <3>3. QED BY <3>1, <3>2
  <2>6. QED BY <2>4, <2>5 DEF JoinInv
<1>3. CASE Wait(t)
  <2>1. \A u \in Sems : Writing(u) => Writing(u)'
    BY <1>3 DEF Wait, Writing, LabelTypes
  <2>2. QED BY <1>3, <2>1, JoinKept DEF Wait, labelVars
<1>4. CASE UseDestroyed(t)
  <2>1. \A u \in Sems : Writing(u) => Writing(u)'
    BY <1>4 DEF UseDestroyed, Writing, LabelTypes
  <2>2. QED BY <1>4, <2>1, JoinKept DEF UseDestroyed, labelVars
<1>5. CASE Synchronize(t)
  BY <1>5, JoinOfWait
<1>6. QED BY <1>1, <1>2, <1>3, <1>4, <1>5 DEF Proceed

\* The destructor joins the last task of its label, unless a write goes on.
LEMMA JoinOfDestroy ==
  ASSUME LabelTypes, JoinInv, NEW a \in Addrs, DestroyLabel(a)
  PROVE  JoinInv'
<1> DEFINE s == labels[a]
<1>1. /\ s \in Sems /\ Recorded(s) = Nil /\ labels' = [labels EXCEPT ![a] = Nil]
      /\ UNCHANGED <<running, replaced, pc, held>>
  BY DEF DestroyLabel, LabelTypes
<1>2. ~Writing(s) => running[s] = Nil /\ replaced[s] = Nil
  BY <1>1 DEF Recorded, Writing, JoinInv, ReplacedIsAwaited
<1>3. \A u \in Sems : Writing(u)' <=> Writing(u)
  BY <1>1 DEF Writing
<1>4. ReplacedIsAwaited'
  BY <1>1, <1>3 DEF JoinInv, ReplacedIsAwaited
<1>5. TasksAreJoined'
  <2> SUFFICES ASSUME NEW u \in Sems, running[u] # Nil \/ replaced[u] # Nil
               PROVE  (\E b \in Addrs : labels'[b] = u) \/ Writing(u)
    BY <1>1, <1>3 DEF TasksAreJoined, Writing
  <2>1. CASE u = s
    BY <1>2, <2>1
  <2>2. CASE u # s
    BY <1>1, <2>2 DEF JoinInv, TasksAreJoined, Writing, LabelTypes
  <2>3. QED BY <2>1, <2>2
<1>6. QED BY <1>4, <1>5 DEF JoinInv

LEMMA JoinOfTask ==
  ASSUME LabelTypes, JoinInv, NEW a \in Addrs, NEW error \in BOOLEAN, FinishTask(a, error)
  PROVE  JoinInv'
<1>1. labels[a] \in Sems /\ UNCHANGED <<labels, pc, held>>
  BY DEF FinishTask, StoreTask, LabelTypes
<1>2. \A s \in Sems : /\ running'[s] # Nil => running[s] # Nil
                      /\ replaced'[s] # Nil => replaced[s] # Nil
  BY <1>1 DEF FinishTask, LabelTypes
<1>3. \A s \in Sems : (Writing(s) => Writing(s)')
  BY <1>1 DEF Writing
<1>4. ReplacedIsAwaited'
  <2> SUFFICES ASSUME NEW s \in Sems, replaced'[s] # Nil PROVE Writing(s)'
    BY DEF ReplacedIsAwaited
  <2>1. replaced[s] # Nil
    BY <1>2
  <2>2. Writing(s)
    BY <2>1 DEF JoinInv, ReplacedIsAwaited
  <2>3. QED BY <1>3, <2>2
<1>5. TasksAreJoined'
  <2> SUFFICES ASSUME NEW s \in Sems, running'[s] # Nil \/ replaced'[s] # Nil
               PROVE  (\E b \in Addrs : labels[b] = s) \/ Writing(s)
    BY <1>1 DEF TasksAreJoined, Writing
  <2>1. running[s] # Nil \/ replaced[s] # Nil
    BY <1>2
  <2>2. QED BY <2>1 DEF JoinInv, TasksAreJoined, Writing
<1>6. QED BY <1>4, <1>5 DEF JoinInv

LEMMA JoinStep == LabelTypes /\ LockIsHeld /\ JoinInv /\ [Next]_vars => JoinInv'
<1> SUFFICES ASSUME LabelTypes, LockIsHeld, JoinInv, [Next]_vars PROVE JoinInv'
  OBVIOUS
<1>1. CASE \E t \in Threads : Record(t) \/ Proceed(t) \/ SynchronizeFails(t)
  BY <1>1, JoinOfRecord, JoinOfProceed, JoinOfWait
<1>2. CASE LockLabels
  BY <1>2, JoinKept DEF LockLabels, Writing
<1>3. CASE \E a \in Addrs : DestroyLabel(a)
  BY <1>3, JoinOfDestroy
<1>4. CASE UnlockLabels
  <2>1. \A u \in Sems : Writing(u) => Writing(u)'
    BY <1>4 DEF UnlockLabels, Writing, LabelTypes, LockIsHeld
  <2>2. QED BY <1>4, <2>1, JoinKept DEF UnlockLabels
<1>5. CASE \E a \in Addrs : RunTask(a) \/ RunTaskFails(a)
  BY <1>5, JoinOfTask DEF RunTask, RunTaskFails
<1>6. CASE \E q \in Queues : GpuStep(q)
  BY <1>6, JoinKept DEF GpuStep, Writing
<1>7. CASE UNCHANGED vars
  BY <1>7, JoinKept DEF vars, Writing
<1>8. QED BY <1>1, <1>2, <1>3, <1>4, <1>5, <1>6, <1>7 DEF Next, Cleanup

------------------------------------------------------------------------------
\* The frame's queue.
LEMMA DrainStart == Init => DrainInv
<1> SUFFICES ASSUME Init PROVE DrainInv
  OBVIOUS
<1>1. \A q \in Queues : 1..Len(queue[q]) = {}
  BY EmptyRange DEF Init
<1>2. SubmittedBy
  BY <1>1 DEF SubmittedBy
<1>3. ListsAreNumbered
  BY <1>1 DEF ListsAreNumbered, Init
<1>4. pc[Graphics] = "record"
  BY QueueFacts DEF Init
<1>5. QED BY <1>2, <1>3, <1>4 DEF DrainInv, ListIsLast, FrameIsDrained

\* A step that leaves the queues and the lists' counts alone, and the graphics
\* thread where it is or somewhere outside submit() and cleanup.
LEMMA DrainKept ==
  ASSUME DrainInv, UNCHANGED <<queue, executed, begun>>,
         Graphics \in unwaited => Graphics \in unwaited',
         pc'[Graphics] = pc[Graphics] \/ pc'[Graphics] \notin {"sync", "cleanup"}
  PROVE  DrainInv'
<1>1. SubmittedBy'
  BY DEF DrainInv, SubmittedBy
<1>2. ListsAreNumbered'
  BY DEF DrainInv, ListsAreNumbered
<1>3. ListIsLast'
  BY DEF DrainInv, ListIsLast
<1>4. FrameIsDrained'
  BY DEF DrainInv, FrameIsDrained
<1>5. QED BY <1>1, <1>2, <1>3, <1>4 DEF DrainInv

\* What a submission, accepted or refused, leaves in the queues.
Grows(t, item) ==
  /\ \A q \in Queues : q # QueueOf(t) => queue'[q] = queue[q]
  /\ \A q \in Queues : \A i \in 1..Len(queue'[q]) :
       \/ i \in 1..Len(queue[q]) /\ queue'[q][i] = queue[q][i]
       \/ q = QueueOf(t) /\ i = Len(queue'[q]) /\ queue'[q][i] = item

LEMMA SubmitGrows ==
  ASSUME LabelTypes, NEW t \in Threads, NEW item \in Items, QueueSubmit(t, item)
  PROVE  Grows(t, item)
<1>1. CASE queue' = queue
  BY <1>1 DEF Grows
<1>2. CASE queue' = Submitted(t, item)
  <2>1. \A q \in Queues : q # QueueOf(t) => queue'[q] = queue[q]
    BY <1>2, QueueFacts DEF Submitted, LabelTypes
  <2>2. ASSUME NEW q \in Queues, NEW i \in 1..Len(queue'[q])
        PROVE  \/ i \in 1..Len(queue[q]) /\ queue'[q][i] = queue[q][i]
               \/ q = QueueOf(t) /\ i = Len(queue'[q]) /\ queue'[q][i] = item
    <3>1. CASE q = QueueOf(t)
      <4>1. queue'[q] = Append(queue[q], item) /\ queue[q] \in Seq(Items)
        BY <1>2, <3>1 DEF Submitted, LabelTypes
      <4>2. QED BY <3>1, <4>1, AppendFacts
    <3>2. CASE q # QueueOf(t)
      BY <2>1, <3>2
    <3>3. QED BY <3>1, <3>2
  <2>3. QED BY <2>1, <2>2 DEF Grows
<1>3. QED BY <1>1, <1>2 DEF QueueSubmit

\* A thread submits a label operation while it records.
LEMMA DrainOfOp ==
  ASSUME LabelTypes, DrainInv, NEW t \in Threads, NEW item \in Items,
         item.op # "list", item.thread = t,
         QueueSubmit(t, item), UNCHANGED <<executed, begun, unwaited>>,
         pc[t] = "use", NEW p \in {"assign", "record"}, pc' = [pc EXCEPT ![t] = p]
  PROVE  DrainInv'
<1>1. Grows(t, item)
  BY SubmitGrows
<1>2. SubmittedBy'
  BY <1>1 DEF Grows, DrainInv, SubmittedBy
<1>3. ListsAreNumbered'
  BY <1>1 DEF Grows, DrainInv, ListsAreNumbered
<1>4. CASE t = Graphics
  <2>1. pc'[Graphics] = p
    BY <1>4 DEF LabelTypes
  <2>2. QED BY <1>2, <1>3, <2>1 DEF DrainInv, ListIsLast, FrameIsDrained
<1>5. CASE t # Graphics
  <2>1. pc'[Graphics] = pc[Graphics]
    BY <1>5, QueueFacts DEF LabelTypes
  <2>2. queue'["graphics"] = queue["graphics"]
    BY <1>1, <1>5, QueueFacts DEF Grows, Queues
  <2>3. ListIsLast' /\ FrameIsDrained'
    BY <2>1, <2>2 DEF DrainInv, ListIsLast, FrameIsDrained
  <2>4. QED BY <1>2, <1>3, <2>3 DEF DrainInv
<1>6. QED BY <1>4, <1>5

\* A thread submits the list it recorded.
LEMMA DrainOfList ==
  ASSUME LabelTypes, DrainInv, NEW t \in Threads, SubmitList(t)
  PROVE  DrainInv'
<1>1. PICK e \in Items : e = ListItem(t) /\ e.op = "list" /\ e.thread = t /\ e.covers = begun[t] + 1
  BY ListFacts
<1>2. /\ QueueSubmit(t, e) /\ executed' = executed /\ unwaited' = unwaited
      /\ pc' = [pc EXCEPT ![t] = "sync"] /\ pc[t] = "record"
      /\ begun' = [begun EXCEPT ![t] = @ + 1]
  BY <1>1 DEF SubmitList
<1>3. Grows(t, e)
  BY <1>2, SubmitGrows
<1>4. /\ begun'[t] = begun[t] + 1 /\ \A u \in Threads \ {t} : begun'[u] = begun[u]
      /\ \A u \in Threads : begun[u] \in Nat /\ executed[u] \in Nat
  BY <1>2 DEF LabelTypes
<1>5. SubmittedBy'
  BY <1>1, <1>3 DEF Grows, DrainInv, SubmittedBy
<1>6. \A q \in Queues : \A i \in 1..Len(queue[q]) :
        /\ queue[q][i].thread \in Threads /\ queue[q][i].covers \in Nat
        /\ queue[q][i].op = "list" => queue[q][i].covers <= begun[queue[q][i].thread]
  <2>1. ASSUME NEW q \in Queues, NEW i \in 1..Len(queue[q])
        PROVE  queue[q][i].thread \in Threads /\ queue[q][i].covers \in Nat
    <3>1. queue[q][i] \in Items
      BY ItemFacts
    <3>2. QED BY <3>1 DEF Items
  <2>2. QED BY <2>1 DEF DrainInv, ListsAreNumbered
<1>7. ListsAreNumbered'
  <2>1. \A u \in Threads : executed'[u] <= begun'[u]
    BY <1>2, <1>4 DEF DrainInv, ListsAreNumbered
  <2>2. ASSUME NEW q \in Queues, NEW i \in 1..Len(queue'[q]), queue'[q][i].op = "list"
        PROVE  queue'[q][i].covers <= begun'[queue'[q][i].thread]
    <3>1. CASE i \in 1..Len(queue[q]) /\ queue'[q][i] = queue[q][i]
      BY <1>4, <1>6, <2>2, <3>1
    <3>2. CASE queue'[q][i] = e
      BY <1>1, <1>4, <3>2
    <3>3. QED BY <1>3, <3>1, <3>2 DEF Grows
  <2>3. QED BY <2>1, <2>2 DEF ListsAreNumbered
<1>8. CASE t = Graphics
  <2>1. pc'[Graphics] = "sync"
    BY <1>2, <1>8 DEF LabelTypes
  <2>2. executed'[Graphics] # begun'[Graphics]
    BY <1>2, <1>4, <1>8, QueueFacts DEF DrainInv, ListsAreNumbered
  <2>3. ASSUME NEW i \in 1..Len(queue'["graphics"]), queue'["graphics"][i].op = "list",
               queue'["graphics"][i].covers = begun'[Graphics]
        PROVE  i = Len(queue'["graphics"])
    <3>1. CASE i \in 1..Len(queue["graphics"]) /\ queue'["graphics"][i] = queue["graphics"][i]
      <4>1. queue["graphics"][i].thread = Graphics
        BY <3>1, QueueFacts DEF DrainInv, SubmittedBy, Queues
      <4>2. queue["graphics"][i].covers <= begun[Graphics] /\ queue["graphics"][i].covers \in Nat
        BY <1>6, <2>3, <3>1, <4>1 DEF Queues
      <4>3. QED BY <1>4, <1>8, <2>3, <3>1, <4>2
    <3>2. QED BY <1>3, <3>1 DEF Grows, Queues
  <2>4. ListIsLast' /\ FrameIsDrained'
    BY <2>1, <2>2, <2>3 DEF ListIsLast, FrameIsDrained
  <2>5. QED BY <1>5, <1>7, <2>4 DEF DrainInv
<1>9. CASE t # Graphics
  <2>1. /\ pc'[Graphics] = pc[Graphics] /\ begun'[Graphics] = begun[Graphics]
        /\ executed'[Graphics] = executed[Graphics]
    BY <1>2, <1>4, <1>9, QueueFacts DEF LabelTypes
  <2>2. queue'["graphics"] = queue["graphics"]
    BY <1>3, <1>9, QueueFacts DEF Grows, Queues
  <2>3. ListIsLast' /\ FrameIsDrained'
    BY <1>2, <2>1, <2>2 DEF DrainInv, ListIsLast, FrameIsDrained
  <2>4. QED BY <1>5, <1>7, <2>3 DEF DrainInv
<1>10. QED BY <1>8, <1>9

\* The wait for the list ends, executed or with an error.
LEMMA DrainOfWait ==
  ASSUME LabelTypes, DrainInv, NEW t \in Threads, Synchronize(t) \/ SynchronizeFails(t)
  PROVE  DrainInv'
<1>1. /\ pc' = [pc EXCEPT ![t] = AfterList(t)] /\ pc[t] = "sync"
      /\ UNCHANGED <<queue, executed, begun>>
      /\ \/ executed[t] = begun[t] /\ unwaited' = unwaited \ {t}
         \/ unwaited' = unwaited \cup {t}
  BY DEF Synchronize, SynchronizeFails, gpuVars
<1>2. CASE t = Graphics
  <2>1. pc'[Graphics] = "cleanup" /\ pc[Graphics] = "sync"
    BY <1>1, <1>2 DEF AfterList, LabelTypes
  <2>2. SubmittedBy' /\ ListsAreNumbered' /\ ListIsLast'
    BY <1>1, <2>1 DEF DrainInv, SubmittedBy, ListsAreNumbered, ListIsLast
  <2>3. CASE Graphics \in unwaited'
    BY <2>2, <2>3 DEF DrainInv, FrameIsDrained
  <2>4. CASE Graphics \notin unwaited'
    <3>1. executed[Graphics] = begun[Graphics]
      BY <1>1, <1>2, <2>4
    <3>2. queue["graphics"] = <<>>
      BY <2>1, <3>1 DEF DrainInv, ListIsLast
    <3>3. FrameIsDrained'
      BY <1>1, <3>1, <3>2 DEF FrameIsDrained
    <3>4. QED BY <2>2, <3>3 DEF DrainInv
  <2>5. QED BY <2>3, <2>4
<1>3. CASE t # Graphics
  <2>1. pc'[Graphics] = pc[Graphics] /\ (Graphics \in unwaited => Graphics \in unwaited')
    BY <1>1, <1>3, QueueFacts DEF LabelTypes
  <2>2. QED BY <1>1, <2>1, DrainKept
<1>4. QED BY <1>2, <1>3

LEMMA DrainOfRecord ==
  ASSUME LabelTypes, DrainInv, NEW t \in Threads, Record(t)
  PROVE  DrainInv'
<1>1. CASE \E a \in Addrs, kind \in Kinds, imm \in Imms : GetLabel(t, a, kind, imm)
  <2>1. /\ pc' = [pc EXCEPT ![t] = "use"] /\ pc[t] = "record"
        /\ UNCHANGED <<queue, executed, begun, unwaited>>
    BY <1>1 DEF GetLabel, gpuVars
  <2>2. pc'[Graphics] = pc[Graphics] \/ pc'[Graphics] = "use"
    BY <2>1, QueueFacts DEF LabelTypes
  <2>3. QED BY <2>1, <2>2, DrainKept
<1>2. CASE RecordWork(t)
  BY <1>2, DrainKept DEF RecordWork, gpuVars, faultVars
<1>3. CASE SubmitList(t)
  BY <1>3, DrainOfList
<1>4. QED BY <1>1, <1>2, <1>3 DEF Record

LEMMA DrainOfProceed ==
  ASSUME LabelTypes, DrainInv, NEW t \in Threads, Proceed(t)
  PROVE  DrainInv'
<1>1. CASE Write(t)
  <2>1. held[t] \in Cmd
    BY <1>1 DEF Write, LabelTypes
  <2>2. PICK e \in Items : e = SemaphoreOp(t, "signal")
    BY <2>1, OpFacts
  <2>3. e.op = "signal" /\ e.thread = t
    BY <2>1, <2>2, OpFacts
  <2>4. /\ QueueSubmit(t, e) /\ UNCHANGED <<executed, begun, unwaited>>
        /\ pc[t] = "use" /\ pc' = [pc EXCEPT ![t] = "assign"]
    BY <1>1, <2>2 DEF Write
  <2>5. QED BY <2>3, <2>4, DrainOfOp
<1>2. CASE AssignFuture(t)
  <2>1. /\ pc' = [pc EXCEPT ![t] = "record"] /\ pc[t] = "assign"
        /\ UNCHANGED <<queue, executed, begun, unwaited>>
    BY <1>2 DEF AssignFuture, gpuVars, faultVars
  <2>2. pc'[Graphics] = pc[Graphics] \/ pc'[Graphics] = "record"
    BY <2>1, QueueFacts DEF LabelTypes
  <2>3. QED BY <2>1, <2>2, DrainKept
<1>3. CASE Wait(t)
  <2>1. held[t] \in Cmd
    BY <1>3 DEF Wait, LabelTypes
  <2>2. PICK e \in Items : e = SemaphoreOp(t, "wait")
    BY <2>1, OpFacts
  <2>3. e.op = "wait" /\ e.thread = t
    BY <2>1, <2>2, OpFacts
  <2>4. /\ QueueSubmit(t, e) /\ UNCHANGED <<executed, begun, unwaited>>
        /\ pc[t] = "use" /\ pc' = [pc EXCEPT ![t] = "record"]
    BY <1>3, <2>2 DEF Wait
  <2>5. QED BY <2>3, <2>4, DrainOfOp
<1>4. CASE UseDestroyed(t)
  <2>1. /\ pc' = [pc EXCEPT ![t] = "crashed"]
        /\ UNCHANGED <<queue, executed, begun, unwaited>>
    BY <1>4 DEF UseDestroyed, gpuVars, faultVars
  <2>2. pc'[Graphics] = pc[Graphics] \/ pc'[Graphics] = "crashed"
    BY <2>1, QueueFacts DEF LabelTypes
  <2>3. QED BY <2>1, <2>2, DrainKept
<1>5. CASE Synchronize(t)
  BY <1>5, DrainOfWait
<1>6. QED BY <1>1, <1>2, <1>3, <1>4, <1>5 DEF Proceed

\* The GPU takes the head of a queue; the list of the graphics thread, taken,
\* was the last of its queue.
LEMMA DrainOfGpu ==
  ASSUME LabelTypes, DrainInv, NEW q \in Queues, GpuStep(q)
  PROVE  DrainInv'
<1> DEFINE s == queue[q]
<1>1. s \in Seq(Items) /\ s # <<>> /\ UNCHANGED <<pc, begun, unwaited>>
      /\ queue'[q] = Tail(s) /\ \A r \in Queues \ {q} : queue'[r] = queue[r]
  BY DEF GpuStep, LabelTypes, faultVars
<1>2. /\ Head(s) \in Items /\ Head(s) = s[1] /\ 1 \in 1..Len(s) /\ Len(s) \in Nat
      /\ Len(Tail(s)) = Len(s) - 1 /\ (Len(s) = 1 => Tail(s) = <<>>)
      /\ \A i \in 1..Len(Tail(s)) : Tail(s)[i] = s[i + 1] /\ i + 1 \in 1..Len(s) /\ i + 1 # 1
  BY <1>1, TailFacts
<1>3. \/ Head(s).op \in {"signal", "wait"} /\ executed' = executed
      \/ Head(s).op = "list" /\ executed' = [executed EXCEPT ![Head(s).thread] = Head(s).covers]
  BY DEF GpuStep
<1>4. \A r \in Queues : \A i \in 1..Len(queue'[r]) :
        \E k \in 1..Len(queue[r]) : queue'[r][i] = queue[r][k] /\ (r = q => k = i + 1)
  <2> SUFFICES ASSUME NEW r \in Queues, NEW i \in 1..Len(queue'[r])
               PROVE  \E k \in 1..Len(queue[r]) : queue'[r][i] = queue[r][k] /\ (r = q => k = i + 1)
    OBVIOUS
  <2>1. CASE r = q
    BY <1>1, <1>2, <2>1
  <2>2. CASE r # q
    BY <1>1, <2>2
  <2>3. QED BY <2>1, <2>2
<1>5. SubmittedBy'
  BY <1>4 DEF DrainInv, SubmittedBy
<1>6. Head(s).thread \in Threads /\ QueueOf(Head(s).thread) = q
        /\ (Head(s).op = "list" => Head(s).covers <= begun[Head(s).thread])
  BY <1>2 DEF DrainInv, SubmittedBy, ListsAreNumbered
<1> HIDE DEF s
<1>7. ListsAreNumbered'
  <2>1. \A u \in Threads : executed'[u] <= begun'[u]
    BY <1>1, <1>3, <1>6 DEF DrainInv, ListsAreNumbered, LabelTypes
  <2>2. ASSUME NEW r \in Queues, NEW i \in 1..Len(queue'[r]), queue'[r][i].op = "list"
        PROVE  queue'[r][i].covers <= begun'[queue'[r][i].thread]
    <3>1. PICK k \in 1..Len(queue[r]) : queue'[r][i] = queue[r][k]
      BY <1>4
    <3>2. QED BY <1>1, <2>2, <3>1 DEF DrainInv, ListsAreNumbered
  <2>3. QED BY <2>1, <2>2 DEF ListsAreNumbered
<1>8. CASE q = "graphics"
  <2>1. queue'["graphics"] = Tail(s) /\ queue["graphics"] = s
    BY <1>1, <1>8 DEF s
  <2>2. Head(s).thread = Graphics
    BY <1>6, <1>8, QueueFacts
  <2>3. FrameIsDrained'
    BY <1>1, <2>1 DEF DrainInv, FrameIsDrained
  <2>4. ASSUME pc[Graphics] = "sync" PROVE executed[Graphics] # begun[Graphics]
    BY <1>1, <2>1, <2>4 DEF DrainInv, ListIsLast
  <2>5. ASSUME pc[Graphics] = "sync", NEW i \in 1..Len(Tail(s)), Tail(s)[i].op = "list",
               Tail(s)[i].covers = begun[Graphics]
        PROVE  i = Len(Tail(s))
    <3>1. i + 1 = Len(s)
      BY <1>2, <2>1, <2>5 DEF DrainInv, ListIsLast
    <3>2. QED BY <1>2, <3>1
  <2>6. ASSUME pc[Graphics] = "sync", executed'[Graphics] = begun[Graphics]
        PROVE  Tail(s) = <<>>
    <3>1. Head(s).op = "list" /\ Head(s).covers = begun[Graphics]
      BY <1>3, <2>2, <2>4, <2>6, QueueFacts DEF LabelTypes
    <3>2. Len(s) = 1
      BY <1>2, <2>1, <2>6, <3>1 DEF DrainInv, ListIsLast
    <3>3. QED BY <1>2, <3>2
  <2>7. ListIsLast'
    BY <1>1, <2>1, <2>5, <2>6 DEF ListIsLast
  <2>8. QED BY <1>5, <1>7, <2>3, <2>7 DEF DrainInv
<1>9. CASE q # "graphics"
  <2>1. queue'["graphics"] = queue["graphics"]
    BY <1>1, <1>9 DEF Queues
  <2>2. Head(s).thread # Graphics
    BY <1>6, <1>9, QueueFacts
  <2>3. executed'[Graphics] = executed[Graphics]
    BY <1>3, <1>6, <2>2, QueueFacts DEF LabelTypes
  <2>4. ListIsLast' /\ FrameIsDrained'
    BY <1>1, <2>1, <2>3 DEF DrainInv, ListIsLast, FrameIsDrained
  <2>5. QED BY <1>5, <1>7, <2>4 DEF DrainInv
<1>10. QED BY <1>8, <1>9

LEMMA DrainStep == LabelTypes /\ LockIsHeld /\ DrainInv /\ [Next]_vars => DrainInv'
<1> SUFFICES ASSUME LabelTypes, LockIsHeld, DrainInv, [Next]_vars PROVE DrainInv'
  OBVIOUS
<1>1. CASE \E t \in Threads : Record(t) \/ Proceed(t) \/ SynchronizeFails(t)
  BY <1>1, DrainOfRecord, DrainOfProceed, DrainOfWait
<1>2. CASE LockLabels
  BY <1>2, DrainKept DEF LockLabels, gpuVars, faultVars
<1>3. CASE \E a \in Addrs : DestroyLabel(a)
  BY <1>3, DrainKept DEF DestroyLabel, gpuVars, faultVars
<1>4. CASE UnlockLabels
  <2>1. pc'[Graphics] = "record"
    BY <1>4, QueueFacts DEF UnlockLabels, LabelTypes
  <2>2. QED BY <1>4, <2>1, DrainKept DEF UnlockLabels, gpuVars, faultVars
<1>5. CASE \E a \in Addrs : RunTask(a) \/ RunTaskFails(a)
  BY <1>5, DrainKept DEF RunTask, RunTaskFails, FinishTask, gpuVars
<1>6. CASE \E q \in Queues : GpuStep(q)
  BY <1>6, DrainOfGpu
<1>7. CASE UNCHANGED vars
  BY <1>7, DrainKept DEF vars
<1>8. QED BY <1>1, <1>2, <1>3, <1>4, <1>5, <1>6, <1>7 DEF Next, Cleanup

------------------------------------------------------------------------------
LEMMA LabelInvariant == Spec => [](LabelTypes /\ LockIsHeld /\ JoinInv /\ DrainInv)
<1> DEFINE Inv == LabelTypes /\ LockIsHeld /\ JoinInv /\ DrainInv
<1>1. Init => Inv
  BY TypesStart, LockStart, JoinStart, DrainStart
<1>2. Inv /\ [Next]_vars => Inv'
  BY TypesStep, LockStep, JoinStep, DrainStep
<1>3. QED BY <1>1, <1>2, PTL DEF Spec

\* However writes, tasks, signals and the end of a frame interleave, a task
\* whose label is gone belongs to a write that was cut off: ~GnmGpuLabel joins
\* every other (GnmGpuLabel.cpp, the future's assignment and its destructor).
THEOREM LabelTasksAreJoined == Spec => []TasksAreJoined
<1>1. JoinInv => TasksAreJoined
  BY DEF JoinInv
<1>2. QED BY <1>1, LabelInvariant, PTL

\* The labels are destroyed with the graphics queue drained, whatever the driver
\* refuses, unless the wait for the fence failed: no signal and no wait of the
\* frame is pending when cleanupFrame runs (SceGnmDriver.cpp).
THEOREM LabelFrameIsDrained == Spec => []FrameIsDrained
<1>1. DrainInv => FrameIsDrained
  BY DEF DrainInv
<1>2. QED BY <1>1, LabelInvariant, PTL

LEMMA CounterTypes ==
  ASSUME LabelTypes, counter \in [Sems -> Nat], [Next]_vars
  PROVE  counter' \in [Sems -> Nat]
<1>1. ASSUME NEW t \in Threads, Record(t) PROVE counter' \in [Sems -> Nat]
  <2>1. CASE \E a \in Addrs, kind \in Kinds, imm \in Imms : GetLabel(t, a, kind, imm)
    <3>1. \E s, n : counter' = [counter EXCEPT ![s] = n] /\ (n = 0 \/ n = counter[s])
      BY <2>1 DEF GetLabel
    <3>2. PICK s, n : counter' = [counter EXCEPT ![s] = n] /\ (n = 0 \/ n = counter[s])
      BY <3>1
    <3>3. CASE s \in Sems
      BY <3>2, <3>3
    <3>4. CASE s \notin Sems
      BY <3>2, <3>4
    <3>5. QED BY <3>3, <3>4
  <2>2. CASE RecordWork(t) \/ SubmitList(t)
    BY <2>2 DEF RecordWork, SubmitList, labelVars
  <2>3. QED BY <1>1, <2>1, <2>2 DEF Record
<1>2. ASSUME NEW t \in Threads, Proceed(t) PROVE UNCHANGED counter
  BY <1>2 DEF Proceed, Write, AssignFuture, Wait, UseDestroyed, Synchronize, labelVars
<1>3. CASE Cleanup \/ \E a \in Addrs : RunTask(a) \/ RunTaskFails(a)
  BY <1>3 DEF Cleanup, LockLabels, DestroyLabel, UnlockLabels, RunTask, RunTaskFails, FinishTask
<1>4. ASSUME NEW q \in Queues, GpuStep(q) PROVE counter' \in [Sems -> Nat]
  <2>1. queue[q] \in Seq(Items) /\ queue[q] # <<>>
    BY <1>4 DEF GpuStep, LabelTypes
  <2>2. Head(queue[q]).value \in Nat
    BY <2>1, TailFacts DEF Items
  <2>3. \/ counter' = counter
        \/ counter' = [counter EXCEPT ![Head(queue[q]).sem] = Head(queue[q]).value]
    BY <1>4 DEF GpuStep
  <2>4. QED BY <2>2, <2>3
<1>5. CASE UNCHANGED vars
  BY <1>5 DEF vars
<1>6. ASSUME NEW t \in Threads, SynchronizeFails(t) PROVE UNCHANGED counter
  BY <1>6 DEF SynchronizeFails, labelVars
<1>7. QED BY <1>1, <1>2, <1>3, <1>4, <1>5, <1>6 DEF Next

------------------------------------------------------------------------------
\* What LabelTypes leaves out: the variables the arguments above do without.
OtherTypes ==
  /\ memory \in [Addrs -> ImmOrNil]
  /\ lockedBy \in {Nil, Graphics}
  /\ cmds \in [Threads -> 0..MaxCmds] /\ worked \in [Threads -> BOOLEAN]
  /\ \A t \in Threads : begun[t] <= MaxLists
  /\ \A t \in Threads : held[t] = NoCmd \/ held[t] \in Cmd
  /\ refused \subseteq Sems /\ unwaited \subseteq Threads /\ faults \in 0..MaxFaults

LEMMA OthersStart == Init => OtherTypes
BY BoundsAssumption DEF Init, OtherTypes, ImmOrNil

\* What a submission does to the records of the driver's faults.
LEMMA SubmitFaults ==
  ASSUME OtherTypes, NEW t, NEW item, QueueSubmit(t, item),
         item.op = "signal" => item.sem \in Sems
  PROVE  refused' \subseteq Sems /\ faults' \in 0..MaxFaults
BY BoundsAssumption DEF QueueSubmit, Fail, OtherTypes

LEMMA OthersOfRecord ==
  ASSUME LabelTypes, OtherTypes, NEW t \in Threads, Record(t)
  PROVE  OtherTypes'
<1> USE BoundsAssumption
<1>1. CASE \E a \in Addrs, kind \in Kinds, imm \in Imms : GetLabel(t, a, kind, imm)
  <2> PICK a \in Addrs, kind \in Kinds, imm \in Imms : GetLabel(t, a, kind, imm)
    BY <1>1
  <2>1. PICK s \in IF labels[a] # Nil THEN {labels[a]} ELSE NewSems :
          /\ held' = [held EXCEPT ![t] = [addr |-> a, sem |-> s, kind |-> kind, imm |-> imm]]
          /\ refused' \subseteq refused
    BY DEF GetLabel
  <2>2. s \in Sems
    BY <2>1, NewSemsAre DEF LabelTypes
  <2>3. PICK cmd : cmd = [addr |-> a, sem |-> s, kind |-> kind, imm |-> imm]
    OBVIOUS
  <2>4. cmd \in Cmd /\ held' = [held EXCEPT ![t] = cmd]
    BY <2>1, <2>2, <2>3 DEF Cmd
  <2>5. \A u \in Threads : held'[u] = NoCmd \/ held'[u] \in Cmd
    BY <2>4 DEF OtherTypes, LabelTypes
  <2>6. cmds' \in [Threads -> 0..MaxCmds]
    <3>1. cmds[t] < MaxCmds /\ cmds' = [cmds EXCEPT ![t] = @ + 1]
      BY DEF GetLabel
    <3>2. QED BY <3>1 DEF OtherTypes
  <2>7. UNCHANGED <<memory, lockedBy, worked, begun, unwaited, faults>>
    BY DEF GetLabel
  <2>8. QED BY <2>1, <2>5, <2>6, <2>7 DEF OtherTypes
<1>2. CASE RecordWork(t)
  <2>1. /\ cmds[t] < MaxCmds /\ cmds' = [cmds EXCEPT ![t] = @ + 1]
        /\ worked' = [worked EXCEPT ![t] = TRUE]
        /\ UNCHANGED <<memory, lockedBy, held, begun, refused, unwaited, faults>>
    BY <1>2 DEF RecordWork, labelVars, faultVars
  <2>2. QED BY <2>1 DEF OtherTypes
<1>3. CASE SubmitList(t)
  <2>1. /\ begun[t] < MaxLists /\ begun' = [begun EXCEPT ![t] = @ + 1]
        /\ cmds' = [cmds EXCEPT ![t] = 0] /\ worked' = [worked EXCEPT ![t] = FALSE]
        /\ UNCHANGED <<memory, lockedBy, held, unwaited>>
    BY <1>3 DEF SubmitList, labelVars
  <2>2. \A u \in Threads : begun'[u] <= MaxLists
    BY <2>1 DEF OtherTypes, LabelTypes
  <2>3. PICK e : e = ListItem(t) /\ e.op = "list" /\ QueueSubmit(t, e)
    BY <1>3, ListFacts DEF SubmitList
  <2>4. refused' \subseteq Sems /\ faults' \in 0..MaxFaults
    BY <2>3, SubmitFaults DEF OtherTypes
  <2>5. QED BY <2>1, <2>2, <2>4 DEF OtherTypes
<1>4. QED BY <1>1, <1>2, <1>3 DEF Record

LEMMA OthersOfProceed ==
  ASSUME LabelTypes, OtherTypes, NEW t \in Threads, Proceed(t) \/ SynchronizeFails(t)
  PROVE  OtherTypes'
<1>1. /\ UNCHANGED <<memory, lockedBy, cmds, worked, begun>>
      /\ held' = held \/ held' = [held EXCEPT ![t] = NoCmd]
      /\ unwaited' \subseteq unwaited \cup {t}
  BY DEF Proceed, Write, AssignFuture, Wait, UseDestroyed, Synchronize, SynchronizeFails,
         labelVars, faultVars
<1>2. \A u \in Threads : held'[u] = NoCmd \/ held'[u] \in Cmd
  BY <1>1 DEF OtherTypes, LabelTypes
<1>3. refused' \subseteq Sems /\ faults' \in 0..MaxFaults
  <2>1. CASE Write(t) \/ Wait(t)
    <3>1. held[t] \in Cmd
      BY <2>1 DEF Write, Wait, LabelTypes
    <3>2. PICK op \in {"signal", "wait"} : QueueSubmit(t, SemaphoreOp(t, op))
      BY <2>1 DEF Write, Wait
    <3>3. SemaphoreOp(t, op).sem \in Sems
      BY <3>1 DEF SemaphoreOp, Cmd
    <3>4. QED BY <3>2, <3>3, SubmitFaults
  <2>2. CASE SynchronizeFails(t)
    BY <2>2, BoundsAssumption DEF SynchronizeFails, Fail, OtherTypes
  <2>3. CASE AssignFuture(t) \/ UseDestroyed(t) \/ Synchronize(t)
    BY <2>3 DEF AssignFuture, UseDestroyed, Synchronize, faultVars, OtherTypes
  <2>4. QED BY <2>1, <2>2, <2>3 DEF Proceed
<1>4. QED BY <1>1, <1>2, <1>3 DEF OtherTypes

LEMMA OthersOfTask ==
  ASSUME LabelTypes, OtherTypes, NEW a \in Addrs, RunTask(a) \/ RunTaskFails(a)
  PROVE  OtherTypes'
<1>1. PICK error \in BOOLEAN : FinishTask(a, error)
  BY DEF RunTask, RunTaskFails
<1>2. labels[a] \in Sems
  BY <1>1 DEF FinishTask, StoreTask, LabelTypes
<1>3. ASSUME NEW task \in [Sems -> ImmOrNil], StoreTask(a, task, error)
      PROVE  memory' \in [Addrs -> ImmOrNil]
  <2>1. task[labels[a]] \in ImmOrNil
    BY <1>2
  <2>2. memory' = [memory EXCEPT ![a] = task[labels[a]]]
    BY <1>3 DEF StoreTask
  <2>3. QED BY <2>1, <2>2 DEF OtherTypes
<1>4. memory' \in [Addrs -> ImmOrNil]
  BY <1>1, <1>3 DEF FinishTask, LabelTypes
<1>5. faults' \in 0..MaxFaults
  <2>1. faults' = faults \/ (faults < MaxFaults /\ faults' = faults + 1)
    BY DEF RunTask, RunTaskFails, Fail
  <2>2. QED BY <2>1, BoundsAssumption DEF OtherTypes
<1>6. QED BY <1>1, <1>4, <1>5 DEF FinishTask, OtherTypes

LEMMA OthersStep == LabelTypes /\ OtherTypes /\ [Next]_vars => OtherTypes'
<1> SUFFICES ASSUME LabelTypes, OtherTypes, [Next]_vars PROVE OtherTypes'
  OBVIOUS
<1>1. CASE \E t \in Threads : Record(t) \/ Proceed(t) \/ SynchronizeFails(t)
  BY <1>1, OthersOfRecord, OthersOfProceed
<1>2. CASE Cleanup
  BY <1>2 DEF Cleanup, LockLabels, DestroyLabel, UnlockLabels, faultVars, OtherTypes
<1>3. CASE \E a \in Addrs : RunTask(a) \/ RunTaskFails(a)
  BY <1>3, OthersOfTask
<1>4. CASE \E q \in Queues : GpuStep(q)
  BY <1>4 DEF GpuStep, faultVars, OtherTypes
<1>5. CASE UNCHANGED vars
  BY <1>5 DEF vars, OtherTypes
<1>6. QED BY <1>1, <1>2, <1>3, <1>4, <1>5 DEF Next

\* Every variable of the labels keeps its type, also when the driver fails; in
\* particular the GPU executes only lists that were begun (ListsAreNumbered).
THEOREM LabelTypesHold == Spec => []TypeOK
<1> DEFINE Counts == counter \in [Sems -> Nat]
           Inv == LabelTypes /\ LockIsHeld /\ Counts /\ DrainInv /\ OtherTypes
<1>1. Init => Inv
  BY TypesStart, LockStart, DrainStart, OthersStart DEF Init
<1>2. Inv /\ [Next]_vars => Inv'
  BY TypesStep, LockStep, CounterTypes, DrainStep, OthersStep
<1>3. Inv => TypeOK
  <2> SUFFICES ASSUME Inv PROVE TypeOK
    OBVIOUS
  <2>1. executed \in [Threads -> 0..MaxLists] /\ begun \in [Threads -> 0..MaxLists]
    BY BoundsAssumption DEF LabelTypes, OtherTypes, DrainInv, ListsAreNumbered
  <2>2. QED BY <2>1 DEF LabelTypes, OtherTypes, TypeOK, Cmd, Places
<1>4. QED BY <1>1, <1>2, <1>3, PTL DEF Spec

----------------------------------------------------------------------------
(* Numbers modulo the size of the ring.                                    *)

LEMMA Division ==
  ASSUME NEW a \in Nat
  PROVE  \E q \in Nat : a = RingSize * q + (a % RingSize)
<1>1. a = RingSize * (a \div RingSize) + (a % RingSize) /\ a \div RingSize \in Nat
  BY RingAssumption
<1> QED BY <1>1

LEMMA ModRange ==
  ASSUME NEW a \in Nat
  PROVE  a % RingSize \in 0 .. RingSize-1
  BY RingAssumption

LEMMA SameMultiple ==
  ASSUME NEW p \in Int, NEW q \in Int, RingSize * p < RingSize * q + RingSize, RingSize * q < RingSize * p + RingSize
  PROVE  p = q
<1>1. CASE p >= q + 1
  <2>1. RingSize * p >= RingSize * (q + 1)
    BY <1>1, RingAssumption
  <2> QED BY <2>1, RingAssumption
<1>2. CASE q >= p + 1
  <2>1. RingSize * q >= RingSize * (p + 1)
    BY <1>2, RingAssumption
  <2> QED BY <2>1, RingAssumption
<1> QED BY <1>1, <1>2

LEMMA ModIs ==
  ASSUME NEW a \in Nat, NEW q \in Int, NEW r \in 0 .. RingSize - 1, a = RingSize * q + r
  PROVE  a % RingSize = r
<1>1. PICK p \in Nat : a = RingSize * p + (a % RingSize)
  BY Division
<1>2. a % RingSize \in 0 .. RingSize - 1
  BY ModRange
<1>3. p = q
  <2>1. RingSize * p \in Int /\ RingSize * q \in Int
    BY RingAssumption
  <2> QED BY <1>1, <1>2, <2>1, RingAssumption, SameMultiple
<1> QED BY <1>1, <1>2, <1>3, RingAssumption

LEMMA OffsetsAre ==
  ASSUME NEW end \in Nat, NEW o \in Offsets(end)
  PROVE  o \in 0 .. RingSize /\ o % RingSize = end % RingSize /\ \E q \in Int : end = RingSize * q + o
<1>1. PICK q \in Nat : end = RingSize * q + (end % RingSize)
  BY Division
<1>2. end % RingSize \in 0 .. RingSize - 1
  BY ModRange
<1>3. CASE o = end % RingSize
  <2>1. o \in 0 .. RingSize - 1 /\ o = RingSize * 0 + o
    BY <1>2, <1>3, RingAssumption
  <2>2. o % RingSize = o
    BY <2>1, ModIs
  <2>3. end = RingSize * q + o /\ q \in Int
    BY <1>1, <1>3
  <2>4. o \in 0 .. RingSize
    BY <2>1, RingAssumption
  <2> QED BY <1>3, <2>2, <2>3, <2>4
<1>4. CASE o = RingSize /\ end % RingSize = 0
  <2>1. RingSize = RingSize * 1 + 0 /\ 0 \in 0 .. RingSize - 1
    BY RingAssumption
  <2>2. RingSize % RingSize = 0
    BY <2>1, ModIs, RingAssumption
  <2>3. end = RingSize * (q - 1) + RingSize /\ q - 1 \in Int
    BY <1>1, <1>4, RingAssumption
  <2>4. o \in 0 .. RingSize
    BY <1>4, RingAssumption
  <2> QED BY <1>4, <2>2, <2>3, <2>4
<1> QED BY <1>2, <1>3, <1>4 DEF Offsets

LEMMA OffsetGap ==
  ASSUME NEW start \in Nat, NEW end \in Nat, start < end, end - start < RingSize,
         NEW c \in Offsets(start), NEW o \in Offsets(end)
  PROVE  /\ o > c => end - start = o - c
         /\ o <= c => end - start = RingSize - c + o
<1>1. PICK p \in Int : start = RingSize * p + c
  BY OffsetsAre
<1>2. PICK q \in Int : end = RingSize * q + o
  BY OffsetsAre
<1>3. c \in 0 .. RingSize /\ o \in 0 .. RingSize /\ RingSize * p \in Int /\ RingSize * q \in Int /\ RingSize * (p + 1) = RingSize * p + RingSize
  BY RingAssumption, OffsetsAre
<1>4. ASSUME o > c PROVE end - start = o - c
  <2>1. p = q
    BY <1>1, <1>2, <1>3, <1>4, RingAssumption, SameMultiple
  <2> QED BY <1>1, <1>2, <1>3, <2>1
<1>5. ASSUME o <= c PROVE end - start = RingSize - c + o
  <2>1. p + 1 = q
    <3>1. RingSize * (p + 1) < RingSize * q + RingSize /\ RingSize * q < RingSize * (p + 1) + RingSize
      BY <1>1, <1>2, <1>3, <1>5, RingAssumption
    <3> QED BY <3>1, RingAssumption, SameMultiple
  <2>2. RingSize * (p + 1) = RingSize * q
    BY <2>1
  <2> QED BY <1>1, <1>2, <1>3, <2>2, RingAssumption
<1> QED BY <1>4, <1>5

LEMMA PlaceAfter ==
  ASSUME NEW start \in Nat, NEW c \in Offsets(start), NEW j \in Nat
  PROVE  /\ c + j < RingSize => (start + j) % RingSize = c + j
         /\ c + j >= RingSize /\ c + j < 2 * RingSize => (start + j) % RingSize = c + j - RingSize
<1>1. PICK p \in Int : start = RingSize * p + c
  BY OffsetsAre
<1>2. c \in 0 .. RingSize /\ RingSize * (p + 1) = RingSize * p + RingSize /\ RingSize * p \in Int
  BY RingAssumption, OffsetsAre
<1>3. ASSUME c + j < RingSize PROVE (start + j) % RingSize = c + j
  <2>1. start + j = RingSize * p + (c + j) /\ c + j \in 0 .. RingSize - 1
    BY <1>1, <1>2, <1>3, RingAssumption
  <2> QED BY <2>1, ModIs
<1>4. ASSUME c + j >= RingSize, c + j < 2 * RingSize PROVE (start + j) % RingSize = c + j - RingSize
  <2>1. start + j = RingSize * (p + 1) + (c + j - RingSize) /\ c + j - RingSize \in 0 .. RingSize - 1
    BY <1>1, <1>2, <1>4, RingAssumption
  <2> QED BY <2>1, ModIs
<1> QED BY <1>3, <1>4

LEMMA PlacesDiffer ==
  ASSUME NEW a \in Nat, NEW b \in Nat, a < b, b - a < RingSize
  PROVE  a % RingSize # b % RingSize
<1> SUFFICES ASSUME a % RingSize = b % RingSize PROVE FALSE
  OBVIOUS
<1>1. PICK p \in Nat : a = RingSize * p + (a % RingSize)
  BY Division
<1>2. PICK q \in Nat : b = RingSize * q + (b % RingSize)
  BY Division
<1>3. a % RingSize \in 0 .. RingSize - 1 /\ RingSize * p \in Int /\ RingSize * q \in Int
  BY RingAssumption, ModRange
<1>4. p = q
  BY <1>1, <1>2, <1>3, RingAssumption, SameMultiple
<1> QED BY <1>1, <1>2, <1>3, <1>4

LEMMA OutstandingIs ==
  ASSUME NEW base \in Nat, NEW end \in Nat, base <= end, end - base < RingSize,
         NEW r \in Offsets(base)
  PROVE  (end + RingSize - (r % RingSize)) % RingSize = end - base
<1>1. PICK q \in Nat : base = RingSize * q + (base % RingSize)
  BY Division
<1>2. base % RingSize \in 0 .. RingSize - 1 /\ RingSize * q \in Nat /\ RingSize * (q + 1) = RingSize * q + RingSize
  BY RingAssumption, ModRange
<1>3. r % RingSize = base % RingSize
  BY OffsetsAre
<1>4. /\ end + RingSize - (r % RingSize) = RingSize * (q + 1) + (end - base)
      /\ end + RingSize - (r % RingSize) \in Nat /\ end - base \in 0 .. RingSize - 1
  BY <1>1, <1>2, <1>3, RingAssumption
<1> QED BY <1>4, ModIs

----------------------------------------------------------------------------
(* The inductive invariant.  *)

Taken == Len(submitted)

\* The ends of the batches still waiting, counted in packets: the first is
\* the end of the batch being recorded, or of the last one taken.
EndsAre(ends) ==
  /\ Len(ends) = Len(dings) + 1
  /\ ends[Len(ends)] = put
  /\ \A i \in 1 .. Len(ends) : \A j \in 1 .. Len(ends) : i < j => ends[i] < ends[j]
  /\ \A i \in 1 .. Len(dings) : dings[i] \in Offsets(ends[i + 1])

\* base counts the packets whose room has been given back.
ReadPointerIs(base) ==
  /\ base <= Taken /\ Taken <= put /\ put < base + RingSize
  /\ readPtr \in Offsets(base)
  /\ step # "publish" => base = Taken /\ ringCmd \in Offsets(base)

\* What is written and not yet submitted lies in the ring; among the packets
\* that wait, those that begin a batch set the default state.
RingHolds(ends) ==
  /\ \A n \in Taken + 1 .. put : ring[(n - 1) % RingSize].n = n
  /\ \A n \in ends[1] + 1 .. put :
       ring[(n - 1) % RingSize].init <=> \E i \in 1 .. Len(dings) : n - 1 = ends[i]

ListIs(length) ==
  /\ Len(list) = length
  /\ \A i \in 1 .. Len(list) : list[i].n = Taken + i

StepIs(ends) ==
  \/ /\ step = "idle"
     /\ ends[1] = Taken /\ list = <<>>
  \/ /\ step = "wrapped"
     /\ Taken < ends[1] /\ ListIs(RingSize - ringCmd)
     /\ nextCmd \in Offsets(ends[1]) /\ nextCmd <= ringCmd
     /\ \A n \in Taken + 1 .. ends[1] :
          ring[(n - 1) % RingSize].init <=> n = Taken + 1
  \/ /\ step = "submit"
     /\ Taken < ends[1] /\ ListIs(ends[1] - Taken)
     /\ nextCmd \in Offsets(ends[1])
  \/ /\ step = "publish"
     /\ ends[1] = Taken /\ list = <<>>
     /\ nextCmd \in Offsets(Taken)

QueueIs(base, ends) ==
  EndsAre(ends) /\ ReadPointerIs(base) /\ RingHolds(ends) /\ StepIs(ends)

RingInv ==
  /\ RingTypeOK
  /\ ExecutedInOrder
  /\ \E base \in Nat, ends \in Seq(Nat) : QueueIs(base, ends)

LEMMA RingInitInv == RingInit => RingInv
<1> SUFFICES ASSUME RingInit PROVE RingInv
  OBVIOUS
<1> USE RingAssumption DEF RingInit
<1>1. RingTypeOK
  BY DEF RingTypeOK, Packets
<1>2. ExecutedInOrder
  BY DEF ExecutedInOrder
<1>3. 0 \in Offsets(0)
  BY ModRange DEF Offsets
<1>4. QueueIs(0, <<0>>)
  BY <1>3 DEF QueueIs, EndsAre, ReadPointerIs, RingHolds, StepIs, Taken
<1>5. 0 \in Nat /\ <<0>> \in Seq(Nat)
  OBVIOUS
<1> QED BY <1>1, <1>2, <1>4, <1>5 DEF RingInv

(* What the game writes goes where i - 1 packets more would, and nowhere     *)
(* else.                                                                     *)
LEMMA RingWithIs ==
  ASSUME RingTypeOK, NEW size \in 1 .. RingSize - 1
  PROVE  /\ DOMAIN RingWith(size) = 0 .. RingSize - 1
         /\ \A i \in 1 .. size :
              RingWith(size)[(put + i - 1) % RingSize] = [n |-> put + i, init |-> i = 1]
         /\ \A d \in 0 .. RingSize - 1 :
              (\A i \in 1 .. size : d # (put + i - 1) % RingSize) => RingWith(size)[d] = ring[d]
<1> DEFINE place(i) == (put + i - 1) % RingSize
<1>1. put \in Nat /\ DOMAIN ring = 0 .. RingSize - 1
  BY DEF RingTypeOK
<1>2. ASSUME NEW i \in 1 .. size PROVE RingWith(size)[place(i)] = [n |-> put + i, init |-> i = 1]
  <2>1. place(i) \in 0 .. RingSize - 1
    <3>1. put + i - 1 \in Nat
      BY <1>1
    <3> QED BY <3>1, ModRange
  <2>2. ASSUME NEW j \in 1 .. size, place(i) = place(j) PROVE i = j
    <3>1. put + i - 1 \in Nat /\ put + j - 1 \in Nat
      BY <1>1
    <3>2. CASE i < j
      <4>1. put + i - 1 < put + j - 1 /\ (put + j - 1) - (put + i - 1) < RingSize
        BY <1>1, <3>2, RingAssumption
      <4> QED BY <2>2, <3>1, <4>1, PlacesDiffer
    <3>3. CASE j < i
      <4>1. put + j - 1 < put + i - 1 /\ (put + i - 1) - (put + j - 1) < RingSize
        BY <1>1, <3>3, RingAssumption
      <4> QED BY <2>2, <3>1, <4>1, PlacesDiffer
    <3> QED BY <3>2, <3>3
  <2>3. i = CHOOSE j \in 1 .. size : place(i) = place(j)
    BY <2>2
  <2> QED BY <1>1, <2>1, <2>3 DEF RingWith
<1>3. ASSUME NEW d \in 0 .. RingSize - 1, \A i \in 1 .. size : d # place(i)
      PROVE  RingWith(size)[d] = ring[d]
  BY <1>1, <1>3 DEF RingWith
<1>4. DOMAIN RingWith(size) = 0 .. RingSize - 1
  BY <1>1 DEF RingWith
<1> QED BY <1>2, <1>3, <1>4

LEMMA PutBatchInv ==
  ASSUME RingInv, NEW size \in BatchSizes, PutBatch(size)
  PROVE  RingInv'
<1>1. size \in 1 .. RingSize - 1 /\ RingSize \in Nat
  BY RingAssumption
<1>2. PICK base \in Nat, ends \in Seq(Nat) : QueueIs(base, ends)
  BY DEF RingInv
<1>3. RingTypeOK /\ ExecutedInOrder
  BY DEF RingInv
<1>4. put \in Nat /\ Taken \in Nat /\ base <= Taken /\ Taken <= put
  BY <1>2, <1>3 DEF RingTypeOK, QueueIs, ReadPointerIs, Taken
<1>5. put + size < base + RingSize
  <2>1. Outstanding = put - base
    <3>1. readPtr \in Offsets(base) /\ base <= put /\ put - base < RingSize
      BY <1>1, <1>2, <1>4 DEF QueueIs, ReadPointerIs
    <3> QED BY <1>4, <3>1, OutstandingIs DEF Outstanding
  <2> QED BY <1>1, <1>4, <2>1 DEF PutBatch
<1>6. PICK offset \in Offsets(put + size) : dings' = Append(dings, offset)
  BY DEF PutBatch
<1>7. offset \in 0 .. RingSize
  BY <1>1, <1>4, OffsetsAre
<1>8. PICK e \in Seq(Nat) : e = Append(ends, put + size)
  <2>1. Append(ends, put + size) \in Seq(Nat)
    BY <1>1, <1>4
  <2> QED BY <2>1
<1>9. RingTypeOK'
  <2>1. \A d \in 0 .. RingSize - 1 : RingWith(size)[d] \in Packets
    <3> SUFFICES ASSUME NEW d \in 0 .. RingSize - 1 PROVE RingWith(size)[d] \in Packets
      OBVIOUS
    <3>1. CASE \E i \in 1 .. size : d = (put + i - 1) % RingSize
      <4>1. PICK i \in 1 .. size : d = (put + i - 1) % RingSize
        BY <3>1
      <4>2. put + i \in 0 .. MaxPackets
        BY <1>1, <1>4, RingAssumption DEF PutBatch
      <4>3. RingWith(size)[(put + i - 1) % RingSize] = [n |-> put + i, init |-> i = 1]
        BY <1>1, <1>3, RingWithIs
      <4>4. RingWith(size)[d] = [n |-> put + i, init |-> i = 1]
        BY <4>1, <4>3
      <4>5. (i = 1) \in BOOLEAN
        OBVIOUS
      <4> QED BY <4>2, <4>4, <4>5 DEF Packets
    <3>2. CASE ~ \E i \in 1 .. size : d = (put + i - 1) % RingSize
      <4>1. RingWith(size)[d] = ring[d]
        BY <1>1, <1>3, <3>2, RingWithIs
      <4> QED BY <1>3, <4>1 DEF RingTypeOK
    <3> QED BY <3>1, <3>2
  <2>2. ring' \in [0 .. RingSize - 1 -> Packets]
    BY <1>3, <2>1 DEF PutBatch, RingWith, RingTypeOK
  <2>3. put' \in 0 .. MaxPackets
    BY <1>1, <1>4, RingAssumption DEF PutBatch
  <2>4. dings' \in Seq(0 .. RingSize) /\ Len(dings') <= MaxDings
    BY <1>3, <1>6, <1>7, RingAssumption DEF PutBatch, RingTypeOK
  <2> QED BY <1>3, <2>2, <2>3, <2>4 DEF PutBatch, RingTypeOK
<1>10. ExecutedInOrder'
  BY <1>3 DEF PutBatch, ExecutedInOrder
<1>11. EndsAre(ends)
  BY <1>2 DEF QueueIs
<1>12. /\ Len(dings) \in Nat /\ dings \in Seq(0 .. RingSize)
       /\ Len(ends) = Len(dings) + 1 /\ Len(e) = Len(ends) + 1 /\ e[Len(e)] = put + size
       /\ \A i \in 1 .. Len(ends) : e[i] = ends[i] /\ ends[i] \in Nat /\ ends[i] <= put
  <2>1. dings \in Seq(0 .. RingSize) /\ Len(dings) \in Nat
    BY <1>3 DEF RingTypeOK
  <2>2. /\ Len(ends) = Len(dings) + 1 /\ Len(e) = Len(ends) + 1 /\ e[Len(e)] = put + size
        /\ \A i \in 1 .. Len(ends) : e[i] = ends[i] /\ ends[i] \in Nat
    BY <1>8, <1>11, <2>1 DEF EndsAre
  <2>3. \A i \in 1 .. Len(ends) : ends[i] <= put
    <3> SUFFICES ASSUME NEW i \in 1 .. Len(ends) PROVE ends[i] <= put
      OBVIOUS
    <3>1. ends[Len(ends)] = put /\ Len(ends) \in 1 .. Len(ends)
      BY <1>11, <2>1, <2>2 DEF EndsAre
    <3>2. i < Len(ends) => ends[i] < put
      BY <1>11, <3>1 DEF EndsAre
    <3> QED BY <1>4, <2>1, <2>2, <3>1, <3>2
  <2> QED BY <2>1, <2>2, <2>3
<1>13. EndsAre(e)'
  <2>1. Len(dings') = Len(dings) + 1 /\ put' = put + size
    BY <1>6, <1>12 DEF PutBatch
  <2>2. \A i \in 1 .. Len(e) : \A j \in 1 .. Len(e) : i < j => e[i] < e[j]
    <3> SUFFICES ASSUME NEW i \in 1 .. Len(e), NEW j \in 1 .. Len(e), i < j PROVE e[i] < e[j]
      OBVIOUS
    <3>1. i \in 1 .. Len(ends)
      BY <1>12
    <3>2. CASE j = Len(e)
      <4>1. e[i] <= put /\ e[i] \in Nat /\ e[j] = put + size
        BY <1>12, <3>1, <3>2
      <4> QED BY <1>1, <1>4, <4>1
    <3>3. CASE j # Len(e)
      <4>1. j \in 1 .. Len(ends)
        BY <1>12, <3>3
      <4>2. ends[i] < ends[j]
        BY <1>11, <3>1, <4>1 DEF EndsAre
      <4> QED BY <1>12, <3>1, <4>1, <4>2
    <3> QED BY <3>2, <3>3
  <2>3. \A i \in 1 .. Len(dings') : dings'[i] \in Offsets(e[i + 1])
    <3> SUFFICES ASSUME NEW i \in 1 .. Len(dings) + 1 PROVE dings'[i] \in Offsets(e[i + 1])
      BY <2>1
    <3>1. CASE i = Len(dings) + 1
      BY <1>6, <1>7, <1>12, <3>1
    <3>2. CASE i # Len(dings) + 1
      <4>1. dings'[i] = dings[i] /\ e[i + 1] = ends[i + 1] /\ i \in 1 .. Len(dings)
        BY <1>6, <1>7, <1>12, <3>2
      <4> QED BY <1>11, <4>1 DEF EndsAre
    <3> QED BY <3>1, <3>2
  <2> QED BY <1>12, <2>1, <2>2, <2>3 DEF EndsAre, Offsets
<1>14. ReadPointerIs(base)'
  BY <1>1, <1>2, <1>4, <1>5 DEF QueueIs, ReadPointerIs, PutBatch, Taken, Offsets
<1>15. \A k \in Taken + 1 .. put : ring'[(k - 1) % RingSize] = ring[(k - 1) % RingSize]
  <2> SUFFICES ASSUME NEW k \in Taken + 1 .. put
               PROVE  ring'[(k - 1) % RingSize] = ring[(k - 1) % RingSize]
    OBVIOUS
  <2>1. k - 1 \in Nat
    BY <1>4
  <2>2. (k - 1) % RingSize \in 0 .. RingSize - 1
    BY <2>1, ModRange
  <2>3. ASSUME NEW i \in 1 .. size PROVE (k - 1) % RingSize # (put + i - 1) % RingSize
    <3>1. put + i - 1 \in Nat /\ k - 1 < put + i - 1 /\ (put + i - 1) - (k - 1) < RingSize
      BY <1>1, <1>4, <1>5
    <3> QED BY <2>1, <3>1, PlacesDiffer
  <2> QED BY <1>1, <1>3, <2>2, <2>3, RingWithIs DEF PutBatch
<1>16. \A k \in put + 1 .. put + size :
         ring'[(k - 1) % RingSize] = [n |-> k, init |-> k = put + 1]
  <2> SUFFICES ASSUME NEW k \in put + 1 .. put + size
               PROVE  ring'[(k - 1) % RingSize] = [n |-> k, init |-> k = put + 1]
    OBVIOUS
  <2>1. PICK i \in 1 .. size : k = put + i
    <3>1. k - put \in 1 .. size /\ k = put + (k - put)
      BY <1>1, <1>4
    <3> QED BY <3>1
  <2>2. ring'[(put + i - 1) % RingSize] = [n |-> put + i, init |-> i = 1]
    BY <1>1, <1>3, RingWithIs DEF PutBatch
  <2>3. (i = 1) = (k = put + 1)
    BY <1>1, <1>4, <2>1
  <2> QED BY <1>1, <1>4, <2>1, <2>2, <2>3
<1>17. RingHolds(e)'
  <2>1. ASSUME NEW k \in Taken + 1 .. put + size PROVE ring'[(k - 1) % RingSize].n = k
    <3>1. CASE k <= put
      <4>1. k \in Taken + 1 .. put
        BY <1>1, <1>4, <3>1
      <4> QED BY <1>2, <1>15, <4>1 DEF QueueIs, RingHolds
    <3>2. CASE k > put
      <4>1. k \in put + 1 .. put + size
        BY <1>1, <1>4, <3>2
      <4>2. ring'[(k - 1) % RingSize] = [n |-> k, init |-> k = put + 1]
        BY <1>16, <4>1
      <4> QED BY <4>2
    <3> QED BY <1>1, <1>4, <3>1, <3>2
  <2>2. ASSUME NEW k \in e[1] + 1 .. put + size
        PROVE  ring'[(k - 1) % RingSize].init <=> \E i \in 1 .. Len(dings) + 1 : k - 1 = e[i]
    <3>1. e[1] = ends[1] /\ Taken <= ends[1] /\ ends[1] \in Nat
      BY <1>2, <1>12, <1>4 DEF QueueIs, StepIs
    <3>2. CASE k <= put
      <4>1. k \in Taken + 1 .. put /\ k \in ends[1] + 1 .. put
        BY <1>1, <1>4, <3>1, <3>2
      <4>2. (\E i \in 1 .. Len(dings) : k - 1 = ends[i])
              <=> \E i \in 1 .. Len(dings) + 1 : k - 1 = e[i]
        <5>1. e[Len(dings) + 1] = put /\ k - 1 # put
          BY <1>4, <1>11, <1>12, <3>2, <4>1 DEF EndsAre
        <5>2. ASSUME NEW i \in 1 .. Len(dings), k - 1 = ends[i]
              PROVE  \E j \in 1 .. Len(dings) + 1 : k - 1 = e[j]
          <6>1. i \in 1 .. Len(dings) + 1 /\ k - 1 = e[i]
            BY <1>12, <5>2
          <6> QED BY <6>1
        <5>3. ASSUME NEW i \in 1 .. Len(dings) + 1, k - 1 = e[i]
              PROVE  \E j \in 1 .. Len(dings) : k - 1 = ends[j]
          <6>1. i # Len(dings) + 1
            BY <5>1, <5>3
          <6>2. i \in 1 .. Len(dings) /\ k - 1 = ends[i]
            BY <1>12, <5>3, <6>1
          <6> QED BY <6>2
        <5> QED BY <5>2, <5>3
      <4> QED BY <1>2, <1>15, <4>1, <4>2 DEF QueueIs, RingHolds
    <3>3. CASE k > put
      <4>1. k \in put + 1 .. put + size
        BY <1>1, <1>4, <3>1, <3>3
      <4>2. ring'[(k - 1) % RingSize].init <=> k = put + 1
        <5>1. ring'[(k - 1) % RingSize] = [n |-> k, init |-> k = put + 1]
          BY <1>16, <4>1
        <5>2. [n |-> k, init |-> k = put + 1].init = (k = put + 1)
          OBVIOUS
        <5> QED BY <5>1, <5>2
      <4>3. k = put + 1 => k - 1 = e[Len(dings) + 1]
        BY <1>4, <1>11, <1>12 DEF EndsAre
      <4>4. ASSUME NEW i \in 1 .. Len(dings) + 1, k - 1 = e[i] PROVE k = put + 1
        BY <1>4, <1>12, <4>1, <4>4
      <4>5. Len(dings) + 1 \in 1 .. Len(dings) + 1
        BY <1>12
      <4> QED BY <4>2, <4>3, <4>4, <4>5
    <3> QED BY <1>1, <1>4, <3>1, <3>2, <3>3
  <2>3. Len(dings') = Len(dings) + 1 /\ put' = put + size /\ Taken' = Taken
    BY <1>6, <1>12 DEF PutBatch, Taken
  <2> QED BY <2>1, <2>2, <2>3 DEF RingHolds
<1>18. StepIs(e)'
  <2>1. e[1] = ends[1] /\ ends[1] <= put /\ ends[1] \in Nat
    BY <1>12
  <2>2. \A k \in Taken + 1 .. ends[1] : ring'[(k - 1) % RingSize] = ring[(k - 1) % RingSize]
    BY <1>4, <1>15, <2>1
  <2>3. UNCHANGED <<step, list, submitted, nextCmd, ringCmd>>
    BY DEF PutBatch
  <2>4. StepIs(ends)
    BY <1>2 DEF QueueIs
  <2> QED BY <2>1, <2>2, <2>3, <2>4 DEF StepIs, ListIs, Taken, Offsets
<1>19. QueueIs(base, e)'
  BY <1>13, <1>14, <1>17, <1>18 DEF QueueIs
<1> QED BY <1>9, <1>10, <1>19 DEF RingInv

------------------------------------------------------------------------------
(* Recording.  *)

LEMMA ListWithIs ==
  ASSUME list \in Seq(Packets), Taken \in Nat, ListIs(Len(list)),
         NEW packets \in Seq(Packets),
         \A i \in 1 .. Len(packets) :
           /\ packets[i].n = Taken + Len(list) + i
           /\ packets[i].init <=> Len(list) = 0 /\ i = 1
  PROVE  /\ ListWith(packets) \in Seq(Packets)
         /\ Len(ListWith(packets)) = Len(list) + Len(packets)
         /\ \A i \in 1 .. Len(list) + Len(packets) : ListWith(packets)[i].n = Taken + i
<1>1. Len(list) \in Nat /\ Len(packets) \in Nat /\ DOMAIN packets = 1 .. Len(packets)
  OBVIOUS
<1>2. CASE Begins(packets) = {}
  <2>1. ListWith(packets) = list \o packets
    BY <1>2 DEF ListWith
  <2>2. list \o packets \in Seq(Packets) /\ Len(list \o packets) = Len(list) + Len(packets)
    OBVIOUS
  <2>3. ASSUME NEW i \in 1 .. Len(list) + Len(packets) PROVE (list \o packets)[i].n = Taken + i
    <3>1. CASE i <= Len(list)
      <4>1. (list \o packets)[i] = list[i] /\ i \in 1 .. Len(list)
        BY <1>1, <3>1
      <4> QED BY <4>1 DEF ListIs
    <3>2. CASE i > Len(list)
      <4>1. (list \o packets)[i] = packets[i - Len(list)] /\ i - Len(list) \in 1 .. Len(packets)
        BY <1>1, <3>2
      <4>2. packets[i - Len(list)].n = Taken + Len(list) + (i - Len(list))
        BY <4>1
      <4> QED BY <1>1, <4>1, <4>2
    <3> QED BY <1>1, <3>1, <3>2
  <2> QED BY <2>1, <2>2, <2>3
<1>3. CASE Begins(packets) # {}
  <2>1. Len(list) = 0 /\ Begins(packets) = {1} /\ 1 <= Len(packets)
    BY <1>1, <1>3 DEF Begins
  <2>2. Max({1}) = 1
    BY DEF Max
  <2>3. ListWith(packets) = SubSeq(packets, 1, Len(packets))
    BY <1>3, <2>1, <2>2 DEF ListWith
  <2>4. SubSeq(packets, 1, Len(packets)) = packets
    BY <1>1, <2>1
  <2> QED BY <1>1, <2>1, <2>3, <2>4
<1> QED BY <1>2, <1>3

(* A stretch of the ring that follows what the list holds goes on with it.    *)
LEMMA ListWithStretch ==
  ASSUME RingTypeOK, NEW first \in 0 .. RingSize, NEW last \in 0 .. RingSize, first <= last,
         ListIs(Len(list)),
         \A i \in 1 .. last - first :
           /\ ring[first + i - 1].n = Taken + Len(list) + i
           /\ ring[first + i - 1].init <=> Len(list) = 0 /\ i = 1
  PROVE  /\ ListWith(PacketsIn(first, last)) \in Seq(Packets)
         /\ Len(ListWith(PacketsIn(first, last))) = Len(list) + (last - first)
         /\ \A i \in 1 .. Len(list) + (last - first) :
              ListWith(PacketsIn(first, last))[i].n = Taken + i
<1> DEFINE packets == PacketsIn(first, last)
<1>1. list \in Seq(Packets) /\ Taken \in Nat /\ last - first \in Nat /\ RingSize \in Nat
  BY RingAssumption DEF RingTypeOK, Taken
<1>2. \A i \in 1 .. last - first : ring[first + i - 1] \in Packets
  <2> SUFFICES ASSUME NEW i \in 1 .. last - first PROVE ring[first + i - 1] \in Packets
    OBVIOUS
  <2>1. first + i - 1 \in 0 .. RingSize - 1
    BY <1>1
  <2> QED BY <2>1 DEF RingTypeOK
<1>3. packets \in Seq(Packets) /\ Len(packets) = last - first
  BY <1>1, <1>2 DEF PacketsIn
<1>4. \A i \in 1 .. last - first : packets[i] = ring[first + i - 1]
  BY DEF PacketsIn
<1> HIDE DEF packets
<1>5. \A i \in 1 .. Len(packets) :
        /\ packets[i].n = Taken + Len(list) + i
        /\ packets[i].init <=> Len(list) = 0 /\ i = 1
  BY <1>3, <1>4
<1>6. /\ ListWith(packets) \in Seq(Packets)
      /\ Len(ListWith(packets)) = Len(list) + Len(packets)
      /\ \A i \in 1 .. Len(list) + Len(packets) : ListWith(packets)[i].n = Taken + i
  BY <1>1, <1>3, <1>5, ListWithIs
<1> QED BY <1>3, <1>6 DEF packets

LEMMA DingDongInv ==
  ASSUME RingInv, DingDong
  PROVE  RingInv'
<1>1. PICK base \in Nat, ends \in Seq(Nat) : QueueIs(base, ends)
  BY DEF RingInv
<1>2. RingTypeOK /\ ExecutedInOrder /\ RingSize \in Nat
  BY RingAssumption DEF RingInv
<1>3. /\ dings \in Seq(0 .. RingSize) /\ dings # <<>> /\ Len(dings) \in Nat \ {0}
      /\ Head(dings) = dings[1] /\ Tail(dings) \in Seq(0 .. RingSize)
      /\ Len(Tail(dings)) = Len(dings) - 1
      /\ \A i \in 1 .. Len(dings) - 1 : Tail(dings)[i] = dings[i + 1]
  BY <1>2 DEF RingTypeOK, DingDong
<1>4. step = "idle" /\ list = <<>> /\ ends[1] = Taken
  BY <1>1 DEF QueueIs, StepIs, DingDong
<1>5. /\ put \in Nat /\ Taken \in Nat /\ base = Taken /\ Taken <= put /\ put < Taken + RingSize
      /\ ringCmd \in 0 .. RingSize /\ ringCmd \in Offsets(Taken)
  BY <1>1, <1>2, <1>4 DEF RingTypeOK, QueueIs, ReadPointerIs, Taken
<1>6. /\ Len(ends) = Len(dings) + 1 /\ ends[Len(ends)] = put
      /\ \A i \in 1 .. Len(ends) : ends[i] \in Nat
      /\ \A i \in 1 .. Len(ends) : \A j \in 1 .. Len(ends) : i < j => ends[i] < ends[j]
      /\ \A i \in 1 .. Len(dings) : dings[i] \in Offsets(ends[i + 1])
  BY <1>1, <1>3 DEF QueueIs, EndsAre
<1>7. PICK o \in 0 .. RingSize : o = Head(dings)
  <2>1. 1 \in 1 .. Len(dings)
    BY <1>3
  <2>2. dings[1] \in 0 .. RingSize
    BY <1>3, <2>1, ElementOfSeq
  <2> QED BY <1>3, <2>2
<1>8. PICK end \in Nat : end = ends[2]
  <2>1. 2 \in 1 .. Len(ends)
    BY <1>3, <1>6
  <2> QED BY <1>6, <2>1
<1>9. Taken < end /\ end <= put /\ end - Taken < RingSize /\ o \in Offsets(end)
  <2>1. 1 \in 1 .. Len(ends) /\ 2 \in 1 .. Len(ends) /\ Len(ends) \in 1 .. Len(ends)
        /\ 1 \in 1 .. Len(dings)
    BY <1>3, <1>6
  <2>2. Taken < end
    BY <1>4, <1>6, <1>8, <2>1
  <2>3. end <= put
    <3>1. PICK m \in 1 .. Len(ends) : m = Len(ends) /\ ends[m] = put /\ m >= 2
      BY <1>3, <1>6, <2>1
    <3>2. CASE m = 2
      BY <1>5, <1>8, <3>1, <3>2
    <3>3. CASE 2 < m
      <4>1. ends[2] < ends[m]
        BY <1>6, <2>1, <3>3
      <4> QED BY <1>5, <1>8, <3>1, <4>1
    <3> QED BY <3>1, <3>2, <3>3
  <2>4. o \in Offsets(end)
    BY <1>3, <1>6, <1>7, <1>8, <2>1
  <2> QED BY <1>2, <1>5, <2>2, <2>3, <2>4
<1>10. PICK e \in Seq(Nat) : e = Tail(ends)
  <2>1. ends # <<>>
    BY <1>3, <1>6
  <2>2. Tail(ends) \in Seq(Nat)
    BY <2>1
  <2> QED BY <2>2
<1>11. /\ Len(e) = Len(dings)
       /\ \A i \in 1 .. Len(dings) : e[i] = ends[i + 1]
  <2>1. ends # <<>> /\ Len(ends) = Len(dings) + 1
    BY <1>3, <1>6
  <2> QED BY <1>3, <1>10, <2>1
<1>12. \A k \in Taken + 1 .. end :
         /\ ring[(k - 1) % RingSize].n = k
         /\ ring[(k - 1) % RingSize].init <=> k = Taken + 1
  <2> SUFFICES ASSUME NEW k \in Taken + 1 .. end
               PROVE  /\ ring[(k - 1) % RingSize].n = k
                      /\ ring[(k - 1) % RingSize].init <=> k = Taken + 1
    OBVIOUS
  <2>1. k \in Taken + 1 .. put /\ k \in ends[1] + 1 .. put
    BY <1>4, <1>5, <1>9
  <2>2. /\ ring[(k - 1) % RingSize].n = k
        /\ ring[(k - 1) % RingSize].init <=> \E i \in 1 .. Len(dings) : k - 1 = ends[i]
    BY <1>1, <2>1 DEF QueueIs, RingHolds
  <2>3. ASSUME NEW i \in 1 .. Len(dings), k - 1 = ends[i] PROVE k = Taken + 1
    <3>1. i = 1
      <4>1. CASE i = 2
        BY <1>5, <1>8, <1>9, <2>3, <4>1
      <4>2. CASE i > 2
        <5>1. i \in 1 .. Len(ends) /\ 2 \in 1 .. Len(ends)
          BY <1>3, <1>6
        <5>2. end < ends[i] /\ ends[i] \in Nat
          BY <1>6, <1>8, <4>2, <5>1
        <5> QED BY <1>5, <2>3, <5>2
      <4> QED BY <1>3, <4>1, <4>2
    <3> QED BY <1>4, <1>5, <2>3, <3>1
  <2>4. k = Taken + 1 => k - 1 = ends[1] /\ 1 \in 1 .. Len(dings)
    BY <1>3, <1>4, <1>5
  <2> QED BY <2>2, <2>3, <2>4
<1>13. PICK more \in Seq(Packets), length \in Nat :
         /\ list' = more /\ Len(more) = length
         /\ \A i \in 1 .. length : more[i].n = Taken + i
         /\ \/ step' = "submit" /\ length = end - Taken
            \/ step' = "wrapped" /\ length = RingSize - ringCmd /\ o <= ringCmd
         /\ length < RingSize
  <2>1. Len(list) = 0 /\ ListIs(Len(list))
    BY <1>4 DEF ListIs
  <2>2. ASSUME NEW last \in 0 .. RingSize, ringCmd <= last, last - ringCmd <= end - Taken
        PROVE  /\ ListWith(PacketsIn(ringCmd, last)) \in Seq(Packets)
               /\ Len(ListWith(PacketsIn(ringCmd, last))) = last - ringCmd
               /\ \A i \in 1 .. last - ringCmd :
                    ListWith(PacketsIn(ringCmd, last))[i].n = Taken + i
    <3>1. ASSUME NEW i \in 1 .. last - ringCmd
          PROVE  /\ ring[ringCmd + i - 1].n = Taken + Len(list) + i
                 /\ ring[ringCmd + i - 1].init <=> Len(list) = 0 /\ i = 1
      <4>1. i - 1 \in Nat /\ ringCmd + (i - 1) < RingSize /\ Taken + i \in Taken + 1 .. end
        BY <1>2, <1>5, <2>2
      <4>2. (Taken + (i - 1)) % RingSize = ringCmd + (i - 1)
        BY <1>5, <4>1, PlaceAfter
      <4>3. Taken + i - 1 = Taken + (i - 1) /\ ringCmd + i - 1 = ringCmd + (i - 1)
        BY <1>5
      <4>4. /\ ring[(Taken + i - 1) % RingSize].n = Taken + i
            /\ ring[(Taken + i - 1) % RingSize].init <=> Taken + i = Taken + 1
        <5>1. PICK k \in Taken + 1 .. end : k = Taken + i
          BY <4>1
        <5>2. /\ ring[(k - 1) % RingSize].n = k
              /\ ring[(k - 1) % RingSize].init <=> k = Taken + 1
          BY <1>12
        <5>3. (k - 1) % RingSize = (Taken + i - 1) % RingSize
          BY <1>5, <5>1, RingAssumption
        <5>4. /\ ring[(Taken + i - 1) % RingSize].n = k
              /\ ring[(Taken + i - 1) % RingSize].init <=> k = Taken + 1
          BY <5>2, <5>3
        <5> QED BY <5>1, <5>4
      <4>5. (Taken + i = Taken + 1) <=> i = 1
        BY <1>5
      <4>6. Taken + Len(list) + i = Taken + i
        BY <1>5, <2>1
      <4> QED BY <2>1, <4>2, <4>3, <4>4, <4>5, <4>6
    <3>2. /\ ListWith(PacketsIn(ringCmd, last)) \in Seq(Packets)
          /\ Len(ListWith(PacketsIn(ringCmd, last))) = Len(list) + (last - ringCmd)
          /\ \A i \in 1 .. Len(list) + (last - ringCmd) :
               ListWith(PacketsIn(ringCmd, last))[i].n = Taken + i
      <4>1. ringCmd \in 0 .. RingSize
        BY <1>5
      <4>2. \A i \in 1 .. last - ringCmd :
              /\ ring[ringCmd + i - 1].n = Taken + Len(list) + i
              /\ ring[ringCmd + i - 1].init <=> Len(list) = 0 /\ i = 1
        BY <3>1
      <4>3. RingTypeOK /\ ListIs(Len(list)) /\ ringCmd <= last
        BY <1>2, <2>1, <2>2
      <4> QED BY <4>1, <4>2, <4>3, ListWithStretch, SMTT(60)
    <3>3. Len(list) + (last - ringCmd) = last - ringCmd
      BY <1>5, <2>1
    <3> QED BY <3>2, <3>3
  <2>3. CASE o > ringCmd
    <3>1. end - Taken = o - ringCmd
      BY <1>5, <1>9, <2>3, OffsetGap
    <3>2. list' = ListWith(PacketsIn(ringCmd, o)) /\ step' = "submit"
      BY <1>5, <1>7, <2>3 DEF DingDong, RecordFirst
    <3>3. ringCmd <= o /\ o - ringCmd <= end - Taken /\ end - Taken \in Nat
      BY <1>5, <1>9, <2>3, <3>1
    <3> QED BY <1>9, <2>2, <3>1, <3>2, <3>3
  <2>4. CASE o <= ringCmd
    <3>1. end - Taken = RingSize - ringCmd + o
      BY <1>5, <1>9, <2>4, OffsetGap
    <3>2. list' = ListWith(PacketsIn(ringCmd, RingSize)) /\ step' = "wrapped"
      BY <1>5, <1>7, <2>4 DEF DingDong, RecordFirst
    <3>3. /\ RingSize \in 0 .. RingSize /\ ringCmd <= RingSize
          /\ RingSize - ringCmd <= end - Taken /\ RingSize - ringCmd \in Nat
      BY <1>2, <1>5, <2>4, <3>1
    <3>4. RingSize - ringCmd < RingSize
      BY <1>2, <1>5, <1>9, <3>1
    <3> QED BY <2>2, <2>4, <3>2, <3>3, <3>4
  <2> QED BY <1>5, <2>3, <2>4
<1>14. RingTypeOK'
  <2>1. dings' \in Seq(0 .. RingSize) /\ Len(dings') <= MaxDings
    BY <1>2, <1>3, RingAssumption DEF RingTypeOK, DingDong
  <2>2. list' \in Seq(Packets) /\ Len(list') < RingSize
    BY <1>13
  <2>3. step' \in {"idle", "wrapped", "submit", "publish"}
    BY <1>13
  <2>4. nextCmd' \in 0 .. RingSize
    BY <1>7 DEF DingDong
  <2>5. UNCHANGED <<put, ring, ringCmd, readPtr, submitted>>
    BY DEF DingDong
  <2> QED BY <1>2, <2>1, <2>2, <2>3, <2>4, <2>5 DEF RingTypeOK, Packets
<1>15. ExecutedInOrder'
  BY <1>2 DEF ExecutedInOrder, DingDong
<1>16. EndsAre(e)'
  <2>1. dings' = Tail(dings) /\ put' = put
    BY DEF DingDong
  <2>2. Len(e) = Len(Tail(dings)) + 1
    BY <1>3, <1>11
  <2>3. e[Len(e)] = put
    BY <1>3, <1>6, <1>11
  <2>4. \A i \in 1 .. Len(e) : \A j \in 1 .. Len(e) : i < j => e[i] < e[j]
    <3> SUFFICES ASSUME NEW i \in 1 .. Len(e), NEW j \in 1 .. Len(e), i < j PROVE e[i] < e[j]
      OBVIOUS
    <3>1. i + 1 \in 1 .. Len(ends) /\ j + 1 \in 1 .. Len(ends) /\ i + 1 < j + 1
      BY <1>3, <1>6, <1>11
    <3>2. ends[i + 1] < ends[j + 1]
      BY <1>6, <3>1
    <3> QED BY <1>11, <3>2
  <2>5. ASSUME NEW i \in 1 .. Len(Tail(dings)) PROVE Tail(dings)[i] \in Offsets(e[i + 1])
    <3>1. i + 1 \in 1 .. Len(dings) /\ i \in 1 .. Len(dings) - 1
      BY <1>3
    <3> QED BY <1>3, <1>6, <1>11, <3>1
  <2> QED BY <2>1, <2>2, <2>3, <2>4, <2>5 DEF EndsAre, Offsets
<1>17. ReadPointerIs(base)'
  BY <1>1 DEF QueueIs, ReadPointerIs, DingDong, Taken, Offsets, StepIs
<1>18. e[1] = end
  BY <1>3, <1>8, <1>11
<1>19. UNCHANGED <<put, ring, ringCmd, submitted>> /\ Taken' = Taken
  BY DEF DingDong, Taken
<1>20. RingHolds(e)'
  <2>1. \A k \in Taken + 1 .. put : ring[(k - 1) % RingSize].n = k
    BY <1>1 DEF QueueIs, RingHolds
  <2>2. ASSUME NEW k \in end + 1 .. put
        PROVE  ring[(k - 1) % RingSize].init
                 <=> \E i \in 1 .. Len(dings) - 1 : k - 1 = e[i]
    <3>1. k \in ends[1] + 1 .. put
      BY <1>4, <1>5, <1>9
    <3>2. ring[(k - 1) % RingSize].init <=> \E i \in 1 .. Len(dings) : k - 1 = ends[i]
      BY <1>1, <3>1 DEF QueueIs, RingHolds
    <3>3. ASSUME NEW i \in 1 .. Len(dings), k - 1 = ends[i]
          PROVE  \E j \in 1 .. Len(dings) - 1 : k - 1 = e[j]
      <4>1. i # 1
        BY <1>4, <1>5, <1>9, <3>3
      <4>2. i - 1 \in 1 .. Len(dings) - 1 /\ i - 1 \in 1 .. Len(dings) /\ (i - 1) + 1 = i
        BY <1>3, <4>1
      <4>3. e[i - 1] = ends[i]
        BY <1>11, <4>2
      <4> QED BY <3>3, <4>2, <4>3
    <3>4. ASSUME NEW i \in 1 .. Len(dings) - 1, k - 1 = e[i]
          PROVE  \E j \in 1 .. Len(dings) : k - 1 = ends[j]
      <4>1. i + 1 \in 1 .. Len(dings) /\ i \in 1 .. Len(dings)
        BY <1>3
      <4> QED BY <1>11, <3>4, <4>1
    <3> QED BY <3>2, <3>3, <3>4
  <2>3. Len(dings') = Len(dings) - 1
    BY <1>3 DEF DingDong
  <2> QED BY <1>18, <1>19, <2>1, <2>2, <2>3 DEF RingHolds
<1>21. StepIs(e)'
  <2>1. nextCmd' = o
    BY <1>7 DEF DingDong
  <2>2. Len(list') = length /\ \A i \in 1 .. Len(list') : list'[i].n = Taken' + i
    BY <1>13, <1>19
  <2>3. ListIs(length)'
    BY <2>2 DEF ListIs
  <2>4. CASE step' = "submit" /\ length = end - Taken
    BY <1>9, <1>18, <1>19, <2>1, <2>3, <2>4 DEF StepIs, Offsets
  <2>5. CASE step' = "wrapped" /\ length = RingSize - ringCmd /\ o <= ringCmd
    <3>1. \A k \in Taken' + 1 .. e[1] : ring'[(k - 1) % RingSize].init <=> k = Taken' + 1
      BY <1>12, <1>18, <1>19
    <3> QED BY <1>9, <1>18, <1>19, <2>1, <2>3, <2>5, <3>1 DEF StepIs, Offsets
  <2> QED BY <1>13, <2>4, <2>5
<1>22. QueueIs(base, e)'
  BY <1>16, <1>17, <1>20, <1>21 DEF QueueIs
<1> QED BY <1>14, <1>15, <1>22 DEF RingInv

(* Facts of every state that the remaining steps need.                       *)
LEMMA RingFacts ==
  ASSUME RingTypeOK, NEW base \in Nat, NEW ends \in Seq(Nat), QueueIs(base, ends)
  PROVE  /\ put \in Nat /\ Taken \in Nat /\ base <= Taken /\ Taken <= put
         /\ put < base + RingSize /\ RingSize \in Nat \ {0}
         /\ ends[1] \in Nat /\ ends[1] <= put /\ ends[1] - Taken < RingSize
         /\ ringCmd \in 0 .. RingSize /\ nextCmd \in 0 .. RingSize
<1>1. /\ put \in Nat /\ Taken \in Nat /\ Len(dings) \in Nat
      /\ ringCmd \in 0 .. RingSize /\ nextCmd \in 0 .. RingSize
  BY DEF RingTypeOK, Taken
<1>2. base <= Taken /\ Taken <= put /\ put < base + RingSize
  BY DEF QueueIs, ReadPointerIs
<1>3. Len(ends) = Len(dings) + 1 /\ ends[Len(ends)] = put
  BY DEF QueueIs, EndsAre
<1>4. 1 \in 1 .. Len(ends) /\ Len(ends) \in 1 .. Len(ends)
  BY <1>1, <1>3
<1>5. ends[1] \in Nat
  BY <1>4, ElementOfSeq
<1>6. 1 < Len(ends) => ends[1] < put
  BY <1>3, <1>4 DEF QueueIs, EndsAre
<1>7. ends[1] <= put
  BY <1>1, <1>3, <1>4, <1>5, <1>6
<1> QED BY <1>1, <1>2, <1>5, <1>7, RingAssumption

LEMMA RecordRestInv ==
  ASSUME RingInv, RecordRest
  PROVE  RingInv'
<1>1. PICK base \in Nat, ends \in Seq(Nat) : QueueIs(base, ends)
  BY DEF RingInv
<1>2. RingTypeOK /\ ExecutedInOrder
  BY DEF RingInv
<1>3. PICK end \in Nat : end = ends[1]
  BY <1>1, <1>2, RingFacts
<1>4. /\ put \in Nat /\ Taken \in Nat /\ base <= Taken /\ Taken <= put
      /\ put < base + RingSize /\ RingSize \in Nat \ {0}
      /\ end <= put /\ end - Taken < RingSize
      /\ ringCmd \in 0 .. RingSize /\ nextCmd \in 0 .. RingSize
  BY <1>1, <1>2, <1>3, RingFacts
<1>5. step = "wrapped" /\ ringCmd \in Offsets(Taken)
  BY <1>1 DEF QueueIs, ReadPointerIs, RecordRest
<1>6. /\ Taken < end /\ ListIs(RingSize - ringCmd)
      /\ nextCmd \in Offsets(end) /\ nextCmd <= ringCmd
      /\ \A k \in Taken + 1 .. end :
           ring[(k - 1) % RingSize].init <=> k = Taken + 1
  BY <1>1, <1>3, <1>5 DEF QueueIs, StepIs
<1>7. end - Taken = RingSize - ringCmd + nextCmd
  BY <1>4, <1>5, <1>6, OffsetGap
<1>8. Len(list) = RingSize - ringCmd /\ ListIs(Len(list))
  BY <1>6 DEF ListIs
<1>9. \A i \in 1 .. nextCmd - 0 :
        /\ ring[0 + i - 1].n = Taken + Len(list) + i
        /\ ring[0 + i - 1].init <=> Len(list) = 0 /\ i = 1
  <2> SUFFICES ASSUME NEW i \in 1 .. nextCmd - 0
               PROVE  /\ ring[0 + i - 1].n = Taken + Len(list) + i
                      /\ ring[0 + i - 1].init <=> Len(list) = 0 /\ i = 1
    OBVIOUS
  <2>1. PICK k \in Taken + 1 .. end : k = Taken + (RingSize - ringCmd) + i
    BY <1>4, <1>7
  <2>2. (k - 1) % RingSize = i - 1
    <3>1. PICK j \in Nat : j = RingSize - ringCmd + (i - 1)
      BY <1>4
    <3>2. ringCmd + j >= RingSize /\ ringCmd + j < 2 * RingSize /\ ringCmd + j - RingSize = i - 1
      BY <1>4, <3>1
    <3>3. (Taken + j) % RingSize = i - 1
      BY <1>4, <1>5, <3>2, PlaceAfter
    <3>4. Taken + j = k - 1
      BY <1>4, <2>1, <3>1
    <3> QED BY <3>3, <3>4
  <2>3. ring[(k - 1) % RingSize].n = k
    <3>1. k \in Taken + 1 .. put
      BY <1>4
    <3> QED BY <1>1, <3>1 DEF QueueIs, RingHolds
  <2>4. ring[(k - 1) % RingSize].init <=> k = Taken + 1
    BY <1>6
  <2>5. 0 + i - 1 = i - 1 /\ k = Taken + Len(list) + i
    BY <1>4, <1>8, <2>1
  <2>6. (k = Taken + 1) <=> Len(list) = 0 /\ i = 1
    BY <1>4, <1>8, <2>1
  <2> QED BY <2>2, <2>3, <2>4, <2>5, <2>6
<1>10. PICK more \in Seq(Packets) :
         /\ list' = more /\ Len(more) = end - Taken
         /\ \A i \in 1 .. Len(more) : more[i].n = Taken + i
  <2>1. PICK first \in 0 .. RingSize : first = 0
    BY <1>4
  <2>2. first <= nextCmd
    BY <1>4, <2>1
  <2>3. \A i \in 1 .. nextCmd - first :
          /\ ring[first + i - 1].n = Taken + Len(list) + i
          /\ ring[first + i - 1].init <=> Len(list) = 0 /\ i = 1
    BY <1>9, <2>1
  <2>4. /\ ListWith(PacketsIn(first, nextCmd)) \in Seq(Packets)
        /\ Len(ListWith(PacketsIn(first, nextCmd))) = Len(list) + (nextCmd - first)
        /\ \A i \in 1 .. Len(list) + (nextCmd - first) :
             ListWith(PacketsIn(first, nextCmd))[i].n = Taken + i
    <3>1. RingTypeOK /\ ListIs(Len(list)) /\ nextCmd \in 0 .. RingSize
      BY <1>2, <1>4, <1>8
    <3> QED BY <2>2, <2>3, <3>1, ListWithStretch, SMTT(60)
  <2>5. Len(list) + (nextCmd - first) = end - Taken
    BY <1>4, <1>7, <1>8, <2>1
  <2>6. list' = ListWith(PacketsIn(first, nextCmd))
    BY <2>1 DEF RecordRest
  <2> QED BY <2>4, <2>5, <2>6
<1>11. UNCHANGED <<put, ring, dings, ringCmd, readPtr, nextCmd, submitted>> /\ step' = "submit"
       /\ Taken' = Taken
  BY DEF RecordRest, Taken
<1>12. RingTypeOK'
  <2>1. list' \in Seq(Packets) /\ Len(list') < RingSize
    BY <1>4, <1>10
  <2> QED BY <1>2, <1>11, <2>1 DEF RingTypeOK, Packets
<1>13. ExecutedInOrder'
  BY <1>2, <1>11 DEF ExecutedInOrder
<1>14. EndsAre(ends)' /\ RingHolds(ends)'
  BY <1>1, <1>11 DEF QueueIs, EndsAre, RingHolds, Offsets
<1>15. ReadPointerIs(base)'
  BY <1>1, <1>5, <1>11 DEF QueueIs, ReadPointerIs, Offsets
<1>16. StepIs(ends)'
  <2>1. ListIs(ends[1] - Taken)'
    BY <1>3, <1>10, <1>11 DEF ListIs
  <2>2. nextCmd' \in Offsets(ends[1])' /\ Taken' < ends[1]
    BY <1>3, <1>6, <1>11 DEF Offsets
  <2> QED BY <1>11, <2>1, <2>2 DEF StepIs
<1>17. QueueIs(base, ends)'
  BY <1>14, <1>15, <1>16 DEF QueueIs
<1> QED BY <1>12, <1>13, <1>17 DEF RingInv

LEMMA SubmitInv ==
  ASSUME RingInv, Submit
  PROVE  RingInv'
<1>1. PICK base \in Nat, ends \in Seq(Nat) : QueueIs(base, ends)
  BY DEF RingInv
<1>2. RingTypeOK /\ ExecutedInOrder
  BY DEF RingInv
<1>3. PICK end \in Nat : end = ends[1]
  BY <1>1, <1>2, RingFacts
<1>4. /\ put \in Nat /\ Taken \in Nat /\ base <= Taken /\ Taken <= put
      /\ put < base + RingSize /\ RingSize \in Nat \ {0}
      /\ end <= put
  BY <1>1, <1>2, <1>3, RingFacts
<1>5. Taken < end /\ ListIs(end - Taken) /\ nextCmd \in Offsets(end)
  BY <1>1, <1>3 DEF QueueIs, StepIs, Submit
<1>6. put <= MaxPackets /\ submitted \in Seq(1 .. MaxPackets)
  BY <1>2 DEF RingTypeOK
<1>7. PICK numbers \in Seq(1 .. MaxPackets) :
        /\ submitted' = submitted \o numbers /\ Len(numbers) = end - Taken
        /\ \A i \in 1 .. Len(numbers) : numbers[i] = Taken + i
  <2> DEFINE numbers == [i \in DOMAIN list |-> list[i].n]
  <2>1. list \in Seq(Packets) /\ DOMAIN list = 1 .. Len(list) /\ Len(list) = end - Taken
    BY <1>2, <1>5 DEF RingTypeOK, ListIs
  <2>2. \A i \in 1 .. end - Taken : numbers[i] = Taken + i
    BY <1>5, <2>1 DEF ListIs
  <2>3. \A i \in 1 .. end - Taken : Taken + i \in 1 .. MaxPackets
    BY <1>4, <1>6, RingAssumption
  <2>4. end - Taken \in Nat /\ numbers = [i \in 1 .. end - Taken |-> list[i].n]
    BY <1>4, <1>5, <2>1
  <2>5. numbers \in Seq(1 .. MaxPackets) /\ Len(numbers) = end - Taken
    <3>1. PICK S : S = 1 .. MaxPackets
      OBVIOUS
    <3>2. PICK m \in Nat : m = end - Taken
      BY <2>4
    <3>3. \A i \in 1 .. m : list[i].n \in S
      BY <2>1, <2>2, <2>3, <3>1, <3>2
    <3>4. /\ [i \in 1 .. m |-> list[i].n] \in Seq(S)
          /\ Len([i \in 1 .. m |-> list[i].n]) = m
      BY <3>3
    <3>5. numbers = [i \in 1 .. m |-> list[i].n]
      BY <2>4, <3>2
    <3> QED BY <3>1, <3>2, <3>4, <3>5
  <2>6. submitted' = submitted \o numbers
    BY DEF Submit
  <2> QED BY <2>2, <2>5, <2>6
<1>8. Taken' = end
  <2>1. Len(submitted') = Len(submitted) + Len(numbers)
    BY <1>6, <1>7, ConcatProperties
  <2> QED BY <1>4, <1>7, <2>1 DEF Taken
<1>9. UNCHANGED <<put, ring, dings, ringCmd, readPtr, nextCmd>> /\ step' = "publish" /\ list' = <<>>
  BY DEF Submit
<1>10. RingTypeOK'
  <2>1. submitted' \in Seq(1 .. MaxPackets)
    BY <1>6, <1>7
  <2> QED BY <1>2, <1>4, <1>9, <2>1 DEF RingTypeOK, Packets
<1>11. ExecutedInOrder'
  <2> SUFFICES ASSUME NEW i \in 1 .. Len(submitted') PROVE submitted'[i] = i
    BY DEF ExecutedInOrder
  <2>1. Len(submitted) = Taken /\ Len(submitted') = end
    BY <1>8 DEF Taken
  <2>2. CASE i <= Taken
    <3>1. i \in 1 .. Len(submitted) /\ submitted'[i] = submitted[i]
      BY <1>4, <1>6, <1>7, <2>1, <2>2
    <3> QED BY <1>2, <3>1 DEF ExecutedInOrder
  <2>3. CASE i > Taken
    <3>1. i - Taken \in 1 .. Len(numbers) /\ submitted'[i] = numbers[i - Taken]
      <4>1. i \in Nat /\ i <= end /\ Taken \in Nat /\ Len(numbers) = end - Taken
        BY <1>4, <1>5, <1>7, <2>1
      <4>2. i - Taken \in 1 .. Len(numbers)
        BY <1>4, <2>3, <4>1
      <4>3. submitted' = submitted \o numbers /\ Len(submitted) = Taken
        BY <1>7, <2>1
      <4>4. submitted'[i] = numbers[i - Len(submitted)]
        BY <1>4, <1>6, <1>7, <2>1, <2>3, <4>1, <4>3, ConcatProperties
      <4> QED BY <2>1, <4>2, <4>4
    <3>2. numbers[i - Taken] = Taken + (i - Taken)
      BY <1>7, <3>1
    <3> QED BY <1>4, <2>1, <3>1, <3>2
  <2> QED BY <1>4, <2>1, <2>2, <2>3
<1>12. EndsAre(ends)'
  BY <1>1, <1>9 DEF QueueIs, EndsAre, Offsets
<1>13. ReadPointerIs(base)'
  <2>1. readPtr \in Offsets(base)
    BY <1>1 DEF QueueIs, ReadPointerIs
  <2> QED BY <1>4, <1>5, <1>8, <1>9, <2>1 DEF ReadPointerIs, Offsets
<1>14. RingHolds(ends)'
  <2>1. \A k \in end + 1 .. put : ring[(k - 1) % RingSize].n = k
    <3> SUFFICES ASSUME NEW k \in end + 1 .. put PROVE ring[(k - 1) % RingSize].n = k
      OBVIOUS
    <3>1. k \in Taken + 1 .. put
      BY <1>4, <1>5
    <3> QED BY <1>1, <3>1 DEF QueueIs, RingHolds
  <2>2. \A k \in ends[1] + 1 .. put :
          ring[(k - 1) % RingSize].init <=> \E i \in 1 .. Len(dings) : k - 1 = ends[i]
    BY <1>1 DEF QueueIs, RingHolds
  <2> QED BY <1>8, <1>9, <2>1, <2>2 DEF RingHolds
<1>15. StepIs(ends)'
  <2>1. nextCmd' \in Offsets(Taken)'
    BY <1>5, <1>8, <1>9 DEF Offsets
  <2> QED BY <1>3, <1>8, <1>9, <2>1 DEF StepIs
<1>16. QueueIs(base, ends)'
  BY <1>12, <1>13, <1>14, <1>15 DEF QueueIs
<1> QED BY <1>10, <1>11, <1>16 DEF RingInv

LEMMA PublishInv ==
  ASSUME RingInv, Publish
  PROVE  RingInv'
<1>1. PICK base \in Nat, ends \in Seq(Nat) : QueueIs(base, ends)
  BY DEF RingInv
<1>2. RingTypeOK /\ ExecutedInOrder
  BY DEF RingInv
<1>3. PICK taken \in Nat : taken = Taken
  BY <1>1, <1>2, RingFacts
<1>4. /\ put \in Nat /\ base <= taken /\ taken <= put
      /\ put < base + RingSize /\ RingSize \in Nat \ {0}
      /\ nextCmd \in 0 .. RingSize
  BY <1>1, <1>2, <1>3, RingFacts
<1>5. ends[1] = taken /\ list = <<>> /\ nextCmd \in Offsets(taken)
  BY <1>1, <1>3 DEF QueueIs, StepIs, Publish
<1>6. /\ UNCHANGED <<put, ring, dings, nextCmd, list, submitted>> /\ step' = "idle"
      /\ ringCmd' = nextCmd /\ readPtr' = nextCmd /\ Taken' = Taken
  BY DEF Publish, Taken
<1>7. RingTypeOK'
  BY <1>2, <1>4, <1>6 DEF RingTypeOK, Packets
<1>8. ExecutedInOrder'
  BY <1>2, <1>6 DEF ExecutedInOrder
<1>9. EndsAre(ends)' /\ RingHolds(ends)'
  BY <1>1, <1>6 DEF QueueIs, EndsAre, RingHolds, Offsets
<1>10. ReadPointerIs(taken)'
  BY <1>3, <1>4, <1>5, <1>6 DEF ReadPointerIs, Offsets
<1>11. StepIs(ends)'
  BY <1>3, <1>5, <1>6 DEF StepIs
<1>12. QueueIs(taken, ends)'
  BY <1>9, <1>10, <1>11 DEF QueueIs
<1> QED BY <1>7, <1>8, <1>12 DEF RingInv

(* The inductive invariant of a compute queue: what waits in the ring, what   *)
(* has been recorded of it, and how far the read pointer has come             *)
(* (SceComputeQueue.cpp:24-76).                                               *)
THEOREM RingInvariant == RingInit /\ [][RingNext]_ringVars => []RingInv
<1>1. RingInv /\ [RingNext]_ringVars => RingInv'
  <2> SUFFICES ASSUME RingInv, [RingNext]_ringVars PROVE RingInv'
    OBVIOUS
  <2>1. CASE RingNext
    BY <2>1, PutBatchInv, DingDongInv, RecordRestInv, SubmitInv, PublishInv DEF RingNext, Driver
  <2>2. CASE UNCHANGED ringVars
    <3>1. PICK base \in Nat, ends \in Seq(Nat) : QueueIs(base, ends)
      BY DEF RingInv
    <3>2. QueueIs(base, ends)'
      BY <2>2, <3>1
         DEF QueueIs, EndsAre, ReadPointerIs, RingHolds, StepIs, ListIs, Taken, Offsets, ringVars
    <3>3. RingTypeOK' /\ ExecutedInOrder'
      BY <2>2 DEF RingInv, RingTypeOK, Packets, ExecutedInOrder, ringVars
    <3> QED BY <3>2, <3>3 DEF RingInv
  <2> QED BY <2>1, <2>2
<1> QED BY <1>1, RingInitInv, PTL

(* The packets of a queue reach the device in the order in which they were    *)
(* written, none twice and none left out, wherever the ring wraps and         *)
(* whatever the game overwrites (SceComputeQueue.cpp:24-63).                  *)
THEOREM RingExecutesInOrder == RingSpec => []ExecutedInOrder
<1>1. RingInv => ExecutedInOrder
  BY DEF RingInv
<1> QED BY <1>1, RingInvariant, PTL DEF RingSpec

(* The read pointer gives room back only after the packets in it have been    *)
(* submitted (SceComputeQueue.cpp:57-67).                                     *)
THEOREM RingRoomIsFree == RingSpec => []RoomIsFree
<1>1. RingInv => RoomIsFree
  <2> SUFFICES ASSUME RingInv PROVE RoomIsFree
    OBVIOUS
  <2>1. PICK base \in Nat, ends \in Seq(Nat) : QueueIs(base, ends)
    BY DEF RingInv
  <2>2. /\ put \in Nat /\ Taken \in Nat /\ base <= Taken /\ Taken <= put
        /\ put < base + RingSize /\ RingSize \in Nat \ {0}
    BY <2>1, RingFacts DEF RingInv
  <2>3. readPtr \in Offsets(base) /\ base <= put /\ put - base < RingSize
    BY <2>1, <2>2 DEF QueueIs, ReadPointerIs
  <2>4. Outstanding = put - base
    BY <2>2, <2>3, OutstandingIs DEF Outstanding
  <2> QED BY <2>2, <2>4 DEF RoomIsFree, Taken
<1> QED BY <1>1, RingInvariant, PTL DEF RingSpec

------------------------------------------------------------------------------
(* A behaviour in which the labels run and the ring rests, or the other way   *)
(* round, is one of each: what is proved of either holds of both together.    *)
THEOREM GpuIsItsParts == GpuSpec => Spec /\ RingInit /\ [][RingNext]_ringVars
<1>1. GpuInit => Init /\ RingInit
  BY DEF GpuInit
<1>2. [LabelStep \/ RingStep]_gpuPartVars => [Next]_vars /\ [RingNext]_ringVars
  BY DEF LabelStep, RingStep, gpuPartVars
<1> QED BY <1>1, <1>2, PTL DEF GpuSpec, Spec

(* Every variable of the labels and of the ring keeps its type, for any       *)
(* threads, labels and values and a ring of any size.                         *)
THEOREM GpuTypes == GpuSpec => []GpuTypeOK
<1>1. TypeOK /\ RingInv => GpuTypeOK
  BY DEF GpuTypeOK, RingInv
<1> QED BY <1>1, GpuIsItsParts, LabelTypesHold, RingInvariant, PTL
============================================================================
