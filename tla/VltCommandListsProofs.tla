------------------------ MODULE VltCommandListsProofs ------------------------
(***************************************************************************)
(* A command list has one owner, and the GPU has only lists whose thread   *)
(* waits for them, or lists the driver failed for: for any number of       *)
(* contexts, lists and recycler slots, and whatever the driver fails in.   *)
(*                                                                         *)
(* The two support each other.  A list the GPU has is loose or the list    *)
(* some thread waits for (PendingIsAwaited), and then not in the recycler; *)
(* so a list that is taken from the recycler, and whose fence is reset, is *)
(* loose or not on the GPU, and its fence stays reset until its own        *)
(* submission is finished (Recording), which is what lets the thread wait. *)
(***************************************************************************)
EXTENDS MCVltCommandLists, VltContextProofs, SequenceTheorems, FiniteSetTheorems, TLAPS

\* The types of the variables that say where a list is.
OwnTypes ==
  /\ cmd \in [Contexts -> ListOrNil]
  /\ sub \in [Contexts -> ListOrNil]
  /\ step \in [Contexts -> {"record", "wait", "reset", "recycle"}]
  /\ recycler \in [objects : [1..Capacity -> ListOrNil], id : 0..Capacity]
  /\ gpu \in Seq(Lists)
  /\ signalled \subseteq Lists
  /\ loose \subseteq Lists

\* A context records only outside submit(), and unless its list is loose, the
\* list's fence is reset and the GPU does not have the list.
Recording ==
  \A c \in Contexts : cmd[c] # Nil =>
    /\ step[c] = "record"
    /\ cmd[c] \notin loose => cmd[c] \notin signalled /\ cmd[c] \notin Range(gpu)

InSubmit == \A c \in Contexts : sub[c] = Nil <=> step[c] = "record"
SlotsFilled == \A i \in 1..recycler.id : recycler.objects[i] # Nil
SubmittedOnce == \A i, j \in 1..Len(gpu) : gpu[i] = gpu[j] => i = j \/ gpu[i] \in loose

\* ListOwnedOnce, list by list.
Owned ==
  /\ \A c, d \in Contexts : c # d => (cmd[c] = Nil \/ cmd[c] # cmd[d])
                                  /\ (sub[c] = Nil \/ sub[c] # sub[d])
  /\ \A c, d \in Contexts : cmd[c] = Nil \/ cmd[c] # sub[d]
  /\ \A i, j \in 1..recycler.id : i # j => recycler.objects[i] # recycler.objects[j]
  /\ \A i \in 1..recycler.id : \A c \in Contexts :
       recycler.objects[i] # cmd[c] /\ recycler.objects[i] # sub[c]

ListInv ==
  /\ OwnTypes /\ Recording /\ InSubmit /\ SlotsFilled
  /\ SubmittedOnce /\ Owned /\ PendingIsAwaited

whereVars == <<cmd, sub, step, recycler, gpu, signalled, loose>>

LEMMA QueuedLists ==
  ASSUME OwnTypes
  PROVE  /\ Range(gpu) = {gpu[i] : i \in 1..Len(gpu)} /\ Range(gpu) \subseteq Lists
         /\ Len(gpu) \in Nat /\ DOMAIN gpu = 1..Len(gpu)
BY DEF OwnTypes, Range

LEMMA OwnedEnough ==
  ASSUME OwnTypes, Owned
  PROVE  ListOwnedOnce
<1>1. Available \cap (Range(cmd) \cup Range(sub)) = {}
  <2> SUFFICES ASSUME NEW i \in 1..recycler.id,
                      recycler.objects[i] \in Range(cmd) \cup Range(sub)
               PROVE  FALSE
    BY DEF Available
  <2>1. PICK c \in Contexts : recycler.objects[i] = cmd[c] \/ recycler.objects[i] = sub[c]
    BY DEF Range, OwnTypes
  <2>2. QED BY <2>1 DEF Owned
<1>2. QED BY <1>1 DEF Owned, ListOwnedOnce

\* A list createCommandList returns is nobody's, and the others stay in place.
LEMMA RetrieveFresh ==
  ASSUME ListInv, NEW l \in Lists, Retrieve(l)
  PROVE  /\ \A d \in Contexts : cmd[d] # l /\ sub[d] # l
         /\ recycler' \in [objects : [1..Capacity -> ListOrNil], id : 0..Capacity]
         /\ recycler'.id <= recycler.id
         /\ \A i \in 1..recycler'.id :
              recycler'.objects[i] = recycler.objects[i] /\ recycler.objects[i] # l
<1> USE CapacityAssumption, NilAssumption
<1>1. CASE recycler.id > 0 /\ l = recycler.objects[recycler.id]
             /\ recycler' = [recycler EXCEPT !.id = @ - 1]
  <2>1. recycler \in [objects : [1..Capacity -> ListOrNil], id : 0..Capacity] /\ Owned
    BY DEF ListInv, OwnTypes
  <2>2. recycler'.objects = recycler.objects /\ recycler'.id = recycler.id - 1
    BY <1>1, <2>1
  <2>3. recycler'.id \in 0..Capacity /\ recycler'.id <= recycler.id
    BY <1>1, <2>1, <2>2
  <2>4. recycler' \in [objects : [1..Capacity -> ListOrNil], id : 0..Capacity]
    BY <1>1, <2>1, <2>3
  <2>5. recycler.id \in 1..recycler.id /\ \A i \in 1..recycler'.id : i \in 1..recycler.id /\ i # recycler.id
    BY <1>1, <2>1, <2>2
  <2>6. \A i \in 1..recycler'.id : recycler.objects[i] # l
    BY <1>1, <2>1, <2>5 DEF Owned
  <2>7. \A d \in Contexts : cmd[d] # l /\ sub[d] # l
    BY <1>1, <2>1, <2>5 DEF Owned
  <2>8. QED BY <2>2, <2>3, <2>4, <2>6, <2>7
<1>2. CASE recycler.id = 0 /\ l \in NewLists /\ UNCHANGED recycler
  <2>1. l \notin Referenced
    BY <1>2 DEF NewLists
  <2>2. \A d \in Contexts : cmd[d] # l /\ sub[d] # l
    BY <2>1 DEF Referenced, Range, ListInv, OwnTypes
  <2>3. QED BY <1>2, <2>2 DEF ListInv, OwnTypes
<1>3. QED BY <1>1, <1>2 DEF Retrieve

\* What begins is loose, or its fence is reset and the GPU does not have it;
\* the fences and the looseness of the others do not change.
BegunWell(l) ==
  /\ signalled' \subseteq signalled /\ signalled' \subseteq Lists /\ loose' \subseteq Lists
  /\ \A k \in Lists \ {l} : (k \in loose') <=> (k \in loose)
  /\ \A k \in Lists \ {l} : (k \in signalled') <=> (k \in signalled)
  /\ l \notin loose' => l \notin signalled' /\ l \notin Range(gpu)

LEMMA ResetWell ==
  ASSUME ListInv, NEW l \in Lists, Retrieve(l), ResetFence(l)
  PROVE  BegunWell(l)
<1>1. OwnTypes /\ PendingIsAwaited /\ \A d \in Contexts : sub[d] # l
  BY RetrieveFresh DEF ListInv
<1>2. l \in Range(gpu) => l \in loose
  BY <1>1, QueuedLists DEF PendingIsAwaited
<1>3. CASE /\ signalled' = signalled \ {l}
           /\ loose' = IF l \in Range(gpu) THEN loose ELSE loose \ {l}
  BY <1>1, <1>2, <1>3 DEF OwnTypes, BegunWell
<1>4. CASE loose' = loose \cup {l} /\ signalled' = signalled
  BY <1>1, <1>4 DEF OwnTypes, BegunWell
<1>5. QED BY <1>3, <1>4 DEF ResetFence, Fails

LEMMA BeginKeeps ==
  ASSUME ListInv, NEW c \in Contexts, BeginRecording(c)
  PROVE  ListInv'
<1> USE CapacityAssumption, NilAssumption
<1>1. PICK l \in Lists : Retrieve(l) /\ cmd' = [cmd EXCEPT ![c] = l] /\ ResetFence(l)
  BY DEF BeginRecording
<1>2. sub' = sub /\ step' = step /\ gpu' = gpu /\ step[c] = "record"
  BY DEF BeginRecording
<1>3. /\ \A d \in Contexts : cmd[d] # l /\ sub[d] # l
      /\ recycler' \in [objects : [1..Capacity -> ListOrNil], id : 0..Capacity]
      /\ recycler'.id <= recycler.id
      /\ \A i \in 1..recycler'.id :
           recycler'.objects[i] = recycler.objects[i] /\ recycler.objects[i] # l
  BY <1>1, RetrieveFresh
<1>4. /\ cmd \in [Contexts -> ListOrNil] /\ cmd'[c] = l
      /\ \A d \in Contexts \ {c} : cmd'[d] = cmd[d]
  BY <1>1 DEF ListInv, OwnTypes
<1>13. BegunWell(l)
  BY <1>1, ResetWell
<1>5. OwnTypes'
  BY <1>1, <1>2, <1>3, <1>13 DEF ListInv, OwnTypes, ListOrNil, BegunWell
<1>6. \A i \in 1..recycler'.id : i \in 1..recycler.id
  BY <1>3 DEF ListInv, OwnTypes
<1>14. \A i \in 1..Len(gpu) : gpu[i] \in Lists
  BY DEF ListInv, OwnTypes
<1>15. \A i \in 1..Len(gpu) : gpu[i] = l => l \in loose'
  BY <1>13, QueuedLists DEF BegunWell, ListInv
<1>7. Recording'
  <2> SUFFICES ASSUME NEW d \in Contexts, cmd'[d] # Nil
               PROVE  /\ step'[d] = "record"
                      /\ cmd'[d] \notin loose' => cmd'[d] \notin signalled' /\ cmd'[d] \notin Range(gpu')
    BY DEF Recording
  <2>1. CASE d = c
    <3>1. cmd'[d] = l /\ step'[d] = "record"
      BY <1>2, <1>4, <2>1
    <3>2. l \notin loose' => l \notin signalled' /\ l \notin Range(gpu')
      BY <1>2, <1>13 DEF BegunWell
    <3> QED BY <3>1, <3>2
  <2>2. CASE d # c
    <3>1. cmd'[d] = cmd[d] /\ cmd[d] \in Lists \ {l}
      BY <1>3, <1>4, <2>2 DEF ListOrNil
    <3>2. step[d] = "record" /\ (cmd[d] \notin loose => cmd[d] \notin signalled /\ cmd[d] \notin Range(gpu))
      BY <3>1 DEF ListInv, Recording
    <3> QED BY <1>2, <1>13, <3>1, <3>2 DEF BegunWell
  <2>3. QED BY <2>1, <2>2
<1>8. InSubmit' /\ SubmittedOnce'
  BY <1>2, <1>13, <1>14, <1>15 DEF ListInv, InSubmit, SubmittedOnce, BegunWell
<1>9. SlotsFilled'
  BY <1>3, <1>6 DEF ListInv, SlotsFilled
<1>10. Owned'
  BY <1>2, <1>3, <1>4, <1>6 DEF ListInv, Owned
<1>11. PendingIsAwaited'
  BY <1>2, <1>13, <1>14, <1>15 DEF ListInv, PendingIsAwaited, BegunWell
<1>12. QED BY <1>5, <1>7, <1>8, <1>9, <1>10, <1>11 DEF ListInv

LEMMA SubmitKeeps ==
  ASSUME ListInv, NEW c \in Contexts, Submit(c)
  PROVE  ListInv'
<1> USE NilAssumption
<1>1. /\ cmd[c] # Nil /\ cmd[c] \in Lists /\ step[c] = "record"
      /\ cmd[c] \notin loose => cmd[c] \notin signalled /\ cmd[c] \notin Range(gpu)
      /\ sub[c] = Nil
  BY DEF Submit, ListInv, Recording, OwnTypes, ListOrNil, InSubmit
<1>2. /\ recycler' = recycler /\ signalled' = signalled /\ loose' = loose
      /\ cmd'[c] = Nil /\ sub'[c] = cmd[c] /\ step'[c] = "wait"
      /\ \A d \in Contexts \ {c} : cmd'[d] = cmd[d] /\ sub'[d] = sub[d] /\ step'[d] = step[d]
      /\ gpu' = Append(gpu, cmd[c]) \/ gpu' = gpu
  BY DEF Submit, ListInv, OwnTypes
<1>3. OwnTypes'
  <2>1. /\ cmd' \in [Contexts -> ListOrNil] /\ sub' \in [Contexts -> ListOrNil]
        /\ step' \in [Contexts -> {"record", "wait", "reset", "recycle"}]
    BY <1>1 DEF Submit, ListInv, OwnTypes, ListOrNil
  <2>2. gpu \in Seq(Lists)
    BY DEF ListInv, OwnTypes
  <2>3. gpu' \in Seq(Lists)
    BY <1>1, <1>2, <2>2
  <2>4. QED BY <1>2, <2>1, <2>3 DEF ListInv, OwnTypes
<1>4. InSubmit' /\ SlotsFilled'
  BY <1>1, <1>2 DEF ListInv, InSubmit, SlotsFilled
<1>5. Owned'
  BY <1>1, <1>2 DEF ListInv, Owned
<1>6. \A i \in 1..Len(gpu) : gpu[i] = cmd[c] => cmd[c] \in loose
  BY <1>1, QueuedLists DEF ListInv
<1>7. \A i \in 1..Len(gpu) : gpu[i] \notin loose =>
        gpu[i] \notin signalled' /\ \E d \in Contexts : sub'[d] = gpu[i] /\ step'[d] = "wait"
  BY <1>1, <1>2 DEF ListInv, PendingIsAwaited
<1>10. Range(gpu') \subseteq Range(gpu) \cup {cmd[c]}
  <2>1. CASE gpu' = gpu
    BY <2>1
  <2>2. CASE gpu' = Append(gpu, cmd[c])
    <3>1. gpu \in Seq(Lists)
      BY DEF ListInv, OwnTypes
    <3>2. /\ DOMAIN gpu' = 1..Len(gpu) + 1 /\ gpu'[Len(gpu) + 1] = cmd[c] /\ Len(gpu) \in Nat
          /\ \A i \in 1..Len(gpu) : gpu'[i] = gpu[i]
      BY <2>2, <3>1, <1>1
    <3>3. DOMAIN gpu = 1..Len(gpu)
      BY <3>1
    <3> QED BY <3>2, <3>3 DEF Range
  <2>3. QED BY <1>2, <2>1, <2>2
<1>11. Recording'
  <2> SUFFICES ASSUME NEW d \in Contexts, cmd'[d] # Nil
               PROVE  /\ step'[d] = "record"
                      /\ cmd'[d] \notin loose' => cmd'[d] \notin signalled' /\ cmd'[d] \notin Range(gpu')
    BY DEF Recording
  <2>1. d # c /\ cmd'[d] = cmd[d] /\ step'[d] = step[d]
    BY <1>2
  <2>2. cmd[d] # cmd[c]
    BY <1>1, <2>1 DEF ListInv, Owned
  <2> QED BY <1>2, <1>10, <2>1, <2>2 DEF ListInv, Recording
<1>8. SubmittedOnce' /\ PendingIsAwaited'
  <2>1. CASE gpu' = gpu
    BY <2>1, <1>2, <1>7 DEF ListInv, SubmittedOnce, PendingIsAwaited
  <2>2. CASE gpu' = Append(gpu, cmd[c])
    <3>1. gpu \in Seq(Lists)
      BY DEF ListInv, OwnTypes
    <3>2. /\ Len(gpu') = Len(gpu) + 1 /\ gpu'[Len(gpu) + 1] = cmd[c] /\ Len(gpu) \in Nat
          /\ \A i \in 1..Len(gpu) : gpu'[i] = gpu[i]
      BY <2>2, <3>1, <1>1
    <3>3. SubmittedOnce'
      <4> SUFFICES ASSUME NEW i \in 1..Len(gpu'), NEW j \in 1..Len(gpu'), gpu'[i] = gpu'[j]
                   PROVE  i = j \/ gpu'[i] \in loose
        BY <1>2 DEF SubmittedOnce
      <4>1. CASE i \in 1..Len(gpu) /\ j \in 1..Len(gpu)
        BY <3>2, <4>1 DEF ListInv, SubmittedOnce
      <4>2. CASE i = Len(gpu) + 1 \/ j = Len(gpu) + 1
        BY <1>6, <3>2, <4>2
      <4> QED BY <3>2, <4>1, <4>2
    <3>4. PendingIsAwaited'
      BY <3>2, <1>1, <1>2, <1>7 DEF PendingIsAwaited
    <3>5. QED BY <3>3, <3>4
  <2>3. QED BY <1>2, <2>1, <2>2
<1>9. QED BY <1>3, <1>4, <1>5, <1>8, <1>11 DEF ListInv

\* What the end of a wait leaves behind: the fence was signalled or the list
\* is loose.
WaitEnded(c) ==
  /\ cmd' = cmd /\ sub' = sub /\ recycler' = recycler /\ gpu' = gpu /\ signalled' = signalled
  /\ step[c] = "wait" /\ step' = [step EXCEPT ![c] = "reset"]
  /\ loose \subseteq loose' /\ loose' \subseteq loose \cup {sub[c]}
  /\ sub[c] \in signalled \/ sub[c] \in loose'

LEMMA WaitEnds ==
  ASSUME NEW c \in Contexts, Synchronize(c) \/ SynchronizeFails(c)
  PROVE  WaitEnded(c)
BY DEF Synchronize, SynchronizeFails, Fails, WaitEnded

LEMMA SynchronizeKeeps ==
  ASSUME ListInv, NEW c \in Contexts, WaitEnded(c)
  PROVE  ListInv'
<1>1. /\ cmd' = cmd /\ sub' = sub /\ recycler' = recycler /\ gpu' = gpu /\ signalled' = signalled
      /\ step[c] = "wait" /\ step'[c] = "reset"
      /\ \A d \in Contexts \ {c} : step'[d] = step[d]
      /\ loose \subseteq loose' /\ loose' \subseteq loose \cup {sub[c]}
      /\ sub[c] \in signalled \/ sub[c] \in loose'
  BY DEF WaitEnded, ListInv, OwnTypes
<1>2. OwnTypes'
  <2>1. sub[c] \in Lists
    BY <1>1 DEF ListInv, InSubmit, OwnTypes, ListOrNil
  <2> QED BY <1>1, <2>1 DEF WaitEnded, ListInv, OwnTypes
<1>3. Recording' /\ InSubmit' /\ SlotsFilled' /\ SubmittedOnce' /\ Owned'
  BY <1>1 DEF ListInv, Recording, InSubmit, SlotsFilled, SubmittedOnce, Owned
<1>4. PendingIsAwaited'
  BY <1>1 DEF ListInv, PendingIsAwaited
<1>5. QED BY <1>2, <1>3, <1>4 DEF ListInv

LEMMA ResetKeeps ==
  ASSUME ListInv, NEW c \in Contexts, Reset(c)
  PROVE  ListInv'
<1>1. /\ cmd' = cmd /\ sub' = sub /\ recycler' = recycler /\ gpu' = gpu /\ signalled' = signalled
      /\ loose' = loose /\ step[c] = "reset" /\ step'[c] = "recycle"
      /\ \A d \in Contexts \ {c} : step'[d] = step[d]
  BY DEF Reset, ListInv, OwnTypes
<1>2. OwnTypes'
  BY <1>1 DEF Reset, ListInv, OwnTypes
<1>3. Recording' /\ InSubmit' /\ SlotsFilled' /\ SubmittedOnce' /\ Owned'
  BY <1>1 DEF ListInv, Recording, InSubmit, SlotsFilled, SubmittedOnce, Owned
<1>4. PendingIsAwaited'
  BY <1>1 DEF ListInv, PendingIsAwaited
<1>5. QED BY <1>2, <1>3, <1>4 DEF ListInv

LEMMA RecycleKeeps ==
  ASSUME ListInv, NEW c \in Contexts, Recycle(c)
  PROVE  ListInv'
<1> USE CapacityAssumption, NilAssumption
<1>1. /\ cmd' = cmd /\ gpu' = gpu /\ signalled' = signalled /\ loose' = loose /\ step[c] = "recycle"
      /\ sub'[c] = Nil /\ step'[c] = "record" /\ recycler' = Returned(sub[c])
      /\ \A d \in Contexts \ {c} : sub'[d] = sub[d] /\ step'[d] = step[d]
  BY DEF Recycle, ListInv, OwnTypes
<1>2. sub[c] \in Lists /\ sub[c] # Nil
  BY <1>1 DEF ListInv, InSubmit, OwnTypes, ListOrNil
<1>3. recycler' \in [objects : [1..Capacity -> ListOrNil], id : 0..Capacity]
  BY <1>1, <1>2 DEF Returned, ListInv, OwnTypes, ListOrNil
<1>4. OwnTypes'
  BY <1>1, <1>3 DEF Recycle, ListInv, OwnTypes, ListOrNil
<1>5. Recording' /\ InSubmit' /\ SubmittedOnce'
  BY <1>1, <1>2 DEF ListInv, Recording, InSubmit, SubmittedOnce
<1>6. \A i \in 1..recycler'.id :
        \/ i \in 1..recycler.id /\ recycler'.objects[i] = recycler.objects[i]
        \/ i = recycler.id + 1 /\ recycler'.objects[i] = sub[c]
  BY <1>1 DEF Returned, ListInv, OwnTypes
<1>7. SlotsFilled'
  BY <1>2, <1>6 DEF ListInv, SlotsFilled
<1>8. Owned'
  <2>1. \A i \in 1..recycler'.id : \A d \in Contexts :
          recycler'.objects[i] # cmd[d] /\ recycler'.objects[i] # sub'[d]
    BY <1>1, <1>2, <1>6, <1>7 DEF ListInv, Owned, SlotsFilled
  <2>2. \A i, j \in 1..recycler'.id : i # j => recycler'.objects[i] # recycler'.objects[j]
    BY <1>6 DEF ListInv, Owned
  <2>3. QED BY <1>1, <2>1, <2>2 DEF ListInv, Owned
<1>9. PendingIsAwaited'
  BY <1>1 DEF ListInv, PendingIsAwaited
<1>10. QED BY <1>4, <1>5, <1>7, <1>8, <1>9 DEF ListInv

LEMMA FinishKeeps ==
  ASSUME ListInv, GpuFinish
  PROVE  ListInv'
<1>1. /\ cmd' = cmd /\ sub' = sub /\ step' = step /\ recycler' = recycler /\ loose' = loose
      /\ gpu # <<>> /\ gpu' = Tail(gpu) /\ signalled' = signalled \cup {Head(gpu)}
  BY DEF GpuFinish
<1>2. gpu \in Seq(Lists)
  BY DEF ListInv, OwnTypes
<1>3. /\ Head(gpu) = gpu[1] /\ Len(gpu) \in Nat /\ Len(gpu) > 0
      /\ gpu' \in Seq(Lists) /\ Len(gpu') = Len(gpu) - 1
      /\ \A i \in 1..Len(gpu') : gpu'[i] = gpu[i + 1]
      /\ Head(gpu) \in Lists
  BY <1>1, <1>2, HeadTailProperties
<1>4. OwnTypes'
  BY <1>1, <1>3 DEF ListInv, OwnTypes
<1>5. InSubmit' /\ SlotsFilled' /\ Owned'
  BY <1>1 DEF ListInv, InSubmit, SlotsFilled, Owned
<1>6. SubmittedOnce'
  <2> SUFFICES ASSUME NEW i \in 1..Len(gpu'), NEW j \in 1..Len(gpu'), gpu'[i] = gpu'[j]
               PROVE  i = j \/ gpu'[i] \in loose
    BY <1>1 DEF SubmittedOnce
  <2>1. i + 1 \in 1..Len(gpu) /\ j + 1 \in 1..Len(gpu) /\ gpu[i + 1] = gpu[j + 1]
    BY <1>3
  <2>2. i + 1 = j + 1 \/ gpu[i + 1] \in loose
    BY <2>1 DEF ListInv, SubmittedOnce
  <2>3. QED BY <1>3, <2>1, <2>2
<1>7. Recording'
  <2>1. Head(gpu) \in Range(gpu) /\ Range(gpu') \subseteq Range(gpu)
    <3>1. DOMAIN gpu' = 1..Len(gpu') /\ DOMAIN gpu = 1..Len(gpu)
      BY <1>2, <1>3
    <3>2. \A i \in 1..Len(gpu') : i + 1 \in 1..Len(gpu)
      BY <1>3
    <3>3. 1 \in 1..Len(gpu)
      BY <1>3
    <3>4. Head(gpu) \in Range(gpu)
      BY <1>3, <3>1, <3>3 DEF Range
    <3>5. \A i \in 1..Len(gpu') : gpu'[i] \in Range(gpu)
      BY <1>3, <3>1, <3>2 DEF Range
    <3>6. Range(gpu') = {gpu'[i] : i \in 1..Len(gpu')}
      BY <3>1 DEF Range
    <3> QED BY <3>4, <3>5, <3>6
  <2>2. QED BY <1>1, <2>1 DEF ListInv, Recording
<1>8. PendingIsAwaited'
  <2> SUFFICES ASSUME NEW i \in 1..Len(gpu'), gpu'[i] \notin loose
               PROVE  gpu'[i] \notin signalled'
                        /\ \E c \in Contexts : sub'[c] = gpu'[i] /\ step'[c] = "wait"
    BY <1>1 DEF PendingIsAwaited
  <2>1. i + 1 \in 1..Len(gpu) /\ 1 \in 1..Len(gpu) /\ i + 1 # 1
    BY <1>3
  <2>2. gpu[i + 1] # gpu[1] /\ gpu'[i] = gpu[i + 1]
    BY <1>3, <2>1 DEF ListInv, SubmittedOnce
  <2>3. QED BY <1>1, <1>3, <2>1, <2>2 DEF ListInv, PendingIsAwaited
<1>9. QED BY <1>4, <1>5, <1>6, <1>7, <1>8 DEF ListInv

LEMMA UnchangedKeeps ==
  ASSUME ListInv, UNCHANGED whereVars
  PROVE  ListInv'
  BY DEF whereVars, ListInv, OwnTypes, Recording, InSubmit, SlotsFilled, SubmittedOnce, Owned,
         PendingIsAwaited

LEMMA ListStep ==
  ASSUME ListInv, [Next]_vars
  PROVE  ListInv'
<1>1. ASSUME NEW c \in Contexts, BeginRecording(c) PROVE ListInv'
  BY <1>1, BeginKeeps
<1>2. ASSUME NEW c \in Contexts, NEW u \in Uses, TrackResource(c, u) PROVE ListInv'
  BY <1>2, UnchangedKeeps DEF TrackResource, whereVars
<1>3. ASSUME NEW c \in Contexts, ThreadStep(c) PROVE ListInv'
  BY <1>3, SubmitKeeps, WaitEnds, SynchronizeKeeps, ResetKeeps, RecycleKeeps DEF ThreadStep
<1>4. ASSUME GpuFinish PROVE ListInv'
  BY <1>4, FinishKeeps
<1>5. CASE UNCHANGED vars
  BY <1>5, UnchangedKeeps DEF vars, whereVars
<1>6. QED BY <1>1, <1>2, <1>3, <1>4, <1>5 DEF Next

LEMMA ListInit ==
  ASSUME Init
  PROVE  ListInv
<1> USE CapacityAssumption
<1>1. OwnTypes
  BY DEF Init, OwnTypes, ListOrNil
<1>2. recycler.id = 0 /\ Len(gpu) = 0
  BY DEF Init
<1>3. Recording /\ InSubmit
  BY DEF Init, Recording, InSubmit
<1>4. SlotsFilled /\ SubmittedOnce /\ PendingIsAwaited
  BY <1>2 DEF SlotsFilled, SubmittedOnce, PendingIsAwaited
<1>5. Owned
  BY <1>2 DEF Init, Owned
<1>6. QED BY <1>1, <1>3, <1>4, <1>5 DEF ListInv

\* The inductive invariant of the command lists.
THEOREM ListInvariant == Spec => []ListInv
<1>1. Init => ListInv
  BY ListInit
<1>2. ListInv /\ [Next]_vars => ListInv'
  BY ListStep
<1>3. QED BY <1>1, <1>2, PTL DEF Spec

\* A command list is recorded by one context, submitted by one thread, or in
\* one slot of the recycler, and never two of these.
THEOREM ListsAreOwnedOnce == Spec => []ListOwnedOnce
<1>1. ListInv => ListOwnedOnce
  BY OwnedEnough DEF ListInv
<1>2. QED BY <1>1, ListInvariant, PTL

\* A list on the GPU is not reset, recycled or recorded, and its fence is not
\* taken for signalled by an earlier execution; unless a wait for this list, or
\* the reset of its fence, failed since it was last begun well.
THEOREM PendingListsAreAwaited == Spec => []PendingIsAwaited
<1>1. ListInv => PendingIsAwaited
  BY DEF ListInv
<1>2. QED BY <1>1, ListInvariant, PTL

------------------------------------------------------------------------------
(* The life of the lists (VltListLife).  *)

\* What is done with the list of d does not change.
SameFor(d) == cmd'[d] = cmd[d] /\ sub'[d] = sub[d] /\ step'[d] = step[d]

LEMMA StageValues ==
  ASSUME NEW d \in Contexts
  PROVE  /\ ListOf[d] = IF cmd[d] # Nil THEN cmd[d] ELSE sub[d]
         /\ cmd[d] # Nil => StageOf[d] = "recording"
         /\ cmd[d] = Nil /\ step[d] = "record" => StageOf[d] = "idle"
         /\ cmd[d] = Nil /\ step[d] = "wait" => StageOf[d] = "pending"
         /\ cmd[d] = Nil /\ step[d] \in {"reset", "recycle"} => StageOf[d] = "executed"
  BY DEF ListOf, StageOf

LEMMA StageValuesNext ==
  ASSUME NEW d \in Contexts
  PROVE  /\ ListOf'[d] = IF cmd'[d] # Nil THEN cmd'[d] ELSE sub'[d]
         /\ cmd'[d] # Nil => StageOf'[d] = "recording"
         /\ cmd'[d] = Nil /\ step'[d] = "record" => StageOf'[d] = "idle"
         /\ cmd'[d] = Nil /\ step'[d] = "wait" => StageOf'[d] = "pending"
         /\ cmd'[d] = Nil /\ step'[d] \in {"reset", "recycle"} => StageOf'[d] = "executed"
  BY DEF ListOf, StageOf

LEMMA SameStage ==
  ASSUME NEW d \in Contexts, SameFor(d)
  PROVE  ListOf'[d] = ListOf[d] /\ StageOf'[d] = StageOf[d]
  BY DEF SameFor, ListOf, StageOf

\* A step of one context changes the list and the stage of that one only.
LEMMA OnlyItsList ==
  ASSUME NEW c \in Contexts, \A d \in Contexts \ {c} : SameFor(d)
  PROVE  /\ ListOf' = [ListOf EXCEPT ![c] = ListOf'[c]]
         /\ StageOf' = [StageOf EXCEPT ![c] = StageOf'[c]]
<1>1. \A d \in Contexts \ {c} : ListOf'[d] = ListOf[d] /\ StageOf'[d] = StageOf[d]
  BY SameStage
<1>2. /\ ListOf = [d \in Contexts |-> ListOf[d]] /\ ListOf' = [d \in Contexts |-> ListOf'[d]]
      /\ StageOf = [d \in Contexts |-> StageOf[d]] /\ StageOf' = [d \in Contexts |-> StageOf'[d]]
  BY DEF ListOf, StageOf
<1>3. QED BY <1>1, <1>2

LEMMA SameLife ==
  ASSUME \A d \in Contexts : ListOf'[d] = ListOf[d] /\ StageOf'[d] = StageOf[d],
         Range(gpu)' = Range(gpu), loose' = loose
  PROVE  UNCHANGED Life!lifeVars
<1>1. /\ ListOf = [d \in Contexts |-> ListOf[d]] /\ ListOf' = [d \in Contexts |-> ListOf'[d]]
      /\ StageOf = [d \in Contexts |-> StageOf[d]] /\ StageOf' = [d \in Contexts |-> StageOf'[d]]
  BY DEF ListOf, StageOf
<1>2. QED BY <1>1 DEF Life!lifeVars

\* The list that is taken is no context's, and the GPU does not have it,
\* unless it is loose.
LEMMA BeginLives ==
  ASSUME ListInv, NEW c \in Contexts, BeginRecording(c)
  PROVE  Life!Begin(c)
<1>1. PICK l \in Lists : Retrieve(l) /\ cmd' = [cmd EXCEPT ![c] = l] /\ ResetFence(l)
  BY DEF BeginRecording
<1>2. sub' = sub /\ step' = step /\ gpu' = gpu /\ step[c] = "record" /\ cmd'[c] = l /\ l # Nil
      /\ \A d \in Contexts \ {c} : cmd'[d] = cmd[d]
  BY <1>1, NilAssumption DEF BeginRecording, ListInv, OwnTypes
<1>3. \A d \in Contexts : cmd[d] # l /\ sub[d] # l
  BY <1>1, RetrieveFresh
<1>4. \A d \in Contexts : ListOf[d] # l
  BY <1>3 DEF ListOf
<1>5. \A d \in Contexts \ {c} : SameFor(d)
  BY <1>2 DEF SameFor
<1>6. StageOf[c] \in {"idle", "recording"}
  BY <1>2, StageValues
<1>7. ListOf'[c] = l /\ StageOf'[c] = "recording"
  BY <1>2, StageValuesNext
<1>8. ListOf' = [ListOf EXCEPT ![c] = l] /\ StageOf' = [StageOf EXCEPT ![c] = "recording"]
  BY <1>5, <1>7, OnlyItsList
<1>9. l \in Range(gpu) => l \in loose'
  BY <1>1, ResetWell DEF BegunWell
<1>10. loose' \in {loose, loose \ {l}} \/ Life!Loosen(l)
  BY <1>1 DEF ResetFence, Fails, Life!Loosen
<1>11. UNCHANGED Range(gpu)
  BY <1>2
<1>12. QED BY <1>4, <1>6, <1>8, <1>9, <1>10, <1>11 DEF Life!Begin

LEMMA SubmitLives ==
  ASSUME ListInv, NEW c \in Contexts, Submit(c)
  PROVE  Life!Submitted(c)
<1>1. /\ cmd[c] # Nil /\ cmd[c] \in Lists /\ loose' = loose
      /\ cmd'[c] = Nil /\ sub'[c] = cmd[c] /\ step'[c] = "wait"
      /\ \A d \in Contexts \ {c} : cmd'[d] = cmd[d] /\ sub'[d] = sub[d] /\ step'[d] = step[d]
      /\ gpu' = Append(gpu, cmd[c]) \/ gpu' = gpu
  BY DEF Submit, ListInv, OwnTypes, ListOrNil
<1>2. StageOf[c] = "recording" /\ ListOf[c] = cmd[c]
  BY <1>1, StageValues
<1>3. StageOf'[c] = "pending" /\ ListOf'[c] = cmd[c]
  BY <1>1, StageValuesNext
<1>4. \A d \in Contexts \ {c} : SameFor(d)
  BY <1>1 DEF SameFor
<1>5. \A d \in Contexts : ListOf'[d] = ListOf[d]
  BY <1>2, <1>3, <1>4, SameStage
<1>6. ListOf' = ListOf
  BY <1>5 DEF ListOf
<1>7. StageOf' = [StageOf EXCEPT ![c] = "pending"]
  BY <1>3, <1>4, OnlyItsList
<1>8. Range(gpu)' \in {Range(gpu), Range(gpu) \cup {cmd[c]}}
  <2>1. CASE gpu' = gpu
    BY <2>1
  <2>2. CASE gpu' = Append(gpu, cmd[c])
    <3>1. gpu \in Seq(Lists)
      BY DEF ListInv, OwnTypes
    <3>2. /\ DOMAIN gpu' = 1..Len(gpu) + 1 /\ gpu'[Len(gpu) + 1] = cmd[c] /\ Len(gpu) \in Nat
          /\ \A i \in 1..Len(gpu) : gpu'[i] = gpu[i]
          /\ DOMAIN gpu = 1..Len(gpu)
      BY <2>2, <3>1, <1>1
    <3>3. Range(gpu') = Range(gpu) \cup {cmd[c]}
      <4>1. Range(gpu') \subseteq Range(gpu) \cup {cmd[c]}
        BY <3>2 DEF Range
      <4>2. \A i \in 1..Len(gpu) : i \in 1..Len(gpu) + 1
        BY <3>2
      <4>3. Range(gpu) \subseteq Range(gpu') /\ cmd[c] \in Range(gpu')
        <5>1. Len(gpu) + 1 \in 1..Len(gpu) + 1
          BY <3>2
        <5> QED BY <3>2, <4>2, <5>1 DEF Range
      <4> QED BY <4>1, <4>3
    <3> QED BY <3>3
  <2>3. QED BY <1>1, <2>1, <2>2
<1>9. QED BY <1>1, <1>2, <1>6, <1>7, <1>8 DEF Life!Submitted

\* A signalled fence tells that the GPU does not have the list, unless it is
\* loose; a wait that fails makes it loose.
LEMMA WaitLives ==
  ASSUME ListInv, NEW c \in Contexts, Synchronize(c) \/ SynchronizeFails(c)
  PROVE  Life!Executed(c)
<1>1. WaitEnded(c)
  BY WaitEnds
<1>2. /\ cmd' = cmd /\ sub' = sub /\ gpu' = gpu
      /\ step[c] = "wait" /\ step'[c] = "reset" /\ cmd[c] = Nil
      /\ \A d \in Contexts \ {c} : step'[d] = step[d]
  BY <1>1 DEF WaitEnded, ListInv, OwnTypes, Recording
<1>3. StageOf[c] = "pending" /\ ListOf[c] = sub[c] /\ StageOf'[c] = "executed"
  BY <1>2, StageValues, StageValuesNext
<1>4. ListOf' = ListOf
  BY <1>2 DEF ListOf
<1>5. StageOf' = [StageOf EXCEPT ![c] = "executed"]
  <2>1. \A d \in Contexts \ {c} : SameFor(d)
    BY <1>2 DEF SameFor
  <2> QED BY <1>3, <2>1, OnlyItsList
<1>6. sub[c] \in Range(gpu) => sub[c] \in loose'
  BY <1>1, QueuedLists DEF WaitEnded, ListInv, PendingIsAwaited
<1>7. loose' = loose \/ Life!Loosen(sub[c])
  BY DEF Synchronize, SynchronizeFails, Fails, Life!Loosen
<1>8. Range(gpu)' = Range(gpu)
  BY <1>2
<1>9. QED BY <1>3, <1>4, <1>5, <1>6, <1>7, <1>8 DEF Life!Executed

\* The reset and the tracking of uses are steps within a stage.
LEMMA WithinAStage ==
  ASSUME ListInv, NEW c \in Contexts, Reset(c) \/ \E u \in Uses : TrackResource(c, u)
  PROVE  UNCHANGED Life!lifeVars
<1>1. ASSUME Reset(c) PROVE UNCHANGED Life!lifeVars
  <2>1. /\ cmd' = cmd /\ sub' = sub /\ gpu' = gpu /\ loose' = loose /\ step[c] = "reset"
        /\ step'[c] = "recycle" /\ cmd[c] = Nil
        /\ \A d \in Contexts \ {c} : step'[d] = step[d]
    BY <1>1 DEF Reset, ListInv, OwnTypes, Recording
  <2>2. ListOf'[c] = ListOf[c] /\ StageOf'[c] = StageOf[c]
    BY <2>1, StageValues, StageValuesNext
  <2>3. \A d \in Contexts \ {c} : ListOf'[d] = ListOf[d] /\ StageOf'[d] = StageOf[d]
    BY <2>1, SameStage DEF SameFor
  <2>4. QED BY <2>1, <2>2, <2>3, SameLife
<1>2. ASSUME NEW u \in Uses, TrackResource(c, u) PROVE UNCHANGED Life!lifeVars
  BY <1>2 DEF TrackResource, Life!lifeVars, ListOf, StageOf
<1>3. QED BY <1>1, <1>2

LEMMA RecycleLives ==
  ASSUME ListInv, NEW c \in Contexts, Recycle(c)
  PROVE  Life!Return(c)
<1>1. /\ cmd' = cmd /\ gpu' = gpu /\ loose' = loose /\ step[c] = "recycle" /\ cmd[c] = Nil
      /\ sub'[c] = Nil /\ step'[c] = "record"
      /\ \A d \in Contexts \ {c} : sub'[d] = sub[d] /\ step'[d] = step[d]
  BY DEF Recycle, ListInv, OwnTypes, Recording
<1>2. StageOf[c] = "executed"
  BY <1>1, StageValues
<1>3. StageOf'[c] = "idle" /\ ListOf'[c] = Nil
  BY <1>1, StageValuesNext
<1>4. \A d \in Contexts \ {c} : SameFor(d)
  BY <1>1 DEF SameFor
<1>5. ListOf' = [ListOf EXCEPT ![c] = Nil] /\ StageOf' = [StageOf EXCEPT ![c] = "idle"]
  BY <1>3, <1>4, OnlyItsList
<1>6. QED BY <1>1, <1>2, <1>5 DEF Life!Return

\* A list the GPU has twice, which is a loose one, is still running when the
\* first of its submissions is finished.
LEMMA FinishLives ==
  ASSUME ListInv, GpuFinish
  PROVE  (\E l \in Range(gpu) : Life!Finished(l)) \/ UNCHANGED Life!lifeVars
<1>1. /\ cmd' = cmd /\ sub' = sub /\ step' = step /\ loose' = loose
      /\ gpu # <<>> /\ gpu' = Tail(gpu)
  BY DEF GpuFinish
<1>2. ListOf' = ListOf /\ StageOf' = StageOf
  BY <1>1 DEF ListOf, StageOf
<1>3. gpu \in Seq(Lists)
  BY DEF ListInv, OwnTypes
<1>4. PICK h \in Lists : h = gpu[1]
  BY <1>1, <1>3, HeadTailProperties
<1>5. /\ Len(gpu) \in Nat /\ Len(gpu) > 0 /\ DOMAIN gpu = 1..Len(gpu)
      /\ DOMAIN gpu' = 1..Len(gpu) - 1 /\ \A i \in 1..Len(gpu) - 1 : gpu'[i] = gpu[i + 1]
  BY <1>1, <1>3, HeadTailProperties
<1>6. h \in Range(gpu)
  <2>1. 1 \in 1..Len(gpu)
    BY <1>5
  <2> QED BY <1>4, <1>5, <2>1 DEF Range
<1>7. Range(gpu') \cup {h} = Range(gpu)
  <2>1. ASSUME NEW i \in 1..Len(gpu) - 1 PROVE gpu'[i] \in Range(gpu)
    <3>1. i + 1 \in 1..Len(gpu)
      BY <1>5
    <3> QED BY <1>5, <3>1 DEF Range
  <2>2. ASSUME NEW i \in 1..Len(gpu), i # 1 PROVE gpu[i] \in Range(gpu')
    <3>1. i - 1 \in 1..Len(gpu) - 1 /\ (i - 1) + 1 = i
      BY <1>5, <2>2
    <3>2. gpu'[i - 1] = gpu[i]
      BY <1>5, <3>1
    <3> QED BY <1>5, <3>1, <3>2 DEF Range
  <2>3. Range(gpu') \subseteq Range(gpu)
    BY <1>5, <2>1 DEF Range
  <2>4. \A x \in Range(gpu) : x = h \/ x \in Range(gpu')
    BY <1>4, <1>5, <2>2 DEF Range
  <2> QED BY <1>6, <2>3, <2>4
<1>8. CASE h \in Range(gpu')
  <2>1. Range(gpu)' = Range(gpu)
    BY <1>7, <1>8
  <2> QED BY <1>1, <1>2, <2>1 DEF Life!lifeVars
<1>9. CASE h \notin Range(gpu')
  <2>1. Range(gpu)' = Range(gpu) \ {h}
    BY <1>7, <1>9
  <2>2. Life!Finished(h)
    BY <1>1, <1>2, <2>1 DEF Life!Finished
  <2> QED BY <1>6, <2>2
<1>10. QED BY <1>8, <1>9

LEMMA LifeStep ==
  ASSUME ListInv, [Next]_vars
  PROVE  [Life!LifeNext]_(Life!lifeVars)
<1>1. ASSUME NEW c \in Contexts, BeginRecording(c) PROVE Life!LifeNext
  BY <1>1, BeginLives DEF Life!LifeNext
<1>2. ASSUME NEW c \in Contexts, Submit(c) PROVE Life!LifeNext
  BY <1>2, SubmitLives DEF Life!LifeNext
<1>3. ASSUME NEW c \in Contexts, Synchronize(c) \/ SynchronizeFails(c) PROVE Life!LifeNext
  BY <1>3, WaitLives DEF Life!LifeNext
<1>4. ASSUME NEW c \in Contexts, Reset(c) \/ \E u \in Uses : TrackResource(c, u)
      PROVE  UNCHANGED Life!lifeVars
  BY <1>4, WithinAStage
<1>5. ASSUME NEW c \in Contexts, Recycle(c) PROVE Life!LifeNext
  BY <1>5, RecycleLives DEF Life!LifeNext
<1>6. ASSUME GpuFinish PROVE [Life!LifeNext]_(Life!lifeVars)
  BY <1>6, FinishLives DEF Life!LifeNext
<1>7. ASSUME UNCHANGED vars PROVE UNCHANGED Life!lifeVars
  BY <1>7 DEF vars, Life!lifeVars, ListOf, StageOf
<1>8. QED BY <1>1, <1>2, <1>3, <1>4, <1>5, <1>6, <1>7 DEF Next, ThreadStep

\* Whatever the recycler, the fences, the driver and the other threads do, the
\* list of a context is its own from beginRecording to the end of submit(); it
\* is returned only after it was submitted, and not while the GPU has it,
\* unless a wait for it or the reset of its fence failed: VltCommandLists
\* implements VltListLife.
THEOREM ListsLive == Spec => ListsFollowTheirLife
<1>1. Init => Life!LifeInit
  BY DEF Init, Life!LifeInit, ListOf, StageOf, Range
<1>2. ListInv /\ [Next]_vars => [Life!LifeNext]_(Life!lifeVars)
  BY LifeStep
<1>3. QED BY <1>1, <1>2, ListInvariant, PTL DEF Spec, ListsFollowTheirLife, Life!LifeSpec

------------------------------------------------------------------------------
(* The uses the lists hold.  *)

UseTypes ==
  /\ tracked \in [Lists -> [Uses -> Nat]]
  /\ useCount \in [Uses -> Nat]
  /\ notified \subseteq Lists

\* A list nothing refers to has been reset.
DestroyedAreEmpty == \A l \in Lists \ Referenced : tracked[l] = NoUses

UseInv == UseTypes /\ DestroyedAreEmpty /\ UsesCovered

LEMMA HeldFinite ==
  ASSUME tracked \in [Lists -> [Uses -> Nat]], NEW S \in SUBSET Lists, NEW u \in Uses
  PROVE  IsFiniteSet(Held(S, u)) /\ Cardinality(Held(S, u)) \in Nat
<1> DEFINE entries == [l \in S |-> {l} \X (1..tracked[l][u])]
<1> DEFINE T == {{l} \X (1..tracked[l][u]) : l \in S}
<1>1. IsFiniteSet(S)
  BY ListsAssumption, FS_Subset
<1>2. entries \in Surjection(S, T)
  BY DEF Surjection
<1>3. IsFiniteSet(T)
  BY <1>1, <1>2, FS_Surjection
<1>4. ASSUME NEW l \in S PROVE IsFiniteSet({l} \X (1..tracked[l][u]))
  <2>1. PICK n \in Nat : n = tracked[l][u]
    OBVIOUS
  <2>2. IsFiniteSet({l})
    BY FS_Singleton
  <2>3. 1 \in Int /\ n \in Int
    OBVIOUS
  <2>4. IsFiniteSet(1..n)
    BY <2>3, FS_Interval
  <2>5. IsFiniteSet({l} \X (1..n))
    BY <2>2, <2>4, FS_Product
  <2> QED BY <2>1, <2>5
<1>5. IsFiniteSet(UNION T)
  BY <1>3, <1>4, FS_UNION
<1> QED BY <1>5, FS_CardinalityType DEF Held

\* The entries of two sets of lists that share none.
LEMMA HeldSum ==
  ASSUME tracked \in [Lists -> [Uses -> Nat]], NEW u \in Uses,
         NEW S \in SUBSET Lists, NEW T \in SUBSET Lists, S \cap T = {}
  PROVE  Cardinality(Held(S \cup T, u)) = Cardinality(Held(S, u)) + Cardinality(Held(T, u))
<1>1. Held(S \cup T, u) = Held(S, u) \cup Held(T, u)
  BY DEF Held
<1>2. Held(S, u) \cap Held(T, u) = {}
  BY DEF Held
<1>3. /\ IsFiniteSet(Held(S, u)) /\ IsFiniteSet(Held(T, u))
      /\ Cardinality(Held(S, u)) \in Nat /\ Cardinality(Held(T, u)) \in Nat
  BY HeldFinite
<1>4. Cardinality({}) = 0
  BY FS_EmptySet
<1>5. Cardinality(Held(S, u) \cup Held(T, u))
        = Cardinality(Held(S, u)) + Cardinality(Held(T, u)) - Cardinality(Held(S, u) \cap Held(T, u))
  BY <1>3, FS_Union
<1>6. Cardinality(Held(S \cup T, u)) = Cardinality(Held(S, u) \cup Held(T, u))
  BY <1>1, Zenon
<1>7. Cardinality(Held(S, u) \cap Held(T, u)) = 0
  BY <1>2, <1>4, Zenon
<1> QED BY <1>3, <1>5, <1>6, <1>7

LEMMA HeldPart ==
  ASSUME tracked \in [Lists -> [Uses -> Nat]], NEW u \in Uses,
         NEW S \in SUBSET Lists, NEW T \in SUBSET S
  PROVE  Cardinality(Held(T, u)) <= Cardinality(Held(S, u))
<1>1. Held(T, u) \subseteq Held(S, u)
  BY DEF Held
<1>2. IsFiniteSet(Held(S, u))
  BY HeldFinite
<1> QED BY <1>1, <1>2, FS_Subset

\* Lists that have nothing in them hold nothing.
LEMMA EmptyHoldNothing ==
  ASSUME NEW u \in Uses, NEW S, \A l \in S : tracked[l] = NoUses
  PROVE  Held(S, u) = {}
BY DEF Held, NoUses

\* The lists that are dropped give back what they hold, and those that remain
\* or that are new hold no more than before.
LEMMA DropKeepsUses ==
  ASSUME UseInv, NEW dead \in SUBSET Lists, DropUses(dead),
         Referenced \subseteq Lists, Referenced' \subseteq Lists,
         Referenced \ Referenced' \subseteq dead, dead \subseteq Referenced,
         notified' \subseteq Lists
  PROVE  UseInv'
<1> DEFINE kept == Referenced \ dead
<1>1. UseTypes /\ DestroyedAreEmpty /\ UsesCovered
  BY DEF UseInv
<1>2. \A l \in Lists : tracked'[l] = IF l \in dead THEN NoUses ELSE tracked[l]
  BY DEF DropUses
<1>3. tracked' \in [Lists -> [Uses -> Nat]]
  <2>1. NoUses \in [Uses -> Nat]
    BY DEF NoUses
  <2> QED BY <1>1, <2>1 DEF DropUses, UseTypes
<1>4. DestroyedAreEmpty'
  BY <1>1, <1>2 DEF DestroyedAreEmpty
<1>5. ASSUME NEW u \in Uses
      PROVE  /\ useCount'[u] \in Nat
             /\ useCount'[u] >= Cardinality(Held(Referenced, u)')
  <2>1. useCount'[u] = useCount[u] - Cardinality(Held(dead \ notified, u))
    BY DEF DropUses, Release
  <2>2. /\ Cardinality(Held(dead \ notified, u)) <= Cardinality(Held(dead, u))
        /\ Cardinality(Held(dead \ notified, u)) \in Nat
        /\ Cardinality(Held(dead, u)) \in Nat
        /\ Cardinality(Held(kept, u)) \in Nat
    BY <1>1, HeldPart, HeldFinite DEF UseTypes
  <2>3. Cardinality(Held(Referenced, u)) = Cardinality(Held(kept, u)) + Cardinality(Held(dead, u))
    <3>1. Referenced = kept \cup dead /\ kept \cap dead = {}
      OBVIOUS
    <3> QED BY <1>1, <3>1, HeldSum DEF UseTypes
  <2>4. useCount[u] \in Nat /\ useCount[u] >= Cardinality(Held(Referenced, u))
    BY <1>1 DEF UseTypes, UsesCovered
  <2>5. Held(Referenced, u)' \subseteq Held(kept, u)
    <3> SUFFICES ASSUME NEW l \in Referenced', NEW i \in 1..tracked'[l][u]
                 PROVE  <<l, i>> \in Held(kept, u)
      BY DEF Held
    <3>1. tracked'[l] # NoUses
      <4>1. 1..0 = {}
        OBVIOUS
      <4> QED BY <4>1 DEF NoUses
    <3>2. l \notin dead /\ tracked'[l] = tracked[l] /\ l \in Lists
      BY <1>2, <3>1
    <3>3. l \in Referenced
      BY <1>1, <3>1, <3>2 DEF DestroyedAreEmpty
    <3> QED BY <3>2, <3>3 DEF Held
  <2>6. Cardinality(Held(Referenced, u)') <= Cardinality(Held(kept, u))
    <3>1. IsFiniteSet(Held(kept, u))
      BY <1>1, HeldFinite DEF UseTypes
    <3> QED BY <2>5, <3>1, FS_Subset
  <2>7. Cardinality(Held(Referenced, u)') \in Nat
    <3>1. IsFiniteSet(Held(kept, u))
      BY <1>1, HeldFinite DEF UseTypes
    <3> QED BY <2>5, <3>1, FS_Subset, FS_CardinalityType
  <2> QED BY <2>1, <2>2, <2>3, <2>4, <2>6, <2>7
<1>6. useCount' \in [Uses -> Nat]
  BY <1>5 DEF DropUses, Release
<1>7. UsesCovered'
  BY <1>5 DEF UsesCovered
<1> QED BY <1>3, <1>4, <1>6, <1>7 DEF UseInv, UseTypes

LEMMA ReferencedAreLists ==
  ASSUME OwnTypes
  PROVE  Referenced \subseteq Lists
BY DEF OwnTypes, Referenced, Range, ListOrNil

LEMMA TrackKeepsUses ==
  ASSUME ListInv, UseInv, NEW c \in Contexts, NEW u \in Uses, TrackResource(c, u)
  PROVE  UseInv'
<1> DEFINE l == cmd[c]
<1>1. /\ UseTypes /\ DestroyedAreEmpty /\ UsesCovered /\ OwnTypes
  BY DEF UseInv, ListInv
<1>2. l \in Referenced /\ l \in Lists
  BY <1>1, NilAssumption DEF TrackResource, OwnTypes, ListOrNil, Referenced, Range
<1>3. UNCHANGED <<cmd, sub, recycler, notified>> /\ Referenced' = Referenced
  BY DEF TrackResource, Referenced
<1>4. /\ tracked' = [tracked EXCEPT ![l][u] = @ + 1]
      /\ useCount' = [useCount EXCEPT ![u] = @ + 1]
  BY DEF TrackResource
<1>5. UseTypes'
  BY <1>1, <1>2, <1>3, <1>4 DEF UseTypes
<1>6. DestroyedAreEmpty'
  BY <1>1, <1>2, <1>3, <1>4 DEF DestroyedAreEmpty, UseTypes
<1>7. ASSUME NEW v \in Uses PROVE useCount'[v] >= Cardinality(Held(Referenced, v)')
  <2>1. useCount[v] \in Nat /\ useCount[v] >= Cardinality(Held(Referenced, v))
    BY <1>1 DEF UseTypes, UsesCovered
  <2>2. IsFiniteSet(Held(Referenced, v)) /\ Cardinality(Held(Referenced, v)) \in Nat
    BY <1>1, ReferencedAreLists, HeldFinite DEF UseTypes
  <2>3. CASE v # u
    <3>1. useCount'[v] = useCount[v] /\ \A k \in Lists : tracked'[k][v] = tracked[k][v]
      BY <1>1, <1>2, <1>4, <2>3 DEF UseTypes
    <3>2. Held(Referenced, v)' = Held(Referenced, v)
      BY <1>1, <1>3, <3>1, ReferencedAreLists DEF Held
    <3> QED BY <2>1, <3>1, <3>2
  <2>4. CASE v = u
    <3> DEFINE entry == <<l, tracked[l][u] + 1>>
    <3>1. /\ useCount'[v] = useCount[v] + 1
          /\ tracked[l][u] \in Nat /\ tracked'[l][u] = tracked[l][u] + 1
          /\ \A k \in Lists \ {l} : tracked'[k][u] = tracked[k][u]
      BY <1>1, <1>2, <1>4, <2>4 DEF UseTypes
    <3>2. Held(Referenced, v)' \subseteq Held(Referenced, v) \cup {entry}
      <4> SUFFICES ASSUME NEW k \in Referenced', NEW i \in 1..tracked'[k][u],
                          <<k, i>> # entry
                   PROVE  <<k, i>> \in Held(Referenced, u)
        BY <2>4 DEF Held
      <4>1. k \in Referenced /\ k \in Lists
        BY <1>1, <1>3, ReferencedAreLists
      <4>2. i \in 1..tracked[k][u]
        BY <3>1, <4>1
      <4> QED BY <4>1, <4>2 DEF Held
    <3>3. /\ IsFiniteSet(Held(Referenced, v) \cup {entry})
          /\ Cardinality(Held(Referenced, v) \cup {entry}) <= Cardinality(Held(Referenced, v)) + 1
      <4>1. PICK x : x = entry
        OBVIOUS
      <4>2. /\ IsFiniteSet(Held(Referenced, v) \cup {x})
            /\ Cardinality(Held(Referenced, v) \cup {x})
                 = IF x \in Held(Referenced, v) THEN Cardinality(Held(Referenced, v))
                                                ELSE Cardinality(Held(Referenced, v)) + 1
        BY <2>2, FS_AddElement
      <4>3. Cardinality(Held(Referenced, v) \cup {x}) <= Cardinality(Held(Referenced, v)) + 1
        BY <2>2, <4>2
      <4> QED BY <4>1, <4>2, <4>3
    <3>4. Cardinality(Held(Referenced, v)') <= Cardinality(Held(Referenced, v) \cup {entry})
      BY <3>2, <3>3, FS_Subset
    <3>5. /\ Cardinality(Held(Referenced, v)') \in Nat
          /\ Cardinality(Held(Referenced, v) \cup {entry}) \in Nat
      BY <3>2, <3>3, FS_Subset, FS_CardinalityType
    <3> QED BY <2>1, <2>2, <3>1, <3>3, <3>4, <3>5
  <2> QED BY <2>3, <2>4
<1>8. UsesCovered'
  BY <1>7 DEF UsesCovered
<1> QED BY <1>5, <1>6, <1>8 DEF UseInv

\* Steps that leave the uses and the references as they are.
LEMMA UsesUntouched ==
  ASSUME UseInv, UNCHANGED <<tracked, useCount, notified>>, Referenced' = Referenced
  PROVE  UseInv'
BY DEF UseInv, UseTypes, DestroyedAreEmpty, UsesCovered, Held

LEMMA UseStep ==
  ASSUME ListInv, UseInv, ListInv', [Next]_vars
  PROVE  UseInv'
<1>1. OwnTypes /\ OwnTypes' /\ UseTypes
  BY DEF ListInv, UseInv
<1>2. Referenced \subseteq Lists /\ Referenced' \subseteq Lists
  <2>1. Referenced \subseteq Lists
    BY <1>1, ReferencedAreLists
  <2>2. Referenced' \subseteq Lists
    <3>1. /\ cmd' \in [Contexts -> ListOrNil] /\ sub' \in [Contexts -> ListOrNil]
          /\ recycler'.objects \in [1..Capacity -> ListOrNil]
      BY <1>1 DEF OwnTypes, ListOrNil
    <3>2. Range(cmd') \cup Range(sub') \cup Range(recycler'.objects) \subseteq ListOrNil
      BY <3>1 DEF Range
    <3> QED BY <3>2 DEF Referenced, ListOrNil
  <2> QED BY <2>1, <2>2
<1>3. ASSUME DestroyUnreferenced PROVE UseInv'
  <2>1. PICK dead \in SUBSET Lists : dead = Referenced \ Referenced'
    BY <1>2
  <2>2. DropUses(dead) /\ notified' \subseteq Lists
    BY <1>1, <1>3, <2>1 DEF DestroyUnreferenced, UseTypes
  <2>3. Referenced \ Referenced' \subseteq dead /\ dead \subseteq Referenced
    BY <2>1
  <2> QED BY <1>2, <2>2, <2>3, DropKeepsUses
<1>4. ASSUME NEW c \in Contexts, BeginRecording(c) PROVE UseInv'
  BY <1>3, <1>4 DEF BeginRecording
<1>5. ASSUME NEW c \in Contexts, NEW u \in Uses, TrackResource(c, u) PROVE UseInv'
  BY <1>5, TrackKeepsUses
<1>6. ASSUME NEW c \in Contexts, Submit(c) PROVE UseInv'
  <2>1. sub[c] = Nil
    BY <1>6 DEF Submit, ListInv, Recording, InSubmit
  <2>2. /\ UNCHANGED <<tracked, useCount, notified, recycler>>
        /\ cmd' = [cmd EXCEPT ![c] = Nil] /\ sub' = [sub EXCEPT ![c] = cmd[c]]
    BY <1>6 DEF Submit
  <2>3. (Range(cmd') \cup Range(sub')) \ {Nil} = (Range(cmd) \cup Range(sub)) \ {Nil}
    <3>1. /\ cmd'[c] = Nil /\ sub'[c] = cmd[c]
          /\ \A d \in Contexts \ {c} : cmd'[d] = cmd[d] /\ sub'[d] = sub[d]
          /\ DOMAIN cmd = Contexts /\ DOMAIN sub = Contexts
          /\ DOMAIN cmd' = Contexts /\ DOMAIN sub' = Contexts
      BY <1>1, <2>2 DEF OwnTypes
    <3> QED BY <2>1, <3>1 DEF Range
  <2>4. Referenced' = Referenced
    BY <2>2, <2>3 DEF Referenced
  <2> QED BY <2>2, <2>4, UsesUntouched
<1>7. ASSUME NEW c \in Contexts, Synchronize(c) \/ SynchronizeFails(c) PROVE UseInv'
  BY <1>7, UsesUntouched DEF Synchronize, SynchronizeFails, Referenced
<1>8. ASSUME NEW c \in Contexts, Reset(c) PROVE UseInv'
  <2>1. UNCHANGED <<cmd, sub, recycler>> /\ Referenced' = Referenced
    BY <1>8 DEF Reset, Referenced
  <2>2. sub[c] \in Lists /\ sub[c] \in Referenced
    BY <1>1, <1>8, NilAssumption DEF Reset, ListInv, InSubmit, OwnTypes, ListOrNil, Referenced, Range
  <2>3. PICK dead \in SUBSET Lists : dead = {sub[c]}
    BY <2>2
  <2>4. DropUses(dead) /\ notified' \subseteq Lists
    BY <1>1, <1>8, <2>2, <2>3 DEF Reset, UseTypes
  <2> QED BY <1>2, <2>1, <2>2, <2>3, <2>4, DropKeepsUses
<1>9. ASSUME NEW c \in Contexts, Recycle(c) PROVE UseInv'
  BY <1>3, <1>9 DEF Recycle
<1>10. ASSUME GpuFinish PROVE UseInv'
  BY <1>10, UsesUntouched DEF GpuFinish, Referenced
<1>11. ASSUME UNCHANGED vars PROVE UseInv'
  BY <1>11, UsesUntouched DEF vars, Referenced
<1> QED BY <1>4, <1>5, <1>6, <1>7, <1>8, <1>9, <1>10, <1>11 DEF Next, ThreadStep

LEMMA UseInit == Init => UseInv
<1> SUFFICES ASSUME Init PROVE UseInv
  OBVIOUS
<1>1. UseTypes /\ DestroyedAreEmpty
  BY DEF Init, UseTypes, DestroyedAreEmpty, NoUses
<1>2. ASSUME NEW u \in Uses PROVE useCount[u] >= Cardinality(Held(Referenced, u))
  <2>1. Referenced \subseteq Lists
    BY DEF Init, Referenced, Range
  <2>2. Held(Referenced, u) = {}
    BY <2>1, EmptyHoldNothing DEF Init
  <2> QED BY <2>2, FS_EmptySet DEF Init, NoUses
<1> QED BY <1>1, <1>2 DEF UseInv, UsesCovered

(* A use count is at least the number of uses that lists someone still refers *)
(* to hold: isInUse() calls no resource idle that such a list uses, and the   *)
(* unsigned counters do not wrap (VltResource.h, VltLifetime.cpp:12-28).      *)
THEOREM UsesAreCovered == Spec => []UsesCovered
<1>1. Init => ListInv /\ UseInv
  BY ListInit, UseInit
<1>2. (ListInv /\ UseInv) /\ [Next]_vars => (ListInv /\ UseInv)'
  BY ListStep, UseStep
<1>3. ListInv /\ UseInv => UsesCovered
  BY DEF UseInv
<1> QED BY <1>1, <1>2, <1>3, PTL DEF Spec

(* Every variable of the command lists keeps its type.                        *)
THEOREM CommandListTypes == Spec => []TypeOK
<1>1. Init => ListInv /\ UseInv
  BY ListInit, UseInit
<1>2. (ListInv /\ UseInv) /\ [Next]_vars => (ListInv /\ UseInv)'
  BY ListStep, UseStep
<1>3. ListInv /\ UseInv => TypeOK
  BY DEF UseInv, UseTypes, ListInv, OwnTypes, TypeOK
<1> QED BY <1>1, <1>2, <1>3, PTL DEF Spec

-----------------------------------------------------------------------------
(***************************************************************************)
(* The sets a list was recorded with stay valid until it was executed: for *)
(* any number of contexts, pools, sets to a pool and recycler slots.       *)
(*                                                                         *)
(* A pool is in one place: the pool of one context, tracked once by one    *)
(* list, or in one usable slot of the recycler.  The pools of the sets of  *)
(* a list are its context's or tracked by it, so that whatever is reset or *)
(* handed out, from another place, is another pool.                        *)
(***************************************************************************)

Slots == 1..poolRecycler.id
Slot(i) == poolRecycler.objects[i]

ContextPoolsApart ==
  \A c, d \in Contexts : c # d => descPool[c] = Nil \/ descPool[c] # descPool[d]

TrackedApart ==
  \A c, d \in Contexts :
    \A i \in 1..Len(trackedPools[c]), j \in 1..Len(trackedPools[d]) :
      trackedPools[c][i] = trackedPools[d][j] => c = d /\ i = j

DroppedApart ==
  \A k, l \in 1..Len(dropped) :
    \A i \in 1..Len(dropped[k]), j \in 1..Len(dropped[l]) :
      dropped[k][i] = dropped[l][j] => k = l /\ i = j

SlotsApart == \A i, j \in Slots : Slot(i) = Slot(j) => i = j

ContextNotTracked ==
  \A c, d \in Contexts : \A i \in 1..Len(trackedPools[d]) : descPool[c] # trackedPools[d][i]

ContextNotDropped ==
  \A c \in Contexts : \A k \in 1..Len(dropped) : \A i \in 1..Len(dropped[k]) :
    descPool[c] # dropped[k][i]

TrackedNotDropped ==
  \A c \in Contexts : \A i \in 1..Len(trackedPools[c]) :
    \A k \in 1..Len(dropped) : \A j \in 1..Len(dropped[k]) :
      trackedPools[c][i] # dropped[k][j]

SlotsUnused ==
  \A s \in Slots :
    /\ \A c \in Contexts : descPool[c] # Slot(s)
    /\ \A c \in Contexts : \A i \in 1..Len(trackedPools[c]) : trackedPools[c][i] # Slot(s)
    /\ \A k \in 1..Len(dropped) : \A i \in 1..Len(dropped[k]) : dropped[k][i] # Slot(s)

InOnePlace ==
  /\ ContextPoolsApart /\ TrackedApart /\ DroppedApart /\ SlotsApart
  /\ ContextNotTracked /\ ContextNotDropped /\ TrackedNotDropped /\ SlotsUnused

\* What is in the recycler has been reset, and what a list was recorded with
\* is its context's or tracked by it.
SlotsReset == \A i \in Slots : Slot(i) \in Pools /\ allocated[Slot(i)] = 0

SetsAreHeld ==
  \A c \in Contexts : \A p \in setsOf[c] :
    /\ phase[c] \in {"recording", "pending"}
    /\ allocated[p] > 0
    /\ descPool[c] = p \/ \E i \in 1..Len(trackedPools[c]) : trackedPools[c][i] = p

PoolInv == PoolsTypeOK /\ InOnePlace /\ SlotsReset /\ SetsAreHeld

------------------------------------------------------------------------------
LEMMA ListTypes ==
  ASSUME PoolsTypeOK
  PROVE  /\ \A c \in Contexts :
              /\ trackedPools[c] \in Seq(Pools) /\ Len(trackedPools[c]) \in Nat
              /\ \A i \in 1..Len(trackedPools[c]) : trackedPools[c][i] \in Pools
         /\ dropped \in Seq(Seq(Pools)) /\ Len(dropped) \in Nat
         /\ \A k \in 1..Len(dropped) :
              /\ dropped[k] \in Seq(Pools) /\ Len(dropped[k]) \in Nat
              /\ \A i \in 1..Len(dropped[k]) : dropped[k][i] \in Pools
<1>1. ASSUME NEW c \in Contexts
      PROVE  /\ trackedPools[c] \in Seq(Pools) /\ Len(trackedPools[c]) \in Nat
             /\ \A i \in 1..Len(trackedPools[c]) : trackedPools[c][i] \in Pools
  <2>1. trackedPools[c] \in Seq(Pools)
    BY DEF PoolsTypeOK
  <2> QED BY <2>1, ElementOfSeq
<1>2. dropped \in Seq(Seq(Pools)) /\ Len(dropped) \in Nat
  BY DEF PoolsTypeOK
<1>3. ASSUME NEW k \in 1..Len(dropped)
      PROVE  /\ dropped[k] \in Seq(Pools) /\ Len(dropped[k]) \in Nat
             /\ \A i \in 1..Len(dropped[k]) : dropped[k][i] \in Pools
  <2>1. dropped[k] \in Seq(Pools)
    BY <1>2, ElementOfSeq
  <2> QED BY <2>1, ElementOfSeq
<1> QED BY <1>1, <1>2, <1>3

\* The types of the variables that say how much is allocated and recycled.
RecyclerTypes ==
  /\ poolRecycler \in [objects : [1..PoolCapacity -> Pools \cup {Nil}], id : 0..PoolCapacity]
  /\ allocated \in [Pools -> 0..MaxSets]

\* A pool that createDescriptorPool returns was nowhere, or in the last slot.
LEMMA CreatedIsFresh ==
  ASSUME PoolInv, NEW p \in Pools, CreateDescriptorPool(p)
  PROVE  /\ RecyclerTypes'
         /\ allocated'[p] > 0
         /\ \A q \in Pools \ {p} : allocated'[q] = allocated[q]
         /\ \A d \in Contexts : descPool[d] # p
         /\ \A d \in Contexts : \A i \in 1..Len(trackedPools[d]) : trackedPools[d][i] # p
         /\ \A k \in 1..Len(dropped) : \A i \in 1..Len(dropped[k]) : dropped[k][i] # p
         /\ \A i \in Slots' : i \in Slots /\ Slot(i)' = Slot(i) /\ Slot(i) # p
<1> USE PoolSizesAssumption
<1>1. PoolsTypeOK /\ InOnePlace /\ SlotsReset
  BY DEF PoolInv
<1>2. CASE poolRecycler.id > 0
  <2>1. /\ p = Slot(poolRecycler.id) /\ poolRecycler.id \in Slots
        /\ poolRecycler' = [poolRecycler EXCEPT !.id = @ - 1]
        /\ allocated' = [allocated EXCEPT ![p] = @ + 1]
    BY <1>1, <1>2 DEF CreateDescriptorPool, Slot, Slots, PoolsTypeOK
  <2>2. /\ poolRecycler'.objects = poolRecycler.objects
        /\ poolRecycler'.id = poolRecycler.id - 1
        /\ poolRecycler.id \in 0..PoolCapacity
    BY <1>1, <1>2, <2>1 DEF PoolsTypeOK
  <2>3. allocated[p] = 0
    BY <1>1, <2>1 DEF SlotsReset
  <2>4. RecyclerTypes'
    <3>1. allocated' \in [Pools -> 0..MaxSets]
      BY <1>1, <2>1, <2>3 DEF PoolsTypeOK
    <3>2. poolRecycler' \in [objects : [1..PoolCapacity -> Pools \cup {Nil}], id : 0..PoolCapacity]
      <4>1. poolRecycler' = [objects |-> poolRecycler.objects, id |-> poolRecycler.id - 1]
        BY <1>1, <2>1 DEF PoolsTypeOK
      <4>2. poolRecycler.id - 1 \in 0..PoolCapacity
        BY <1>2, <2>2
      <4>3. poolRecycler.objects \in [1..PoolCapacity -> Pools \cup {Nil}]
        BY <1>1 DEF PoolsTypeOK
      <4> QED BY <4>1, <4>2, <4>3
    <3> QED BY <3>1, <3>2 DEF RecyclerTypes
  <2>5. \A i \in Slots' : i \in Slots /\ Slot(i)' = Slot(i) /\ Slot(i) # p
    BY <1>1, <2>1, <2>2 DEF Slots, Slot, InOnePlace, SlotsApart
  <2>6. /\ \A d \in Contexts : descPool[d] # p
        /\ \A d \in Contexts : \A i \in 1..Len(trackedPools[d]) : trackedPools[d][i] # p
        /\ \A k \in 1..Len(dropped) : \A i \in 1..Len(dropped[k]) : dropped[k][i] # p
    BY <1>1, <2>1 DEF InOnePlace, SlotsUnused
  <2>7. allocated'[p] > 0 /\ \A q \in Pools \ {p} : allocated'[q] = allocated[q]
    BY <1>1, <2>1, <2>3 DEF PoolsTypeOK
  <2> QED BY <2>4, <2>5, <2>6, <2>7
<1>3. CASE ~ poolRecycler.id > 0
  <2>1. /\ poolRecycler.id = 0 /\ poolRecycler' = poolRecycler
        /\ allocated' = [allocated EXCEPT ![p] = 1]
        /\ p \in NewPools
    BY <1>3 DEF CreateDescriptorPool
  <2>2. RecyclerTypes'
    BY <1>1, <2>1 DEF PoolsTypeOK, RecyclerTypes
  <2>3. Slots' = {}
    BY <2>1 DEF Slots
  <2>4. \A d \in Contexts : descPool[d] # p
    BY <1>1, <2>1 DEF NewPools, ReferencedPools, Range, PoolsTypeOK
  <2>5. ASSUME NEW d \in Contexts, NEW i \in 1..Len(trackedPools[d])
        PROVE  trackedPools[d][i] # p
    <3>1. trackedPools[d][i] \in Range(trackedPools[d])
      BY <1>1, ListTypes DEF Range
    <3> QED BY <2>1, <3>1 DEF NewPools, ReferencedPools
  <2>6. ASSUME NEW k \in 1..Len(dropped), NEW i \in 1..Len(dropped[k])
        PROVE  dropped[k][i] # p
    <3>1. dropped[k][i] \in Range(dropped[k]) /\ dropped[k] \in Range(dropped)
      BY <1>1, ListTypes DEF Range
    <3>2. dropped[k][i] \in UNION {Range(d) : d \in Range(dropped)}
      BY <3>1
    <3> QED BY <2>1, <3>2 DEF NewPools, ReferencedPools
  <2>7. allocated'[p] > 0 /\ \A q \in Pools \ {p} : allocated'[q] = allocated[q]
    BY <1>1, <2>1 DEF PoolsTypeOK
  <2> QED BY <2>2, <2>3, <2>4, <2>5, <2>6, <2>7
<1> QED BY <1>2, <1>3

\* What is reset goes to slots above those in use, as far as there is room.
LEMMA ResetFillsSlots ==
  ASSUME PoolInv, NEW pools \in Seq(Pools), ResetPools(pools),
         \A i, j \in 1..Len(pools) : pools[i] = pools[j] => i = j,
         \A i \in 1..Len(pools) : \A s \in Slots : pools[i] # Slot(s)
  PROVE  /\ RecyclerTypes' /\ SlotsReset' /\ SlotsApart'
         /\ \A i \in Slots' : \/ i \in Slots /\ Slot(i)' = Slot(i)
                              \/ \E j \in 1..Len(pools) : Slot(i)' = pools[j]
         /\ \A q \in Pools : (\A j \in 1..Len(pools) : pools[j] # q) => allocated'[q] = allocated[q]
<1> USE PoolSizesAssumption
<1> DEFINE id == poolRecycler.id
           room == PoolCapacity - id
           count == IF Len(pools) < room THEN Len(pools) ELSE room
<1>1. PoolsTypeOK /\ InOnePlace /\ SlotsReset
  BY DEF PoolInv
<1>2. Len(pools) \in Nat /\ id \in 0..PoolCapacity /\ room \in Nat /\ count \in Nat
      /\ count <= Len(pools) /\ count <= room
  BY <1>1 DEF PoolsTypeOK
<1>3. /\ \A i \in 1..Len(pools) : pools[i] \in Pools
      /\ Range(pools) = {pools[i] : i \in 1..Len(pools)}
  BY ElementOfSeq DEF Range
<1>4. /\ poolRecycler'.id = id + count
      /\ poolRecycler'.objects
           = [i \in 1..PoolCapacity |->
                IF i - id \in 1..count THEN pools[i - id] ELSE poolRecycler.objects[i]]
  BY DEF ResetPools, Recycled
<1>5. \A i \in 1..PoolCapacity :
        poolRecycler'.objects[i] =
          IF i - id \in 1..count THEN pools[i - id] ELSE poolRecycler.objects[i]
  BY <1>4
<1>6. RecyclerTypes'
  <2>1. ASSUME NEW i \in 1..PoolCapacity PROVE poolRecycler'.objects[i] \in Pools \cup {Nil}
    <3>1. CASE i - id \in 1..count
      BY <1>2, <1>3, <1>5, <3>1
    <3>2. CASE i - id \notin 1..count
      BY <1>1, <1>5, <3>2 DEF PoolsTypeOK
    <3> QED BY <3>1, <3>2
  <2>2. poolRecycler'.objects \in [1..PoolCapacity -> Pools \cup {Nil}]
    BY <1>4, <2>1
  <2>3. poolRecycler'.id \in 0..PoolCapacity
    BY <1>2, <1>4
  <2>4. poolRecycler' = [objects |-> poolRecycler'.objects, id |-> poolRecycler'.id]
    BY DEF ResetPools, Recycled
  <2>5. allocated' \in [Pools -> 0..MaxSets]
    BY <1>1 DEF ResetPools, PoolsTypeOK
  <2> QED BY <2>2, <2>3, <2>4, <2>5 DEF RecyclerTypes
<1>7. ASSUME NEW i \in Slots'
      PROVE  \/ i \in Slots /\ Slot(i)' = Slot(i)
             \/ i - id \in 1..Len(pools) /\ Slot(i)' = pools[i - id] /\ i \notin Slots
  <2>1. i \in 1..id + count /\ i \in 1..PoolCapacity /\ i \in Nat
    BY <1>2, <1>4 DEF Slots
  <2>2. CASE i <= id
    <3>1. i - id \notin 1..count /\ i \in Slots
      BY <1>2, <2>1, <2>2 DEF Slots
    <3> QED BY <1>5, <2>1, <3>1 DEF Slot
  <2>3. CASE i > id
    <3>1. i - id \in 1..count /\ i - id \in 1..Len(pools) /\ i \notin Slots
      BY <1>2, <2>1, <2>3 DEF Slots
    <3> QED BY <1>5, <2>1, <3>1 DEF Slot
  <2> QED BY <1>2, <2>1, <2>2, <2>3
<1>8. SlotsApart'
  <2> SUFFICES ASSUME NEW i \in Slots', NEW j \in Slots', Slot(i)' = Slot(j)' PROVE i = j
    BY DEF SlotsApart
  <2>1. i \in Nat /\ j \in Nat
    BY DEF Slots
  <2>2. CASE i \in Slots /\ Slot(i)' = Slot(i)
    BY <1>1, <1>7, <2>2 DEF InOnePlace, SlotsApart
  <2>3. CASE i - id \in 1..Len(pools) /\ Slot(i)' = pools[i - id]
    <3>1. CASE j \in Slots /\ Slot(j)' = Slot(j)
      BY <2>3, <3>1
    <3>2. CASE j - id \in 1..Len(pools) /\ Slot(j)' = pools[j - id]
      <4>1. i - id = j - id
        BY <2>3, <3>2
      <4> QED BY <1>2, <2>1, <4>1
    <3> QED BY <1>7, <3>1, <3>2
  <2> QED BY <1>7, <2>2, <2>3
<1>9. \A q \in Pools : allocated'[q] = IF q \in Range(pools) THEN 0 ELSE allocated[q]
  BY DEF ResetPools
<1>10. SlotsReset'
  <2> SUFFICES ASSUME NEW i \in Slots' PROVE Slot(i)' \in Pools /\ allocated'[Slot(i)'] = 0
    BY DEF SlotsReset
  <2>1. CASE i \in Slots /\ Slot(i)' = Slot(i)
    BY <1>1, <1>9, <2>1 DEF SlotsReset
  <2>2. CASE i - id \in 1..Len(pools) /\ Slot(i)' = pools[i - id]
    BY <1>3, <1>9, <2>2
  <2> QED BY <1>7, <2>1, <2>2
<1>11. \A q \in Pools : (\A j \in 1..Len(pools) : pools[j] # q) => allocated'[q] = allocated[q]
  BY <1>3, <1>9
<1>12. \A i \in Slots' : \/ i \in Slots /\ Slot(i)' = Slot(i)
                        \/ \E j \in 1..Len(pools) : Slot(i)' = pools[j]
  BY <1>7
<1> QED BY <1>6, <1>8, <1>10, <1>11, <1>12

------------------------------------------------------------------------------
LEMMA AllocateSetInv ==
  ASSUME PoolInv, NEW c \in Contexts, AllocateSet(c)
  PROVE  PoolInv'
<1> DEFINE p == descPool[c]
<1>1. PoolsTypeOK /\ InOnePlace /\ SlotsReset /\ SetsAreHeld
  BY DEF PoolInv
<1>2. p \in Pools /\ allocated[p] \in 0..MaxSets /\ allocated[p] # MaxSets /\ phase[c] = "recording"
  BY <1>1 DEF PoolsTypeOK, AllocateSet, Full
<1>3. /\ UNCHANGED <<phase, trackedPools, dropped, poolRecycler>>
      /\ allocated' = [allocated EXCEPT ![p] = @ + 1]
      /\ setsOf' = [setsOf EXCEPT ![c] = @ \cup {p}]
      /\ descPool' = [descPool EXCEPT ![c] = p]
  BY DEF AllocateSet, RecordWith
<1>4. descPool' = descPool
  BY <1>1, <1>3 DEF PoolsTypeOK
<1>5. /\ allocated'[p] = allocated[p] + 1
      /\ \A q \in Pools \ {p} : allocated'[q] = allocated[q]
  BY <1>1, <1>2, <1>3 DEF PoolsTypeOK
<1>6. PoolsTypeOK'
  <2>1. allocated' \in [Pools -> 0..MaxSets]
    BY <1>1, <1>2, <1>3, PoolSizesAssumption DEF PoolsTypeOK
  <2>2. setsOf' \in [Contexts -> SUBSET Pools]
    BY <1>1, <1>2, <1>3 DEF PoolsTypeOK
  <2> QED BY <1>1, <1>3, <1>4, <2>1, <2>2 DEF PoolsTypeOK
<1>7. InOnePlace'
  BY <1>1, <1>3, <1>4
     DEF InOnePlace, ContextPoolsApart, TrackedApart, DroppedApart, SlotsApart, ContextNotTracked,
         ContextNotDropped, TrackedNotDropped, SlotsUnused, Slots, Slot
<1>8. SlotsReset'
  <2>1. \A i \in Slots : Slot(i) # p
    BY <1>1 DEF InOnePlace, SlotsUnused
  <2> QED BY <1>1, <1>3, <1>5, <2>1 DEF SlotsReset, Slots, Slot
<1>9. SetsAreHeld'
  <2> SUFFICES ASSUME NEW d \in Contexts, NEW q \in setsOf'[d]
               PROVE  /\ phase'[d] \in {"recording", "pending"}
                      /\ allocated'[q] > 0
                      /\ \/ descPool'[d] = q
                         \/ \E i \in 1..Len(trackedPools'[d]) : trackedPools'[d][i] = q
    BY DEF SetsAreHeld
  <2>1. q \in Pools
    BY <1>6 DEF PoolsTypeOK
  <2>2. CASE q \in setsOf[d]
    <3>1. allocated[q] > 0 /\ allocated[q] \in 0..MaxSets
      BY <1>1, <2>1, <2>2 DEF SetsAreHeld, PoolsTypeOK
    <3>2. allocated'[q] > 0
      BY <1>2, <1>5, <2>1, <3>1
    <3> QED BY <1>1, <1>3, <1>4, <2>2, <3>2 DEF SetsAreHeld
  <2>3. CASE q \notin setsOf[d]
    <3>1. d = c /\ q = p
      BY <1>1, <1>3, <2>3 DEF PoolsTypeOK
    <3> QED BY <1>2, <1>3, <1>4, <1>5, <3>1
  <2> QED BY <2>2, <2>3
<1> QED BY <1>6, <1>7, <1>8, <1>9 DEF PoolInv

\* The pool of a context that has none, or whose pool its list now tracks, is
\* replaced by one that createDescriptorPool returns.
LEMMA NewPoolInv ==
  ASSUME PoolInv, NEW c \in Contexts, NEW p \in Pools,
         CreateDescriptorPool(p), RecordWith(c, p),
         phase[c] = "recording", UNCHANGED <<phase, dropped>>,
         \/ UNCHANGED trackedPools
         \/ /\ descPool[c] # Nil
            /\ trackedPools' = [trackedPools EXCEPT ![c] = Append(@, descPool[c])],
         UNCHANGED trackedPools => descPool[c] = Nil
  PROVE  PoolInv'
<1>1. PoolsTypeOK /\ InOnePlace /\ SlotsReset /\ SetsAreHeld
  BY DEF PoolInv
<1>2. /\ RecyclerTypes'
      /\ allocated'[p] > 0
      /\ \A q \in Pools \ {p} : allocated'[q] = allocated[q]
      /\ \A d \in Contexts : descPool[d] # p
      /\ \A d \in Contexts : \A i \in 1..Len(trackedPools[d]) : trackedPools[d][i] # p
      /\ \A k \in 1..Len(dropped) : \A i \in 1..Len(dropped[k]) : dropped[k][i] # p
      /\ \A i \in Slots' : i \in Slots /\ Slot(i)' = Slot(i) /\ Slot(i) # p
  BY CreatedIsFresh
<1>3. /\ descPool' = [descPool EXCEPT ![c] = p]
      /\ setsOf' = [setsOf EXCEPT ![c] = @ \cup {p}]
  BY DEF RecordWith
<1>4. /\ descPool'[c] = p
      /\ \A d \in Contexts \ {c} : descPool'[d] = descPool[d]
      /\ descPool' \in [Contexts -> Pools \cup {Nil}]
  BY <1>1, <1>3 DEF PoolsTypeOK
<1>5. ASSUME NEW d \in Contexts
      PROVE  /\ Len(trackedPools[d]) \in Nat /\ Len(trackedPools'[d]) \in Nat
             /\ Len(trackedPools'[d]) >= Len(trackedPools[d])
             /\ \A i \in 1..Len(trackedPools[d]) : trackedPools'[d][i] = trackedPools[d][i]
             /\ \A i \in 1..Len(trackedPools'[d]) :
                  \/ i \in 1..Len(trackedPools[d])
                  \/ /\ d = c /\ i = Len(trackedPools[d]) + 1
                     /\ descPool[c] # Nil /\ trackedPools'[d][i] = descPool[c]
             /\ trackedPools'[d] \in Seq(Pools)
  <2>1. trackedPools[d] \in Seq(Pools) /\ Len(trackedPools[d]) \in Nat
    BY <1>1, ListTypes
  <2>2. CASE trackedPools'[d] = trackedPools[d]
    BY <2>1, <2>2
  <2>3. CASE d = c /\ descPool[c] # Nil /\ trackedPools'[d] = Append(trackedPools[d], descPool[c])
    <3>1. descPool[c] \in Pools
      BY <1>1, <2>3 DEF PoolsTypeOK
    <3> QED BY <2>1, <2>3, <3>1
  <2> QED BY <1>1, <2>2, <2>3 DEF PoolsTypeOK
<1>6. descPool[c] # Nil => \E i \in 1..Len(trackedPools'[c]) : trackedPools'[c][i] = descPool[c]
  <2>1. ASSUME descPool[c] # Nil
        PROVE  trackedPools'[c] = Append(trackedPools[c], descPool[c])
    BY <1>1, <2>1 DEF PoolsTypeOK
  <2>2. trackedPools[c] \in Seq(Pools) /\ Len(trackedPools[c]) \in Nat
    BY <1>1, ListTypes
  <2>3. ASSUME descPool[c] # Nil
        PROVE  \E i \in 1..Len(trackedPools'[c]) : trackedPools'[c][i] = descPool[c]
    <3>1. Len(trackedPools'[c]) = Len(trackedPools[c]) + 1
          /\ trackedPools'[c][Len(trackedPools[c]) + 1] = descPool[c]
      BY <2>1, <2>2, <2>3, AppendProperties
    <3>2. Len(trackedPools[c]) + 1 \in 1..Len(trackedPools'[c])
      BY <2>2, <3>1
    <3> QED BY <3>1, <3>2
  <2> QED BY <2>3
<1>7. PoolsTypeOK'
  <2>1. trackedPools' \in [Contexts -> Seq(Pools)]
    <3>1. DOMAIN trackedPools' = Contexts /\ trackedPools' = [d \in Contexts |-> trackedPools'[d]]
      BY <1>1 DEF PoolsTypeOK
    <3> QED BY <1>5, <3>1
  <2>2. setsOf' \in [Contexts -> SUBSET Pools]
    BY <1>1, <1>3 DEF PoolsTypeOK
  <2> QED BY <1>1, <1>2, <1>4, <2>1, <2>2 DEF PoolsTypeOK, RecyclerTypes
<1>8. ContextPoolsApart'
  BY <1>1, <1>2, <1>4 DEF InOnePlace, ContextPoolsApart
<1>9. TrackedApart'
  <2> SUFFICES ASSUME NEW d \in Contexts, NEW e \in Contexts,
                      NEW i \in 1..Len(trackedPools'[d]), NEW j \in 1..Len(trackedPools'[e]),
                      trackedPools'[d][i] = trackedPools'[e][j]
               PROVE  d = e /\ i = j
    BY DEF TrackedApart
  <2>1. CASE i \in 1..Len(trackedPools[d]) /\ j \in 1..Len(trackedPools[e])
    BY <1>1, <1>5, <2>1 DEF InOnePlace, TrackedApart
  <2>2. CASE i \notin 1..Len(trackedPools[d]) /\ j \in 1..Len(trackedPools[e])
    BY <1>1, <1>5, <2>2 DEF InOnePlace, ContextNotTracked
  <2>3. CASE i \in 1..Len(trackedPools[d]) /\ j \notin 1..Len(trackedPools[e])
    BY <1>1, <1>5, <2>3 DEF InOnePlace, ContextNotTracked
  <2>4. CASE i \notin 1..Len(trackedPools[d]) /\ j \notin 1..Len(trackedPools[e])
    BY <1>5, <2>4
  <2> QED BY <2>1, <2>2, <2>3, <2>4
<1>10. DroppedApart'
  BY <1>1 DEF InOnePlace, DroppedApart
<1>11. SlotsApart'
  BY <1>1, <1>2 DEF InOnePlace, SlotsApart
<1>12. ContextNotTracked'
  <2> SUFFICES ASSUME NEW d \in Contexts, NEW e \in Contexts, NEW i \in 1..Len(trackedPools'[e])
               PROVE  descPool'[d] # trackedPools'[e][i]
    BY DEF ContextNotTracked
  <2>1. CASE i \in 1..Len(trackedPools[e])
    BY <1>1, <1>2, <1>4, <1>5, <2>1 DEF InOnePlace, ContextNotTracked
  <2>2. CASE i \notin 1..Len(trackedPools[e])
    BY <1>1, <1>2, <1>4, <1>5, <2>2 DEF InOnePlace, ContextPoolsApart
  <2> QED BY <2>1, <2>2
<1>13. ContextNotDropped'
  BY <1>1, <1>2, <1>4 DEF InOnePlace, ContextNotDropped
<1>14. TrackedNotDropped'
  <2> SUFFICES ASSUME NEW d \in Contexts, NEW i \in 1..Len(trackedPools'[d]),
                      NEW k \in 1..Len(dropped), NEW j \in 1..Len(dropped[k])
               PROVE  trackedPools'[d][i] # dropped[k][j]
    BY DEF TrackedNotDropped
  <2>1. CASE i \in 1..Len(trackedPools[d])
    <3>1. trackedPools'[d][i] = trackedPools[d][i]
      BY <1>5, <2>1
    <3>2. trackedPools[d][i] # dropped[k][j]
      BY <1>1, <2>1 DEF InOnePlace, TrackedNotDropped
    <3> QED BY <3>1, <3>2
  <2>2. CASE i \notin 1..Len(trackedPools[d])
    <3>1. trackedPools'[d][i] = descPool[c]
      BY <1>5, <2>2
    <3>2. descPool[c] # dropped[k][j]
      BY <1>1 DEF InOnePlace, ContextNotDropped
    <3> QED BY <3>1, <3>2
  <2> QED BY <2>1, <2>2
<1>15. SlotsUnused'
  <2> SUFFICES ASSUME NEW s \in Slots'
               PROVE  /\ \A d \in Contexts : descPool'[d] # Slot(s)'
                      /\ \A d \in Contexts : \A i \in 1..Len(trackedPools'[d]) :
                           trackedPools'[d][i] # Slot(s)'
                      /\ \A k \in 1..Len(dropped) : \A i \in 1..Len(dropped[k]) :
                           dropped[k][i] # Slot(s)'
    BY DEF SlotsUnused
  <2>1. s \in Slots /\ Slot(s)' = Slot(s) /\ Slot(s) # p
    BY <1>2
  <2>2. /\ \A d \in Contexts : descPool[d] # Slot(s)
        /\ \A d \in Contexts : \A i \in 1..Len(trackedPools[d]) : trackedPools[d][i] # Slot(s)
        /\ \A k \in 1..Len(dropped) : \A i \in 1..Len(dropped[k]) : dropped[k][i] # Slot(s)
    BY <1>1, <2>1 DEF InOnePlace, SlotsUnused
  <2>3. \A d \in Contexts : descPool'[d] # Slot(s)'
    BY <1>4, <2>1, <2>2
  <2>4. ASSUME NEW d \in Contexts, NEW i \in 1..Len(trackedPools'[d])
        PROVE  trackedPools'[d][i] # Slot(s)'
    <3>1. CASE i \in 1..Len(trackedPools[d])
      BY <1>5, <2>1, <2>2, <3>1
    <3>2. CASE i \notin 1..Len(trackedPools[d])
      BY <1>5, <2>1, <2>2, <3>2
    <3> QED BY <3>1, <3>2
  <2> QED BY <2>1, <2>2, <2>3, <2>4
<1>16. SlotsReset'
  BY <1>1, <1>2 DEF SlotsReset
<1>17. SetsAreHeld'
  <2> SUFFICES ASSUME NEW d \in Contexts, NEW q \in setsOf'[d]
               PROVE  /\ phase'[d] \in {"recording", "pending"}
                      /\ allocated'[q] > 0
                      /\ \/ descPool'[d] = q
                         \/ \E i \in 1..Len(trackedPools'[d]) : trackedPools'[d][i] = q
    BY DEF SetsAreHeld
  <2>1. q \in Pools
    BY <1>7 DEF PoolsTypeOK
  <2>2. CASE q \in setsOf[d]
    <3>1. /\ phase[d] \in {"recording", "pending"} /\ allocated[q] > 0
          /\ descPool[d] = q \/ \E i \in 1..Len(trackedPools[d]) : trackedPools[d][i] = q
      BY <1>1, <2>2 DEF SetsAreHeld
    <3>2. allocated'[q] > 0
      BY <1>2, <2>1, <3>1
    <3>3. CASE d # c /\ descPool[d] = q
      BY <1>4, <3>1, <3>2, <3>3
    <3>4. CASE d = c /\ descPool[d] = q
      <4>1. descPool[c] # Nil
        BY <2>1, <3>4, PoolsAssumption
      <4> QED BY <1>6, <3>1, <3>2, <3>4, <4>1
    <3>5. ASSUME NEW i \in 1..Len(trackedPools[d]), trackedPools[d][i] = q
          PROVE  \E j \in 1..Len(trackedPools'[d]) : trackedPools'[d][j] = q
      <4>1. i \in 1..Len(trackedPools'[d]) /\ trackedPools'[d][i] = q
        BY <1>5, <3>5
      <4> QED BY <4>1
    <3> QED BY <3>1, <3>2, <3>3, <3>4, <3>5
  <2>3. CASE q \notin setsOf[d]
    <3>1. d = c /\ q = p
      BY <1>1, <1>3, <2>3 DEF PoolsTypeOK
    <3> QED BY <1>2, <1>4, <3>1
  <2> QED BY <2>2, <2>3
<1>18. InOnePlace'
  BY <1>8, <1>9, <1>10, <1>11, <1>12, <1>13, <1>14, <1>15 DEF InOnePlace
<1> QED BY <1>7, <1>16, <1>17, <1>18 DEF PoolInv

LEMMA AllocateFirstSetInv ==
  ASSUME PoolInv, NEW c \in Contexts, AllocateFirstSet(c)
  PROVE  PoolInv'
<1>1. /\ phase[c] = "recording" /\ descPool[c] = Nil
      /\ UNCHANGED <<phase, trackedPools, dropped>>
  BY DEF AllocateFirstSet
<1>2. PICK p \in Pools : CreateDescriptorPool(p) /\ RecordWith(c, p)
  BY DEF AllocateFirstSet
<1> QED BY <1>1, <1>2, NewPoolInv

LEMMA AllocateFromNextInv ==
  ASSUME PoolInv, NEW c \in Contexts, AllocateFromNext(c)
  PROVE  PoolInv'
<1>1. /\ phase[c] = "recording" /\ descPool[c] # Nil
      /\ trackedPools' = [trackedPools EXCEPT ![c] = Append(@, descPool[c])]
      /\ UNCHANGED <<phase, dropped>>
  BY DEF AllocateFromNext
<1>2. PICK p \in Pools : CreateDescriptorPool(p) /\ RecordWith(c, p)
  BY DEF AllocateFromNext
<1>3. trackedPools' # trackedPools
  <2>1. trackedPools \in [Contexts -> Seq(Pools)]
    BY DEF PoolInv, PoolsTypeOK
  <2>2. Len(trackedPools'[c]) = Len(trackedPools[c]) + 1
    BY <1>1, <2>1
  <2>3. Len(trackedPools[c]) \in Nat
    BY <2>1
  <2> QED BY <2>2, <2>3
<1> QED BY <1>1, <1>2, <1>3, NewPoolInv

\* The steps that leave the pools where they are.
LEMMA ListStepInv ==
  ASSUME PoolInv, NEW c \in Contexts, BeginList(c) \/ SubmitList(c) \/ ExecuteList(c)
  PROVE  PoolInv'
<1>1. PoolsTypeOK /\ InOnePlace /\ SlotsReset /\ SetsAreHeld
  BY DEF PoolInv
<1>2. UNCHANGED <<descPool, allocated, trackedPools, dropped, poolRecycler>>
  BY DEF BeginList, SubmitList, ExecuteList
<1>3. PoolsTypeOK'
  <2>1. phase' \in [Contexts -> {"idle", "recording", "pending", "executed"}]
    BY <1>1 DEF BeginList, SubmitList, ExecuteList, PoolsTypeOK
  <2>2. setsOf' \in [Contexts -> SUBSET Pools]
    BY <1>1 DEF BeginList, SubmitList, ExecuteList, PoolsTypeOK
  <2> QED BY <1>1, <1>2, <2>1, <2>2 DEF PoolsTypeOK
<1>4. InOnePlace'
  <2>1. ContextPoolsApart' /\ TrackedApart' /\ DroppedApart'
    BY <1>1, <1>2 DEF InOnePlace, ContextPoolsApart, TrackedApart, DroppedApart
  <2>2. SlotsApart' /\ SlotsUnused'
    BY <1>1, <1>2 DEF InOnePlace, SlotsApart, SlotsUnused, Slots, Slot
  <2>3. ContextNotTracked' /\ ContextNotDropped'
    BY <1>1, <1>2 DEF InOnePlace, ContextNotTracked, ContextNotDropped
  <2>4. TrackedNotDropped'
    BY <1>1, <1>2 DEF InOnePlace, TrackedNotDropped
  <2> QED BY <2>1, <2>2, <2>3, <2>4 DEF InOnePlace
<1>5. SlotsReset'
  BY <1>1, <1>2 DEF SlotsReset, Slots, Slot
<1>6. ASSUME NEW d \in Contexts
      PROVE  /\ setsOf'[d] \subseteq setsOf[d]
             /\ setsOf'[d] # {} => phase'[d] \in {"recording", "pending"}
  <2>1. setsOf[d] # {} => phase[d] \in {"recording", "pending"}
    BY <1>1 DEF SetsAreHeld
  <2>2. CASE BeginList(c) \/ SubmitList(c)
    BY <1>1, <2>1, <2>2 DEF BeginList, SubmitList, PoolsTypeOK
  <2>3. CASE ExecuteList(c)
    BY <1>1, <2>1, <2>3 DEF ExecuteList, PoolsTypeOK
  <2> QED BY <2>2, <2>3
<1>7. SetsAreHeld'
  BY <1>1, <1>2, <1>6 DEF SetsAreHeld
<1> QED BY <1>3, <1>4, <1>5, <1>7 DEF PoolInv

LEMMA BeginAnewInv ==
  ASSUME PoolInv, NEW c \in Contexts, BeginAnew(c)
  PROVE  PoolInv'
<1> DEFINE n == Len(dropped)
<1>1. PoolsTypeOK /\ InOnePlace /\ SlotsReset /\ SetsAreHeld
  BY DEF PoolInv
<1>2. /\ UNCHANGED <<phase, descPool, allocated, poolRecycler>>
      /\ dropped' = Append(dropped, trackedPools[c])
      /\ trackedPools' = [trackedPools EXCEPT ![c] = <<>>]
      /\ setsOf' = [setsOf EXCEPT ![c] = {}]
  BY DEF BeginAnew
<1>3. /\ dropped \in Seq(Seq(Pools)) /\ n \in Nat
      /\ trackedPools[c] \in Seq(Pools)
  BY <1>1, ListTypes
<1>4. /\ Len(dropped') = n + 1
      /\ dropped'[n + 1] = trackedPools[c]
      /\ \A k \in 1..n : dropped'[k] = dropped[k]
      /\ dropped' \in Seq(Seq(Pools))
  BY <1>2, <1>3, AppendProperties
<1>5. ASSUME NEW k \in 1..Len(dropped')
      PROVE  \/ k \in 1..n /\ dropped'[k] = dropped[k]
             \/ k = n + 1 /\ k \notin 1..n /\ dropped'[k] = trackedPools[c]
  BY <1>3, <1>4
<1>6. /\ \A d \in Contexts \ {c} : trackedPools'[d] = trackedPools[d]
      /\ trackedPools'[c] = <<>>
      /\ trackedPools' \in [Contexts -> Seq(Pools)]
  BY <1>1, <1>2 DEF PoolsTypeOK
<1>7. ASSUME NEW d \in Contexts, NEW i \in 1..Len(trackedPools'[d])
      PROVE  d # c /\ i \in 1..Len(trackedPools[d]) /\ trackedPools'[d] = trackedPools[d]
  <2>1. 1..Len(<<>>) = {}
    OBVIOUS
  <2> QED BY <1>6, <2>1
<1>8. PoolsTypeOK'
  BY <1>1, <1>2, <1>4, <1>6 DEF PoolsTypeOK
<1>9. ContextPoolsApart' /\ SlotsApart' /\ SlotsReset'
  BY <1>1, <1>2 DEF InOnePlace, ContextPoolsApart, SlotsApart, SlotsReset, Slots, Slot
<1>10. TrackedApart'
  BY <1>1, <1>7 DEF InOnePlace, TrackedApart
<1>11. DroppedApart'
  <2> SUFFICES ASSUME NEW k \in 1..Len(dropped'), NEW l \in 1..Len(dropped'),
                      NEW i \in 1..Len(dropped'[k]), NEW j \in 1..Len(dropped'[l]),
                      dropped'[k][i] = dropped'[l][j]
               PROVE  k = l /\ i = j
    BY DEF DroppedApart
  <2>1. CASE k \in 1..n /\ l \in 1..n
    <3>1. dropped'[k] = dropped[k] /\ dropped'[l] = dropped[l]
      BY <1>4, <2>1
    <3>2. i \in 1..Len(dropped[k]) /\ j \in 1..Len(dropped[l]) /\ dropped[k][i] = dropped[l][j]
      BY <3>1
    <3> QED BY <1>1, <2>1, <3>2 DEF InOnePlace, DroppedApart
  <2>2. CASE k \in 1..n /\ l \notin 1..n
    BY <1>1, <1>4, <1>5, <2>2 DEF InOnePlace, TrackedNotDropped
  <2>3. CASE k \notin 1..n /\ l \in 1..n
    BY <1>1, <1>4, <1>5, <2>3 DEF InOnePlace, TrackedNotDropped
  <2>4. CASE k \notin 1..n /\ l \notin 1..n
    BY <1>1, <1>5, <2>4 DEF InOnePlace, TrackedApart
  <2> QED BY <2>1, <2>2, <2>3, <2>4
<1>12. ContextNotTracked'
  BY <1>1, <1>2, <1>7 DEF InOnePlace, ContextNotTracked
<1>13. ContextNotDropped'
  BY <1>1, <1>2, <1>5 DEF InOnePlace, ContextNotTracked, ContextNotDropped
<1>14. TrackedNotDropped'
  BY <1>1, <1>5, <1>7 DEF InOnePlace, TrackedApart, TrackedNotDropped
<1>15. SlotsUnused'
  <2> SUFFICES ASSUME NEW s \in Slots
               PROVE  /\ \A d \in Contexts : descPool[d] # Slot(s)
                      /\ \A d \in Contexts : \A i \in 1..Len(trackedPools'[d]) :
                           trackedPools'[d][i] # Slot(s)
                      /\ \A k \in 1..Len(dropped') : \A i \in 1..Len(dropped'[k]) :
                           dropped'[k][i] # Slot(s)
    BY <1>2 DEF SlotsUnused, Slots, Slot
  <2>1. /\ \A d \in Contexts : descPool[d] # Slot(s)
        /\ \A d \in Contexts : \A i \in 1..Len(trackedPools[d]) : trackedPools[d][i] # Slot(s)
        /\ \A k \in 1..Len(dropped) : \A i \in 1..Len(dropped[k]) : dropped[k][i] # Slot(s)
    BY <1>1 DEF InOnePlace, SlotsUnused
  <2> QED BY <1>5, <1>7, <2>1
<1>16. SetsAreHeld'
  <2> SUFFICES ASSUME NEW d \in Contexts, NEW q \in setsOf'[d]
               PROVE  /\ phase[d] \in {"recording", "pending"}
                      /\ allocated[q] > 0
                      /\ \/ descPool[d] = q
                         \/ \E i \in 1..Len(trackedPools'[d]) : trackedPools'[d][i] = q
    BY <1>2 DEF SetsAreHeld
  <2>1. d # c /\ q \in setsOf[d]
    BY <1>1, <1>2 DEF PoolsTypeOK
  <2> QED BY <1>1, <1>6, <2>1 DEF SetsAreHeld
<1>17. InOnePlace'
  BY <1>9, <1>10, <1>11, <1>12, <1>13, <1>14, <1>15 DEF InOnePlace
<1> QED BY <1>8, <1>9, <1>16, <1>17 DEF PoolInv

\* A list that was executed has no sets that could be used any more.
LEMMA ResetListInv ==
  ASSUME PoolInv, NEW c \in Contexts, ResetList(c)
  PROVE  PoolInv'
<1> DEFINE pools == trackedPools[c]
<1>1. PoolsTypeOK /\ InOnePlace /\ SlotsReset /\ SetsAreHeld
  BY DEF PoolInv
<1>2. /\ UNCHANGED <<descPool, dropped, setsOf>>
      /\ phase[c] = "executed"
      /\ phase' = [phase EXCEPT ![c] = "idle"]
      /\ ResetPools(pools)
      /\ trackedPools' = [trackedPools EXCEPT ![c] = <<>>]
  BY DEF ResetList
<1>3. pools \in Seq(Pools) /\ \A i \in 1..Len(pools) : pools[i] \in Pools
  BY <1>1, ListTypes
<1>4. \A i, j \in 1..Len(pools) : pools[i] = pools[j] => i = j
  BY <1>1 DEF InOnePlace, TrackedApart
<1>5. \A i \in 1..Len(pools) : \A s \in Slots : pools[i] # Slot(s)
  BY <1>1 DEF InOnePlace, SlotsUnused
<1>6. /\ RecyclerTypes' /\ SlotsReset' /\ SlotsApart'
      /\ \A i \in Slots' : \/ i \in Slots /\ Slot(i)' = Slot(i)
                           \/ \E j \in 1..Len(pools) : Slot(i)' = pools[j]
      /\ \A q \in Pools : (\A j \in 1..Len(pools) : pools[j] # q) => allocated'[q] = allocated[q]
  BY <1>2, <1>3, <1>4, <1>5, ResetFillsSlots
<1>7. /\ \A d \in Contexts \ {c} : trackedPools'[d] = trackedPools[d]
      /\ trackedPools'[c] = <<>>
      /\ trackedPools' \in [Contexts -> Seq(Pools)]
  BY <1>1, <1>2 DEF PoolsTypeOK
<1>8. ASSUME NEW d \in Contexts, NEW i \in 1..Len(trackedPools'[d])
      PROVE  d # c /\ i \in 1..Len(trackedPools[d]) /\ trackedPools'[d] = trackedPools[d]
  <2>1. 1..Len(<<>>) = {}
    OBVIOUS
  <2> QED BY <1>7, <2>1
<1>9. PoolsTypeOK'
  <2>1. phase' \in [Contexts -> {"idle", "recording", "pending", "executed"}]
    BY <1>1, <1>2 DEF PoolsTypeOK
  <2> QED BY <1>1, <1>2, <1>6, <1>7, <2>1 DEF PoolsTypeOK, RecyclerTypes
<1>10. ContextPoolsApart' /\ DroppedApart' /\ ContextNotDropped'
  BY <1>1, <1>2 DEF InOnePlace, ContextPoolsApart, DroppedApart, ContextNotDropped
<1>11. TrackedApart' /\ ContextNotTracked' /\ TrackedNotDropped'
  BY <1>1, <1>2, <1>8 DEF InOnePlace, TrackedApart, ContextNotTracked, TrackedNotDropped
<1>12. SlotsUnused'
  <2> SUFFICES ASSUME NEW s \in Slots'
               PROVE  /\ \A d \in Contexts : descPool[d] # Slot(s)'
                      /\ \A d \in Contexts : \A i \in 1..Len(trackedPools'[d]) :
                           trackedPools'[d][i] # Slot(s)'
                      /\ \A k \in 1..Len(dropped) : \A i \in 1..Len(dropped[k]) :
                           dropped[k][i] # Slot(s)'
    BY <1>2 DEF SlotsUnused
  <2>1. CASE s \in Slots /\ Slot(s)' = Slot(s)
    <3>1. /\ \A d \in Contexts : descPool[d] # Slot(s)
          /\ \A d \in Contexts : \A i \in 1..Len(trackedPools[d]) : trackedPools[d][i] # Slot(s)
          /\ \A k \in 1..Len(dropped) : \A i \in 1..Len(dropped[k]) : dropped[k][i] # Slot(s)
      BY <1>1, <2>1 DEF InOnePlace, SlotsUnused
    <3> QED BY <1>8, <2>1, <3>1
  <2>2. ASSUME NEW m \in 1..Len(pools), Slot(s)' = pools[m]
        PROVE  /\ \A d \in Contexts : descPool[d] # Slot(s)'
               /\ \A d \in Contexts : \A i \in 1..Len(trackedPools'[d]) :
                    trackedPools'[d][i] # Slot(s)'
               /\ \A k \in 1..Len(dropped) : \A i \in 1..Len(dropped[k]) :
                    dropped[k][i] # Slot(s)'
    <3>1. \A d \in Contexts : descPool[d] # Slot(s)'
      BY <1>1, <2>2 DEF InOnePlace, ContextNotTracked
    <3>2. \A d \in Contexts : \A i \in 1..Len(trackedPools'[d]) : trackedPools'[d][i] # Slot(s)'
      BY <1>1, <1>8, <2>2 DEF InOnePlace, TrackedApart
    <3>3. \A k \in 1..Len(dropped) : \A i \in 1..Len(dropped[k]) : dropped[k][i] # Slot(s)'
      BY <1>1, <2>2 DEF InOnePlace, TrackedNotDropped
    <3> QED BY <3>1, <3>2, <3>3
  <2> QED BY <1>6, <2>1, <2>2
<1>13. SetsAreHeld'
  <2> SUFFICES ASSUME NEW d \in Contexts, NEW q \in setsOf[d]
               PROVE  /\ phase'[d] \in {"recording", "pending"}
                      /\ allocated'[q] > 0
                      /\ \/ descPool[d] = q
                         \/ \E i \in 1..Len(trackedPools'[d]) : trackedPools'[d][i] = q
    BY <1>2 DEF SetsAreHeld
  <2>1. /\ phase[d] \in {"recording", "pending"} /\ allocated[q] > 0 /\ q \in Pools
        /\ descPool[d] = q \/ \E i \in 1..Len(trackedPools[d]) : trackedPools[d][i] = q
    BY <1>1 DEF SetsAreHeld, PoolsTypeOK
  <2>2. d # c
    BY <1>2, <2>1
  <2>3. \A j \in 1..Len(pools) : pools[j] # q
    BY <1>1, <2>1, <2>2 DEF InOnePlace, ContextNotTracked, TrackedApart
  <2>4. allocated'[q] = allocated[q]
    BY <1>6, <2>1, <2>3
  <2>5. phase'[d] = phase[d]
    BY <1>1, <1>2, <2>2 DEF PoolsTypeOK
  <2> QED BY <1>7, <2>1, <2>2, <2>4, <2>5
<1>14. InOnePlace'
  BY <1>6, <1>10, <1>11, <1>12 DEF InOnePlace
<1> QED BY <1>6, <1>9, <1>13, <1>14 DEF PoolInv

LEMMA ConcatAt ==
  ASSUME NEW S, NEW s \in Seq(S), NEW t \in Seq(S), NEW k \in 1..Len(s) + Len(t)
  PROVE  (s \o t)[k] = IF k <= Len(s) THEN s[k] ELSE t[k - Len(s)]
BY ConcatProperties

LEMMA RemovedAt ==
  ASSUME NEW S, NEW s \in Seq(S), NEW m \in 1..Len(s)
  PROVE  /\ RemoveAt(s, m) \in Seq(S) /\ Len(RemoveAt(s, m)) = Len(s) - 1
         /\ \A k \in 1..Len(s) - 1 :
              RemoveAt(s, m)[k] = s[IF k < m THEN k ELSE k + 1]
<1> DEFINE n == Len(s)
<1>1. n \in Nat /\ m \in 1..n
  OBVIOUS
<1>2. PICK u : u = SubSeq(s, 1, m - 1)
  OBVIOUS
<1>3. PICK v : v = SubSeq(s, m + 1, n)
  OBVIOUS
<1>4. u \in Seq(S) /\ Len(u) = m - 1 /\ \A k \in 1..m - 1 : u[k] = s[k]
  BY <1>1, <1>2
<1>5. v \in Seq(S) /\ Len(v) = n - m /\ \A k \in 1..n - m : v[k] = s[m + k]
  BY <1>1, <1>3
<1>6. RemoveAt(s, m) = u \o v
  BY <1>2, <1>3 DEF RemoveAt
<1>7. u \o v \in Seq(S) /\ Len(u \o v) = n - 1
  BY <1>1, <1>4, <1>5, ConcatProperties
<1>8. ASSUME NEW k \in 1..n - 1 PROVE (u \o v)[k] = s[IF k < m THEN k ELSE k + 1]
  <2>1. (u \o v)[k] = IF k <= Len(u) THEN u[k] ELSE v[k - Len(u)]
    <3>1. k \in 1..Len(u) + Len(v)
      BY <1>1, <1>4, <1>5
    <3> QED BY <1>4, <1>5, <3>1, ConcatAt
  <2>2. CASE k < m
    BY <1>1, <1>4, <2>1, <2>2
  <2>3. CASE ~(k < m)
    <3>1. k - (m - 1) \in 1..n - m /\ m + (k - (m - 1)) = k + 1 /\ ~(k <= m - 1)
      BY <1>1, <2>3
    <3>2. v[k - (m - 1)] = s[m + (k - (m - 1))]
      BY <1>5, <3>1
    <3>3. (u \o v)[k] = v[k - (m - 1)]
      BY <1>4, <2>1, <3>1
    <3> QED BY <2>3, <3>1, <3>2, <3>3
  <2> QED BY <2>2, <2>3
<1> QED BY <1>6, <1>7, <1>8

\* The pools of the dropped lists are in one place of one list.
LEMMA DroppedOnce ==
  ASSUME DroppedApart, NEW a \in 1..Len(dropped), NEW b \in 1..Len(dropped),
         NEW i \in 1..Len(dropped[a]), NEW j \in 1..Len(dropped[b]),
         dropped[a][i] = dropped[b][j]
  PROVE  a = b /\ i = j
BY DEF DroppedApart

\* A list that was dropped while it was recorded was never submitted, and no
\* other list has sets of the pools it tracks.
LEMMA DestroyListInv ==
  ASSUME PoolInv, NEW m \in 1..Len(dropped), DestroyList(m)
  PROVE  PoolInv'
<1> DEFINE pools == dropped[m]
           n == Len(dropped)
           Old(k) == IF k < m THEN k ELSE k + 1
<1>1. PoolsTypeOK /\ InOnePlace /\ SlotsReset /\ SetsAreHeld
  BY DEF PoolInv
<1>2. /\ UNCHANGED <<phase, descPool, trackedPools, setsOf>>
      /\ ResetPools(pools)
      /\ dropped' = RemoveAt(dropped, m)
  BY DEF DestroyList
<1>3. pools \in Seq(Pools) /\ \A i \in 1..Len(pools) : pools[i] \in Pools
  BY <1>1, ListTypes
<1>4. \A i, j \in 1..Len(pools) : pools[i] = pools[j] => i = j
  BY <1>1 DEF InOnePlace, DroppedApart
<1>5. \A i \in 1..Len(pools) : \A s \in Slots : pools[i] # Slot(s)
  BY <1>1 DEF InOnePlace, SlotsUnused
<1>6. /\ RecyclerTypes' /\ SlotsReset' /\ SlotsApart'
      /\ \A i \in Slots' : \/ i \in Slots /\ Slot(i)' = Slot(i)
                           \/ \E j \in 1..Len(pools) : Slot(i)' = pools[j]
      /\ \A q \in Pools : (\A j \in 1..Len(pools) : pools[j] # q) => allocated'[q] = allocated[q]
  BY <1>2, <1>3, <1>4, <1>5, ResetFillsSlots
<1>7. /\ dropped \in Seq(Seq(Pools)) /\ n \in Nat /\ m \in 1..n
      /\ \A k \in 1..n : dropped[k] \in Seq(Pools)
  BY <1>1, ListTypes
<1>8. /\ dropped' \in Seq(Seq(Pools)) /\ Len(dropped') = n - 1
      /\ \A k \in 1..n - 1 : dropped'[k] = dropped[Old(k)]
  BY <1>2, <1>7, RemovedAt
<1>9. ASSUME NEW k \in 1..Len(dropped')
      PROVE  Old(k) \in 1..n /\ Old(k) # m /\ dropped'[k] = dropped[Old(k)]
  <2>1. k \in 1..n - 1
    BY <1>8
  <2>2. dropped'[k] = dropped[Old(k)]
    BY <1>8, <2>1
  <2>3. Old(k) \in 1..n /\ Old(k) # m
    BY <1>7, <2>1
  <2> QED BY <2>2, <2>3
<1>10. \A k, l \in 1..Len(dropped') : Old(k) = Old(l) => k = l
  BY <1>7, <1>8
<1> HIDE DEF Old
<1>11. PoolsTypeOK'
  BY <1>1, <1>2, <1>6, <1>8 DEF PoolsTypeOK, RecyclerTypes
<1>12. ContextPoolsApart' /\ TrackedApart' /\ ContextNotTracked'
  BY <1>1, <1>2 DEF InOnePlace, ContextPoolsApart, TrackedApart, ContextNotTracked
<1>13. DroppedApart'
  <2> SUFFICES ASSUME NEW k \in 1..Len(dropped'), NEW l \in 1..Len(dropped'),
                      NEW i \in 1..Len(dropped'[k]), NEW j \in 1..Len(dropped'[l]),
                      dropped'[k][i] = dropped'[l][j]
               PROVE  k = l /\ i = j
    BY DEF DroppedApart
  <2>1. /\ Old(k) \in 1..n /\ dropped'[k] = dropped[Old(k)]
        /\ Old(l) \in 1..n /\ dropped'[l] = dropped[Old(l)]
    BY <1>9
  <2>2. /\ i \in 1..Len(dropped[Old(k)]) /\ j \in 1..Len(dropped[Old(l)])
        /\ dropped[Old(k)][i] = dropped[Old(l)][j]
    BY <2>1
  <2>3. DroppedApart
    BY <1>1 DEF InOnePlace
  <2>4. Old(k) = Old(l) /\ i = j
    BY <2>1, <2>2, <2>3, DroppedOnce
  <2> QED BY <1>10, <2>4
<1>14. ContextNotDropped' /\ TrackedNotDropped'
  <2> SUFFICES ASSUME NEW k \in 1..Len(dropped'), NEW j \in 1..Len(dropped'[k])
               PROVE  /\ \A d \in Contexts : descPool[d] # dropped'[k][j]
                      /\ \A d \in Contexts : \A i \in 1..Len(trackedPools[d]) :
                           trackedPools[d][i] # dropped'[k][j]
    BY <1>2 DEF ContextNotDropped, TrackedNotDropped
  <2>1. /\ Old(k) \in 1..n /\ dropped'[k] = dropped[Old(k)]
        /\ j \in 1..Len(dropped[Old(k)])
    BY <1>9
  <2> QED BY <1>1, <2>1 DEF InOnePlace, ContextNotDropped, TrackedNotDropped
<1>15. SlotsUnused'
  <2> SUFFICES ASSUME NEW s \in Slots'
               PROVE  /\ \A d \in Contexts : descPool[d] # Slot(s)'
                      /\ \A d \in Contexts : \A i \in 1..Len(trackedPools[d]) :
                           trackedPools[d][i] # Slot(s)'
                      /\ \A k \in 1..Len(dropped') : \A i \in 1..Len(dropped'[k]) :
                           dropped'[k][i] # Slot(s)'
    BY <1>2 DEF SlotsUnused
  <2>1. CASE s \in Slots /\ Slot(s)' = Slot(s)
    <3>1. /\ \A d \in Contexts : descPool[d] # Slot(s)
          /\ \A d \in Contexts : \A i \in 1..Len(trackedPools[d]) : trackedPools[d][i] # Slot(s)
          /\ \A k \in 1..n : \A i \in 1..Len(dropped[k]) : dropped[k][i] # Slot(s)
      BY <1>1, <2>1 DEF InOnePlace, SlotsUnused
    <3>2. ASSUME NEW k \in 1..Len(dropped'), NEW i \in 1..Len(dropped'[k])
          PROVE  dropped'[k][i] # Slot(s)'
      BY <1>9, <2>1, <3>1
    <3> QED BY <2>1, <3>1, <3>2
  <2>2. ASSUME NEW h \in 1..Len(pools), Slot(s)' = pools[h]
        PROVE  /\ \A d \in Contexts : descPool[d] # Slot(s)'
               /\ \A d \in Contexts : \A i \in 1..Len(trackedPools[d]) :
                    trackedPools[d][i] # Slot(s)'
               /\ \A k \in 1..Len(dropped') : \A i \in 1..Len(dropped'[k]) :
                    dropped'[k][i] # Slot(s)'
    <3>1. /\ \A d \in Contexts : descPool[d] # Slot(s)'
          /\ \A d \in Contexts : \A i \in 1..Len(trackedPools[d]) : trackedPools[d][i] # Slot(s)'
      BY <1>1, <2>2 DEF InOnePlace, ContextNotDropped, TrackedNotDropped
    <3>2. ASSUME NEW k \in 1..Len(dropped'), NEW i \in 1..Len(dropped'[k])
          PROVE  dropped'[k][i] # Slot(s)'
      BY <1>1, <1>9, <2>2 DEF InOnePlace, DroppedApart
    <3> QED BY <3>1, <3>2
  <2> QED BY <1>6, <2>1, <2>2
<1>16. SetsAreHeld'
  <2> SUFFICES ASSUME NEW d \in Contexts, NEW q \in setsOf[d] PROVE allocated'[q] > 0
    BY <1>1, <1>2 DEF SetsAreHeld
  <2>1. /\ allocated[q] > 0 /\ q \in Pools
        /\ descPool[d] = q \/ \E i \in 1..Len(trackedPools[d]) : trackedPools[d][i] = q
    BY <1>1 DEF SetsAreHeld, PoolsTypeOK
  <2>2. \A j \in 1..Len(pools) : pools[j] # q
    BY <1>1, <2>1 DEF InOnePlace, ContextNotDropped, TrackedNotDropped
  <2> QED BY <1>6, <2>1, <2>2
<1>17. InOnePlace'
  BY <1>6, <1>12, <1>13, <1>14, <1>15 DEF InOnePlace
<1> QED BY <1>6, <1>11, <1>16, <1>17 DEF PoolInv

------------------------------------------------------------------------------
\* A pool is in one place, what is in the recycler has been reset, and the
\* pools of the sets a list was recorded with are its context's or tracked by
\* it, at every point of allocateDescriptorSet, of the lists' resets and of
\* their destruction.
THEOREM PoolInvariant == PoolsSpec => []PoolInv
<1>1. PoolsInit => PoolInv
  <2> SUFFICES ASSUME PoolsInit PROVE PoolInv
    OBVIOUS
  <2> USE DEF PoolsInit
  <2>1. Slots = {} /\ Len(dropped) = 0 /\ \A c \in Contexts : Len(trackedPools[c]) = 0
    BY DEF Slots
  <2>2. PoolsTypeOK
    <3>1. poolRecycler \in [objects : [1..PoolCapacity -> Pools \cup {Nil}], id : 0..PoolCapacity]
      BY PoolSizesAssumption
    <3>2. allocated \in [Pools -> 0..MaxSets]
      BY PoolSizesAssumption
    <3>3. trackedPools \in [Contexts -> Seq(Pools)] /\ dropped \in Seq(Seq(Pools))
      OBVIOUS
    <3> QED BY <3>1, <3>2, <3>3 DEF PoolsTypeOK
  <2>3. InOnePlace
    BY <2>1 DEF InOnePlace, ContextPoolsApart, TrackedApart, DroppedApart, SlotsApart,
                ContextNotTracked, ContextNotDropped, TrackedNotDropped, SlotsUnused
  <2>4. SlotsReset /\ SetsAreHeld
    BY <2>1 DEF SlotsReset, SetsAreHeld
  <2> QED BY <2>2, <2>3, <2>4 DEF PoolInv
<1>2. PoolInv /\ [PoolsNext]_poolVars => PoolInv'
  <2> SUFFICES ASSUME PoolInv, [PoolsNext]_poolVars PROVE PoolInv'
    OBVIOUS
  <2>1. ASSUME NEW c \in Contexts, AllocateSet(c) PROVE PoolInv'
    BY <2>1, AllocateSetInv
  <2>2. ASSUME NEW c \in Contexts, AllocateFirstSet(c) PROVE PoolInv'
    BY <2>2, AllocateFirstSetInv
  <2>3. ASSUME NEW c \in Contexts, AllocateFromNext(c) PROVE PoolInv'
    BY <2>3, AllocateFromNextInv
  <2>4. ASSUME NEW c \in Contexts, BeginList(c) \/ SubmitList(c) \/ ExecuteList(c) PROVE PoolInv'
    BY <2>4, ListStepInv
  <2>5. ASSUME NEW c \in Contexts, BeginAnew(c) PROVE PoolInv'
    BY <2>5, BeginAnewInv
  <2>6. ASSUME NEW c \in Contexts, ResetList(c) PROVE PoolInv'
    BY <2>6, ResetListInv
  <2>7. ASSUME NEW i \in DOMAIN dropped, DestroyList(i) PROVE PoolInv'
    <3>1. DOMAIN dropped = 1..Len(dropped)
      BY DEF PoolInv, PoolsTypeOK
    <3> QED BY <2>7, <3>1, DestroyListInv
  <2>8. CASE UNCHANGED poolVars
    BY <2>8 DEF poolVars, PoolInv, PoolsTypeOK, InOnePlace, ContextPoolsApart, TrackedApart,
                DroppedApart, SlotsApart, ContextNotTracked, ContextNotDropped, TrackedNotDropped,
                SlotsUnused, SlotsReset, SetsAreHeld, Slots, Slot
  <2> QED BY <2>1, <2>2, <2>3, <2>4, <2>5, <2>6, <2>7, <2>8 DEF PoolsNext
<1> QED BY <1>1, <1>2, PTL DEF PoolsSpec

\* While a list is recorded or may be executed, the pools of its sets are
\* neither reset, nor in the recycler, nor those of another context.
THEOREM PoolsOutliveTheirList == PoolsSpec => []SetsOutliveTheirList
<1>1. PoolInv => SetsOutliveTheirList
  <2> SUFFICES ASSUME PoolInv, NEW c \in Contexts, NEW p \in setsOf[c]
               PROVE  /\ allocated[p] > 0
                      /\ \A i \in Slots : Slot(i) # p
                      /\ \A d \in Contexts \ {c} : descPool[d] # p
    BY DEF SetsOutliveTheirList, Slots, Slot
  <2>1. PoolsTypeOK /\ InOnePlace /\ SlotsReset /\ SetsAreHeld
    BY DEF PoolInv
  <2>2. /\ allocated[p] > 0 /\ p \in Pools /\ p # Nil
        /\ descPool[c] = p \/ \E i \in 1..Len(trackedPools[c]) : trackedPools[c][i] = p
    BY <2>1, PoolsAssumption DEF SetsAreHeld, PoolsTypeOK
  <2>3. \A i \in Slots : Slot(i) # p
    BY <2>1, <2>2 DEF InOnePlace, SlotsUnused
  <2>4. \A d \in Contexts \ {c} : descPool[d] # p
    BY <2>1, <2>2 DEF InOnePlace, ContextPoolsApart, ContextNotTracked
  <2> QED BY <2>2, <2>3, <2>4
<1> QED BY <1>1, PoolInvariant, PTL

\* What the pools take for granted of the lists they are tracked by is what
\* the lists guarantee when no wait and no reset of a fence fails: recording,
\* submission, execution and return come in the order of VltListLife
\* (ListsLive), and to no other context meanwhile.
THEOREM PoolListsLive == PoolsSpec => PoolListsFollowTheirLife
<1> USE ContextsAssumption
<1>1. PoolsInit => PoolLife!LifeInit
  BY DEF PoolsInit, PoolLife!LifeInit, OwnList
<1>2. PoolInv /\ [PoolsNext]_poolVars => [PoolLife!LifeNext]_(PoolLife!lifeVars)
  <2> SUFFICES ASSUME PoolInv, [PoolsNext]_poolVars
               PROVE  [PoolLife!LifeNext]_(PoolLife!lifeVars)
    OBVIOUS
  <2> DEFINE Pending == {d \in Contexts : phase[d] = "pending"}
  <2>1. phase \in [Contexts -> {"idle", "recording", "pending", "executed"}]
    BY DEF PoolInv, PoolsTypeOK
  <2>2. ASSUME NEW c \in Contexts, BeginList(c) PROVE PoolLife!Begin(c)
    <3>1. phase[c] = "idle" /\ phase' = [phase EXCEPT ![c] = "recording"]
      BY <2>2 DEF BeginList
    <3>2. \A d \in Contexts : OwnList[d] # c
      BY <3>1 DEF OwnList
    <3>3. OwnList' = [OwnList EXCEPT ![c] = c]
      BY <2>1, <3>1 DEF OwnList
    <3>4. Pending' = Pending /\ c \notin Pending
      BY <2>1, <3>1
    <3> QED BY <3>1, <3>2, <3>3, <3>4 DEF PoolLife!Begin
  <2>3. ASSUME NEW c \in Contexts, SubmitList(c) PROVE PoolLife!Submitted(c)
    <3>1. phase[c] = "recording" /\ phase' = [phase EXCEPT ![c] = "pending"]
      BY <2>3 DEF SubmitList
    <3>2. OwnList' = OwnList /\ OwnList[c] = c
      BY <2>1, <3>1 DEF OwnList
    <3>3. Pending' = Pending \cup {c}
      BY <2>1, <3>1
    <3> QED BY <3>1, <3>2, <3>3 DEF PoolLife!Submitted
  <2>4. ASSUME NEW c \in Contexts, ExecuteList(c) PROVE PoolLife!Executed(c)
    <3>1. phase[c] = "pending" /\ phase' = [phase EXCEPT ![c] = "executed"]
      BY <2>4 DEF ExecuteList
    <3>2. OwnList' = OwnList /\ OwnList[c] = c
      BY <2>1, <3>1 DEF OwnList
    <3>3. Pending' = Pending \ {c}
      BY <2>1, <3>1
    <3> QED BY <3>1, <3>2, <3>3 DEF PoolLife!Executed
  <2>5. ASSUME NEW c \in Contexts, ResetList(c) PROVE PoolLife!Return(c)
    <3>1. phase[c] = "executed" /\ phase' = [phase EXCEPT ![c] = "idle"]
      BY <2>5 DEF ResetList
    <3>2. OwnList' = [OwnList EXCEPT ![c] = Nil]
      BY <2>1, <3>1 DEF OwnList
    <3>3. Pending' = Pending
      BY <2>1, <3>1
    <3> QED BY <3>1, <3>2, <3>3 DEF PoolLife!Return
  <2>6. ASSUME phase' = phase PROVE UNCHANGED PoolLife!lifeVars
    BY <2>6 DEF PoolLife!lifeVars, OwnList
  <2>7. ASSUME NEW c \in Contexts,
               AllocateSet(c) \/ AllocateFirstSet(c) \/ AllocateFromNext(c) \/ BeginAnew(c)
        PROVE  phase' = phase
    BY <2>7 DEF AllocateSet, AllocateFirstSet, AllocateFromNext, BeginAnew
  <2>8. ASSUME NEW i \in DOMAIN dropped, DestroyList(i) PROVE phase' = phase
    BY <2>8 DEF DestroyList
  <2>9. UNCHANGED poolVars => phase' = phase
    BY DEF poolVars
  <2> QED BY <2>2, <2>3, <2>4, <2>5, <2>6, <2>7, <2>8, <2>9 DEF PoolsNext, PoolLife!LifeNext
<1> QED BY <1>1, <1>2, PoolInvariant, PTL
        DEF PoolsSpec, PoolListsFollowTheirLife, PoolLife!LifeSpec

------------------------------------------------------------------------------
\* A behaviour of which one part runs and the others rest is one of each part:
\* what is proved of a part holds of the composition.
THEOREM CommandsAreTheirParts == CommandsSpec => Spec /\ PoolsSpec /\ ContextSpec
<1>1. CommandsInit => Init /\ PoolsInit /\ ContextInit
  BY DEF CommandsInit
<1>2. [CommandsNext]_commandVars => [Next]_vars /\ [PoolsNext]_poolVars /\ [ContextNext]_context
  <2>1. UNCHANGED commandVars => UNCHANGED vars /\ UNCHANGED poolVars /\ UNCHANGED context
    BY DEF commandVars
  <2>2. CommandsNext => [Next]_vars /\ [PoolsNext]_poolVars /\ [ContextNext]_context
    BY DEF CommandsNext
  <2> QED BY <2>1, <2>2
<1> QED BY <1>1, <1>2, PTL DEF CommandsSpec, Spec, PoolsSpec, ContextSpec

\* Every variable of the lists, of the pools and of a context keeps its type,
\* for any contexts, lists, pools, images and buffers.
THEOREM CommandsTypes == CommandsSpec => []CommandsTypeOK
<1>1. TypeOK /\ PoolInv /\ ContextTypeOK => CommandsTypeOK
  BY DEF CommandsTypeOK, PoolInv
<1> QED BY <1>1, CommandsAreTheirParts, CommandListTypes, PoolInvariant, ContextTypes, PTL
===============================================================================
