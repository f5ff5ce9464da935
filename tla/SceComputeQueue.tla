--------------------------- MODULE SceComputeQueue ---------------------------
(***************************************************************************)
(* A compute queue: a ring of packets that the game writes and rings the   *)
(* doorbell for, and a read pointer in the game's memory through which the *)
(* driver gives room back.  dingDong() holds the queue's mutex, but the    *)
(* game goes on writing while it runs.                                     *)
(*                                                                         *)
(* Source: Graphics/Sce/SceComputeQueue.cpp, SceGpuQueue.cpp;              *)
(* Graphics/Gnm/GnmCommandProcessor.cpp, GnmCommandBufferDispatch.cpp.     *)
(***************************************************************************)
EXTENDS Naturals, Sequences, FiniteSetsExt

CONSTANTS
  RingSize,   \* ringSizeInDW; a packet takes one dword here
  BatchSizes, \* packets the game writes before it rings the doorbell
  MaxPackets, \* bound: packets written in all
  MaxDings    \* bound: doorbells rung and not yet answered

ASSUME RingAssumption ==
  /\ RingSize \in Nat \ {0, 1}
  /\ BatchSizes \subseteq 1 .. RingSize - 1
  /\ MaxPackets \in Nat /\ MaxDings \in Nat \ {0}

VARIABLES
  put,       \* packets the game has written
  ring,      \* the memory from m_ringBegin to m_ringEnd
  dings,     \* offsets of the calls of dingDong() not yet begun, in order
  ringCmd,   \* m_ringCmd - m_ringBegin
  readPtr,   \* *m_offsetPtr
  step,      \* where dingDong() is
  nextCmd,   \* its nextCmd - m_ringBegin
  list,      \* the command list being recorded, empty when there is none
  submitted  \* numbers of the packets submitted, in order

ringVars == <<put, ring, dings, ringCmd, readPtr, step, nextCmd, list, submitted>>

\* A batch begins with the packet that sets the default hardware state.
Packets == [n : 0 .. MaxPackets, init : BOOLEAN]

RingInit ==
  /\ put = 0
  /\ ring = [d \in 0 .. RingSize - 1 |-> [n |-> 0, init |-> FALSE]]
  /\ dings = <<>>
  /\ ringCmd = 0 /\ readPtr = 0
  /\ step = "idle" /\ nextCmd = 0
  /\ list = <<>>
  /\ submitted = <<>>

------------------------------------------------------------------------------
\* The game.  By the read pointer it knows which packets are still in use; it
\* leaves a dword free, for a full ring would look like an empty one.
Outstanding == (put + RingSize - (readPtr % RingSize)) % RingSize

\* The end of the ring is the offset 0 or the size of the ring.
Offsets(end) ==
  IF end % RingSize = 0 THEN {0, RingSize} ELSE {end % RingSize}

\* The ring after size packets more have been written; the first begins a batch.
RingWith(size) ==
  [d \in DOMAIN ring |->
     IF \E i \in 1 .. size : d = (put + i - 1) % RingSize
     THEN LET i == CHOOSE i \in 1 .. size : d = (put + i - 1) % RingSize
          IN  [n |-> put + i, init |-> i = 1]
     ELSE ring[d]]

PutBatch(size) ==
  /\ put + size <= MaxPackets
  /\ Len(dings) < MaxDings
  /\ Outstanding + size < RingSize
  /\ ring' = RingWith(size)
  /\ put' = put + size
  /\ \E offset \in Offsets(put + size) : dings' = Append(dings, offset)
  /\ UNCHANGED <<ringCmd, readPtr, step, nextCmd, list, submitted>>

------------------------------------------------------------------------------
\* record(): the packets from first up to last are added to the list; the
\* one that sets the default state begins a new list in place of the old.
PacketsIn(first, last) == [i \in 1 .. last - first |-> ring[first + i - 1]]
Begins(packets) == {i \in DOMAIN packets : packets[i].init}

ListWith(packets) ==
  IF Begins(packets) = {} THEN list \o packets
  ELSE SubSeq(packets, Max(Begins(packets)), Len(packets))

\* Fault: a range that wraps is taken for an empty one.
RingForwardOnly(offset) ==
  /\ list' = IF offset > ringCmd THEN ListWith(PacketsIn(ringCmd, offset)) ELSE list
  /\ step' = IF offset > ringCmd THEN "submit" ELSE "publish"

\* dingDong() up to the second record() of a range that wraps.
RecordFirst(offset) ==
  \/ /\ offset > ringCmd
     /\ list' = ListWith(PacketsIn(ringCmd, offset))
     /\ step' = "submit"
  \/ /\ offset <= ringCmd
     /\ list' = ListWith(PacketsIn(ringCmd, RingSize))
     /\ step' = "wrapped"

\* Fault: the room is given back before the packets have been read.
DingDongPublishing ==
  /\ step = "idle" /\ dings # <<>>
  /\ nextCmd' = Head(dings) /\ readPtr' = Head(dings)
  /\ dings' = Tail(dings)
  /\ RecordFirst(Head(dings))
  /\ UNCHANGED <<put, ring, ringCmd, submitted>>

DingDong ==
  /\ step = "idle" /\ dings # <<>>
  /\ nextCmd' = Head(dings)
  /\ dings' = Tail(dings)
  /\ RecordFirst(Head(dings))
  /\ UNCHANGED <<put, ring, ringCmd, readPtr, submitted>>

RecordRest ==
  /\ step = "wrapped"
  /\ list' = ListWith(PacketsIn(0, nextCmd))
  /\ step' = "submit"
  /\ UNCHANGED <<put, ring, dings, ringCmd, readPtr, nextCmd, submitted>>

\* submitCommand(): the recording ends and its list goes to the device.
Submit ==
  /\ step = "submit"
  /\ submitted' = submitted \o [i \in DOMAIN list |-> list[i].n]
  /\ list' = <<>>
  /\ step' = "publish"
  /\ UNCHANGED <<put, ring, dings, ringCmd, readPtr, nextCmd>>

\* Fault: the command pointer stays where it was.
PublishOnly ==
  /\ step = "publish"
  /\ readPtr' = nextCmd
  /\ step' = "idle"
  /\ UNCHANGED <<put, ring, dings, ringCmd, nextCmd, list, submitted>>

\* Fault: the distance is published in place of the offset.
PublishDistance ==
  /\ step = "publish"
  /\ ringCmd' = nextCmd
  /\ readPtr' = readPtr + nextCmd
  /\ step' = "idle"
  /\ UNCHANGED <<put, ring, dings, nextCmd, list, submitted>>

Publish ==
  /\ step = "publish"
  /\ ringCmd' = nextCmd
  /\ readPtr' = nextCmd
  /\ step' = "idle"
  /\ UNCHANGED <<put, ring, dings, nextCmd, list, submitted>>

Driver == DingDong \/ RecordRest \/ Submit \/ Publish

RingNext == (\E size \in BatchSizes : PutBatch(size)) \/ Driver

\* The thread that rings the doorbell runs dingDong() to its end; the game
\* need not write anything.
RingSpec == RingInit /\ [][RingNext]_ringVars /\ WF_ringVars(Driver)

------------------------------------------------------------------------------
\* Every variable keeps its type.
RingTypeOK ==
  /\ put \in 0 .. MaxPackets
  /\ ring \in [0 .. RingSize - 1 -> Packets]
  /\ dings \in Seq(0 .. RingSize) /\ Len(dings) <= MaxDings
  /\ ringCmd \in 0 .. RingSize /\ readPtr \in 0 .. RingSize /\ nextCmd \in 0 .. RingSize
  /\ step \in {"idle", "wrapped", "submit", "publish"}
  /\ list \in Seq(Packets) /\ Len(list) < RingSize
  /\ submitted \in Seq(1 .. MaxPackets)

\* The packets reach the device in the order in which they were written, none
\* of them twice and none left out, although the ring wraps anywhere and the
\* game overwrites what dingDong() has given back.
ExecutedInOrder == \A i \in 1 .. Len(submitted) : submitted[i] = i

\* The read pointer gives room back only after the packets in it have been
\* submitted, whatever the game has written in the meantime.
RoomIsFree == put - Len(submitted) <= Outstanding

\* Every packet the doorbell was rung for is submitted in the end.
RungIsSubmitted ==
  \A n \in 1 .. MaxPackets : put >= n ~> Len(submitted) >= n
==============================================================================
