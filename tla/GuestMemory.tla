----------------------------- MODULE GuestMemory -----------------------------
(***************************************************************************)
(* The memory of the game: mappings of the host, made by a search for a    *)
(* free region, and the list of records that the emulator keeps of them.   *)
(* The search and the release take no lock; the lock covers the append of  *)
(* a record and the lookup of one, but not its removal: a removal that     *)
(* meets an append, or another unmapping, is a race on the list, and what  *)
(* becomes of the list then is not followed.                               *)
(*                                                                         *)
(* Source: Emulator/Memory.cpp.  The host is Windows (VirtualAlloc,        *)
(* VirtualQuery, VirtualFree in Platform/PlatMemory.cpp, the only          *)
(* implementation); an address is a number of kernel pages.                *)
(***************************************************************************)
EXTENDS Naturals, FiniteSets, SequencesExt

CONSTANTS
  Mappers,
  HostEnd,             \* the host's addresses are below
  SysStart, SysEnd,    \* the area managed by the system
  AppStart, AppEnd,    \* the area the game maps in
  Granule,             \* the host reserves multiples of this many pages
  Sizes, Alignments,   \* what the game asks for
  MaxMappings          \* bound: mappings at a time

ASSUME MemoryAssumption ==
  /\ HostEnd \in Nat /\ {SysStart, SysEnd, AppStart, AppEnd} \subseteq 0 .. HostEnd
  /\ Granule \in Nat \ {0}
  /\ Sizes \subseteq Nat \ {0} /\ Alignments \subseteq Nat \ {0}

VARIABLES
  mapped,  \* the host's mappings [start, size, end]: VirtualAlloc may round start down
  blocks,  \* m_memBlocks, the records [start, size] in the list's order
  doing,   \* what each thread does
  raced    \* two unmappings overlapped, or a removal met an append

memoryVars == <<mapped, blocks, doing, raced>>

Idle == [at |-> "idle"]

MemoryInit ==
  /\ mapped = {} /\ blocks = <<>>
  /\ doing = [t \in Mappers |-> Idle]
  /\ raced = FALSE

At(point) == {t \in Mappers : doing[t].at = point}
Unmapping == At("lookup") \cup At("erase")
LockIsFree == At("append") = {}
RecordOf(m) == [start |-> m.start, size |-> m.size]

Goto(t, point) == ~raced /\ doing' = [doing EXCEPT ![t] = point]

------------------------------------------------------------------------------
\* The host.  A region is free from the address asked about to the next
\* mapping, or is one mapping.
Occupied(a) == \E m \in mapped : m.start <= a /\ a < m.end

RegionEnd(a) ==
  IF Occupied(a) THEN (CHOOSE m \in mapped : m.start <= a /\ a < m.end).end
  ELSE CHOOSE e \in a + 1 .. HostEnd :
         /\ \A b \in a .. e - 1 : ~Occupied(b)
         /\ e = HostEnd \/ Occupied(e)

Mapping(a, size) == [start |-> a - (a % Granule), size |-> size, end |-> a + size]
IsFree(m) == m.end <= HostEnd /\ \A b \in m.start .. m.end - 1 : ~Occupied(b)

------------------------------------------------------------------------------
\* The map functions, sce_malloc and sce_mmap come to allocateInternal; an
\* address asked for is where the search begins.
Map(t, hint, size, alignment) ==
  /\ doing[t] = Idle /\ Cardinality(mapped) < MaxMappings
  /\ Goto(t, [at |-> "search", from |-> hint, size |-> size, alignment |-> alignment])
  /\ UNCHANGED <<mapped, blocks, raced>>

AlignUp(a, alignment) == ((a + alignment - 1) \div alignment) * alignment

\* One VMQuery: the region is skipped, or is tried next.
Search(t) ==
  LET s == doing[t]
      end == RegionEnd(s.from)
      region == AlignUp(s.from, s.alignment)
      fits == ~Occupied(s.from) /\ region + s.size <= end
  IN
  /\ s.at = "search"
  /\ UNCHANGED <<mapped, blocks, raced>>
  /\ \/ s.from >= AppEnd /\ Goto(t, Idle)
     \/ s.from < AppEnd /\ ~fits /\ Goto(t, [s EXCEPT !.from = end])
     \/ s.from < AppEnd /\ fits
        /\ Goto(t, [at |-> "allocate", region |-> region, search |-> [s EXCEPT !.from = end]])

InArea(m) ==
  \/ m.start >= SysStart /\ m.start + m.size <= SysEnd
  \/ m.start >= AppStart /\ m.start + m.size <= AppEnd

\* VMAllocate.  The region may be taken meanwhile, or be in neither area; the
\* search goes on behind it.
Allocate(t) ==
  /\ doing[t].at = "allocate"
  /\ UNCHANGED <<blocks, raced>>
  /\ LET m == Mapping(doing[t].region, doing[t].search.size) IN
       IF IsFree(m) /\ InArea(m)
       THEN mapped' = mapped \cup {m} /\ Goto(t, [at |-> "record", mapping |-> m])
       ELSE Goto(t, doing[t].search) /\ UNCHANGED mapped

\* The lock is taken; the record is about to be linked.
Record(t) ==
  /\ doing[t].at = "record" /\ LockIsFree
  /\ Goto(t, [doing[t] EXCEPT !.at = "append"])
  /\ UNCHANGED <<mapped, blocks, raced>>

\* Fault: the newest record comes first.
EndRecordFirst(t) ==
  /\ doing[t].at = "append"
  /\ blocks' = <<RecordOf(doing[t].mapping)>> \o blocks
  /\ Goto(t, Idle) /\ UNCHANGED <<mapped, raced>>

EndRecord(t) ==
  /\ doing[t].at = "append"
  /\ blocks' = Append(blocks, RecordOf(doing[t].mapping))
  /\ Goto(t, Idle) /\ UNCHANGED <<mapped, raced>>

------------------------------------------------------------------------------
\* VMFree of a mapping whose call has returned: memoryUnmap, sce_free,
\* sce_munmap and, with the size to allocate afterwards, sce_realloc.
Release(t, m, after) ==
  /\ doing[t] = Idle
  /\ m \notin {doing[u].mapping : u \in At("record") \cup At("append")}
  /\ mapped' = mapped \ {m}
  /\ raced' = (raced \/ Unmapping # {})
  /\ Goto(t, [at |-> "lookup", mapping |-> m, after |-> after])
  /\ UNCHANGED blocks

Unmap(t) == \E m \in mapped : Release(t, m, 0)

\* sce_realloc gives up a pointer of which there is no record.
Covers(b, a) == b.start <= a /\ a < b.start + b.size
Realloc(t, size) ==
  \E m \in mapped :
    /\ LockIsFree /\ \E b \in Range(blocks) : Covers(b, m.start)
    /\ Release(t, m, size)

\* Where a thread goes after memoryUnmap.
After(d) ==
  IF d.after = 0 THEN Idle
  ELSE [at |-> "search", from |-> SysStart, size |-> d.after, alignment |-> 1]

\* findMemoryBlock: the first record that contains the address.
Lookup(t) ==
  LET found == {i \in DOMAIN blocks : Covers(blocks[i], doing[t].mapping.start)} IN
  /\ doing[t].at = "lookup" /\ LockIsFree
  /\ UNCHANGED <<mapped, blocks, raced>>
  /\ \/ found = {} /\ Goto(t, After(doing[t]))
     \/ \E i \in found :
          /\ \A j \in found : i <= j
          /\ Goto(t, [at |-> "erase", block |-> blocks[i], unmapping |-> doing[t]])

\* The removal takes no lock: one that meets an append may lose what is
\* appended.  (A record that was removed before is left alone here; both are
\* undefined in the code.)
Erase(t) ==
  /\ doing[t].at = "erase" /\ ~raced
  /\ blocks' = RemoveFirst(blocks, doing[t].block)
  /\ raced' = (raced \/ ~LockIsFree)
  /\ \E lost \in SUBSET At("append") :
       doing' = [u \in Mappers |-> IF u = t THEN After(doing[t].unmapping)
                                   ELSE IF u \in lost THEN Idle ELSE doing[u]]
  /\ UNCHANGED mapped

\* Bound: a behaviour is not followed beyond a race.
MemoryNext ==
  \/ raced /\ UNCHANGED memoryVars
  \/ \E t \in Mappers :
       \/ \E size \in Sizes :
            \/ \E alignment \in Alignments, hint \in {SysStart, AppStart} :
                 Map(t, hint, size, alignment)
            \/ Realloc(t, size)
       \/ Search(t) \/ Allocate(t) \/ Record(t) \/ EndRecord(t)
       \/ Unmap(t) \/ Lookup(t) \/ Erase(t)

MemorySpec == MemoryInit /\ [][MemoryNext]_memoryVars

------------------------------------------------------------------------------
HostMappings == [start : 0 .. HostEnd, size : Sizes, end : 1 .. HostEnd]
Records == [start : 0 .. HostEnd, size : Sizes]
Searches ==
  [at : {"search"}, from : 0 .. HostEnd, size : Sizes, alignment : Alignments \cup {1}]
Lookups == [at : {"lookup"}, mapping : HostMappings, after : Sizes \cup {0}]
Doings ==
  {Idle} \cup Searches \cup [at : {"allocate"}, region : Nat, search : Searches]
  \cup [at : {"record", "append"}, mapping : HostMappings]
  \cup Lookups \cup [at : {"erase"}, block : Records, unmapping : Lookups]

\* Every variable keeps its type; the host's mappings are disjoint.
MemoryTypeOK ==
  /\ mapped \subseteq HostMappings
  /\ \A m, n \in mapped : m = n \/ m.end <= n.start \/ n.end <= m.start
  /\ blocks \in Seq(Records)
  /\ doing \in [Mappers -> Doings]
  /\ raced \in BOOLEAN

\* The mappings whose record is due: the call that makes one has recorded it,
\* the call that releases one has not removed it.
Recorded == mapped \ {doing[t].mapping : t \in At("record") \cup At("append")}
Leaving(b) ==
  {t \in At("lookup") : RecordOf(doing[t].mapping) = b}
    \cup {t \in At("erase") : RecordOf(doing[t].unmapping.mapping) = b}

\* As long as no two unmappings have overlapped and no removal of a record has
\* met an append (both undefined in the code), the records are those of the
\* mappings, although other threads map what an unmapping has given back to
\* the host while its record is still in the list.
RecordsAreTheMappings ==
  ~raced =>
    \A b \in Range(blocks) \cup {RecordOf(m) : m \in Recorded} :
      Cardinality({i \in DOMAIN blocks : blocks[i] = b})
        = Cardinality(Leaving(b)) + Cardinality({m \in Recorded : RecordOf(m) = b})
==============================================================================
