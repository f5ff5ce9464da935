----------------------------- MODULE MCVltMemory -----------------------------
(* The memory of the device on a small adapter, with small buffers.        *)
EXTENDS MCVltMemoryParts, Bitwise, TLC

(***************************************************************************)
(* An adapter with a device-local heap under a budget and a host heap      *)
(* without one, and one memory type of each kind the fallbacks tell apart. *)
(* Sizes are scaled: chunks of 8, 4 and 2 units instead of 128, 64 and     *)
(* 16 MiB, and two chunks to a heap instead of fifteen.                    *)
(***************************************************************************)
MCHeaps == {"vram", "sys"}
MCPropFlags == <<{"DeviceLocal"}, {"DeviceLocal", "HostVisible"},
                 {"HostVisible", "HostCached"}>>
MCGrants == {[vram |-> 8, sys |-> 8], [vram |-> 2, sys |-> 8],
             [vram |-> 0, sys |-> 8], [vram |-> 0, sys |-> 0]}

Request(size, align, flags, hints, prefers, requires) ==
  [size |-> size, align |-> align, types |-> 1..3, flags |-> flags, hints |-> hints,
   prefersDedicated |-> prefers, requiresDedicated |-> requires]

MCRequests ==
  {Request(1, 1, {"DeviceLocal"}, {}, FALSE, FALSE),
   Request(2, 2, {"DeviceLocal"}, {"GpuWritable"}, FALSE, FALSE),
   Request(3, 1, {"DeviceLocal"}, {"GpuReadable"}, TRUE, FALSE),
   Request(1, 1, {"HostVisible", "HostCached"}, {"Transient"}, FALSE, FALSE),
   Request(1, 1, {"DeviceLocal"}, {}, TRUE, TRUE)}

MCHeapOf == <<"vram", "vram", "sys">>
MCHeapSize == [vram |-> 8, sys |-> 4]
MCBudget == [vram |-> 6, sys |-> 0]

ASSUME AlignedAssumption == ChunksAreAligned

(***************************************************************************)
(* util::align as the bit mask it is, and buffers of 24 units of which a   *)
(* line takes 4.                                                           *)
(***************************************************************************)
Ones == 2 ^ 8 - 1
MaskAlign(value, align) == (value + align - 1) & (Ones - (align - 1))

BufferSymmetry == Permutations(Buffers)
==============================================================================
