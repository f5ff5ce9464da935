----------------------------- MODULE MCVltStaging -----------------------------
(* VltStaging with util::align as the bit mask it is, and buffers of 24 units *)
(* of which a line takes 4.                                                   *)
EXTENDS VltStaging, Bitwise, TLC

Ones == 2 ^ 8 - 1
MaskAlign(value, align) == (value + align - 1) & (Ones - (align - 1))
BufferSymmetry == Permutations(Buffers)
=============================================================================
