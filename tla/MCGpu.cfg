CONSTANTS
  Graphics = g
  Computes = {c}
  Addrs = {a1}
  Imms = {1}
  Sems = {s1, s2, s3}
  Kinds = {"write", "wait"}
  Nil = Nil
  MaxCmds = 1
  MaxLists = 2
  MaxFaults = 1
  RingSize = 6
  BatchSizes = {1, 2, 5}
  MaxPackets = 20
  MaxDings = 3
SPECIFICATION GpuSpec
INVARIANTS GpuTypeOK TasksAreJoined FrameIsDrained ExecutedInOrder RoomIsFree
PROPERTIES CleanupReturnsOrStarves RungIsSubmitted
CHECK_DEADLOCK FALSE
