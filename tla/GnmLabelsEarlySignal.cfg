SPECIFICATION Spec
CONSTANTS
  Graphics = g
  Computes = {c}
  Addrs = {a1}
  Imms = {0, 1}
  Sems = {s1, s2, s3}
  Kinds = {"write", "wait"}
  Nil = Nil
  MaxCmds = 2
  MaxLists = 1
  MaxFaults = 0
INVARIANT SignalCoversWork
CHECK_DEADLOCK FALSE
