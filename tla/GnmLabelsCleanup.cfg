SPECIFICATION FairSpec
CONSTANTS
  Graphics = g
  Computes = {c}
  Addrs = {a1, a2}
  Imms = {1}
  Sems = {s1, s2}
  Kinds = {"write", "wait"}
  Nil = Nil
  MaxCmds = 2
  MaxLists = 1
  MaxFaults = 0
PROPERTY CleanupReturns
CHECK_DEADLOCK FALSE
