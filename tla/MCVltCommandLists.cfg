SPECIFICATION CommandsSpec
CONSTANTS
  Contexts = {c1, c2}
  Lists = {l1, l2, l3}
  Resources = {r1}
  Access = {"write"}
  Capacity = 1
  Nil = Nil
  Faults = {"submit", "wait", "fence"}
  MaxTracked = 1
  MaxUse = 2
  MaxQueued = 2
  MaxLoose = 1
  Pools = {p1, p2, p3, p4}
  PoolCapacity = 1
  MaxSets = 2
  MaxPools = 1
  Colors = {co}
  Depths = {de}
  Sides <- MCSides
  Buffers = {b}
  Units = 2
  MaxSlices = 2
INVARIANTS CommandsTypeOK ListOwnedOnce PendingIsAwaited UsesCovered SetsOutliveTheirList
  NoCommandRaces LayoutsAreTracked ClearsKeepTheirPlace
PROPERTIES AcceptedSubmissionReturns ListsFollowTheirLife
CHECK_DEADLOCK FALSE
