CONSTANTS
  Threads = {t1, t2, t3}
  Bits = {1, 2}
  Patterns <- MCPatterns
  Requests <- MCRequests
  Waiters = {t1, t2, t3}
  MaxCount = 3
  Signals = {1}
  Needs = {1}
  Mappers = {m1, m2}
  HostEnd = 9
  SysStart = 0
  SysEnd = 4
  AppStart = 5
  AppEnd = 8
  Granule = 2
  Sizes = {1, 2}
  Alignments = {1, 2}
  MaxMappings = 2
SPECIFICATION MCSpec
INVARIANTS KernelTypeOK SingleWaiter BlockedFindsPattern CountIsClaimed RecordsAreTheMappings
PROPERTIES NoneForgotten SemaForgetsNone
