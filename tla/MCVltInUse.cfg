SPECIFICATION Spec
CONSTANTS
  Contexts = {c1, c2}
  Lists = {l1, l2, l3, l4}
  Resources = {r1}
  Access = {"write"}
  Capacity = 1
  Nil = Nil
  Faults = {}
  MaxTracked = 1
  MaxUse = 2
  MaxQueued = 2
  MaxLoose = 0
INVARIANT InUseOnlyWhileTracked
CHECK_DEADLOCK FALSE
