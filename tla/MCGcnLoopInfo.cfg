CONSTANTS
  Codes <- MCCodes
  Programs <- AnyPrograms
  Blocks5 = FALSE
  Loops = 0
SPECIFICATION MCSpec
INVARIANT InnermostLoopFound
