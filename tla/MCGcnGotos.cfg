CONSTANTS
  Codes <- MCCodes
  Programs <- MCPrograms
  Blocks5 = TRUE
  Loops = 0
SPECIFICATION MCSpec
INVARIANT EveryGotoIsGone
