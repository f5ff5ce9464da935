CONSTANTS
  Codes <- MCCodes
  Programs <- MCPrograms
  Blocks5 = TRUE
  Loops = 1
SPECIFICATION MCSpec
INVARIANTS ListVerifies RunsAsTheGraph GotosAreGone EachLaneRunsItsCode
