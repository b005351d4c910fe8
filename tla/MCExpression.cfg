SPECIFICATION Spec
CONSTANTS
  WellFormed <- MCWellFormed
  Malformed <- MCMalformed
  Programs <- MCPrograms
  MAX_DEPTH = 8
  variable = 6
INVARIANTS TypeOK Evaluates
CHECK_DEADLOCK FALSE
