SPECIFICATION Spec
CONSTANTS
  Programs <- MCPrograms
  MainVars = {"A", "B", "C"}
  HandlerVars = {"H"}
  MAX_GOSUB_NEST = 8
  MAX_FOR_NEST = 6
  MaxEvents = 3
INVARIANT TypeOK
PROPERTIES ImplementsProgram Ends
CHECK_DEADLOCK FALSE
