SPECIFICATION Spec
CONSTANTS
  Packets <- MCPackets
  Sync <- MCSync
  MAX_INP_BUF = 6
  MaxCalls = 5
  MaxLost = 1
  gDistance = 50
INVARIANTS TypeOK AnswerMatches
  
CHECK_DEADLOCK FALSE
