SPECIFICATION Spec
CONSTANTS
  Packets <- MCPackets
  Sync <- MCSync
  MAX_INP_BUF = 6
  MaxCalls = 4
  MaxLost = 1
  gDistance = 50
INVARIANT ResponseIsOwn
CHECK_DEADLOCK FALSE
