SPECIFICATION CSpec
CONSTANTS
  LineNos = {1, 2, 3}
  EndLike = {}
  a = a
  b = b
  Texts = {a, b}
  Missing = missing
  Size = 5
  ByteBase = 3
  MaxLosses = 1
  MaxChanges = 5
  Careless = {}
  CacheSize = 2
SYMMETRY Interchangeable
INVARIANTS TypeOK  JumpsToLine
 
CHECK_DEADLOCK FALSE
