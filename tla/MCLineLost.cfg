SPECIFICATION CSpec
CONSTANTS
  LineNos = {1, 2, 3}
  EndLike = {}
  a = a
  b = b
  Texts = {a}
  Missing = missing
  Size = 6
  ByteBase = 7
  MaxLosses = 0
  MaxChanges = 5
  Careless = {"inserts"}
  CacheSize = 1
PROPERTY NoLineLost
CHECK_DEADLOCK FALSE
