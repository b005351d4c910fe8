SPECIFICATION Spec
CONSTANTS
  Byte <- MCByte
  Zero = 0
  Size = 2
  Word = 4
  MaxArrivals = 7
INVARIANTS TypeOK FifoOrder EveryByteAccounted CheckedByteIsThere
CHECK_DEADLOCK FALSE
