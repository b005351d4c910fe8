SPECIFICATION CallSpec
CONSTANTS
  Byte <- MCByte
  Zero = 0
  Size = 3
  Word = 6
INVARIANT BufferTypeOK
PROPERTIES ImplementsQueue ReadsOldest AnswersTruly
CHECK_DEADLOCK FALSE
