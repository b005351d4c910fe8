SPECIFICATION Spec
CONSTANTS
  Byte <- MCByte
  Zero <- MCNul
  Size = 2
  Word = 4
  MaxSends = 2
  MaxAdds = 3
  MaxStarts = 2
  OnlyWhenIdle = TRUE
INVARIANTS TypeOK ReadyIsBaton LineInOrder
PROPERTIES SendsEnd
CHECK_DEADLOCK FALSE
