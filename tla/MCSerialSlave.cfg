SPECIFICATION Spec
CONSTANTS
  kMaxMotionBufSize = 3
  ByteBase = 8
  Sizes <- MCSizes
  MaxLoads = 3
  MaxScenes = 2
  Polite = TRUE
  Prompt = TRUE
INVARIANTS TypeOK BlockInPlace
PROPERTIES  ImplementsPlayQueue PlayedToTheEnd
CHECK_DEADLOCK FALSE
