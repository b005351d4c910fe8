SPECIFICATION Spec
CONSTANTS
  Servos = 2
  MaxScenes = 2
  MaxFrames = 3
  MaxMotions = 2
  MaxCommands = 1
  Callers = {"complete_motion", "serialslave", "M_PlayFlash"}
  HostWaits = TRUE
INVARIANTS TypeOK NoSendWhileBuilding
  
CHECK_DEADLOCK FALSE
