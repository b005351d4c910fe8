SPECIFICATION Spec
CONSTANTS
  Bits = 2
  Messages <- MCMessages
  Nos = 2
  DlyWrap = 3
  PlugCount = 1
  UnplugCount = 1
  Checks = 2
  PulseMinutes = 1
  FullMinutes = 1
  Delay = 2
  Uses <- MCUses
INVARIANTS TypeOK NewestKept ReadingIsOwn
PROPERTIES WholeMessages SampleWhole WaitsEnd
