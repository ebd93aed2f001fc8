SPECIFICATION Spec
CONSTANTS
  U16Max = 255
  HeartbeatPeriod = 100
  MaxStep = 3
  SinceStart = FALSE
  OverflowChecks = FALSE
  MaxQuiet = 200
PROPERTIES
  KeepsBeating
