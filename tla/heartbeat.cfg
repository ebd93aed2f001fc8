SPECIFICATION Spec
CONSTANTS
  U16Max = 63
  HeartbeatPeriod = 7
  MaxStep = 3
  SinceStart = TRUE
  OverflowChecks = FALSE
  MaxQuiet = 80
INVARIANTS
  LateOnlyAtWrap
PROPERTIES
  KeepsBeating
