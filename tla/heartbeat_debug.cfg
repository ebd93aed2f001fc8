SPECIFICATION Spec
CONSTANTS
  U16Max = 63
  HeartbeatPeriod = 7
  MaxStep = 2
  SinceStart = TRUE
  OverflowChecks = TRUE
  MaxQuiet = 80
INVARIANTS
  NoPanic
