SPECIFICATION CalmSpec
CONSTANTS
  WindowSize = 2
  SmallWindow = 3
  U16Max = 11
  CycleThreshold = 7
  TimestampThreshold = 2
  Inputs = {marked, plain}
  Blank = blank
  Marked = marked
  ClockSkew = 0
  Lifetime = 3
  LagBound = 4
  MaxTime = 13
INVARIANTS
  AtMostOnce
  NoSkip
PROPERTIES
  RepairsLoss
  ExactlyOnce
