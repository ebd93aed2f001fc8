SPECIFICATION CalmSpec
CONSTANTS
  WindowSize = 1
  SmallWindow = 2
  U16Max = 7
  CycleThreshold = 5
  TimestampThreshold = 1
  Inputs = {marked, plain}
  Blank = blank
  Marked = marked
  ClockSkew = 0
  Lifetime = 3
  LagBound = 4
  MaxTime = 14
INVARIANTS
  NoSkip
