SPECIFICATION Spec
CONSTANTS
  WindowSize = 1
  SmallWindow = 4
  U16Max = 65535
  CycleThreshold = 256
  TimestampThreshold = 2048
  Inputs = {marked, plain}
  Blank = blank
  Marked = marked
  ClockSkew = 0
  Lifetime = 1
  LagBound = 99
  MaxTime = 14
INVARIANTS
  AtMostOnce
