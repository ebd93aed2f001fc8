SPECIFICATION Spec
CONSTANTS
  WindowSize = 2
  SmallWindow = 3
  U16Max = 11
  CycleThreshold = 7
  TimestampThreshold = 1
  Inputs = {marked, plain}
  Blank = blank
  Marked = marked
  ClockSkew <- OneBehind
  Lifetime = 3
  LagBound = 9
  MaxTime = 12
INVARIANTS
  TypeOK
  NotAhead
  CarriedByWindow
  OnlyBadDropped
PROPERTIES
  NoReplay
