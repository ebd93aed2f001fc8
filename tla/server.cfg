SPECIFICATION LifeSpec
CONSTANTS
  TaskCount = 2
  Programs <- MCPrograms
  SessionIds = {s1, s2, s3}
  MapCapacity = 2
  MaxCalls = 3
INVARIANTS
  LifeTypeOK
  DropWaits
  NoEventPanic
  Agree
  CallsFail
  BuildsAlike
PROPERTIES
  Implements
  DropEnds
  NoWakeAfterDrop
  TasksTold
  Converges
