SPECIFICATION ProgramSpec
CONSTANTS
  TaskCount = 2
  MaxWorkers = 3
  MaxInputs = 2
  MaxEvents = 2
INVARIANTS
  SinkIsHeard
PROPERTIES
  Flows
  FailureEnds
