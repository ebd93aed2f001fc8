SPECIFICATION ProgramSpec
CONSTANTS
  Clients = {c1, c2, c3}
  MaxPlayers = 2
  Capacities = {1, 2}
  MaxInputs = 2
  NoClient = noClient
  NoSession = noSession
INVARIANTS
  Distinct
  TakenUp
  RoomForAll
PROPERTIES
  Admitted
  PassedOn
