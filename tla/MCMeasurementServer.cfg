CONSTANTS
  Clients = {c1, c2}
  Ids = {d1, d2}
  Transmissions = 2
  End = End
  NoSession = NoSession
SPECIFICATION Spec
INVARIANTS TypeOK CorrectMeansComplete FailsOnlyWithTheServer
PROPERTIES EveryClientEnds
CHECK_DEADLOCK FALSE
