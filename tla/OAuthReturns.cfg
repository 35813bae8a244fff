CONSTANTS
  p1 = p1
  p2 = p2
  Proc = {p1, p2}
  NoProc = NoProc
  Orphan = Orphan
  TTL = 1
  WaitLimit = 1
  CallLimit = 1
  CommitRetries = 0
  Timely = FALSE
  Refused = {1}
  MaxFlights = 2
  MaxMinted = 2
  MaxEdits = 0
  MaxAppEdits = 0
  MaxCrashes = 1
  MaxLost = 2
  MaxRevoked = 1
  MaxElapsed = 0
CHECK_DEADLOCK FALSE
SPECIFICATION FairSpec
PROPERTIES FlightReturns
