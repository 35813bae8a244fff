CONSTANTS
  p1 = p1
  p2 = p2
  Proc = {p1, p2}
  NoProc = NoProc
  Orphan = Orphan
  TTL = 3
  WaitLimit = 6
  CallLimit = 2
  CommitRetries = 0
  Timely = TRUE
  Refused = {}
  MaxFlights = 2
  MaxMinted = 3
  MaxEdits = 0
  MaxAppEdits = 0
  MaxCrashes = 0
  MaxLost = 0
  MaxRevoked = 0
  MaxElapsed = 1
CHECK_DEADLOCK FALSE
SPECIFICATION Spec
SYMMETRY Processes
PROPERTIES NeverRedeemsReplaced
