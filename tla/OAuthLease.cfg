CONSTANTS
  p1 = p1
  p2 = p2
  Proc = {p1, p2}
  NoProc = NoProc
  Orphan = Orphan
  TTL = 3
  WaitLimit = 6
  CallLimit = 2
  CommitRetries = 1
  Timely = TRUE
  Refused = {1}
  MaxFlights = 2
  MaxMinted = 3
  MaxEdits = 1
  MaxAppEdits = 1
  MaxCrashes = 1
  MaxLost = 0
  MaxRevoked = 0
  MaxElapsed = 1
CHECK_DEADLOCK FALSE
SPECIFICATION Spec
SYMMETRY Processes
INVARIANTS TypeOK LeaseEndsWithHolder NeverStranded
PROPERTIES ImplementsRegister RepairNeedsNewTokens NoFalseTerminal
