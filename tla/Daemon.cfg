CONSTANTS
  Tasks = 2
  l1 = l1
  Loop = {l1}
  None = None
  Ticks = 2
  MaxRetries = 1
  MaxEdits = 1
  MaxStops = 1
CHECK_DEADLOCK FALSE
SPECIFICATION FairSpec
INVARIANTS TypeOK 
PROPERTIES EndIsFinal EverythingEnds
