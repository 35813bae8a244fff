CONSTANTS
  k1 = k1
  k2 = k2
  Call = {k1, k2}
  Conn = {1, 2, 3, 4}
  None = None
  MaxEdits = 1
CHECK_DEADLOCK FALSE
SPECIFICATION FairSpec
INVARIANTS TypeOK OpenIffCached
PROPERTIES SendsCurrentSecret InvocationsEnd
