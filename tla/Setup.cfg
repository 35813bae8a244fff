CONSTANTS
  f1 = f1
  Flow = {f1}
  a1 = a1
  a2 = a2
  App = {a1, a2}
  o1 = o1
  o2 = o2
  Account = {o1, o2}
  ann = ann
  Identity = {ann}
  Unknown = Unknown
  None = None
  x1 = x1
  x2 = x2
  Request = {x1, x2}
  Journals <- EveryKind
  MaxStates = 2
  MaxMeddles = 1
SPECIFICATION Spec
SYMMETRY Symmetric
INVARIANTS TypeOK OneGrant SecretsAreSpent TwinsAreApproved
PROPERTIES EndIsFinal NoLostWrite
CHECK_DEADLOCK FALSE
