CONSTANTS
  t1 = t1
  t2 = t2
  a = a
  b = b
  c1 = c1
  c2 = c2
  Turn = {t1, t2}
  Tool = {a, b}
  Client = {c1, c2}
  Rest = Rest
  MaxApprovals = 2
  MaxTurns = 2
SPECIFICATION FairSpec
INVARIANT TypeOK
PROPERTIES RunsOnlyApproved FirstOutcomeStands PromptsSettle
CHECK_DEADLOCK FALSE
