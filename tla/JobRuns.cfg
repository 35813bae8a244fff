CONSTANTS
  t1 = t1
  t2 = t2
  t3 = t3
  t4 = t4
  Timer = {t1, t2, t3, t4}
  NoTimer = NoTimer
  Seeded = TRUE
  SeedInterval = 2
  Intervals = {1, 2, 3}
  MaxEdits = 2
  MaxCrashes = 2
SPECIFICATION FairSpec
INVARIANTS TypeOK OneExecution
PROPERTIES OverdueRunsAtBoot KeepsExecuting
