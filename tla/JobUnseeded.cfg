CONSTANTS
  t1 = t1
  t2 = t2
  t3 = t3
  t4 = t4
  Timer = {t1, t2, t3, t4}
  NoTimer = NoTimer
  Seeded = FALSE
  SeedInterval = 2
  Intervals = {1, 2, 3}
  MaxEdits = 2
  MaxCrashes = 2
SPECIFICATION Spec
INVARIANTS StartedIsArmed
