CONSTANTS
  t1 = t1
  t2 = t2
  t3 = t3
  t4 = t4
  Timer = {t1, t2, t3, t4}
  NoTimer = NoTimer
SPECIFICATION FairSpec
INVARIANTS TypeOK OneRunAtATime EnabledIsArmed
PROPERTIES StartsAreWanted DisabledComesToRest
