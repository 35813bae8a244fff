CONSTANTS
  t1 = t1
  t2 = t2
  t3 = t3
  Timer = {t1, t2, t3}
  NoTimer = NoTimer
SPECIFICATION Spec
PROPERTIES DisablingStopsIt
