SPECIFICATION Spec
CONSTANTS
  Threads = {t1, t2}
  Keys = {k1}
  Vals = {a}
  MaxOps = 6
CHECK_DEADLOCK FALSE
INVARIANTS FoundWasPut
