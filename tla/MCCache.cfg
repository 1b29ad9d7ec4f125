SPECIFICATION Spec
CONSTANTS
  Threads = {t1, t2, t3}
  Keys = {k1, k2}
  Vals = {a, b}
  MaxOps = 5
CHECK_DEADLOCK FALSE
INVARIANTS StatsExact OldPutsStayOut ReadsLastPut
