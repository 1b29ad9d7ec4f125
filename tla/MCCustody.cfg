SPECIFICATION Spec
CONSTANTS
  Threads = {t1, t2}
  Files = {f1}
  Contents = {a, b}
  Algos = {md5}
  MaxOps = 5
  MaxChanges = 1
CHECK_DEADLOCK FALSE
INVARIANTS MeasuredByPolicy HashedOrExplained VerdictHonest
PROPERTIES ClosedIsFrozen
