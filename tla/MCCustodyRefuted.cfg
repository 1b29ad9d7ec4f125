SPECIFICATION Spec
CONSTANTS
  Threads = {t1, t2}
  Files = {f1}
  Contents = {a}
  Algos = {md5}
  MaxOps = 3
  MaxChanges = 0
CHECK_DEADLOCK FALSE
INVARIANT OpenIsRecording
INVARIANT AlgoNamesDigest
