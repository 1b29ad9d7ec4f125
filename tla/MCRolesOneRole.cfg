SPECIFICATION RolesSpec
CONSTANTS
  Threads = {t1, t2}
  People = {e1}
  Asserted = {reviewer, auditor}
  MaxOps = 2
CHECK_DEADLOCK FALSE
INVARIANTS OneRole
