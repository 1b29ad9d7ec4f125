SPECIFICATION RolesSpec
CONSTANTS
  Threads = {t1, t2}
  People = {e1, e2}
  Asserted = {reviewer, auditor}
  MaxOps = 4
CHECK_DEADLOCK FALSE
INVARIANTS OneRoleInTurn
