\* The caller hangs up while his media channel is being made.
SPECIFICATION Spec
CONSTANTS
  Instances = {i1, i2}
  Tasks = {t1, t2}
  Tries = 2
  None = None
INVARIANTS
  NoOrphan
\* When everything is over nothing is left to do.
CHECK_DEADLOCK FALSE
