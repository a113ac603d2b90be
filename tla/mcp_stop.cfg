\* The client is stopped while a caller is starting its server.
SPECIFICATION Spec
CONSTANTS
  Callers = {k1, k2}
  Timed = {k1}
  RestartEnabled = TRUE
  MaxRestarts = 1
  MaxCalls = 2
  MaxCrashes = 1
  MaxGarbage = 0
INVARIANTS
  StopEndsAll
\* When everything is over nothing is left to do.
CHECK_DEADLOCK FALSE
