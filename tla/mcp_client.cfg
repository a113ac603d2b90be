\* Two callers of one server that dies twice.
SPECIFICATION FairSpec
CONSTANTS
  Callers = {k1, k2}
  Timed = {k1}
  RestartEnabled = TRUE
  MaxRestarts = 1
  MaxCalls = 3
  MaxCrashes = 2
  MaxGarbage = 1
INVARIANTS
  StartsBounded
  NobodyStranded
  ExitIsNoticed
PROPERTIES
  RequestsRefined
  CallsReturn
\* When everything is over nothing is left to do.
CHECK_DEADLOCK FALSE
