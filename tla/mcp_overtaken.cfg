\* Two callers start the server in one turn of the event loop, and the first process dies.
SPECIFICATION FairSpec
CONSTANTS
  Callers = {k1, k2}
  Timed = {k1}
  RestartEnabled = TRUE
  MaxRestarts = 1
  MaxCalls = 2
  MaxCrashes = 1
  MaxGarbage = 0
PROPERTIES
  ExitFails
\* When everything is over nothing is left to do.
CHECK_DEADLOCK FALSE
