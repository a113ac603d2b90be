\* A session that is stopped while it reconnects.
SPECIFICATION Spec
CONSTANTS
  Interfaces = {"ga"}
  Greetings = {FALSE}
  MaxSockets = 2
  MaxTries = 1
  MaxResponses = 0
  MaxInterruptions = 0
  MaxInbox = 1
  Terminals = {1}
INVARIANTS
  NothingLeftOpen
\* When everything is over nothing is left to do.
CHECK_DEADLOCK FALSE
