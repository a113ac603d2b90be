\* A session that reads an event it cannot handle.
SPECIFICATION Spec
CONSTANTS
  Interfaces = {"ga"}
  Greetings = {FALSE}
  MaxSockets = 2
  MaxTries = 1
  MaxResponses = 0
  MaxInterruptions = 0
  MaxInbox = 1
  Terminals = {1}
INVARIANTS
  OneConnection
\* When everything is over nothing is left to do.
CHECK_DEADLOCK FALSE
