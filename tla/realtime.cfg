\* One call on a session that may be lost or broken, with a greeting and a farewell.
SPECIFICATION FairSpec
CONSTANTS
  Interfaces = {"ga", "beta"}
  Greetings = {TRUE}
  MaxSockets = 2
  MaxTries = 1
  MaxResponses = 2
  MaxInterruptions = 1
  MaxInbox = 1
  Terminals = {1, 2}
INVARIANTS
  NotDeaf
  NoUnaskedHangup
  StopIsComplete
PROPERTIES
  GoodbyeEnds
  VadReturns
\* When everything is over nothing is left to do.
CHECK_DEADLOCK FALSE
