\* A goodbye whose farewell may be refused.
SPECIFICATION FairSpec
CONSTANTS
  Interfaces = {"ga"}
  Greetings = {FALSE}
  MaxSockets = 1
  MaxTries = 1
  MaxResponses = 2
  MaxInterruptions = 0
  MaxInbox = 1
  Terminals = {1, 2}
PROPERTIES
  HangupHappens
\* When everything is over nothing is left to do.
CHECK_DEADLOCK FALSE
