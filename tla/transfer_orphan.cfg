\* An agent answers while the call is being cleaned up.
SPECIFICATION Spec
CONSTANTS
  Agents = {a1}
  None = None
  Impatient = FALSE
PROPERTIES
  NoOrphanLeg
\* When everything is over nothing is left to do.
CHECK_DEADLOCK FALSE
