SPECIFICATION FairSpec
CONSTANTS
  Instances = {i1, i2}
  Tasks = {t1, t2}
  Tries = 2
  None = None
PROPERTIES
  ProviderFailureEndsCall
\* When the call is over nothing is left to do.
CHECK_DEADLOCK FALSE
