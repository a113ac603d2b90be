\* One transfer of one call: every interleaving of its tasks.
SPECIFICATION Spec
CONSTANTS
  Agents = {a1}
  None = None
  Impatient = FALSE
INVARIANTS
  OwnHangupIsHarmless
  ConnectedIsSupervised
PROPERTIES
  LegIsServed
  HoldEnds
\* When the call and the transfer are over nothing is left to do.
CHECK_DEADLOCK FALSE
