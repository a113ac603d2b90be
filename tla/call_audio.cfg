\* Two playbacks, their timers, and a barge-in, until the call is cleaned up.
SPECIFICATION Spec
CONSTANTS
  Playbacks = {p1, p2}
  Bargers = {b1}
  Overridable = TRUE
INVARIANTS
  GateMatchesTokens
  PlayingIsGated
  TokenHasReleaser
  FileHasOwner
PROPERTIES
  GateReopens
\* When everything is over nothing is left to do.
CHECK_DEADLOCK FALSE
