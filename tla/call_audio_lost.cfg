\* One playback whose answer is lost while Asterisk plays it; nobody interrupts.
SPECIFICATION Spec
CONSTANTS
  Playbacks = {p1}
  Bargers = {}
  Overridable = FALSE
INVARIANTS
  GatedForTheDuration
CHECK_DEADLOCK FALSE
