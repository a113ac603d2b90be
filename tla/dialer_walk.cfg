\* Two calls, both old when the stale watchdog walks.
SPECIFICATION Spec
CONSTANTS
  Leads = {l1, l2}
  Attempts = {a1, a2}
  NoLead = NoLead
  MaxConcurrent = 2
  VoicemailDrop = 1
  Verdicts = {"amdHuman"}
  HangupDuring = {"idle"}
  SlowDuring = {"idle"}
  Ops = {"running"}
  MaxOps = 1
  MaxMishaps = 0
SYMMETRY Symmetry
PROPERTIES
  ConversationIsFinal
\* When everything is over nothing is left to do.
CHECK_DEADLOCK FALSE
