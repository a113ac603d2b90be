\* A lead that is called, and called again once it is recycled.
SPECIFICATION Spec
CONSTANTS
  Leads = {l1}
  Attempts = {a1, a2}
  NoLead = NoLead
  MaxConcurrent = 1
  VoicemailDrop = 1
  Verdicts = {"amdHuman"}
  HangupDuring = {"idle"}
  SlowDuring = {"idle"}
  Ops = {"running", "paused", "recycle"}
  MaxOps = 2
  MaxMishaps = 1
SYMMETRY Symmetry
INVARIANTS
  OpenIsCounted
  LiveIsAccounted
  NoAutomaticRetry
  AtMostOneLateCall
PROPERTIES
  HumanOutcomeKept
  SlotsRefined
\* When everything is over nothing is left to do.
CHECK_DEADLOCK FALSE
