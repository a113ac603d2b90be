\* The answer to an originate request is lost, the call is placed.
SPECIFICATION Spec
CONSTANTS
  Leads = {l1, l2}
  Attempts = {a1, a2}
  NoLead = NoLead
  MaxConcurrent = 1
  VoicemailDrop = 1
  Verdicts = {"amdHuman"}
  HangupDuring = {"idle"}
  SlowDuring = {"idle"}
  Ops = {"running"}
  MaxOps = 1
  MaxMishaps = 1
SYMMETRY Symmetry
INVARIANTS
  CallsAreCapped
\* When everything is over nothing is left to do.
CHECK_DEADLOCK FALSE
