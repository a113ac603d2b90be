\* The callee hangs up just before the human verdict is recorded.
SPECIFICATION FairSpec
CONSTANTS
  Leads = {l1}
  Attempts = {a1}
  NoLead = NoLead
  MaxConcurrent = 1
  VoicemailDrop = 1
  Verdicts = {"amdHuman"}
  HangupDuring = {"idle", "amdHuman"}
  SlowDuring = {"idle"}
  Ops = {"running"}
  MaxOps = 1
  MaxMishaps = 0
PROPERTIES
  Completes
\* When everything is over nothing is left to do.
CHECK_DEADLOCK FALSE
