\* The operator acts between the statistics and the write.
SPECIFICATION Spec
CONSTANTS
  Leads = {l1}
  Attempts = {a1}
  NoLead = NoLead
  MaxConcurrent = 1
  VoicemailDrop = 1
  Verdicts = {"amdHuman"}
  HangupDuring = {"idle"}
  SlowDuring = {"idle"}
  Ops = {"running", "paused"}
  MaxOps = 2
  MaxMishaps = 0
PROPERTIES
  CompletedWhenDone
\* When everything is over nothing is left to do.
CHECK_DEADLOCK FALSE
