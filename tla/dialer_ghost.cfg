\* The watchdog's promise that no slot stays locked up.
SPECIFICATION FairSpec
CONSTANTS
  Leads = {l1}
  Attempts = {a1}
  NoLead = NoLead
  MaxConcurrent = 1
  VoicemailDrop = 1
  Verdicts = {"amdHuman"}
  HangupDuring = {"idle", "save"}
  SlowDuring = {"idle"}
  Ops = {"running"}
  MaxOps = 1
  MaxMishaps = 0
PROPERTIES
  SlotsReturn
\* When everything is over nothing is left to do.
CHECK_DEADLOCK FALSE
