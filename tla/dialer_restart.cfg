\* A restart while a call is being placed.
SPECIFICATION FairSpec
CONSTANTS
  Leads = {l1}
  Attempts = {a1}
  NoLead = NoLead
  MaxConcurrent = 1
  VoicemailDrop = 1
  Verdicts = {"amdHuman"}
  HangupDuring = {"idle"}
  SlowDuring = {"idle"}
  Ops = {"running"}
  MaxOps = 1
  MaxMishaps = 1
PROPERTIES
  DialingLeadsReturn
\* When everything is over nothing is left to do.
CHECK_DEADLOCK FALSE
