\* A campaign of one lead comes to its end, whatever the operator does meanwhile.
SPECIFICATION FairSpec
CONSTANTS
  Leads = {l1}
  Attempts = {a1}
  NoLead = NoLead
  MaxConcurrent = 2
  VoicemailDrop = 1
  Verdicts = {"amdHuman", "amdMachine", "amdConsent"}
  HangupDuring <- BeforeConversation
  SlowDuring <- NotDeciding
  Ops = {"running", "paused", "stopped", "archive", "cancel", "ignore", "delete", "import"}
  MaxOps = 2
  MaxMishaps = 0
PROPERTIES
  SlotsReturn
  LeadsLeaveHand
  Completes
  CompletedIsIdle
\* When everything is over nothing is left to do.
CHECK_DEADLOCK FALSE
