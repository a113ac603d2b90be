\* The guide's promise that the AI resumes with the caller when nobody answers.
SPECIFICATION Spec
CONSTANTS
  Agents = {a1}
  None = None
  Impatient = FALSE
PROPERTIES
  CallerKept
CHECK_DEADLOCK FALSE
