CONSTANTS
  Inputs <- MCInputs
  BufSize = 2
  MaxPrompts = 3
  LineAtATime = TRUE
SPECIFICATION Spec
INVARIANT PromptReadsNextLine
PROPERTIES PromptReturns
CHECK_DEADLOCK FALSE
