CONSTANTS
  Inputs <- MCInputs
  BufSize = 2
  MaxPrompts = 3
  LineAtATime = FALSE
SPECIFICATION Spec
INVARIANT PromptReadsNextLine
