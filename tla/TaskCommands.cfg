CONSTANTS
  P1 = P1
  P2 = P2
  G1 = G1
  Good = Good
  Bad = Bad
  Gone = Gone
  Missing = Missing
  NoArg = NoArg
  NoName = NoName
  Procs <- MCProcs
  Guids <- MCGuids
  Paths <- MCPaths
  Files <- MCFiles
  Invocations <- MCInvocations
SPECIFICATION Spec
INVARIANTS SubmitSuccessMeansSubmitted DeleteOKMeansDeleted
CHECK_DEADLOCK FALSE
