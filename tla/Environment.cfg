\* buildEnvironment: the names of the built environment.
CONSTANTS
  TokenLists <- MCTokenLists
  Environs   <- MCEnvirons
  NoResult   = NoResult
SPECIFICATION Spec
INVARIANT TypeOK
\* buildEnvironment returns: a built environment has no successor.
CHECK_DEADLOCK FALSE
