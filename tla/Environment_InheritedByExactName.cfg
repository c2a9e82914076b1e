\* spec.md's InheritedByExactName on buildEnvironment.
CONSTANTS
  TokenLists <- MCTokenLists
  Environs   <- MCEnvirons
  NoResult   = NoResult
SPECIFICATION Spec
INVARIANT InheritedByExactName
\* buildEnvironment returns: a built environment has no successor.
CHECK_DEADLOCK FALSE
