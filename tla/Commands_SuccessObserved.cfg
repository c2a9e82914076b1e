\* Violation run: the property SuccessObserved, which the code breaks.
CONSTANTS
  Timeout      <- MCTimeout
  Interval     <- MCInterval
  Capacity     <- MCCapacity
  CreateInputs <- MCCreateInputs
  ScaleInputs  <- MCScaleInputs
  RouteInputs  <- MCRouteInputs
  RemoveInputs <- MCRemoveInputs
  InitialApps  <- MCInitialApps
  NotAnInteger = NotAnInteger
  MissingArg   = MissingArg
SPECIFICATION Spec
INVARIANT SuccessObserved
CHECK_DEADLOCK FALSE
