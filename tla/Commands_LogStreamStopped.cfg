\* Violation run: the property LogStreamStopped, which the code breaks.
CONSTANTS
  Timeout      <- MCTimeout
  Interval     <- MCInterval
  Capacity     <- MCCapacity
  CreateInputs <- MCCreateInputs
  ScaleInputs  <- MCScaleInputs
  RouteInputs  <- MCRouteInputs
  RemoveInputs <- MCRemoveInputs
  InitialApps  <- MCInitialApps
  NotAnInteger = NotAnInteger
  MissingArg   = MissingArg
SPECIFICATION Spec
INVARIANT LogStreamStopped
CHECK_DEADLOCK FALSE
