\* create, scale, update-routes and remove against a cluster that may fail.
CONSTANTS
  Timeout      <- MCTimeout
  Interval     <- MCInterval
  Capacity     <- MCCapacity
  CreateInputs <- MCCreateInputs
  ScaleInputs  <- MCScaleInputs
  RouteInputs  <- MCRouteInputs
  RemoveInputs <- MCRemoveInputs
  InitialApps  <- MCInitialApps
  NotAnInteger = NotAnInteger
  MissingArg   = MissingArg
SPECIFICATION Spec
INVARIANTS PlacementIsFatal RemovedMeansGone
PROPERTIES Terminates
\* A command ends: its thread has no step left once it returned or exited.
CHECK_DEADLOCK FALSE
