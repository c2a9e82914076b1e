\* parseRouteOverrides: parsing the serialized form of a parsed list.
CONSTANTS
  RoutesFlags <- MCRoutesFlags
  NoResult    = NoResult
SPECIFICATION Spec
INVARIANT RoundTrip
\* parseRouteOverrides returns: a parsed input has no successor.
CHECK_DEADLOCK FALSE
