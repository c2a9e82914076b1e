\* getPortConfigFromArgs against spec.md section 4.2 on every small input.
CONSTANTS
  PortsFlags     <- MCPortsFlags
  MonitoredFlags <- MCMonitoredFlags
  Metadatas      <- MCMetadatas
  NoResult       = NoResult
SPECIFICATION Spec
INVARIANT AgreesWithSpec
\* getPortConfigFromArgs returns: a resolved input has no successor.
CHECK_DEADLOCK FALSE
