\* spec.md's PortsWithinRange on getPortConfigFromArgs.
CONSTANTS
  PortsFlags     <- MCPortsFlags
  MonitoredFlags <- MCMonitoredFlags
  Metadatas      <- MCMetadatas
  NoResult       = NoResult
SPECIFICATION Spec
INVARIANT PortsWithinRange
\* getPortConfigFromArgs returns: a resolved input has no successor.
CHECK_DEADLOCK FALSE
