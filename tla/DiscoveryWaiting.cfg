\* A deferred discovery.
SPECIFICATION FairSpec
CONSTANTS
  Api = 5
  HostThrows = FALSE
  Devices = {d1}
  MaxDetections = 1
  MaxRescans = 1
  MaxLoads = 1
PROPERTIES
  WaitingEnds
\* Unloaded for good, the plugin does nothing more.
CHECK_DEADLOCK FALSE
