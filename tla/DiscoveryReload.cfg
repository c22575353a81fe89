\* API 5: the plugin is unloaded and loaded again around a scan.
SPECIFICATION FairSpec
CONSTANTS
  Api = 5
  HostThrows = FALSE
  Devices = {d1}
  MaxDetections = 1
  MaxRescans = 0
  MaxLoads = 2
INVARIANTS
  ShownDevicesAreRegistered
PROPERTIES
  UnloadReturns
  SupersededWorkerEnds
\* Unloaded for good, the plugin does nothing more.
CHECK_DEADLOCK FALSE
