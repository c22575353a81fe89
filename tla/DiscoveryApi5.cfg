\* API 5: two scans of the host interrupt a discovery of two devices; calls of the host
\* may throw.
SPECIFICATION Spec
CONSTANTS
  Api = 5
  HostThrows = TRUE
  Devices = {d1, d2}
  MaxDetections = 2
  MaxRescans = 0
  MaxLoads = 1
SYMMETRY Symmetry
INVARIANTS
  OneWorker
  RegistryOfOneDiscovery
  UnloadedIsClean
PROPERTIES
  DiscoveriesAreSerial
\* Unloaded for good, the plugin does nothing more.
CHECK_DEADLOCK FALSE
