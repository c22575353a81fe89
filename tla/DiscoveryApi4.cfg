\* API 4: two scans of the host, a click on rescan.
SPECIFICATION FairSpec
CONSTANTS
  Api = 4
  HostThrows = FALSE
  Devices = {d1, d2}
  MaxDetections = 2
  MaxRescans = 1
  MaxLoads = 1
INVARIANTS
  RegistryAndHostAgree
PROPERTIES
  NoRegistrationDuringScan
  UnloadReturns
\* Unloaded for good, the plugin does nothing more.
CHECK_DEADLOCK FALSE
