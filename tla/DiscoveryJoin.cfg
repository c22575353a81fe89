\* The join of the discovery thread.
SPECIFICATION Spec
CONSTANTS
  Api = 5
  HostThrows = FALSE
  Devices = {d1}
  MaxDetections = 2
  MaxRescans = 0
  MaxLoads = 1
INVARIANTS
  NeverTerminates
\* Unloaded for good, the plugin does nothing more.
CHECK_DEADLOCK FALSE
