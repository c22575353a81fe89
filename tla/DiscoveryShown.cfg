\* The status shown after everything settled.
SPECIFICATION Spec
CONSTANTS
  Api = 5
  HostThrows = FALSE
  Devices = {d1}
  MaxDetections = 0
  MaxRescans = 1
  MaxLoads = 1
INVARIANTS
  ShownRunningIsRunning
\* Unloaded for good, the plugin does nothing more.
CHECK_DEADLOCK FALSE
