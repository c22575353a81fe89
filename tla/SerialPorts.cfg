\* Two ports of one product, two scripts that match it; one discovery, and
\* the unloading of the plugin.
SPECIFICATION FairSpec
CONSTANTS
  Ports = {"com1", "com2"}
  IdOf <- TwoPorts
  NoId = "none"
  NoPort = "no port"
  Pids <- TwoScripts
  MaxReplugs = 1
  MaxClearings = 2
INVARIANTS
  HeldPortIsActive
  OneControllerPerPort
  NoPortIsForgotten
PROPERTIES
  PortsAreFreed
\* Unloaded, the plugin does nothing more.
CHECK_DEADLOCK FALSE
