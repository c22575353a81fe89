\* Devices with several collections, and the numbers of many lists.
SPECIFICATION FairSpec
CONSTANTS
  Descriptor <- Descriptors
  Layouts <- AllLayouts
  Readings <- SomeReadings
  Scripts <- SomeScripts
  Asked <- SomeAsked
  NoTimeout <- BlockingReads
INVARIANTS
  HandlesAreOwned
  CallsFindTheirDevice
  OneControllerPerDevice
  EndpointsAreComplete
  AmbiguousIsRejected
  NumbersFollowDescriptors
PROPERTIES
  SessionsEnd
\* When every controller is gone nothing more happens.
CHECK_DEADLOCK FALSE
