\* An endpoint that could not be opened, beside one on another interface.
SPECIFICATION Spec
CONSTANTS
  Descriptor <- Descriptors
  Layouts <- OnTwoInterfaces
  Readings <- AllReadable
  Scripts <- OneScript
  Asked <- NothingAsked
  NoTimeout <- BlockingReads
INVARIANTS
  UnavailableIsRejected
\* When every controller is gone nothing more happens.
CHECK_DEADLOCK FALSE
