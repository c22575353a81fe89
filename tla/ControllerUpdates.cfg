\* Three topologies, two parameters, three changes; the host may throw or not.
SPECIFICATION FairSpec
CONSTANTS
  Layouts = {"short", "long", "ring"}
  LedCount <- CountLeds
  Properties = {"p", "q"}
  Values = {0, 1}
  MaxChanges = 3
INVARIANTS
  CopyStaysInBuffer
  DestroyedIsUnused
  NoLostUpdate
  ChangesArePending
  CheckedIsListed
PROPERTIES
  UpdateReachesHost
  RemovalEnds
\* A removed controller does nothing more.
CHECK_DEADLOCK FALSE
