\* Not a run: the exception of another entry leaves the destructor, on the application
\* thread, with a worker whose host call needs that thread.
SPECIFICATION FairSpec
CONSTANTS
  Layouts = {"short", "long"}
  LedCount <- CountLeds
  Properties = {"p"}
  Values = {0, 1}
  MaxChanges = 1
PROPERTIES
  RemovalAlwaysEnds
CHECK_DEADLOCK FALSE
