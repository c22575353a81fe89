\* A subdevice of two rows and two columns.
SPECIFICATION Spec
CONSTANTS
  Meta <- BareMeta
  Apis = {5}
  Scripts <- OneCanvas
INVARIANT SubdevicesShowLeds
