\* Both APIs; a script with channels and one with a subdevice.
SPECIFICATION Spec
CONSTANTS
  Meta <- BareMeta
  Apis = {4, 5}
  Scripts <- BothScripts
INVARIANTS
  LayoutIsCurrent
  ChannelFramesFit
  SubdeviceIndexFits
  MainMatrixShowsLeds
  SubdeviceRowsShowLeds
