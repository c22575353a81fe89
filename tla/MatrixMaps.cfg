\* A script that names fewer LEDs than its metadata places.
SPECIFICATION Spec
CONSTANTS
  Meta <- PlacedMeta
  Apis = {5}
  Scripts <- OnlyPlain
INVARIANT MapsHoldZoneLeds
