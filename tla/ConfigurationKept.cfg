\* API 5: twins and a mouse; saving may fail.
SPECIFICATION Spec
CONSTANTS
  Devices = {"mouse", "left", "right"}
  Keys = {"mouse key", "twin key"}
  KeyOf <- TwinKeys
  Script = "script"
  Parameters = {"light"}
  Values = {"on", "off"}
  None = "unset"
  ReadsFail = FALSE
  SavesFail = TRUE
  Api = 5
INVARIANTS
  FileFollowsStore
  ControllersFollowStore
PROPERTIES
  SettingsSurvive
  FileChangesWithOneEdit
