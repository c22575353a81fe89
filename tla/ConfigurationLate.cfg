\* API 4: a page of the last scan may still be there when the next one runs.
SPECIFICATION Spec
CONSTANTS
  Devices = {"mouse"}
  Keys = {"mouse key", "twin key"}
  KeyOf <- TwinKeys
  Script = "script"
  Parameters = {"light"}
  Values = {"on", "off"}
  None = "unset"
  ReadsFail = FALSE
  SavesFail = FALSE
  Api = 4
INVARIANT ControllersFollowStore
