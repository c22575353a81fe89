\* The file may not be readable.
SPECIFICATION Spec
CONSTANTS
  Devices = {"mouse"}
  Keys = {"mouse key", "twin key"}
  KeyOf <- TwinKeys
  Script = "script"
  Parameters = {"light"}
  Values = {"on", "off"}
  None = "unset"
  ReadsFail = TRUE
  SavesFail = FALSE
  Api = 5
PROPERTY SettingsSurvive
