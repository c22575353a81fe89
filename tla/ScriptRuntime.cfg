\* One property that scripts declare as every type, ten stored values, five files
\* any of which may be unreadable; two scans.
SPECIFICATION Spec
CONSTANTS
  NotANumber = NotANumber
  TextNumber <- TextAsNumber
  NumberText <- NumberAsText
  Sources <- Files
  Imports <- ImportsOf
  Names = {"speed"}
  Parameters <- ManyTypes
  Values <- ManyValues
  Catalogs <- Directories
  Entry = "main.js"
  EditTexts = {"red", ""}
  EditNumbers = {0, 24, 70}
  MaxScans = 2
  MaxEdits = 2
  MaxDeclarations = 2
INVARIANTS
  ScriptSeesDeclaredKind
  PageShowsWhatScriptHas
  DeviceRunsScannedModules
CHECK_DEADLOCK FALSE
