----------------------------- MODULE ScriptRuntime -----------------------------
(***************************************************************************)
(* A script and its device, from the scan of the directory to the edits on *)
(* the page: the scan runs the script once without a device and keeps what *)
(* it declares and which files it is made of; the controller loads it      *)
(* again with the stored configuration; Initialize, Render and callbacks   *)
(* declare more parameters; the page edits their values.                   *)
(*                                                                         *)
(* What a script declares, and when, is its own affair: the engine's calls *)
(* are external and choose freely.  A script reads its parameters, which   *)
(* are global variables, and does not assign them.                         *)
(***************************************************************************)
EXTENDS ControlParameters, ScriptModules

CONSTANTS
  Names,          \* properties
  Parameters,     \* the declarations of parameters that scripts make
  Values,         \* values a configuration file may hold
  Catalogs,       \* the files of the directory, each time it is scanned
  Entry,          \* the key of the script
  EditTexts, EditNumbers,   \* what a user may type
  MaxScans, MaxEdits, MaxDeclarations   \* bounds

ASSUME ParametersAssumption ==
  \A p \in Parameters :
    /\ p.property \in Names
    /\ \A v \in {p.default, p.min, p.max, p.step} : IsValue(v)
ASSUME ValuesAssumption == (\A v \in Values : IsValue(v)) /\ EditNumbers \subseteq Int
ASSUME CatalogsAssumption == Catalogs \subseteq SUBSET Sources
ASSUME BoundsAssumption ==
  MaxScans \in Nat /\ MaxEdits \in Nat /\ MaxDeclarations \in Nat

VARIABLES
  phase,      \* where the script is
  meta,       \* ScriptMeta: the parameters, and the files recorded
  runtime,    \* QuickJsRuntime: files loaded, globals, parameters declared
  config,     \* the stored value of each property, Undefined without one
  pending,    \* properties edited since the last frame
  page,       \* what the page's controls show
  redeclared, \* properties declared again after Initialize
  scans, edits, declarations   \* how much of the bounds is used

vars == <<phase, meta, runtime, config, pending, page, redeclared, scans, edits, declarations>>

NoParameters == [name \in {} |-> Undefined]
NoMeta == [params |-> NoParameters, modules |-> {}]
NoRuntime == [loaded |-> {}, globals |-> [name \in Names |-> Undefined],
              properties |-> NoParameters]

Init ==
  /\ phase = "idle"
  /\ meta = NoMeta
  /\ runtime = NoRuntime
  /\ config \in [Names -> Values \cup {Undefined}]
  /\ pending = {}
  /\ page = NoParameters
  /\ redeclared = {}
  /\ scans = 0 /\ edits = 0 /\ declarations = 0

Loading(catalog) == [NoRuntime EXCEPT !.loaded = Loaded(catalog, Entry)]

-----------------------------------------------------------------------------
(* The scan.                                                               *)

\* The files of the directory, without those that cannot be read, and the script's
\* runtime.  A script that does not load is an error of the report.
Scan ==
  /\ phase = "idle" /\ scans < MaxScans
  /\ scans' = scans + 1
  /\ \E catalog \in Catalogs, unread \in SUBSET Sources :
       /\ CanLoad(catalog \ unread, Entry)
       /\ runtime' = Loading(catalog \ unread)
  /\ phase' = "scanning" /\ declarations' = 0
  /\ UNCHANGED <<meta, config, pending, page, redeclared, edits>>

\* ExtractScriptMetadata at its end: ControllableParameters, then what the script
\* has declared by addProperty.
Scanned ==
  /\ phase = "scanning"
  /\ \E controllable \in {NoParameters} \cup {[n \in {p.property} |-> p] : p \in Parameters} :
       meta' = [params |-> MergeControlParameters(controllable, runtime.properties),
                modules |-> runtime.loaded]
  /\ runtime' = NoRuntime
  /\ phase' = "scanned"
  /\ UNCHANGED <<config, pending, page, redeclared, scans, edits, declarations>>

\* The script throws, or has no Name.
ScanFails ==
  /\ phase = "scanning"
  /\ runtime' = NoRuntime
  /\ phase' = "idle"
  /\ UNCHANGED <<meta, config, pending, page, redeclared, scans, edits, declarations>>

-----------------------------------------------------------------------------
(* The controller's runtime.                                               *)

\* CreateDeviceRuntime: the script is loaded from what the scan has recorded.
CreateDeviceRuntime ==
  /\ phase = "scanned" /\ CanLoad(meta.modules, Entry)
  /\ runtime' = Loading(meta.modules)
  /\ phase' = "evaluating" /\ declarations' = 0
  /\ UNCHANGED <<meta, config, pending, page, redeclared, scans, edits>>

\* device.addProperty, by the script's top level, Initialize, Render or a callback:
\* what the global variable holds is normalized.
AddProperty(p) ==
  /\ phase \in {"scanning", "evaluating", "initializing", "live"}
  /\ declarations < MaxDeclarations
  /\ declarations' = declarations + 1
  /\ runtime' = [runtime EXCEPT
       !.properties = MergeControlParameters(@, [n \in {p.property} |-> p]),
       !.globals[p.property] = NormalizeParameterValue(p, @)]
  /\ redeclared' = IF phase = "live" THEN redeclared \cup {p.property} ELSE redeclared
  /\ UNCHANGED <<phase, meta, config, pending, page, scans, edits>>

\* device.removeProperty: the global variable stays.
RemoveProperty(name) ==
  /\ phase \in {"scanning", "evaluating", "initializing", "live"}
  /\ name \in DOMAIN runtime.properties
  /\ runtime' = [runtime EXCEPT
       !.properties = [n \in DOMAIN runtime.properties \ {name} |-> runtime.properties[n]]]
  /\ UNCHANGED <<phase, meta, config, pending, page, redeclared, scans, edits, declarations>>

\* ApplyConfigurationValues: every stored value as it is, declared or not.
WithValues(globals) ==
  [name \in Names |-> IF config[name] = Undefined THEN globals[name] ELSE config[name]]

\* ApplyConfiguration: the value of each parameter, or its default.
WithParameters(params, globals) ==
  [name \in Names |-> IF name \in DOMAIN params
                      THEN NormalizeParameterValue(params[name], config[name])
                      ELSE globals[name]]

\* The end of CreateDeviceRuntime, and the call of Initialize.
Configure ==
  /\ phase = "evaluating"
  /\ runtime' = [runtime EXCEPT !.globals = WithParameters(meta.params, WithValues(@))]
  /\ phase' = "initializing"
  /\ UNCHANGED <<meta, config, pending, page, redeclared, scans, edits, declarations>>

\* Mutant of Initialized: the values are not applied again.
InitializedOnce ==
  /\ phase = "initializing"
  /\ meta' = [meta EXCEPT !.params = MergeControlParameters(@, runtime.properties)]
  /\ UNCHANGED runtime
  /\ phase' = "live"
  /\ UNCHANGED <<config, pending, page, redeclared, scans, edits, declarations>>

\* InitializeScript after the call: the parameters declared by now are the
\* controller's, and all values are applied again.
Initialized ==
  /\ phase = "initializing"
  /\ LET params == MergeControlParameters(meta.params, runtime.properties)
     IN /\ meta' = [meta EXCEPT !.params = params]
        /\ runtime' = [runtime EXCEPT !.globals = WithParameters(params, @)]
  /\ phase' = "live"
  /\ UNCHANGED <<config, pending, page, redeclared, scans, edits, declarations>>

\* The top level or Initialize throws: there is no controller.
CreationFails ==
  /\ phase \in {"evaluating", "initializing"}
  /\ meta' = NoMeta /\ runtime' = NoRuntime
  /\ phase' = "idle"
  /\ UNCHANGED <<config, pending, page, redeclared, scans, edits, declarations>>

-----------------------------------------------------------------------------
(* The page of the device.                                                 *)

\* CreateDevicePage: a control for each parameter, with the stored value.
ShowPage ==
  /\ phase = "live" /\ page = NoParameters
  /\ page' = [name \in DOMAIN meta.params |->
                Control(meta.params[name], NormalizeParameterValue(meta.params[name], config[name]))]
  /\ UNCHANGED <<phase, meta, runtime, config, pending, redeclared, scans, edits, declarations>>

\* Mutant of Edit: the edit is stored and not handed to the controller.
EditStored(name, value) ==
  /\ phase = "live" /\ edits < MaxEdits
  /\ page' = [page EXCEPT ![name].shown = value]
  /\ config' = [config EXCEPT ![name] = value]
  /\ edits' = edits + 1
  /\ UNCHANGED <<phase, meta, runtime, pending, redeclared, scans, declarations>>

\* The edit is stored, in the file and in the controller, and waits for a frame
\* unless the controller has the value.
Edit(name, value) ==
  /\ phase = "live" /\ edits < MaxEdits
  /\ page' = [page EXCEPT ![name].shown = value]
  /\ config' = [config EXCEPT ![name] = value]
  /\ pending' = IF config[name] = value THEN pending ELSE pending \cup {name}
  /\ edits' = edits + 1
  /\ UNCHANGED <<phase, meta, runtime, redeclared, scans, declarations>>

\* ApplyConfigurationChange, when the next frame drains the changes; only parameters
\* of the page are edited, and so the property has its declaration.
ApplyConfigurationChange(name) ==
  /\ phase = "live" /\ name \in pending
  /\ pending' = pending \ {name}
  /\ runtime' = [runtime EXCEPT
       !.globals[name] = NormalizeParameterValue(meta.params[name], config[name])]
  /\ UNCHANGED <<phase, meta, config, page, redeclared, scans, edits, declarations>>

\* A rescan: the controller and its page go, the configuration stays, and the
\* files may have changed.
Discard ==
  /\ phase \in {"scanned", "live"}
  /\ phase' = "idle"
  /\ meta' = NoMeta /\ runtime' = NoRuntime
  /\ pending' = {} /\ page' = NoParameters /\ redeclared' = {}
  /\ UNCHANGED <<config, scans, edits, declarations>>

-----------------------------------------------------------------------------

Next ==
  \/ Scan \/ Scanned \/ ScanFails
  \/ CreateDeviceRuntime \/ Configure \/ Initialized \/ CreationFails
  \/ \E p \in Parameters : AddProperty(p)
  \/ \E name \in Names : RemoveProperty(name) \/ ApplyConfigurationChange(name)
  \/ ShowPage
  \/ \E name \in DOMAIN page :
       \E value \in Enterable(meta.params[name], page[name], EditNumbers, EditTexts) :
         Edit(name, value)
  \/ Discard

Spec == Init /\ [][Next]_vars

-----------------------------------------------------------------------------
(* Properties                                                              *)

Declarations == UNION {[S -> Parameters] : S \in SUBSET Names}

TypeOK ==
  /\ phase \in {"idle", "scanning", "scanned", "evaluating", "initializing", "live"}
  /\ meta \in [params : Declarations, modules : SUBSET Sources]
  /\ runtime = [loaded |-> runtime.loaded, properties |-> runtime.properties,
                globals |-> [name \in Names |-> runtime.globals[name]]]
  /\ runtime.loaded \in SUBSET Sources /\ runtime.properties \in Declarations
  /\ config = [name \in Names |-> config[name]] /\ \A name \in Names : IsValue(config[name])
  /\ pending \subseteq DOMAIN page /\ DOMAIN page \subseteq DOMAIN meta.params
  /\ redeclared \subseteq Names
  /\ scans \in Nat /\ edits \in Nat /\ declarations \in Nat

\* The value is of the kind that the declaration promises to the script.
Conforms(p, v) ==
  CASE IsBoolean(p) -> Kind(v) = "bool"
    [] IsNumeric(p) -> Kind(v) = "number"
    [] IsChoice(p) -> /\ Kind(v) = "text"
                      /\ p.values # <<>> => v[2] \in Choices(p) \cup {DefaultChoice(p)}
    [] OTHER -> Kind(v) = "text"

\* Whatever an earlier version of the script, or a hand, has left in the
\* configuration, and in whatever order and place the script declares a parameter
\* again: once Initialize has returned, it reads a value of the kind it declared.
ScriptSeesDeclaredKind ==
  phase = "live" =>
    \A name \in DOMAIN meta.params \ redeclared :
      Conforms(meta.params[name], runtime.globals[name])

\* What the page shows is what the script works with, but for changes that wait for
\* a frame, and numbers that the control rounds or cuts: after a rescan with other
\* declarations, from values no control can enter, and after any edits.
PageShowsWhatScriptHas ==
  phase = "live" =>
    \A name \in DOMAIN page \ (pending \cup redeclared) :
      page[name].shown = Shown(meta.params[name], runtime.globals[name])

\* The files recorded by the scan are enough: the device's script loads, and is made
\* of the very modules that the scan has run, though files are gone by then.
DeviceRunsScannedModules ==
  /\ phase = "scanned" => CanLoad(meta.modules, Entry)
  /\ phase \in {"evaluating", "initializing", "live"} => runtime.loaded = meta.modules

=============================================================================
