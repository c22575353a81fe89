----------------------------- MODULE ScriptModules -----------------------------
(***************************************************************************)
(* The module loader: which files a script is made of.  A file is found by *)
(* its path without regard to case, and what a module imports is read from *)
(* its text.  The scan loads a script from all files of the directory and  *)
(* records what it has loaded; each device loads it again, from the record.*)
(***************************************************************************)
EXTENDS Naturals

CONSTANTS
  Sources,      \* files: [order, key, text], in the order of their paths
  Imports(_)    \* of a text: [kind, key], the key of a file for "relative" and "bare"; a
                \* "builtin" is one there is, another fails as any script may fail

ASSUME OrderAssumption ==
  /\ \A s, t \in Sources : s.order \in Nat /\ (s.order = t.order => s = t)
  /\ \A S \in SUBSET Sources : S # {} => \E s \in S : \A t \in S : s.order <= t.order

\* ModuleLoaderState::Find: the first file with the key.  Every path ends in ".js",
\* with which the loader completes a name that has not got it.
Has(catalog, key) == \E s \in catalog : s.key = key
Find(catalog, key) ==
  CHOOSE s \in catalog :
    s.key = key /\ \A other \in catalog : other.key = key => s.order <= other.order

\* ModuleLoaderState::Resolve, LoadModule: "@SignalRGB/" and host modules are
\* never looked for among the files.
FileImports(s) == {i \in Imports(s.text) : i.kind \in {"relative", "bare"}}

\* An import that names no file is an exception of the import, relative or not.
ImportsFound(catalog, s) == \A i \in FileImports(s) : Has(catalog, i.key)

IsClosed(catalog, files) ==
  \A s \in files : \A i \in FileImports(s) :
    Has(catalog, i.key) => Find(catalog, i.key) \in files

\* Mutant of Loaded: LoadModule leaves the recording to the loader, which the script
\* itself does not pass.
LoadedImports(catalog, key) ==
  {s \in catalog : s # Find(catalog, key) /\ \A files \in SUBSET catalog :
     Find(catalog, key) \in files /\ IsClosed(catalog, files) => s \in files}

\* RecordLoaded: the script, and what the modules recorded import.
Loaded(catalog, key) ==
  {s \in catalog : \A files \in SUBSET catalog :
     Find(catalog, key) \in files /\ IsClosed(catalog, files) => s \in files}

\* QuickJsRuntime::LoadModule, EvaluateModule: the script loads if it is there and
\* no import of any module fails.
CanLoad(catalog, key) ==
  /\ Has(catalog, key)
  /\ \A s \in Loaded(catalog, key) : ImportsFound(catalog, s)

=============================================================================
