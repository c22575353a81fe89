--------------------------- MODULE ScriptRuntimeProofs ---------------------------
(***************************************************************************)
(* What is proved of ScriptRuntime, for any declarations, values and files.*)
(***************************************************************************)
EXTENDS ScriptRuntime, TLAPS

-----------------------------------------------------------------------------
(* The loader.                                                             *)

\* A key that some file has finds one of them.
LEMMA FindIsThere ==
  ASSUME NEW catalog \in SUBSET Sources, NEW key, Has(catalog, key)
  PROVE  Find(catalog, key) \in catalog /\ Find(catalog, key).key = key
<1> DEFINE S == {s \in catalog : s.key = key}
<1>1. \E s \in S : \A t \in S : s.order <= t.order
  BY OrderAssumption DEF Has
<1> QED
  BY <1>1 DEF Find

\* A catalog finds in a part of it what it finds, if it finds every file of the part.
LEMMA FindInPart ==
  ASSUME NEW catalog \in SUBSET Sources, NEW part \in SUBSET catalog,
         \A s \in part : Find(catalog, s.key) = s,
         NEW key, Has(part, key)
  PROVE  Find(part, key) = Find(catalog, key) /\ Find(part, key) \in part
<1>1. Find(part, key) \in part /\ Find(part, key).key = key
  BY FindIsThere
<1> QED
  BY <1>1

\* The files that a scan has loaded load again by themselves, and no others: the
\* devices' runtimes and the validation run the modules of the scan.
THEOREM RecordIsComplete ==
  ASSUME NEW catalog \in SUBSET Sources, NEW key, CanLoad(catalog, key)
  PROVE  /\ CanLoad(Loaded(catalog, key), key)
         /\ Loaded(Loaded(catalog, key), key) = Loaded(catalog, key)
<1> DEFINE L == Loaded(catalog, key)
           entry == Find(catalog, key)
           Found == {s \in catalog : Find(catalog, s.key) = s}
<1> L \subseteq catalog
  BY DEF Loaded
<1>1. entry \in catalog /\ entry.key = key
  BY FindIsThere DEF CanLoad
<1>2. entry \in L
  BY <1>1 DEF Loaded
<1>3. ASSUME NEW s \in L, NEW i \in FileImports(s)
      PROVE  Has(catalog, i.key) /\ Find(catalog, i.key) \in L
  <2>1. Has(catalog, i.key)
    BY <1>3 DEF CanLoad, ImportsFound
  <2>2. Find(catalog, i.key) \in catalog
    BY <2>1, FindIsThere
  <2>3. ASSUME NEW files \in SUBSET catalog, entry \in files, IsClosed(catalog, files)
        PROVE  Find(catalog, i.key) \in files
    <3>1. s \in files
      BY <2>3 DEF Loaded
    <3> QED
      BY <2>1, <2>3, <3>1 DEF IsClosed
  <2> QED
    BY <2>1, <2>2, <2>3 DEF Loaded
<1>4. L \subseteq Found
  <2>1. entry \in Found
    BY <1>1
  <2>2. ASSUME NEW s \in Found, NEW i \in FileImports(s), Has(catalog, i.key)
        PROVE  Find(catalog, i.key) \in Found
    BY <2>2, FindIsThere
  <2>3. IsClosed(catalog, Found)
    BY <2>2 DEF IsClosed
  <2> QED
    BY <2>1, <2>3 DEF Loaded
<1>5. \A s \in L : Find(catalog, s.key) = s
  BY <1>4
<1>6. ASSUME NEW s \in L, NEW i \in FileImports(s)
      PROVE  Has(L, i.key) /\ Find(L, i.key) = Find(catalog, i.key)
  <2>1. Has(L, i.key)
    BY <1>3, FindIsThere DEF Has
  <2> HIDE DEF L
  <2> QED
    BY <2>1, <1>5, FindInPart
<1>7. Has(L, key) /\ Find(L, key) = entry
  <2>1. Has(L, key)
    BY <1>1, <1>2 DEF Has
  <2> HIDE DEF L
  <2> QED
    BY <2>1, <1>5, FindInPart
<1>8. Loaded(L, key) = L
  <2>1. ASSUME NEW files \in SUBSET L, entry \in files, IsClosed(L, files)
        PROVE  L \subseteq files
    <3>1. IsClosed(catalog, files)
      BY <2>1, <1>6 DEF IsClosed
    <3> QED
      BY <2>1, <3>1 DEF Loaded
  <2> HIDE DEF L
  <2> QED
    BY <2>1, <1>7 DEF Loaded
<1>9. CanLoad(L, key)
  <2> HIDE DEF L
  <2> QED
    BY <1>6, <1>7, <1>8 DEF CanLoad, ImportsFound
<1> QED
  BY <1>8, <1>9

-----------------------------------------------------------------------------
(* The normalization of values.                                            *)

\* A parameter has one kind.
LEMMA OneType ==
  ASSUME NEW p
  PROVE  /\ ~(IsBoolean(p) /\ IsNumeric(p))
         /\ ~(IsBoolean(p) /\ IsChoice(p))
         /\ ~(IsNumeric(p) /\ IsChoice(p))
BY DEF IsBoolean, IsNumeric, IsChoice

\* The default of a parameter is of its kind.
LEMMA DefaultConforms ==
  ASSUME NEW p
  PROVE  Conforms(p, ParameterDefaultValue(p))
<1>1. CASE IsBoolean(p)
  BY <1>1, OneType DEF Conforms, ParameterDefaultValue, Kind, Bool
<1>2. CASE IsNumeric(p)
  BY <1>2, OneType DEF Conforms, ParameterDefaultValue, Kind, Number
<1>3. CASE IsChoice(p)
  BY <1>3, OneType DEF Conforms, ParameterDefaultValue, Kind, Text
<1>4. CASE ~(IsBoolean(p) \/ IsNumeric(p) \/ IsChoice(p))
  BY <1>4 DEF Conforms, ParameterDefaultValue, Kind, Text
<1> QED
  BY <1>1, <1>2, <1>3, <1>4

\* Whatever the stored value is, the script reads one of the kind it has declared,
\* and of a list of choices one of the list, or the default.
THEOREM NormalizedConforms ==
  ASSUME NEW p, NEW v
  PROVE  Conforms(p, NormalizeParameterValue(p, v))
<1> DEFINE fallback == ParameterDefaultValue(p)
           text == JsonText(v, fallback[2])
<1>1. CASE v = Undefined
  <2>1. NormalizeParameterValue(p, v) = fallback
    BY <1>1 DEF NormalizeParameterValue
  <2> QED
    BY <2>1, DefaultConforms
<1>2. CASE v # Undefined /\ IsBoolean(p)
  BY <1>2, OneType DEF Conforms, NormalizeParameterValue, Kind, Bool
<1>3. CASE v # Undefined /\ IsNumeric(p)
  BY <1>3, OneType DEF Conforms, NormalizeParameterValue, Kind, Number
<1>4. CASE v # Undefined /\ IsChoice(p)
  <2>1. NormalizeParameterValue(p, v) =
          IF p.values = <<>> \/ text \in Choices(p) THEN Text(text) ELSE fallback
    BY <1>4, OneType DEF NormalizeParameterValue
  <2>2. ASSUME p.values = <<>> \/ text \in Choices(p)  PROVE Conforms(p, Text(text))
    BY <2>2, <1>4, OneType DEF Conforms, Kind, Text
  <2> QED
    BY <2>1, <2>2, DefaultConforms
<1>5. CASE v # Undefined /\ ~(IsBoolean(p) \/ IsNumeric(p) \/ IsChoice(p))
  BY <1>5 DEF Conforms, NormalizeParameterValue, Kind, Text
<1> QED
  BY <1>1, <1>2, <1>3, <1>4, <1>5

\* A value that has been normalized stays as it is: the second application, after
\* Initialize, and addProperty on a parameter that is set change nothing.
THEOREM NormalizeIsIdempotent ==
  ASSUME NEW p, NEW v
  PROVE  NormalizeParameterValue(p, NormalizeParameterValue(p, v))
           = NormalizeParameterValue(p, v)
<1> DEFINE fallback == ParameterDefaultValue(p)
           text == JsonText(v, fallback[2])
           n == NormalizeParameterValue(p, v)
<1>1. CASE IsBoolean(p)
  <2>1. PICK b : n = Bool(b)
    BY <1>1, OneType DEF NormalizeParameterValue, ParameterDefaultValue
  <2>2. Bool(b) # Undefined /\ Kind(Bool(b)) = "bool" /\ Bool(b)[2] = b
    BY DEF Bool, Undefined, Kind
  <2>3. \A f : JsonBool(Bool(b), f) = b
    BY <2>2 DEF JsonBool
  <2>4. NormalizeParameterValue(p, Bool(b)) = Bool(b)
    BY <2>2, <2>3, <1>1, OneType DEF NormalizeParameterValue
  <2> HIDE DEF n
  <2>5. NormalizeParameterValue(p, n) = n
    BY <2>1, <2>4
  <2> QED
    BY <2>5 DEF n
<1>2. CASE IsNumeric(p)
  <2>1. PICK b : n = Number(b)
    BY <1>2, OneType DEF NormalizeParameterValue, ParameterDefaultValue
  <2>2. Number(b) # Undefined /\ \A f : JsonNumber(Number(b), f) = b
    BY DEF Number, Undefined, JsonNumber, Kind
  <2>3. NormalizeParameterValue(p, Number(b)) = Number(b)
    BY <2>2, <1>2, OneType DEF NormalizeParameterValue
  <2> HIDE DEF n
  <2>4. NormalizeParameterValue(p, n) = n
    BY <2>1, <2>3
  <2> QED
    BY <2>4 DEF n
<1>3. CASE IsChoice(p)
  <2>1. fallback = Text(DefaultChoice(p))
    BY <1>3, OneType DEF ParameterDefaultValue
  <2>2. \/ n = fallback
        \/ n = Text(text) /\ (p.values = <<>> \/ text \in Choices(p))
    BY <1>3, OneType DEF NormalizeParameterValue
  <2>3. \A t : Text(t) # Undefined /\ \A f : JsonText(Text(t), f) = t
    BY DEF Text, Undefined, JsonText, Kind
  <2>4. \A t : NormalizeParameterValue(p, Text(t)) =
                 IF p.values = <<>> \/ t \in Choices(p) THEN Text(t) ELSE fallback
    BY <2>3, <1>3, OneType DEF NormalizeParameterValue
  <2> HIDE DEF n, fallback, text
  <2>5. NormalizeParameterValue(p, n) = n
    BY <2>1, <2>2, <2>4
  <2> QED
    BY <2>5 DEF n
<1>4. CASE ~(IsBoolean(p) \/ IsNumeric(p) \/ IsChoice(p))
  <2>1. PICK b : n = Text(b)
    BY <1>4 DEF NormalizeParameterValue, ParameterDefaultValue
  <2>2. Text(b) # Undefined /\ \A f : JsonText(Text(b), f) = b
    BY DEF Text, Undefined, JsonText, Kind
  <2>3. NormalizeParameterValue(p, Text(b)) = Text(b)
    BY <2>2, <1>4 DEF NormalizeParameterValue
  <2> HIDE DEF n
  <2>4. NormalizeParameterValue(p, n) = n
    BY <2>1, <2>3
  <2> QED
    BY <2>4 DEF n
<1> QED
  BY <1>1, <1>2, <1>3, <1>4

-----------------------------------------------------------------------------
(* The controls of the page.                                               *)

\* A number, or the number of a text, is an integer if the fallback is.
LEMMA NumberIsInteger ==
  ASSUME NEW p, IsNumeric(p), IsValue(p.default), NEW v, IsValue(v)
  PROVE  \E n \in Int : NormalizeParameterValue(p, v) = Number(n)
<1>1. ASSUME NEW w, IsValue(w), NEW f \in Int
      PROVE  JsonNumber(w, f) \in Int
  BY <1>1 DEF JsonNumber, IsValue
<1> DEFINE d == JsonNumber(p.default, 0)
<1>2. d \in Int /\ ParameterDefaultValue(p) = Number(d)
  <2>1. ParameterDefaultValue(p) = Number(d)
    BY OneType DEF ParameterDefaultValue
  <2> QED
    BY <1>1, <2>1
<1> HIDE DEF d
<1>3. Number(d)[2] = d
  BY DEF Number
<1>4. CASE v = Undefined
  BY <1>2, <1>4 DEF NormalizeParameterValue
<1>5. CASE v # Undefined
  <2>1. NormalizeParameterValue(p, v) = Number(JsonNumber(v, d))
    BY <1>2, <1>3, <1>5, OneType DEF NormalizeParameterValue
  <2> QED
    BY <2>1, <1>1, <1>2
<1> QED
  BY <1>4, <1>5

HasValues(p) == \A v \in {p.default, p.min, p.max, p.step} : IsValue(v)

\* The range of a control, and what it shows, are on the grid of its decimals.
LEMMA RangeOnGrid ==
  ASSUME NEW p, HasValues(p)
  PROVE  /\ Grid(p) \in {1, 10} /\ Lowest(p) \in Int /\ Highest(p) \in Int
         /\ Lowest(p) <= Highest(p)
         /\ Grid(p) = 10 => Lowest(p) % 10 = 0 /\ Highest(p) % 10 = 0
<1>1. ASSUME NEW v, IsValue(v), NEW f \in Int
      PROVE  JsonNumber(v, f) \in Int
  BY <1>1 DEF JsonNumber, IsValue
<1>2. ASSUME NEW v, IsValue(v), NEW f \in Int
      PROVE  /\ ParameterNumberBound(v, f) \in Int
             /\ v = Undefined => ParameterNumberBound(v, f) = f
             /\ v # Undefined => ParameterNumberBound(v, f) = JsonNumber(v, f)
  BY <1>1, <1>2 DEF ParameterNumberBound
<1>3. ASSUME NEW v \in {p.min, p.max}, NEW f \in Int, f % 10 = 0, Grid(p) = 10
      PROVE  ParameterNumberBound(v, f) % 10 = 0
  <2>1. CASE v = Undefined
    BY <2>1, <1>2, <1>3 DEF HasValues
  <2>2. CASE v # Undefined /\ (Kind(v) = "number" \/ (Kind(v) = "text" /\ TextNumber(v[2]) \in Int))
    <3>1. JsonNumber(v, f) = JsonNumber(v, 0)
      BY <2>2 DEF JsonNumber
    <3>2. JsonNumber(v, 0) % 10 = 0
      BY <2>2, <1>3 DEF Grid
    <3> QED
      BY <3>1, <3>2, <2>2, <1>2 DEF HasValues
  <2>3. CASE v # Undefined /\ ~(Kind(v) = "number" \/ (Kind(v) = "text" /\ TextNumber(v[2]) \in Int))
    <3>1. JsonNumber(v, f) = f
      BY <2>3 DEF JsonNumber
    <3> QED
      BY <3>1, <2>3, <1>2, <1>3 DEF HasValues
  <2> QED
    BY <2>1, <2>2, <2>3
<1>4. Lowest(p) \in Int /\ (Grid(p) = 10 => Lowest(p) % 10 = 0)
  BY <1>2, <1>3 DEF Lowest, HasValues
<1>5. /\ ParameterNumberBound(p.max, 10000000) \in Int
      /\ Grid(p) = 10 => ParameterNumberBound(p.max, 10000000) % 10 = 0
  BY <1>2, <1>3 DEF HasValues
<1>6. Grid(p) \in {1, 10}
  BY DEF Grid
<1> QED
  BY <1>4, <1>5, <1>6 DEF Highest

\* A number that the control shows stays where it is.
LEMMA InRangeStays ==
  ASSUME NEW p, HasValues(p), NEW n \in Int
  PROVE  InRange(p, n) \in Int /\ InRange(p, InRange(p, n)) = InRange(p, n)
<1> DEFINE g == Grid(p)
           Rounded(m) == ((m + g \div 2) \div g) * g
           r == InRange(p, n)
<1>1. g = 1 \/ g = 10
  BY RangeOnGrid
<1>2. \A m \in Int : Rounded(m) \in Int
  BY <1>1
<1>3. \A m \in Int : (g = 10 => m % 10 = 0) => Rounded(m) = m
  <2>1. CASE g = 1
    BY <2>1
  <2>2. CASE g = 10
    BY <2>2
  <2> QED
    BY <1>1, <2>1, <2>2
<1>4. g = 10 => Rounded(n) % 10 = 0
  BY <1>2
<1>5. \A m \in Int : InRange(p, m) = CASE Rounded(m) < Lowest(p) -> Lowest(p)
                                       [] Rounded(m) > Highest(p) -> Highest(p)
                                       [] OTHER -> Rounded(m)
  BY DEF InRange
<1> HIDE DEF g, Rounded
<1>6. /\ r \in Int /\ Lowest(p) <= r /\ r <= Highest(p)
      /\ g = 10 => r % 10 = 0
  <2>1. CASE Rounded(n) < Lowest(p)
    BY <2>1, <1>2, <1>5, RangeOnGrid DEF g
  <2>2. CASE Rounded(n) > Highest(p)
    BY <2>2, <1>2, <1>5, RangeOnGrid DEF g
  <2>3. CASE ~(Rounded(n) < Lowest(p)) /\ ~(Rounded(n) > Highest(p))
    BY <2>3, <1>2, <1>4, <1>5, RangeOnGrid DEF g
  <2> QED
    BY <2>1, <2>2, <2>3
<1> HIDE DEF r
<1>7. Rounded(r) = r
  BY <1>3, <1>6
<1>8. InRange(p, r) = r
  BY <1>5, <1>6, <1>7, RangeOnGrid
<1> QED
  BY <1>6, <1>8 DEF r

\* What a user enters reaches the script as the page shows it.
THEOREM EnteredIsShown ==
  ASSUME NEW p, HasValues(p), NEW control, NEW numbers \in SUBSET Int, NEW texts,
         IsNumeric(p) => control.shown[2] \in Int,
         IsChoice(p) => \/ p.values = <<>>
                        \/ control.items \subseteq Choices(p) \cup {DefaultChoice(p)},
         NEW v \in Enterable(p, control, numbers, texts)
  PROVE  IsValue(v) /\ Shown(p, NormalizeParameterValue(p, v)) = v
<1>1. CASE IsBoolean(p)
  <2>1. PICK b : v = Bool(b)
    BY <1>1, OneType DEF Enterable
  <2>2. Bool(b) # Undefined /\ Kind(Bool(b)) = "bool" /\ Bool(b)[2] = b
    BY DEF Bool, Undefined, Kind
  <2>3. \A f : JsonBool(Bool(b), f) = b
    BY <2>2 DEF JsonBool
  <2>4. NormalizeParameterValue(p, Bool(b)) = Bool(b)
    BY <2>2, <2>3, <1>1, OneType DEF NormalizeParameterValue
  <2>5. IsValue(Bool(b))
    BY <2>2 DEF IsValue
  <2> QED
    BY <2>1, <2>4, <2>5, <1>1, OneType DEF Shown
<1>2. CASE IsNumeric(p)
  <2>1. PICK n \in Int : v = Number(InRange(p, n))
    BY <1>2, OneType DEF Enterable
  <2> DEFINE m == InRange(p, n)
  <2>2. m \in Int /\ InRange(p, m) = m
    BY InRangeStays
  <2> HIDE DEF m
  <2>3. /\ Number(m) # Undefined /\ Number(m)[2] = m /\ IsValue(Number(m))
        /\ \A f : JsonNumber(Number(m), f) = m
    BY <2>2 DEF Number, Undefined, IsValue, JsonNumber, Kind
  <2>4. NormalizeParameterValue(p, Number(m)) = Number(m)
    BY <2>3, <1>2, OneType DEF NormalizeParameterValue
  <2> QED
    BY <2>1, <2>2, <2>3, <2>4, <1>2 DEF Shown, m
<1>3. CASE IsChoice(p)
  <2>1. PICK t \in control.items : v = Text(t)
    BY <1>3, OneType DEF Enterable
  <2>2. /\ Text(t) # Undefined /\ IsValue(Text(t))
        /\ \A f : JsonText(Text(t), f) = t
    BY DEF Text, Undefined, IsValue, JsonText, Kind
  <2>3. ParameterDefaultValue(p) = Text(DefaultChoice(p))
    BY <1>3, OneType DEF ParameterDefaultValue
  <2>4. NormalizeParameterValue(p, Text(t)) =
          IF p.values = <<>> \/ t \in Choices(p) THEN Text(t) ELSE ParameterDefaultValue(p)
    BY <2>2, <1>3, OneType DEF NormalizeParameterValue
  <2>5. NormalizeParameterValue(p, Text(t)) = Text(t)
    BY <2>3, <2>4, <1>3
  <2> QED
    BY <2>1, <2>2, <2>5, <1>3, OneType DEF Shown
<1>4. CASE ~(IsBoolean(p) \/ IsNumeric(p) \/ IsChoice(p))
  <2>1. PICK t : v = Text(t)
    BY <1>4 DEF Enterable
  <2>2. /\ Text(t) # Undefined /\ IsValue(Text(t))
        /\ \A f : JsonText(Text(t), f) = t
    BY DEF Text, Undefined, IsValue, JsonText, Kind
  <2>3. NormalizeParameterValue(p, Text(t)) = Text(t)
    BY <2>2, <1>4 DEF NormalizeParameterValue
  <2> QED
    BY <2>1, <2>2, <2>3, <1>4 DEF Shown
<1> QED
  BY <1>1, <1>2, <1>3, <1>4

-----------------------------------------------------------------------------
(* Declarations.                                                           *)

\* The declarations of a list are parameters, under names.
LEMMA DeclarationsAreParameters ==
  ASSUME NEW d \in Declarations
  PROVE  /\ DOMAIN d \subseteq Names /\ d = [n \in DOMAIN d |-> d[n]]
         /\ \A n \in DOMAIN d : d[n] \in Parameters /\ HasValues(d[n])
BY ParametersAssumption DEF Declarations, HasValues

\* One declaration is a list.
LEMMA DeclarationOfOne ==
  ASSUME NEW p \in Parameters
  PROVE  [n \in {p.property} |-> p] \in Declarations
<1>1. {p.property} \in SUBSET Names
  BY ParametersAssumption
<1>2. [n \in {p.property} |-> p] \in [{p.property} -> Parameters]
  OBVIOUS
<1> QED
  BY <1>1, <1>2 DEF Declarations

\* None is a list, too.
LEMMA NoDeclarations == NoParameters \in Declarations /\ DOMAIN NoParameters = {}
BY DEF NoParameters, Declarations

\* Two lists merged are one, of the names of both.
LEMMA MergeDeclares ==
  ASSUME NEW a \in Declarations, NEW b \in Declarations
  PROVE  MergeControlParameters(a, b) \in Declarations
<1> DEFINE S == DOMAIN a \cup DOMAIN b
           f(n) == IF n \in DOMAIN b THEN b[n] ELSE a[n]
<1>1. S \subseteq Names /\ \A n \in S : f(n) \in Parameters
  BY DeclarationsAreParameters
<1>2. [n \in S |-> f(n)] \in [S -> Parameters]
  BY <1>1
<1> QED
  BY <1>1, <1>2 DEF MergeControlParameters, Declarations

\* So is a list from which some have been removed.
LEMMA RestrictionDeclares ==
  ASSUME NEW d \in Declarations, NEW name
  PROVE  [n \in DOMAIN d \ {name} |-> d[n]] \in Declarations
<1>1. DOMAIN d \subseteq Names /\ \A n \in DOMAIN d : d[n] \in Parameters
  BY DeclarationsAreParameters
<1>2. [n \in DOMAIN d \ {name} |-> d[n]] \in [DOMAIN d \ {name} -> Parameters]
  BY <1>1
<1> QED
  BY <1>1, <1>2 DEF Declarations

-----------------------------------------------------------------------------
(* The inductive invariant.                                                *)

\* Without a live controller there is no page.
NoPageUnlessLive == phase # "live" => page = NoParameters /\ redeclared = {}

\* What is recorded is what some catalog loads, and what the device runs.
ModulesOK ==
  /\ phase = "scanning" =>
       \E catalog \in SUBSET Sources :
         CanLoad(catalog, Entry) /\ runtime.loaded = Loaded(catalog, Entry)
  /\ phase = "scanned" =>
       CanLoad(meta.modules, Entry) /\ Loaded(meta.modules, Entry) = meta.modules
  /\ phase \in {"evaluating", "initializing", "live"} => runtime.loaded = meta.modules

\* The script has the value of the configuration, or of an earlier one.
GlobalsOK ==
  phase = "live" =>
    \A name \in DOMAIN meta.params \ redeclared :
      /\ Conforms(meta.params[name], runtime.globals[name])
      /\ name \notin pending =>
           runtime.globals[name] = NormalizeParameterValue(meta.params[name], config[name])

\* A control shows the value of the configuration, pending or not, and offers only
\* what normalization would keep.
ControlOK(p, control, value) ==
  /\ control = [shown |-> control.shown, items |-> control.items]
  /\ control.shown = Shown(p, NormalizeParameterValue(p, value))
  /\ IsChoice(p) => \/ p.values = <<>>
                    \/ control.items \subseteq Choices(p) \cup {DefaultChoice(p)}

PageOK ==
  /\ page = [name \in DOMAIN page |-> page[name]]
  /\ \A name \in DOMAIN page : ControlOK(meta.params[name], page[name], config[name])

IInv == TypeOK /\ NoPageUnlessLive /\ ModulesOK /\ GlobalsOK /\ PageOK

\* Nothing is loaded, declared or shown at first.
LEMMA InitInvariant == Init => IInv
<1> SUFFICES ASSUME Init PROVE IInv
  OBVIOUS
<1>1. \A name \in Names : IsValue(config[name])
  BY ValuesAssumption DEF Init, IsValue, Undefined, Kind
<1>2. TypeOK
  BY <1>1, NoDeclarations DEF Init, TypeOK, NoMeta, NoRuntime
<1>3. PageOK
  BY NoDeclarations DEF Init, PageOK, NoParameters
<1> QED
  BY <1>2, <1>3 DEF Init, IInv, NoPageUnlessLive, ModulesOK, GlobalsOK

\* What is loaded are files of the catalogue.
LEMMA LoadedIsFiles ==
  \A catalog \in SUBSET Sources : \A key : Loaded(catalog, key) \subseteq catalog
BY DEF Loaded

\* Without a page nothing can be pending or shown wrongly.
LEMMA WithoutPage ==
  ASSUME phase' # "live", page' = NoParameters, redeclared' = {}
  PROVE  NoPageUnlessLive' /\ GlobalsOK' /\ PageOK'
BY NoDeclarations DEF NoPageUnlessLive, GlobalsOK, PageOK, NoParameters

\* The discovery: the script is scanned, loaded and configured.
LEMMA ScanKeeps ==
  ASSUME IInv, Scan \/ Scanned \/ ScanFails \/ Discard \/ CreationFails
  PROVE  IInv'
<1> USE DEF IInv, TypeOK
<1>1. CASE Scan
  <2>1. PICK catalog \in Catalogs, unread \in SUBSET Sources :
          CanLoad(catalog \ unread, Entry) /\ runtime' = Loading(catalog \ unread)
    BY <1>1 DEF Scan
  <2>2. catalog \ unread \in SUBSET Sources
    BY CatalogsAssumption
  <2> DEFINE files == Loaded(catalog \ unread, Entry)
  <2>3. files \in SUBSET Sources
    BY <2>2, LoadedIsFiles
  <2>4. runtime' = [loaded |-> files, properties |-> NoParameters,
                    globals |-> [name \in Names |-> Undefined]]
    BY <2>1 DEF Loading, NoRuntime
  <2>5. ModulesOK'
    <3>1. runtime'.loaded = Loaded(catalog \ unread, Entry) /\ phase' = "scanning"
      BY <1>1, <2>4 DEF Scan
    <3> HIDE DEF files
    <3> QED
      BY <2>1, <2>2, <3>1 DEF ModulesOK
  <2> HIDE DEF files
  <2>6. TypeOK'
    <3>1. /\ runtime' = [loaded |-> runtime'.loaded, properties |-> runtime'.properties,
                         globals |-> [name \in Names |-> runtime'.globals[name]]]
          /\ runtime'.loaded \in SUBSET Sources /\ runtime'.properties \in Declarations
      BY <2>3, <2>4, NoDeclarations
    <3>2. phase' = "scanning" /\ scans' \in Nat /\ declarations' \in Nat
      BY <1>1 DEF Scan
    <3> QED
      BY <1>1, <3>1, <3>2 DEF Scan
  <2> QED
    BY <1>1, <2>5, <2>6, WithoutPage DEF Scan, NoPageUnlessLive
<1>2. CASE Scanned
  <2>1. PICK controllable \in {NoParameters} \cup {[n \in {p.property} |-> p] : p \in Parameters} :
          meta' = [params |-> MergeControlParameters(controllable, runtime.properties),
                   modules |-> runtime.loaded]
    BY <1>2 DEF Scanned
  <2>2. controllable \in Declarations
    <3>1. CASE controllable = NoParameters
      BY <3>1, NoDeclarations
    <3>2. CASE \E p \in Parameters : controllable = [n \in {p.property} |-> p]
      BY <3>2, DeclarationOfOne
    <3> QED
      BY <3>1, <3>2
  <2>3. TypeOK'
    BY <1>2, <2>1, <2>2, MergeDeclares, NoDeclarations DEF Scanned, NoRuntime, NoPageUnlessLive
  <2>4. ModulesOK'
    BY <1>2, <2>1, RecordIsComplete DEF Scanned, ModulesOK
  <2> QED
    BY <1>2, <2>3, <2>4, WithoutPage DEF Scanned, NoPageUnlessLive
<1>3. CASE ScanFails \/ CreationFails \/ Discard
  <2>1. TypeOK'
    BY <1>3, NoDeclarations
    DEF ScanFails, CreationFails, Discard, NoRuntime, NoMeta, NoPageUnlessLive
  <2>2. ModulesOK'
    BY <1>3 DEF ScanFails, CreationFails, Discard, ModulesOK
  <2>3. phase' # "live" /\ page' = NoParameters /\ redeclared' = {}
    BY <1>3 DEF ScanFails, CreationFails, Discard, NoPageUnlessLive
  <2> QED
    BY <2>1, <2>2, <2>3, WithoutPage
<1> QED
  BY <1>1, <1>2, <1>3

\* The creation of the controller, from the loading to the end of Initialize.
LEMMA CreationKeeps ==
  ASSUME IInv, CreateDeviceRuntime \/ Configure \/ Initialized
  PROVE  IInv'
<1> USE DEF IInv, TypeOK
<1>1. CASE CreateDeviceRuntime
  <2>1. runtime' = [loaded |-> meta.modules, properties |-> NoParameters,
                    globals |-> [name \in Names |-> Undefined]]
    BY <1>1 DEF CreateDeviceRuntime, Loading, NoRuntime, ModulesOK
  <2>2. TypeOK'
    BY <1>1, <2>1, NoDeclarations DEF CreateDeviceRuntime
  <2>3. ModulesOK'
    BY <1>1, <2>1 DEF CreateDeviceRuntime, ModulesOK
  <2> QED
    BY <1>1, <2>2, <2>3, WithoutPage DEF CreateDeviceRuntime, NoPageUnlessLive
<1>2. CASE Configure
  <2>1. TypeOK'
    BY <1>2 DEF Configure, WithParameters
  <2>2. ModulesOK'
    BY <1>2 DEF Configure, ModulesOK
  <2> QED
    BY <1>2, <2>1, <2>2, WithoutPage DEF Configure, NoPageUnlessLive
<1>3. CASE Initialized
  <2> DEFINE params == MergeControlParameters(meta.params, runtime.properties)
  <2>1. params \in Declarations
    BY MergeDeclares
  <2>2. /\ meta'.params = params /\ meta'.modules = meta.modules
        /\ meta' \in [params : Declarations, modules : SUBSET Sources]
    BY <1>3, <2>1 DEF Initialized
  <2>3. runtime' = [loaded |-> runtime.loaded, properties |-> runtime.properties,
                    globals |-> WithParameters(params, runtime.globals)]
    BY <1>3 DEF Initialized
  <2>4. DOMAIN page = {} /\ page' = page /\ pending = {} /\ redeclared = {}
    BY <1>3, NoDeclarations DEF Initialized, NoPageUnlessLive
  <2> HIDE DEF params
  <2>5. TypeOK'
    BY <1>3, <2>2, <2>3, <2>4 DEF Initialized, WithParameters
  <2>6. GlobalsOK'
    <3> SUFFICES ASSUME NEW name \in DOMAIN params
                 PROVE  /\ Conforms(params[name], runtime'.globals[name])
                        /\ runtime'.globals[name] = NormalizeParameterValue(params[name], config[name])
      BY <1>3, <2>2 DEF GlobalsOK, Initialized
    <3>1. name \in Names
      BY <2>1, DeclarationsAreParameters
    <3>2. runtime'.globals[name] = NormalizeParameterValue(params[name], config[name])
      BY <2>3, <3>1 DEF WithParameters
    <3> QED
      BY <3>2, NormalizedConforms
  <2>7. ModulesOK' /\ NoPageUnlessLive' /\ PageOK'
    BY <1>3, <2>2, <2>3, <2>4 DEF Initialized, ModulesOK, NoPageUnlessLive, PageOK
  <2> QED
    BY <2>5, <2>6, <2>7
<1> QED
  BY <1>1, <1>2, <1>3

\* The script declares a parameter, or gives one up.
LEMMA DeclarationsKeep ==
  ASSUME IInv,
         \/ \E p \in Parameters : AddProperty(p)
         \/ \E name \in Names : RemoveProperty(name)
  PROVE  IInv'
<1> USE DEF IInv, TypeOK
<1>1. ASSUME NEW p \in Parameters, AddProperty(p)
      PROVE  IInv'
  <2> DEFINE value == NormalizeParameterValue(p, runtime.globals[p.property])
             params == MergeControlParameters(runtime.properties, [n \in {p.property} |-> p])
  <2>1. params \in Declarations /\ p.property \in Names
    BY MergeDeclares, DeclarationOfOne, ParametersAssumption
  <2>2. runtime' = [runtime EXCEPT !.properties = params, !.globals[p.property] = value]
    BY <1>1 DEF AddProperty
  <2> HIDE DEF value, params
  <2>3. runtime' = [loaded |-> runtime.loaded, properties |-> params,
                    globals |-> [name \in Names |-> IF name = p.property THEN value
                                                    ELSE runtime.globals[name]]]
    <3>1. runtime.globals = [name \in Names |-> runtime.globals[name]]
      OBVIOUS
    <3>2. [runtime.globals EXCEPT ![p.property] = value] =
            [name \in Names |-> IF name = p.property THEN value ELSE runtime.globals[name]]
      BY <3>1
    <3>3. runtime' = [loaded |-> runtime.loaded, properties |-> params,
                      globals |-> [runtime.globals EXCEPT ![p.property] = value]]
      BY <2>2
    <3> QED
      BY <3>2, <3>3
  <2>4. TypeOK'
    <3>1. runtime' = [loaded |-> runtime'.loaded, properties |-> runtime'.properties,
                      globals |-> [name \in Names |-> runtime'.globals[name]]]
      BY <2>3
    <3>3. runtime'.loaded \in SUBSET Sources /\ runtime'.properties \in Declarations
      BY <2>1, <2>3
    <3>2. redeclared' \subseteq Names /\ declarations' \in Nat
      <4>1. redeclared' \in {redeclared, redeclared \cup {p.property}}
        BY <1>1 DEF AddProperty
      <4>2. declarations' = declarations + 1
        BY <1>1 DEF AddProperty
      <4> QED
        BY <4>1, <4>2, <2>1
    <3> QED
      BY <1>1, <3>1, <3>2, <3>3 DEF AddProperty
  <2>5. ModulesOK'
    BY <1>1, <2>3 DEF AddProperty, ModulesOK
  <2>6. GlobalsOK'
    <3> SUFFICES ASSUME phase = "live", NEW name \in DOMAIN meta.params \ redeclared'
                 PROVE  /\ Conforms(meta.params[name], runtime'.globals[name])
                        /\ name \notin pending =>
                             runtime'.globals[name]
                               = NormalizeParameterValue(meta.params[name], config[name])
      BY <1>1 DEF AddProperty, GlobalsOK
    <3>1. name \in Names \ {p.property} /\ name \notin redeclared
      BY <1>1, DeclarationsAreParameters DEF AddProperty
    <3> QED
      BY <2>3, <3>1 DEF GlobalsOK
  <2>7. NoPageUnlessLive' /\ PageOK'
    BY <1>1 DEF AddProperty, NoPageUnlessLive, PageOK
  <2> QED
    BY <2>4, <2>5, <2>6, <2>7
<1>2. ASSUME NEW name \in Names, RemoveProperty(name)
      PROVE  IInv'
  <2>1. [n \in DOMAIN runtime.properties \ {name} |-> runtime.properties[n]] \in Declarations
    BY RestrictionDeclares
  <2>2. /\ runtime' = [loaded |-> runtime.loaded, properties |-> runtime'.properties,
                       globals |-> runtime.globals]
        /\ runtime'.properties \in Declarations
        /\ runtime.globals = [n \in Names |-> runtime.globals[n]]
    BY <1>2, <2>1 DEF RemoveProperty
  <2>3. TypeOK'
    <3>1. runtime' = [loaded |-> runtime'.loaded, properties |-> runtime'.properties,
                      globals |-> [n \in Names |-> runtime'.globals[n]]]
      BY <2>2
    <3> QED
      BY <1>2, <2>2, <3>1 DEF RemoveProperty
  <2>4. ModulesOK' /\ GlobalsOK' /\ NoPageUnlessLive' /\ PageOK'
    <3>1. runtime'.loaded = runtime.loaded /\ runtime'.globals = runtime.globals
      BY <2>2
    <3>2. UNCHANGED <<phase, meta, config, pending, page, redeclared>>
      BY <1>2 DEF RemoveProperty
    <3> QED
      BY <3>1, <3>2 DEF ModulesOK, GlobalsOK, NoPageUnlessLive, PageOK
  <2> QED
    BY <2>3, <2>4
<1> QED
  BY <1>1, <1>2

\* What the page shows of a parameter, and offers.
LEMMA NewControl ==
  ASSUME NEW p \in Parameters, NEW value
  PROVE  ControlOK(p, Control(p, NormalizeParameterValue(p, value)), value)
<1> DEFINE v == NormalizeParameterValue(p, value)
<1>1. IsChoice(p) => p.values = <<>> \/ v[2] \in Choices(p) \cup {DefaultChoice(p)}
  BY NormalizedConforms, OneType DEF Conforms
<1> HIDE DEF v
<1> QED
  BY <1>1 DEF ControlOK, Control, v

\* The page, its edits and the frames that apply them.
LEMMA PageKeeps ==
  ASSUME IInv,
         \/ ShowPage
         \/ \E name \in DOMAIN page :
              \E value \in Enterable(meta.params[name], page[name], EditNumbers, EditTexts) :
                Edit(name, value)
         \/ \E name \in Names : ApplyConfigurationChange(name)
  PROVE  IInv'
<1> USE DEF IInv, TypeOK
<1>0. /\ DOMAIN meta.params \subseteq Names
      /\ \A n \in DOMAIN meta.params : meta.params[n] \in Parameters /\ HasValues(meta.params[n])
  BY DeclarationsAreParameters
<1>1. CASE ShowPage
  <2>1. /\ page' = [name \in DOMAIN meta.params |->
                     Control(meta.params[name], NormalizeParameterValue(meta.params[name], config[name]))]
        /\ pending = {}
    BY <1>1, NoDeclarations DEF ShowPage
  <2>2. PageOK'
    BY <1>0, <1>1, <2>1, NewControl DEF PageOK, ShowPage
  <2>3. TypeOK' /\ ModulesOK' /\ GlobalsOK' /\ NoPageUnlessLive'
    BY <1>1, <2>1 DEF ShowPage, ModulesOK, GlobalsOK, NoPageUnlessLive
  <2> QED
    BY <2>2, <2>3
<1>2. ASSUME NEW name \in DOMAIN page,
             NEW value \in Enterable(meta.params[name], page[name], EditNumbers, EditTexts),
             Edit(name, value)
      PROVE  IInv'
  <2> DEFINE p == meta.params[name]
  <2>1. name \in Names /\ p \in Parameters /\ HasValues(p) /\ IsValue(config[name])
    BY <1>0
  <2>2. ControlOK(p, page[name], config[name])
    BY DEF PageOK
  <2> HIDE DEF p
  <2>3. IsNumeric(p) => page[name].shown[2] \in Int
    <3> SUFFICES ASSUME IsNumeric(p) PROVE page[name].shown[2] \in Int
      OBVIOUS
    <3>1. PICK n \in Int : NormalizeParameterValue(p, config[name]) = Number(n)
      BY <2>1, NumberIsInteger DEF HasValues
    <3>2. page[name].shown = Number(InRange(p, n))
      BY <2>2, <3>1 DEF ControlOK, Shown, Number
    <3> QED
      BY <2>1, <3>2, InRangeStays DEF Number
  <2>4. IsValue(value) /\ Shown(p, NormalizeParameterValue(p, value)) = value
    <3>1. value \in Enterable(p, page[name], EditNumbers, EditTexts)
      BY DEF p
    <3>2. IsChoice(p) => \/ p.values = <<>>
                         \/ page[name].items \subseteq Choices(p) \cup {DefaultChoice(p)}
      BY <2>2 DEF ControlOK
    <3> QED
      BY <2>1, <2>3, <3>1, <3>2, ValuesAssumption, EnteredIsShown
  <2>5. /\ page' = [n \in DOMAIN page |->
                      IF n = name THEN [shown |-> value, items |-> page[name].items] ELSE page[n]]
        /\ config' = [n \in Names |-> IF n = name THEN value ELSE config[n]]
        /\ pending' = IF config[name] = value THEN pending ELSE pending \cup {name}
    <3>1. page[name] = [shown |-> page[name].shown, items |-> page[name].items]
      BY <2>2 DEF ControlOK
    <3>2. [page[name] EXCEPT !.shown = value] = [shown |-> value, items |-> page[name].items]
      BY <3>1
    <3>3. page' = [page EXCEPT ![name] = [page[name] EXCEPT !.shown = value]]
      BY <1>2 DEF Edit
    <3>4. page = [n \in DOMAIN page |-> page[n]]
      BY DEF PageOK
    <3> HIDE DEF PageOK
    <3>5. page' = [n \in DOMAIN page |->
                     IF n = name THEN [shown |-> value, items |-> page[name].items] ELSE page[n]]
      BY <3>2, <3>3, <3>4
    <3>6. config' = [n \in Names |-> IF n = name THEN value ELSE config[n]]
      BY <1>2 DEF Edit
    <3> QED
      BY <1>2, <3>5, <3>6 DEF Edit
  <2>6. TypeOK'
    BY <1>2, <2>4, <2>5 DEF Edit
  <2>7. PageOK'
    <3> SUFFICES ASSUME NEW n \in DOMAIN page
                 PROVE  ControlOK(meta.params[n], page'[n], config'[n])
      <4>1. meta' = meta /\ DOMAIN page' = DOMAIN page /\ page' = [n \in DOMAIN page' |-> page'[n]]
        BY <1>2, <2>5 DEF Edit
      <4> QED
        BY <4>1 DEF PageOK
    <3>1. CASE n = name
      BY <2>1, <2>2, <2>4, <2>5, <3>1 DEF ControlOK, p
    <3>2. CASE n # name
      BY <1>0, <2>5, <3>2 DEF PageOK
    <3> QED
      BY <3>1, <3>2
  <2>8. GlobalsOK'
    BY <1>0, <1>2, <2>5 DEF Edit, GlobalsOK
  <2>9. ModulesOK' /\ NoPageUnlessLive'
    BY <1>2 DEF Edit, ModulesOK, NoPageUnlessLive
  <2> QED
    BY <2>6, <2>7, <2>8, <2>9
<1>3. ASSUME NEW name \in Names, ApplyConfigurationChange(name)
      PROVE  IInv'
  <2> DEFINE value == NormalizeParameterValue(meta.params[name], config[name])
  <2>1. runtime' = [loaded |-> runtime.loaded, properties |-> runtime.properties,
                    globals |-> [n \in Names |-> IF n = name THEN value ELSE runtime.globals[n]]]
    BY <1>3 DEF ApplyConfigurationChange
  <2>2. Conforms(meta.params[name], value)
    BY NormalizedConforms
  <2> HIDE DEF value
  <2>3. GlobalsOK'
    BY <1>0, <1>3, <2>1, <2>2 DEF ApplyConfigurationChange, GlobalsOK, value
  <2>4. TypeOK'
    BY <1>3, <2>1 DEF ApplyConfigurationChange
  <2>5. ModulesOK' /\ NoPageUnlessLive' /\ PageOK'
    BY <1>3, <2>1 DEF ApplyConfigurationChange, ModulesOK, NoPageUnlessLive, PageOK
  <2> QED
    BY <2>3, <2>4, <2>5
<1> QED
  BY <1>1, <1>2, <1>3

\* Every step of the module keeps the invariant.
LEMMA NextInvariant == IInv /\ [Next]_vars => IInv'
<1>1. ASSUME IInv, UNCHANGED vars
      PROVE  IInv'
  BY <1>1 DEF IInv, TypeOK, NoPageUnlessLive, ModulesOK, GlobalsOK, PageOK, vars
<1> QED
  BY <1>1, ScanKeeps, CreationKeeps, DeclarationsKeep, PageKeeps DEF Next

\* What holds in every state: once Initialize has returned, the globals are the
\* normalized values of the configuration, but for changes that are pending.
THEOREM Invariant == Spec => []IInv
BY InitInvariant, NextInvariant, PTL DEF Spec

\* Parameters, controls and changes are those of the script's declarations.
THEOREM Types == Spec => []TypeOK
BY Invariant, PTL DEF IInv

\* The script of a device reads values of the kinds it has declared.
THEOREM SeesDeclaredKind == Spec => []ScriptSeesDeclaredKind
<1>1. IInv => ScriptSeesDeclaredKind
  BY DEF IInv, GlobalsOK, ScriptSeesDeclaredKind
<1> QED
  BY <1>1, Invariant, PTL

\* The page shows what the script has, but for pending changes.
THEOREM PageIsTrue == Spec => []PageShowsWhatScriptHas
<1>1. IInv => PageShowsWhatScriptHas
  BY DEF IInv, TypeOK, GlobalsOK, PageOK, ControlOK, PageShowsWhatScriptHas
<1> QED
  BY <1>1, Invariant, PTL

\* The device runs the modules that the scan has run.
THEOREM RunsScannedModules == Spec => []DeviceRunsScannedModules
<1>1. IInv => DeviceRunsScannedModules
  BY DEF IInv, ModulesOK, DeviceRunsScannedModules
<1> QED
  BY <1>1, Invariant, PTL

=============================================================================
