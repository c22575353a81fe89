--------------------------- MODULE ControlParameters ---------------------------
(***************************************************************************)
(* The parameters of scripts: a value of the configuration is any JSON     *)
(* value, edited on the page of the device or left over from a script that *)
(* declared something else, and is normalized by the declaration before    *)
(* the script or the page sees it.                                         *)
(*                                                                         *)
(* A value is a tuple of its kind and what it holds.  Numbers are counted  *)
(* in tenths: a parameter is shown with one decimal place or none.         *)
(***************************************************************************)
EXTENDS Integers, Sequences

CONSTANTS
  TextNumber(_),   \* QString::toDouble: no integer if the text is no number
  NumberText(_)    \* QString::number

Undefined == <<"undefined">>
Object == <<"object">>
Bool(b) == <<"bool", b>>
Number(n) == <<"number", n>>
Text(t) == <<"text", t>>

Kind(v) == v[1]

IsValue(v) ==
  /\ Kind(v) \in {"undefined", "object", "bool", "number", "text"}
  /\ Kind(v) = "undefined" => v = Undefined
  /\ Kind(v) = "number" => v[2] \in Int

JsonBool(v, fallback) ==
  CASE Kind(v) = "bool" -> v[2]
    [] Kind(v) = "text" /\ v[2] \in {"true", "1", "yes", "on"} -> TRUE
    [] Kind(v) = "text" /\ v[2] \in {"false", "0", "no", "off"} -> FALSE
    [] OTHER -> fallback

JsonNumber(v, fallback) ==
  CASE Kind(v) = "number" -> v[2]
    [] Kind(v) = "text" /\ TextNumber(v[2]) \in Int -> TextNumber(v[2])
    [] OTHER -> fallback

JsonText(v, fallback) ==
  CASE Kind(v) = "text" -> v[2]
    [] Kind(v) = "bool" -> IF v[2] THEN "true" ELSE "false"
    [] Kind(v) = "number" -> NumberText(v[2])
    [] OTHER -> fallback

-----------------------------------------------------------------------------
(* A parameter: property, type, default, values, min, max, step; a field   *)
(* the script leaves out is Undefined.                                     *)

IsBoolean(p) == p.type \in {"boolean", "checkbox"}
IsNumeric(p) == p.type = "number"
IsChoice(p) == p.type \in {"combobox", "select"}

Choices(p) == {JsonText(p.values[i], "") : i \in DOMAIN p.values}

DefaultChoice(p) ==
  IF Kind(p.default) = "text" THEN p.default[2]
  ELSE IF p.values = <<>> THEN "" ELSE JsonText(p.values[1], "")

ParameterDefaultValue(p) ==
  CASE IsBoolean(p) -> Bool(JsonBool(p.default, FALSE))
    [] IsNumeric(p) -> Number(JsonNumber(p.default, 0))
    [] IsChoice(p) -> Text(DefaultChoice(p))
    [] OTHER -> Text(JsonText(p.default, ""))

\* A choice that is not on the list is replaced by the default, which need not be
\* on the list either.
NormalizeParameterValue(p, v) ==
  LET fallback == ParameterDefaultValue(p)
      text == JsonText(v, fallback[2])
  IN CASE v = Undefined -> fallback
       [] v # Undefined /\ IsBoolean(p) -> Bool(JsonBool(v, fallback[2]))
       [] v # Undefined /\ IsNumeric(p) -> Number(JsonNumber(v, fallback[2]))
       [] v # Undefined /\ IsChoice(p) ->
            IF p.values = <<>> \/ text \in Choices(p) THEN Text(text) ELSE fallback
       [] OTHER -> Text(text)

\* MergeControlParameters: the declarations of a later list replace those of an
\* earlier one.  A declaration without a name is dropped when it is extracted.
MergeControlParameters(target, declared) ==
  [name \in DOMAIN target \cup DOMAIN declared |->
     IF name \in DOMAIN declared THEN declared[name] ELSE target[name]]

-----------------------------------------------------------------------------
(* The control of a parameter on the page of the device.                   *)

ParameterNumberBound(bound, fallback) ==
  IF bound = Undefined THEN fallback ELSE JsonNumber(bound, fallback)

ParameterNumberStep(p) ==
  LET step == ParameterNumberBound(p.step, 10) IN IF step > 0 THEN step ELSE 10

\* ParameterNumberDecimals: a whole number is shown without decimals if all the
\* numbers of the declaration are whole.
Grid(p) ==
  IF \A n \in {ParameterNumberStep(p)} \cup
              {JsonNumber(v, 0) : v \in {p.min, p.max, p.default} \ {Undefined}} : n % 10 = 0
  THEN 10 ELSE 1

Lowest(p) == ParameterNumberBound(p.min, -10000000)
Highest(p) ==
  LET high == ParameterNumberBound(p.max, 10000000)
  IN IF high < Lowest(p) THEN Lowest(p) ELSE high

\* QDoubleSpinBox: a number is rounded and kept within the bounds.
InRange(p, n) ==
  LET rounded == ((n + Grid(p) \div 2) \div Grid(p)) * Grid(p)
  IN CASE rounded < Lowest(p) -> Lowest(p)
       [] rounded > Highest(p) -> Highest(p)
       [] OTHER -> rounded

\* What the control of a parameter shows for a normalized value, and the choices it
\* offers: the value is added if it is not on the list.
Shown(p, v) == IF IsNumeric(p) THEN Number(InRange(p, v[2])) ELSE v

Control(p, v) ==
  [shown |-> Shown(p, v),
   items |-> IF IsChoice(p) THEN Choices(p) \cup {v[2]} ELSE {}]

\* What a user may enter: a number in the range or a text, the one shown as well; the
\* other state of a box; another choice.
Enterable(p, control, numbers, texts) ==
  CASE IsBoolean(p) -> {Bool(~control.shown[2])}
    [] IsNumeric(p) -> {Number(InRange(p, n)) : n \in numbers \cup {control.shown[2]}}
    [] IsChoice(p) -> {Text(t) : t \in control.items \ {control.shown[2]}}
    [] OTHER -> {Text(t) : t \in texts \cup {control.shown[2]}}

=============================================================================
