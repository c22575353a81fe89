---------------------------- MODULE MCScriptRuntime ----------------------------
(* Instances of ScriptRuntime for TLC.                                     *)
EXTENDS ScriptRuntime, TLC

CONSTANT NotANumber   \* a model value

\* Texts that are numbers.
NumberOfText == [t \in {"1", "0", "7"} |-> CASE t = "1" -> 10 [] t = "0" -> 0 [] t = "7" -> 70]
TextAsNumber(t) == IF t \in DOMAIN NumberOfText THEN NumberOfText[t] ELSE NotANumber
NumberAsText(n) == CASE n = 10 -> "1" [] n = 0 -> "0" [] n = 70 -> "7" [] OTHER -> "other"

Declared(type, default, values, min, max) ==
  [property |-> "speed", type |-> type, default |-> default, values |-> values,
   min |-> min, max |-> max, step |-> Undefined]

\* One property as every type: bounds that cut, choices of several kinds, and a
\* default that is not on the list.
ManyTypes ==
  {Declared("boolean", Text("on"), <<>>, Undefined, Undefined),
   Declared("number", Number(20), <<>>, Number(10), Number(60)),
   Declared("number", Text("none"), <<>>, Undefined, Number(5)),
   Declared("combobox", Text("blue"), <<Text("red"), Number(70)>>, Undefined, Undefined),
   Declared("select", Undefined, <<Bool(TRUE), Text("1")>>, Undefined, Undefined),
   Declared("color", Number(0), <<>>, Undefined, Undefined)}
ManyValues ==
  {Bool(TRUE), Bool(FALSE), Number(10), Number(70), Number(24), Text("on"), Text("7"), Text("red"),
   Text("true"), Object}

\* A script with a module that imports a third, in a circle; two modules that differ
\* in case; and one that asks for a file that is not there.
File(order, key, text) == [order |-> order, key |-> key, text |-> text]
Files == {File(1, "lib.js", "lib"), File(2, "lib.js", "twin"), File(3, "main.js", "main"),
          File(4, "main.js", "other"), File(5, "util.js", "util")}
ImportsOf(text) ==
  CASE text = "main" -> {[kind |-> "relative", key |-> "lib.js"], [kind |-> "builtin", key |-> "util.js"]}
    [] text = "lib" -> {[kind |-> "bare", key |-> "util.js"], [kind |-> "relative", key |-> "main.js"]}
    [] text = "other" -> {[kind |-> "relative", key |-> "gone.js"]}
    [] OTHER -> {}
Directories == {Files}

=============================================================================
