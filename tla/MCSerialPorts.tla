----------------------------- MODULE MCSerialPorts -----------------------------
(* Instances of SerialPorts for TLC.                                       *)
EXTENDS SerialPorts, TLC

\* Two ports of one product and a third without any; the first script lists the
\* product twice.
TwoPorts == [p \in Ports |-> IF p = "com9" THEN NoId ELSE "id"]
TwoScripts == << <<"id", "id">>, <<"id">> >>

=============================================================================
