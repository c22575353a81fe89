-------------------------- MODULE MCControllerUpdates --------------------------
(* Instances of ControllerUpdates for TLC.                                 *)
EXTENDS ControllerUpdates, TLC

\* A topology with one LED, two with two.
CountLeds == [l \in Layouts |-> IF l = "short" THEN 1 ELSE 2]

\* Checked by RemovalStuck.cfg only, and violated: whatever the host throws, the
\* removal of a controller comes to its end.
RemovalAlwaysEnds == owner \in {"taken", "detach"} ~> owner = "gone"

=============================================================================
