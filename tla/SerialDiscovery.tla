---------------------------- MODULE SerialDiscovery ----------------------------
(***************************************************************************)
(* What the plugin core promises of its discoveries: they run one after    *)
(* the other, and each replaces the controllers of the one before as a     *)
(* whole.  DiscoveryLifecycle, with its threads, callbacks and nested      *)
(* event delivery, is to implement it.                                     *)
(***************************************************************************)
EXTENDS Naturals

CONSTANT Devices

VARIABLES
  active,   \* the running discovery, 0 when there is none
  owned     \* the registered controllers

Begin ==
  /\ active = 0
  /\ active' \in Nat \ {0}
  /\ UNCHANGED owned

Clear ==
  /\ owned' = {}
  /\ UNCHANGED active

\* Only the running discovery registers controllers, and only its own.
Add(d) ==
  /\ active # 0
  /\ \A c \in owned : c.gen = active
  /\ owned' = owned \union {[gen |-> active, dev |-> d]}
  /\ UNCHANGED active

End ==
  /\ active # 0
  /\ active' = 0
  /\ UNCHANGED owned

Init == active = 0 /\ owned = {}
Next == Begin \/ Clear \/ (\E d \in Devices : Add(d)) \/ End
Spec == Init /\ [][Next]_<<active, owned>>

=============================================================================
