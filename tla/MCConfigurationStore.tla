------------------------- MODULE MCConfigurationStore -------------------------
(* Instances of ConfigurationStore for TLC.                                *)
EXTENDS ConfigurationStore, TLC

\* Three devices, two of which are twins with one key.
TwinKeys == [d \in Devices |-> IF d = "mouse" THEN "mouse key" ELSE "twin key"]

=============================================================================
