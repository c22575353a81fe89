------------------------- MODULE MCDiscoveryLifecycle -------------------------
(* Instances of DiscoveryLifecycle for TLC.                                *)
EXTENDS DiscoveryLifecycle, TLC

\* The devices are interchangeable (safety runs only).
Symmetry == Permutations(Devices)

=============================================================================
