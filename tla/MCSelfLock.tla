---------------------------- MODULE MCSelfLock ----------------------------
(* Instances of SelfLock for TLC.                                           *)
EXTENDS SelfLock, TLC

CONSTANTS d1, d2

TwoDevices == {d1, d2}

\* Automatic runs of everything, and a manual one of the settings, which also
\* looks for orphans among the rest.
AutoAndManual == {[sel |-> Resource, background |-> TRUE],
                  [sel |-> {"settings"}, background |-> FALSE]}

DeviceSymmetry == Permutations(TwoDevices)

=============================================================================
