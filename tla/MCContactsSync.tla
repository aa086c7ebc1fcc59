--------------------------- MODULE MCContactsSync ---------------------------
(* Instances of ContactsSync for TLC: the devices are interchangeable.      *)
EXTENDS ContactsSync, TLC

CONSTANTS d1, d2

TwoDevices == {d1, d2}

DeviceSymmetry == Permutations(TwoDevices)

=============================================================================
