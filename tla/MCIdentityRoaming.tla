------------------------- MODULE MCIdentityRoaming -------------------------
(* Small instances of IdentityRoaming.                                     *)
EXTENDS IdentityRoaming, TLC

CONSTANTS d1, d2, a, b

TwoDevices == {d1, d2}
TwoNames   == {a, b}

RoamingSymmetry == Permutations(TwoDevices) \cup Permutations(TwoNames)
=============================================================================
