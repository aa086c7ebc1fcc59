--------------------------- MODULE MCGroupsSync ----------------------------
(* Instances of GroupsSync for TLC.                                         *)
EXTENDS GroupsSync, TLC

CONSTANTS d1, d2, g1, g2

TwoDevices == {d1, d2}

TwoIds == {g1, g2}

=============================================================================
