------------------------ MODULE MCNotificationSync ------------------------
(* Instances of NotificationSync for TLC.                                   *)
EXTENDS NotificationSync, TLC

CONSTANTS d1, d2

TwoDevices == {d1, d2}

=============================================================================
