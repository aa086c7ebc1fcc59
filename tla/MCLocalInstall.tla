--------------------------- MODULE MCLocalInstall ---------------------------
(* Instances of LocalInstall for TLC. *)
EXTENDS LocalInstall, TLC

=============================================================================
