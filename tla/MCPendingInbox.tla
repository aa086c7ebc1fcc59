--------------------------- MODULE MCPendingInbox ---------------------------
(* Instances of PendingInbox for TLC. *)
EXTENDS PendingInbox, TLC

=============================================================================
