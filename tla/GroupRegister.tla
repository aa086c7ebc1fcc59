--------------------------- MODULE GroupRegister ---------------------------
(***************************************************************************)
(* What the account's groups blob promises, whatever the devices do: it is *)
(* a register that is only ever merged into.  Nothing is overwritten, and  *)
(* a deleted group does not come back.                                     *)
(***************************************************************************)
EXTENDS GroupMerge

VARIABLE reg    \* the view the account holds

Init == reg = EmptyView

Merge(v) == reg' = MergeGroups(v, reg)

Next == \E v \in View : Clean(v) /\ Merge(v)

Spec == Init /\ [][Next]_reg

=============================================================================
