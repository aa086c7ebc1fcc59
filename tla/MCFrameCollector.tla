-------------------------- MODULE MCFrameCollector --------------------------
(* Instances of FrameCollector for TLC.                                     *)
EXTENDS FrameCollector, TLC

CONSTANTS a, b, d1, d2

TwoDecoders == {d1, d2}

\* Two Locks of two frames: one ends within a chunk, one at its end.
TwoLocks == {a, b}

Sizes == (a :> 3) @@ (b :> 4)

=============================================================================
