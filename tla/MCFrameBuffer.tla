--------------------------- MODULE MCFrameBuffer ---------------------------
(* Small instances of FrameBuffer.                                         *)
EXTENDS FrameBuffer, TLC

CONSTANTS n1, n2
TwoNodes == {n1, n2}
SameNodes == Permutations({n1, n2})
=============================================================================
