----------------------------- MODULE MCRingBuf -----------------------------
(* Small instances of RingBuf.                                             *)
EXTENDS RingBuf, TLC

CONSTANTS b0, b1
OneByte == {b0}
TwoBytes == {b0, b1}
SameBytes == Permutations(TwoBytes)
=============================================================================
