------------------------------ MODULE ByteFifo ------------------------------
(***************************************************************************)
(* What a ring buffer promises (ringbuf.h): a queue of bytes of bounded    *)
(* length.  A write appends a chunk that fits, a read takes a prefix, a    *)
(* reset empties the queue.  How chunks are sized, and who waits, is the   *)
(* implementation's business.                                              *)
(***************************************************************************)
EXTENDS Naturals, Sequences

CONSTANTS Byte, Capacity

VARIABLES queue,   \* the bytes written and not yet read
          out      \* the chunk that the running read was last given

Init == queue = <<>> /\ out = <<>>

Put == /\ \E n \in 1..(Capacity - Len(queue)) : \E d \in [1..n -> Byte] :
            queue' = queue \o d
       /\ UNCHANGED out

Get == \E n \in 1..Len(queue) :
          /\ out' = SubSeq(queue, 1, n)
          /\ queue' = SubSeq(queue, n + 1, Len(queue))

Take == out' = <<>> /\ UNCHANGED queue      \* the caller has its bytes

Clear == queue' = <<>> /\ UNCHANGED out

Spec == Init /\ [][Put \/ Get \/ Take \/ Clear]_<<queue, out>>
=============================================================================
