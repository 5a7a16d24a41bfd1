------------------------- MODULE MCFrameBufferLive -------------------------
(***************************************************************************)
(* Two lists in one run: a JPEG list, as the constants say, and an H264     *)
(* list, which fb_malloc does not evict from.                               *)
(***************************************************************************)
EXTENDS MCFrameBuffer

VARIABLE encoded    \* which list this behaviour is of

H264 == INSTANCE FrameBuffer WITH Evicts <- FALSE

EitherNext == /\ \/ ~encoded /\ Next
                 \/ encoded /\ H264!Next
              /\ UNCHANGED encoded
EitherMalloc == \/ ~encoded /\ Malloc
                \/ encoded /\ H264!Malloc
EitherInit == encoded \in BOOLEAN /\ Init
EitherSpec ==
    /\ EitherInit /\ [][EitherNext]_<<vars, encoded>>
    /\ TaskFairness /\ WF_vars(EitherMalloc)

\* With eviction every registered module is served again and again; without,
\* a starved module lacks a free frame to be pushed.
JpegKeepsReading == ~encoded => KeepsReading
H264StarvedByExhaustion == encoded => StarvedByExhaustion
=============================================================================
