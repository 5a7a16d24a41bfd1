------------------------- MODULE MCFrameBufferSafe -------------------------
(***************************************************************************)
(* Two lists in one run: one that the constants describe, used while it is  *)
(* closed and by modules that deregister, and one that is cleared and whose *)
(* frames psram may refuse.                                                 *)
(***************************************************************************)
EXTENDS MCFrameBuffer

VARIABLE cleared    \* which list this behaviour is of

Cleared == INSTANCE FrameBuffer WITH
    Clears <- TRUE, PsramFails <- TRUE,
    Deregisters <- FALSE, UseDisabled <- FALSE

EitherInit == cleared \in BOOLEAN /\ Init
EitherNext == /\ \/ ~cleared /\ Next
                 \/ cleared /\ Cleared!Next
              /\ UNCHANGED cleared
EitherSpec == EitherInit /\ [][EitherNext]_<<vars, cleared>>

\* Of a list that is not used while it is closed: nothing but a module at
\* work keeps a frame from being reused, and fb_malloc gives up only when
\* each ready frame is being read.
ClearedNothingStranded == cleared => NothingStranded
ClearedNullMeansBusy == [][cleared /\ Cleared!MallocNull => AllBusy]_vars
=============================================================================
