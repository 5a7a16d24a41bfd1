------------------------ MODULE MCAudioPipelineLife ------------------------
(***************************************************************************)
(* Small instances of AudioPipeline for its safety.  What can happen to a   *)
(* pipeline is split over three kinds of behaviour, chosen at the start:    *)
(* the application pauses and resumes at any time; the data ends, or an     *)
(* element does not open, in a pipeline paused at most once after each run; *)
(* there may be no memory as well, in a pipeline that is not paused.        *)
(***************************************************************************)
EXTENDS MCAudioPipeline

VARIABLE trouble   \* what this behaviour may meet

Pausing == INSTANCE AudioPipeline WITH
    OpenRet <- {"ok"}, EndRet <- {}, NoMemory <- FALSE, Calls <- Calls \ {"reset"}
Ending  == INSTANCE AudioPipeline WITH NoMemory <- FALSE
Failing == INSTANCE AudioPipeline WITH Calls <- Calls \ {"pause", "resume"}

Called(c) == apc = "idle" /\ apc' # "idle" /\ call' = c
PausedOnce == /\ Called("pause") => call = "start"
              /\ Called("resume") => call = "pause"

EitherInit == Init /\ trouble \in {"pauses", "ends", "memory"}
EitherNext ==
    /\ \/ trouble = "pauses" /\ Pausing!Next
       \/ trouble = "ends" /\ Ending!Next /\ PausedOnce
       \/ trouble = "memory" /\ Failing!Next
    /\ UNCHANGED trouble
EitherSpec == EitherInit /\ [][EitherNext]_<<vars, trouble>>
=============================================================================
