-------------------------- MODULE MCAudioPipeline --------------------------
(* Small instances of AudioPipeline.                                       *)
EXTENDS AudioPipeline

EveryCall == {"run", "resume", "pause", "stop", "terminate", "deinit", "reset"}
Restarts  == {"run", "stop", "reset", "deinit"}
=============================================================================
