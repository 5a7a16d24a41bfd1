SPECIFICATION EitherSpec
CONSTANTS
  N = 2
  RbSize = 1
  CmdMax = 3
  OpenRet = {"ok", "abort", "fail"}
  EndRet = {"done"}
  NoMemory = TRUE
  Patient = TRUE
  Calls <- EveryCall
CHECK_DEADLOCK FALSE
INVARIANTS TypeOK NoStaleStop StoppedForGood RingsQuiet FreedPastLoop
PROPERTIES LifeSpec WaitMeansStopped
