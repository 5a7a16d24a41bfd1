SPECIFICATION FairSpec
CONSTANTS
  N = 3
  RbSize = 1
  CmdMax = 5
  OpenRet = {"ok"}
  EndRet = {"done", "fail"}
  NoMemory = FALSE
  Patient = TRUE
  Calls <- Restarts
CHECK_DEADLOCK FALSE
PROPERTIES StopReaches CallsReturn DataEnds
