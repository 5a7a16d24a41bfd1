SPECIFICATION Spec
CONSTANTS
  N = 2
  RbSize = 1
  CmdMax = 5
  OpenRet = {"ok"}
  EndRet = {}
  Patient = FALSE
  Calls <- Restarts
  NoMemory = FALSE
CHECK_DEADLOCK FALSE
PROPERTIES WaitMeansStopped
