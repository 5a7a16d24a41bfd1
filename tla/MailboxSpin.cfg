SPECIFICATION FairSpec
CONSTANTS
  ask = ask
  back = back
  decode = decode
  note = note
  NoMsg = NoMsg
  Request <- Decode
  Notice <- None
  From <- Caller
  To <- Callee
  QueueLen = 6
  NoticeMax = 1
  Lossy <- MajorMinor
  FaultMax = 3
  Late = FALSE
CHECK_DEADLOCK FALSE
PROPERTIES GivenUpReturns
