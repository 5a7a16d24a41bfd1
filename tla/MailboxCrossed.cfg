SPECIFICATION FairSpec
CONSTANTS
  ask = ask
  back = back
  decode = decode
  note = note
  NoMsg = NoMsg
  Request <- Crossed
  Notice <- None
  From <- Caller
  To <- Callee
  QueueLen = 3
  NoticeMax = 1
  Lossy <- MajorApp
  FaultMax = 3
  Late = FALSE
CHECK_DEADLOCK FALSE
INVARIANTS NoDanglingMessage QueueRoom
PROPERTIES CallSpec CrossedCallsReturn
