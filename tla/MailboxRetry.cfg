SPECIFICATION FairSpec
CONSTANTS
  ask = ask
  back = back
  decode = decode
  note = note
  NoMsg = NoMsg
  Request <- Ask
  Notice <- Note
  From <- Caller
  To <- Callee
  QueueLen = 4
  NoticeMax = 2
  Lossy <- AppMajor
  FaultMax = 3
  Late = FALSE
INVARIANTS TypeOK NoticeKept
PROPERTIES CallSpec CallsReturn NoticesSeen
