SPECIFICATION FairSpec
CONSTANTS
  b0 = b0
  b1 = b1
  Byte <- OneByte
  Size = 2
  Word = 2
  UMod = 16
  Lens = {3}
  ResetWhileReading = FALSE
PROPERTIES AbortEnds DoneEnds UnblockEnds Exchange
