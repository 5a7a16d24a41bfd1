SPECIFICATION Spec
CONSTANTS
  b0 = b0
  b1 = b1
  Byte <- OneByte
  Size = 6
  Word = 4
  UMod = 16
  Lens = {5}
  ResetWhileReading = TRUE
INVARIANTS FillWithinSize
