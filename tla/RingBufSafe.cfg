SPECIFICATION Spec
CONSTANTS
  b0 = b0
  b1 = b1
  Byte <- TwoBytes
  Size = 3
  Word = 2
  UMod = 16
  Lens = {1, 4}
  ResetWhileReading = FALSE
INVARIANTS TypeOK PointersAgree ReaderWakes WriterWakes NotBothAsleep
PROPERTIES DoneLosesNoWord FifoSpec
SYMMETRY SameBytes
