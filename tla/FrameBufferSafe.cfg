SPECIFICATION EitherSpec
CONSTANTS
  n1 = n1
  n2 = n2
  NoFrame = NoFrame
  Node <- TwoNodes
  Modules = 2
  Count = 2
  HoldMax = 1
  Evicts = TRUE
  PsramFails = FALSE
  UseDisabled = TRUE
  Clears = FALSE
  Deregisters = TRUE
INVARIANTS TypeOK OnePlace HeldMarked ReadInOrder SleeperIsArmed ClearedNothingStranded
PROPERTIES OwnerSpec ClearedNullMeansBusy
SYMMETRY SameNodes
