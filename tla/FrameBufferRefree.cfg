SPECIFICATION Spec
CONSTANTS
  n1 = n1
  n2 = n2
  NoFrame = NoFrame
  Node <- TwoNodes
  Modules = 2
  Count = 2
  HoldMax = 1
  Evicts = TRUE
  PsramFails = FALSE
  UseDisabled = FALSE
  Clears = TRUE
  Deregisters = TRUE
PROPERTIES NoRefree
SYMMETRY SameNodes
