SPECIFICATION Spec
CONSTANTS
  Messages = {m1, m2, m3}
  MHead = MHead
  Null = Null
  InitialSizes <- Initialised
  MaxPushes = 5
SYMMETRY Symmetry
INVARIANT FifoOrder
