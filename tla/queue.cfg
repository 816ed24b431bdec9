SPECIFICATION Spec
CONSTANTS
  Messages = {m1, m2, m3}
  MHead = MHead
  Null = Null
  InitialSizes <- Uninitialised
  MaxPushes = 5
SYMMETRY Symmetry
INVARIANTS
  TypeOK
  OnlyMessagesReturned
  FrontIsFirstPushed
