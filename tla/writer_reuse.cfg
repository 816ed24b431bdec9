SPECIFICATION Spec
CONSTANTS
  Messages = {m1, m2}
  MHead = MHead
  Null = Null
  PayloadLen = 3
  BufferLen = 2
  MaxIntr = 1
  MaxInits = 2
INVARIANT WrittenOnEveryConnection
CHECK_DEADLOCK FALSE
