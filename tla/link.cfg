SPECIFICATION FairSpec
CONSTANTS
  Messages = {m1, m2}
  MHead = MHead
  Null = Null
  Buffers = {b1, b2}
  Blank = Blank
  SizeLen = 2
  BodyLen = 3
  SendLen = 3
  MaxIntr = 1
INVARIANTS
  WireIsStream
  TailNeverRead
PROPERTIES
  SenderIsPeer
  ImplementsChannel
  BegunIsDelivered
