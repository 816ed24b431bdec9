SPECIFICATION FairSpec
CONSTANTS
  Messages = {m1, m2, m3}
  Null = Null
  Blank = Blank
  SizeLen = 2
  BodySizes <- Bodies
  MaxBody = 3
  ExtraLen = 2
  MaxFrames = 2
  MaxIntr = 1
INVARIANTS
  TypeOK
  FirstDeliveredWhole
  NoUnitLost
  DeliveredOnce
  HealthyUntilDelivered
PROPERTY ReadLoopEndsOrWaits
