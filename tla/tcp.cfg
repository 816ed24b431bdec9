SPECIFICATION FairSpec
CONSTANTS
  Conns = {server, c1, c2}
  Server = server
  World = World
  MaxFd = 2
  Addresses = {a1, a2, a3, a4}
  NullAddresses = {a2}
  TakenAddresses = {a4}
  Unresolved = {a3}
  ArrayCap = 2
  RequestCap = 2
  DisconnectCap = 1
  FailedCap = 2
  SetSize = 3
  MaxBacklog = 1
  MaxOpens = 1
INVARIANTS
  TypeOK
  PoolConserved
  SecureOwnSocket
  SecureIsWatched
  ArraysHold
PROPERTIES
  OthersUntouched
  ProcessReturns
CHECK_DEADLOCK FALSE
