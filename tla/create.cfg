SPECIFICATION Spec
SYMMETRY Symmetry
CONSTANTS
  Conns = {c1, c2}
  World = World
  MaxFd = 2
  Requests <- AllRequests
  AddrCounts <- NoneOrTwo
INVARIANTS
  TypeOK
  FailureClosesAll
  SuccessOwnsHandle
PROPERTIES
  ForeignFdsKept
  CreateIsAtomic
