SPECIFICATION Spec
SYMMETRY Symmetry
CONSTANTS
  Conns = {c1, c2}
  World = World
  MaxFd = 2
  Requests <- CallerRequests
  AddrCounts <- NoneOrOne
INVARIANT ResolveErrorFails
