SPECIFICATION Spec
CONSTANTS
  Ids <- Numbers
  Eps = {e1, e2}
  NoEp = NoEp
  Word <- Bytes
  Size = 2
  Below <- LessThan
  Nodes = {n1, n2, n3, n4}
  Null = Null
  Wild = Wild
SYMMETRY Symmetry
INVARIANTS
  TypeOK
  LinkedOnce
  ChainOfItsHash
  LookupsEnd
  ChainSorted
  OnlyWildFaults
  DestroyFreesAll
PROPERTY ImplementsMap
CHECK_DEADLOCK FALSE
