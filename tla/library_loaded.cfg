SPECIFICATION Spec
CONSTANTS
  Sockets = {s1, s2}
  MaxCreates = 4
INVARIANT LoadedWhileUsed
CHECK_DEADLOCK FALSE
