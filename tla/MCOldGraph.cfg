\* An orderly caller that opens a second source without closing the first.
CONSTANTS
  MaxGraphs = 2
  ComInits = 2
  Windows = {w1}
  Careful = FALSE
  MayFail = {}
SPECIFICATION Spec
INVARIANT OldGraphIsClosed
CHECK_DEADLOCK FALSE
