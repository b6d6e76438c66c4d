\* A VMR-9 that cannot be initialised, in a graph that is then built.
CONSTANTS
  MaxGraphs = 1
  ComInits = 2
  Windows = {w1}
  Careful = FALSE
  MayFail = {"AddFilter", "Windowless", "MixerBitmap"}
SPECIFICATION Spec
INVARIANT WindowlessBeforeConnected
CHECK_DEADLOCK FALSE
