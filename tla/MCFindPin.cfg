\* A renderer whose pins cannot be examined.
CONSTANTS
  MaxGraphs = 1
  ComInits = 2
  Windows = {w1}
  Careful = FALSE
  MayFail = {"FindConnectedPin"}
SPECIFICATION Spec
PROPERTY OnlyUnconnectedRemoved
CHECK_DEADLOCK FALSE
