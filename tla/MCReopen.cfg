\* A player opened again and again, over two graphs: the failures that leave
\* pointers of two sessions mixed.
CONSTANTS
  MaxGraphs = 2
  ComInits = 2
  Windows = {w1}
  Careful = FALSE
  MayFail = {"CoCreateInstance", "QueryInterface", "AddFilter", "Windowless",
             "MixerBitmap", "GetCapabilities"}
SPECIFICATION Spec
INVARIANTS
  StateImpliesGraph
  PointersHoldReferences
  RendererOfThisGraph
  MixerOfThisRenderer
  FaultsHaveCauses
PROPERTY ImplementsMediaPlayer
\* The process may die on a NULL pointer.
CHECK_DEADLOCK FALSE
