\* Sessions with one graph, in which every external call may fail except the
\* examination of a pin.
CONSTANTS
  MaxGraphs = 1
  ComInits = 2
  Windows = {w1}
  Careful = FALSE
  MayFail = {"CoCreateInstance", "QueryInterface", "SetNotifyWindow",
             "AddSourceFilter", "AddFilter", "Load", "SetFileName", "EnumPins",
             "GetPin", "QueryPinInfo", "Connect", "RenderEx", "RemoveFilter",
             "GetCapabilities", "Windowless", "MixerBitmap", "SetVideoWindow",
             "Control", "Abort"}
SPECIFICATION Spec
INVARIANTS TypeOK PlayableIsRendered
PROPERTIES OnlyUnconnectedRemoved CallsReturn
\* The process may die on a NULL pointer.
CHECK_DEADLOCK FALSE
