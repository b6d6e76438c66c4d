\* A caller that keeps to the protocol, with two windows, and the failures the
\* code survives; the graph manager changes state when it is told to.
CONSTANTS
  MaxGraphs = 3
  ComInits = 4
  Windows = {w1, w2}
  Careful = TRUE
  MayFail = {"SetNotifyWindow", "AddSourceFilter", "AddFilter", "Load",
             "SetFileName", "EnumPins", "QueryPinInfo", "Connect", "RenderEx",
             "RemoveFilter", "GetCapabilities", "MixerBitmap"}
SPECIFICATION Spec
INVARIANTS NoFault WindowsAgree StateFollowsGraph
PROPERTY MediaPlayerSpec
CHECK_DEADLOCK TRUE
