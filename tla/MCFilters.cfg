\* Renderers, transforms, stream control, seeking and lists: the bounds of each
\* are in MCFilters; the lists share three nodes.
CONSTANTS
    Lists = {foo, bar}
    Objects = {x, y}
    Memory = 3
    CacheSize = 1
    E_NOTIMPL = NotImplemented
    Parts = {"BaseList", "BaseRenderer", "RefusingRenderer", "BaseWindow", "PlainWindow", "Transform", "TransInPlace", "RefusedInPlace", "StreamControl", "Seeking"}
SPECIFICATION FiltersSpec
INVARIANT RendererIsInOrder
INVARIANT TransformsInOrder
INVARIANT PositionsAndLists
PROPERTY RequestsAreSeen
PROPERTY CallsComeBack
\* A component may come to rest at its bounds.
CHECK_DEADLOCK FALSE
