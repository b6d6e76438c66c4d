\* What must come to an end, with smaller bounds.
CONSTANTS
    Threads = {t1, t2}
    NoThread = NoThread
    Coords = {0}
    m_size = 2
    Parts = {"XYFifo", "OutputQueue", "RefClock", "SourceStream", "PullPin"}
    Given = 2
    Flushes = 1
    Corrections = {3}
    LastTime = 3
SPECIFICATION StreamingSpec
PROPERTY CallsComeBack
\* A component may come to rest at its bounds.
CHECK_DEADLOCK FALSE
