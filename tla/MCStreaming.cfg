\* Threads, queues and clocks. The ring has two slots for three and more points,
\* the queue is flushed twice, and the counter of the clock wraps at 4.
CONSTANTS
    Threads = {t1, t2}
    NoThread = NoThread
    Coords = {0, 1}
    m_size = 2
    Parts = {"XYFifo", "OutputQueue", "ExactQueue", "RefClock", "SourceStream", "PullPin", "CmdQueue"}
    Given = 3
    Flushes = 2
    Corrections = {1, 3}
    LastTime = 4
SPECIFICATION StreamingSpec
PROPERTY IsBoundedFifo
PROPERTY OutputInOrder
PROPERTY ClockKeepsItsWord
PROPERTY WorkersObey
PROPERTY CommandsInTime
\* A component may come to rest at its bounds.
CHECK_DEADLOCK FALSE
