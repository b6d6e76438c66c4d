\* Two threads with two crosses of a program that keeps to the protocol, two rings,
\* one DSCS object and two, and the sample application.
CONSTANTS
    c1 = c1
    c2 = c2
    Ids <- TwoIds
    m_id <- TwoCrosses
    Crosses = {c1, c2}
    Threads = {t1, t2}
    Origin = p0
    Places = {p0, p1}
    GdiMayFail = {"SetAlphaBitmap"}
    MaxFailures = 1
    Careful = TRUE
    RingIds = {0, 1, 2, 3, 4}
    MaxIndex = 5
    RingObjects = {1, 2}
    RingSizes = {1, 2}
    AnObject = 1
    ThreadsOfOne = {"t1", "t2", "t3"}
    DscsObjects = {1, 2}
    ThreadsOfAll = {"t1", "t2"}
    MaxPlayers = 2
    Ticks = 2
    MaxForms = 2
    Parts = {"Cross", "CrossMx", "OneObject", "TwoObjects", "SampleApp"}
SPECIFICATION ManagedSpec
INVARIANT CrossIsWhole
INVARIANT HandlesComeBack
INVARIANT ManagedIsInOrder
PROPERTY StepsHaveCauses
\* The sample and the wrapper may come to their ends.
CHECK_DEADLOCK FALSE
