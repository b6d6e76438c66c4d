\* Images, their memory, quality, windows and positions: sets with numbers below 0, tuples
\* or records are named in MCRendering.
CONSTANTS
    Colours = {grey, rainbow}
    NoPalette = none
    Used = {2}
    Sizes = {1, 2}
    MaxSamples = 2
    MaxVersion = 3
    Fails = FALSE
    QualityLeads <- EarlyAndLate
    QualityDurations = {40}
    QualityDrawTimes = {5, 30}
    QualityGaps = {10, 1010}
    LateLeads <- LateBySeconds
    LateDurations = {0, 40}
    LateDrawTimes = {5}
    LateGaps = {100, 1010}
    QualityFrames = 3
    IntMax = 8
    Videos <- TwoVideos
    SourceValues <- OneOff
    TargetValues = {2}
    FarVideos <- FarVideo
    FarTargets <- LeftEnd
    Windows <- OneWindow
    Chunks = {2}
    Places = {1, 2}
    Origin <- TwoOne
    WorkArea <- BelowTaskBar
    DefaultSize <- ThreeTwo
    Offscreen <- NineNine
    Threads = {"t1", "t2"}
    Length = 2
    Targets <- Back
    MaxSeeks = 2
    E_NOTIMPL = NotImplemented
    Parts = {"ImageAllocator", "FailingAllocator", "VideoQuality", "LateQuality", "VideoTransform", "ControlVideo", "FarImage", "ControlWindow", "Seeking"}
SPECIFICATION RenderingSpec
INVARIANT DrawnInItsColours
INVARIANT SamplesExist
INVARIANT FramesAreInTime
INVARIANT WindowShowsSource
PROPERTY NothingElseChanges
\* A component may come to rest at its bounds.
CHECK_DEADLOCK FALSE
