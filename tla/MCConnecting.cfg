\* Pins, filters, allocators and samples, in small instances.
CONSTANTS
    Parts = {"DynamicPin", "OneApp", "Allocator", "MediaSample", "WholeSample", "AllocSize", "Connection", "FailingConnection", "BaseFilter", "EnumPins", "EnumMediaTypes"}
    \* Allocator: a third client may share a sample while two wait.
    Clients = {"u1", "u2", "u3"}
    MaxCount = 2
    NoWait = TRUE
    AllocMayFail = TRUE
    MaxCommits = 2
    MaxWaiting = 2
    \* MediaSample, with media times as far apart as a LONG of three bits allows.
    Times = {1}
    MediaTimes = {0, 3}
    MediaBits = 3
    SampleSizes = {1, 2}
    Prefixes = {3, 6, 8, 10, 11}
    StopFlagAlone = FALSE
    NoTypeMemory = TRUE
    \* AllocSize.
    Bits = 5
    Granularity = 8
    Requests <- SomeRequests
    \* Connection.
    Outs = {"o1", "o2"}
    Ins = {"i1", "i2"}
    Types = {"t1", "t2", "t3"}
    NoPin = "NoPin"
    NoType = "NoType"
    NoAlloc = "NoAlloc"
    Prefers <- PinPrefers
    Accepts <- PinAccepts
    MyTypesFirst = FALSE
    Dynamic = {}
    MayFail = {}
    \* BaseFilter: the second of three pins is not connected.
    NPins = 3
    Connected = {1, 3}
    ActiveMayFail = FALSE
    Clocks = {"k1", "k2"}
    NoClock = "NoClock"
    MaxSessions = 3
    \* EnumPins and EnumMediaTypes.
    FilterPins = {"p1", "p2", "p3"}
    First <- FirstPins
    Enums = {"e1", "e2"}
    NoEnum = "NoEnum"
    MaxWant = 2
    Changes = 1
    Offers <- SomeOffers
    MaxPosition = 3
    MemoryFails = TRUE
    \* DynamicPin.
    Apps = {a1, a2}
    NoApp = NoApp
    MaxUsers = 2
    ChangeFails = FALSE
SPECIFICATION ConnectingSpec
INVARIANT BlockStateIsConsistent
INVARIANT BlockedPinIsLeftAlone
INVARIANT MemoryIsAccounted
INVARIANT PinsAgree
PROPERTY FailsWithReason
PROPERTY CallsComeBack
\* A component may come to rest at its bounds.
CHECK_DEADLOCK FALSE
