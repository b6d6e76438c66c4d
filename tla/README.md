# DSCSLib: specification, model checking and proofs

DSCSLib plays video files and RTSP streams through DirectShow. A native DLL
(`src/DSC2CSLib`) holds one global player object; a managed class `DSCS`
(`src/DSCSLib`) calls the DLL's exports under a lock; a Windows Forms program
(`src/DSCSPlayer`) shows how both are meant to be used. The repository also
holds the DirectShow base classes (`src/baseclasses`) in source: the filters,
pins, clocks, queues and renderers that anything built beside the DLL derives
from, and most of its code.

This directory holds TLA+ modules of all of these, TLC configurations that
check them, and theorems that TLAPS proves.

    tlc -config MCReopen.cfg DSC2CSLib             one of the runs of section 3
    tlc -config MCStreaming.cfg MCStreaming        a suite of base classes
    tlapm DSC2CSLibProofs.tla                      the proofs of a module

## 1. The system

### The library

| Component | State | Operations | Interacts with |
|---|---|---|---|
| Player, `DSC2CSLib/DShowPlayer.cpp` | `m_state`, `m_seekCaps`, `m_selectedDecoder`, `m_hwndVideo`, four interface pointers to the graph, five filter pointers of an RTSP session, `m_pVideo`, the global file name | `InitilizePlayer`, `InitilizeRSTPSource`, `Close`, destructor, `Play`, `Pause`, `Stop`, `SelectDecoder`, `SetWindowHandle`, `SetFileName` | the graph manager (COM calls, each of which may fail), the renderers (virtual calls) |
| Video renderers, `DSC2CSLib/video.cpp` | the filter's control interface, its window; the global `pBmp` (the VMR-9's mixer) | `AddToGraph`, `FinalizeGraph`, `SetVideoWindow` of EVR, VMR-9, VMR-7; `RemoveUnconnectedRenderer` | the player's graph; `ApplyOverlay` reads `pBmp` |
| Exports and wrapper, `DSC2CSLib.cpp`, `DSCS.cs` | the global `m_dsShowPlayer`; `m_videoInitialized` of each `DSCS` object | one export and one locked method per operation | create and delete the player; several objects share it |
| COM and the graph manager (external) | reference counts, streaming state, renderer filters, COM initialisations of the thread | `CoCreateInstance`, `QueryInterface`, `AddFilter`, `RenderEx`, `Run`, ... | called by all of the above; may stop a graph by itself |
| Overlays, `DShowPlayer.cpp` | the map `m_overlays` from ids to shapes; the bitmap in the mixer; GDI handles | `AddLine`, `AddCircle`, `AddTextOverlay`, `AddTextOverlay2`, `Visible`, `Clear`, `ApplyOverlay` | live and die with the player |
| `Cross`, `CrossMx` (`DSCSLib`) | two line ids and a flag; a ring of points, a shared counter of ids | `Draw`, `Remove`, `Clear`; `Init`, `Push`, `Draw`, `DrawFirst`, `Clear` | several calls of `DSCS` per operation, no lock around them |
| Point queue, `DSCSLib/xyfifo.cs` | an array and two indices | `Push`, `Pop`, `GetSize` | any number of threads, `lock(this)` |
| Sample program, `DSCSPlayer` | `m_replaceWindow`, `m_cross`, a timer, a second modal form | button, mouse, paint, resize handlers | all on one thread, through one `DSCS` |

### The base classes

| Component | State | Who acts at the same time |
|---|---|---|
| Output queue, `outputq.cpp` | list, batch, sticky result, flags of a flush, a semaphore and an event | stream, its own thread, the application that flushes |
| Reference clock and schedule, `refclock.cpp`, `schedule.cpp` | the list of advises in the order of time, the time and its last reading, a cached wake-up time | advise thread, askers, the system's counter |
| Worker threads, source, `wxutil.cpp`, `source.cpp` | one request at a time with its reply, the state of the filter, each pin's thread and allocator | application, one worker per pin, what is downstream |
| Pull pin, `pullpin.cpp` | the range, requests under way, the worker's state | application, worker, the reader upstream |
| Deferred commands, `ctlutil.cpp` | two lists ordered by time, an event, one advise of the clock | program, worker, clock |
| Allocators and samples, `amfilter.cpp` | count, free list, waiting threads, references, properties of each sample | the filter that commits, users that get, share and release |
| Pins, filter, enumerators, `amfilter.cpp` | connection, type, allocator; state; a cache of what was returned | graph manager, streaming thread, clients |
| Dynamic pin, `amfilter.cpp` | use count, block state with its caller and event | streaming thread, applications, a flush, a stop |
| Base renderer, `renbase.cpp` | state, pending sample, advise, end of stream, abort and flush flags | application, source, clock, timer, window |
| Quality control, `renbase.cpp` | averages, what was drawn and dropped, the message last sent | one stream |
| Transforms, `transfrm.cpp`, `vtrans.cpp`, `transip.cpp` | stream state, skipping, allocators of a chain | control, streaming and flushing threads, a blocking renderer below |
| Stream control, `strmctl.cpp` | start and stop requests, the state they lead to, an event | application, streaming thread |
| Lists, `wxlist.cpp` | nodes, count, cache | one thread (no operation locks) |
| Seeking, `ctlutil.cpp` | start, stop, rate; the renderer's times | two program threads, the stream |
| Window, image, palette, `winutil.cpp`, `winctrl.cpp` | window and its messages, rectangles, palettes and versions, shared bitmaps | window, stream and program threads |

### What is hard

* **Partial failure.** An initialisation is a sequence of some twenty COM calls,
  any of which may fail, some with an early return, some without a test; a
  failing one leaves the pointers it has already overwritten. `Pause`, a
  connection and an allocator's `Alloc` fail half way in the same manner.
* **Stale state.** Every initialisation runs on the player the previous one left
  behind. `CComPtr`'s `operator&` overwrites a pointer without releasing it,
  `m_state` is a hand-kept copy of the graph's state, `pBmp` is a global beside
  the renderer it belongs to. In the base classes it is a sticky result, a
  cached wake-up time, flags and requests of an earlier session, a palette
  version, the properties of a recycled sample.
* **Order of calls.** The protocol a caller must follow is written nowhere.
* **Interleaving.** The wrapper locks single calls; `Cross` makes two of them
  per operation. In the base classes control, streaming and flushing threads
  meet under two locks, and what is waited for is waited for without a lock.
* **Liveness.** A flush must get a blocked streaming thread out, `Stop` must end
  a worker whose buffers are downstream, a message that is sent must be answered
  by a thread that waits itself.
* **Numeric edges.** A counter that wraps, checked arithmetic of sizes, quotients
  of integers, differences cut to 32 bits, rectangles at the ends of a LONG.

The hazards, line by line and with the properties that would catch them, are in
`PROJECT.json`.

## 2. The modules

Each module's header says what it models and which threads there are; `map` in
`PROJECT.json` names the lines behind every definition. A module has its
constants with their assumption, its variables, one operator per step of the
code, then `Next`, `Fairness` and `Spec`, then its properties. Operators whose
comment begins with *A slip in ...* are changed copies of a definition, each
with a plausible mistake; they show that a property fails when the code is
wrong and take no part in the specification.

| Module | Models |
|---|---|
| `VideoRenderer` | `video.cpp`, `RemoveUnconnectedRenderer`, `FindConnectedPin`; COM and the graph manager as the code uses them (external) |
| `DShowPlayer` | the player's sessions, one action per external call |
| `DSC2CSLib` | exports and one `DSCS` object; composes the two above; the properties of sessions |
| `MediaPlayer` | what a program may expect of the player; `DSC2CSLib` implements it |
| `DSC2CSLibProofs` | theorems about `DSC2CSLib`: the graph, the refinement, the renderer, `m_state`, untested pointers |
| `DSCSWrapper` | several `DSCS` objects and threads over the one player, statement by statement; with its theorems |
| `Overlays` | the map of shapes and `ApplyOverlay`, one action per export |
| `Cross` | crosses drawn by several threads, composed with `Overlays` |
| `CrossMx` | rings of crosses, composed with `Overlays` |
| `XYFifo`, `BoundedFifo` | the point queue, statement by statement, and what it promises; `XYFifo` implements it, which it also proves |
| `SampleApp` | the two forms of the sample program |
| `OutputQueue` | `COutputQueue` |
| `RefClock` | `CBaseReferenceClock`, `CAMSchedule` |
| `AMThread`, `SourceStream`, `PullPin` | `CAMThread`; `CSource` with `CSourceStream`, and `CPullPin`, both composed with it |
| `CmdQueue` | `CCmdQueue`, `CDeferredCommand` |
| `Allocator`, `MediaSample`, `AllocSize` | `CBaseAllocator` and `CMemAllocator`, with theorems; the properties of a sample; the arithmetic of sizes |
| `Connection`, `BaseFilter` | `CBasePin`, `CBaseOutputPin`, `CBaseInputPin`; `CBaseFilter` |
| `EnumPins`, `EnumMediaTypes` | `CEnumPins`; `CEnumMediaTypes` |
| `DynamicPin` | `CDynamicOutputPin` |
| `PinProofs` | theorems about `Connection`, `BaseFilter`, `EnumPins`, `EnumMediaTypes`, `MediaSample`, `AllocSize`, `DynamicPin` |
| `BaseRenderer`, `VideoQuality` | `CBaseRenderer`; the quality control of `CBaseVideoRenderer` |
| `Transform`, `VideoTransform`, `TransInPlace` | the three transform filters |
| `StreamControl`, `Seeking`, `BaseList` | `CBaseStreamControl`; the classes a program seeks with; `CBaseList` |
| `ImageAllocator` | samples shared with GDI and versions of palettes |
| `BaseWindow`, `ControlWindow`, `ControlVideo` | the renderer's window and palette; `IVideoWindow`; `IBasicVideo` and drawing |
| `MCStreaming`, `MCConnecting`, `MCRendering`, `MCFilters`, `MCManaged` | the components above, several to a suite, small instances of each; `MCConnecting` also holds the theorems about its suite |
| `ManagedProofs`, `RenderingProofs` | theorems about `Cross` and the whole of `MCManaged`; about `ImageAllocator`, `ControlWindow`, `ControlVideo`, `Seeking` and the decisions of `VideoQuality`, in `MCRendering` |

### Sessions: VideoRenderer, DShowPlayer, DSC2CSLib

`pc` names the statement a call has reached, one for each external call, so
that each of them can fail in its own step; early returns and skipped blocks are
the successors of a step. `call` holds the parameters and locals of the call in
progress. Between calls `pc` is `"idle"`, where the client may call any method:
a method of `DSCS` holds `lock(this)` until its native call returns.

A pointer is modelled by the number of the graph its object belongs to, 0 being
NULL. That is what the properties need to tell apart: whether a pointer is NULL
and whether it belongs to the current graph, to an older one or to one that is
gone. `refs` counts the references the program holds on each graph through
interface pointers; `renderers`, `windowless` and `connected` say which renderer
filters are in it, which were told to draw in a window of the program, and which
the stream has reached.

`MayFail` names the external calls that may fail; a configuration chooses it.
When the code uses a NULL pointer, `fault` names it and nothing happens any
more: an access violation ends the process (the `catch` of
`DSCS.SetWindowHandle` does not see it). The model is of the release build, the
one the wrapper loads (`DSCS.cs:34`): the assertions in `CComPtr` that forbid
overwriting a pointer do not exist there.

`Careful` restricts the client to the protocol the code needs but never states
(operator `Protocol` and the guards that mention `Careful`): initialise a player
once, choose a decoder for an RTSP source and no audio, move the picture only
while the player can play, apply overlays only to a VMR-9, and let `Close` never
be the call that unloads COM from the thread.

`MediaPlayer` has the state, how far the call in progress is, and whether there
is a picture; the mapping at the end of `DSC2CSLib` takes them from `m_state`,
`pc` and the renderer filters of the current graph.
`ImplementsMediaPlayer` is the safety part for any caller, `MediaPlayerSpec` the
whole specification for a careful one.

### The managed side

`DSCSWrapper` takes the exports apart: a method enters the monitor of its own
object, the exported function tests the global and then reads it again for each
use, so that a `Close` through a second object comes in between. `Overlays`:
each export is one step, because its caller holds the lock; an entry of the map
is absent, NULL (the index operator in `Visible` adds it) or a shape. In `Cross`
a thread between its two calls is busy, and every other thread may act then.
`Careful` is the protocol the class needs: one thread per cross at a time,
remove only what is drawn on the present player, and nothing that touches all
shapes while a cross is half drawn. `CrossMx` carries two history variables,
`recent` and `stored`, that record what has been pushed since the ring was
emptied. In `XYFifo` each assignment of `Push` and `Pop` is a step, so that a
thread without the monitor would see half a point.

### The base classes

An action is what the code does under one lock from taking it to giving it back,
or between two points where it waits; where a method looks at something without
a lock and uses it later, the look and the use are two actions. Threads appear
as program counters (`pc`, `app`, `src`, `worker`, `push`, ...), or, where a
module has one thread only, not at all. What lies beyond the class (the graph
manager, the pin connected to, the derived class, GDI, the window manager) acts
nondeterministically within what the code expects of it. Samples are numbers or
have no identity, times are small numbers, media types are model values.

### The suites

A suite declares the variables of its components, instantiates each, and lets `part`, chosen in the initial state from the
constant `Parts`, name the component an execution is about; the others stay as
they are initially. A property of a suite is the conjunction of properties of
its components, each under its own `part`. Components with two interesting
choices of constants appear as two parts (`OneApp` beside `DynamicPin`, ...).
`MCConnecting`, `MCManaged` and, but for the decoder, `MCRendering` leave the
constants of their components to the `.cfg`, so that what is proved about them holds
for every choice; the second instance of `MCConnecting`, `Other`, is derived from the
first.

## 3. What the runs check

| Run | Instance | Properties |
|---|---|---|
| `failures` | 1 graph, every external call may fail except the examination of a pin, any caller | `TypeOK`; `PlayableIsRendered`: a player that can play has a connected renderer; `OnlyUnconnectedRemoved`: no renderer that draws the stream is taken out; `CallsReturn` |
| `reopen` | 2 graphs; creation, queries, renderers and capabilities may fail, any caller | `StateImpliesGraph`: the assertion of `Play`, `Pause`, `Stop`; `PointersHoldReferences`: no dangling pointer; `RendererOfThisGraph`; `MixerOfThisRenderer`; `FaultsHaveCauses`: the only situations in which an untested pointer is NULL; `ImplementsMediaPlayer` |
| `careful` | 3 graphs, 2 windows, a careful caller, the failures the code survives | `NoFault`; `WindowsAgree`: the picture is where the program last asked for it; `StateFollowsGraph`: `m_state` is the state of the graph; `MediaPlayerSpec`; no deadlock |
| `streaming` | `XYFifo`, two `OutputQueue`s, `RefClock`, `SourceStream`, `PullPin`, `CmdQueue` | `IsBoundedFifo` (refinement), `OutputInOrder`, `ClockKeepsItsWord`, `WorkersObey`, `CommandsInTime` |
| `streaming_live` | the same without commands, smaller | `CallsComeBack` |
| `connecting` | `DynamicPin` with one and two applications, `Allocator`, two `MediaSample`s, `AllocSize`, two `Connection`s, `BaseFilter`, `EnumPins`, `EnumMediaTypes` | `BlockStateIsConsistent`, `BlockedPinIsLeftAlone`, `MemoryIsAccounted`, `PinsAgree`, `FailsWithReason`, `CallsComeBack` |
| `rendering` | two `ImageAllocator`s, two `VideoQuality`s, `VideoTransform`, two `ControlVideo`s, `ControlWindow`, `Seeking` of a renderer | `DrawnInItsColours`, `SamplesExist`, `FramesAreInTime`, `WindowShowsSource`, `NothingElseChanges` |
| `filters` | `BaseList`, two `BaseRenderer`s, two `BaseWindow`s, `Transform`, two `TransInPlace`s, `StreamControl`, `Seeking` of a source position | `RendererIsInOrder`, `TransformsInOrder`, `PositionsAndLists`, `RequestsAreSeen`, `CallsComeBack` |
| `managed` | `Cross`, `CrossMx`, `DSCSWrapper` with one and two objects, `SampleApp` | `CrossIsWhole`, `HandlesComeBack`, `ManagedIsInOrder`, `StepsHaveCauses` |

What the conjuncts of the suites' properties mean is written at each of them and,
in detail, at the properties of the components they name.

Three runs show that the library does not do what a comment of it says:

| Run | Comment | What TLC finds |
|---|---|---|
| `old_graph` | `DShowPlayer.cpp:358` "This also closes the old one, if any." | a second initialisation leaves the first graph alive, with no pointer left that could stop or release it |
| `windowless` | `video.cpp:213` windowless mode "must be done before the VMR is connected" | a VMR whose initialisation failed stays in the graph and is connected |
| `find_pin` | `DShowPlayer.cpp:1357` "If it fails, it means the renderer is not connected to anything" | a connected renderer is removed because its pins could not be examined |

### Bounds

* `MaxGraphs`, graphs one execution may create. A defect of one session needs
  one, of a session on the remains of another two; `careful` has three, so that
  a player is opened, closed and opened again after a failure. `failures` and
  `reopen` split the failing calls: with two graphs and all of them the state
  space is out of reach, and the properties of `reopen` depend on the calls that
  assign pointers.
* `ComInits`, initialisations of COM on the calling thread. The DLL never
  initialises COM but each `Close` uninitialises it; 2 lets `Close` be first
  harmless and then the last one, 4 in `careful` gives three sessions room.
* Two threads put one inside another's method; the wrapper's one object has
  three, so that one waits for the monitor behind another.
* Queues: a ring of two slots holds one point, so that it is empty and full and
  both indices wrap; the output queue has a batch of two, three samples (a full
  batch and a rest) and two flushes (one on the remains of the other).
* The clock's counter wraps at 4 of its half milliseconds and the time goes to
  4, with corrections forward and back; two advises, periodic or not.
* Two pins, buffers, seeks, starts, sessions or palettes each: the second finds
  what the first left. Three pins of a filter, so that one in the middle is not
  connected; three users of an allocator with up to two buffers, so that two
  wait or one waits for two.
* `AllocSize` has a LONG of five bits and a granularity of 8: every request
  there is can be enumerated, and both overflow and rounding happen.
  `ControlVideo` ends its coordinates at 8, `MediaSample` cuts at three bits.
* Two output and two input pins with three types: a type is refused by one side,
  found in the other's list, or there is none.
* `EnumMediaTypes`: a pin that offers two types or only the second of them, two
  enumerators, one change of the list, positions up to 3: an enumerator is in the
  middle of a list when it changes, and is past its end.
* `MediaSample` has structures that end after 3 of their 10 fields (the flags), 6
  (the length of the data and the times), 8 (the media type) and 10 (the size, which
  the length must fit), and one of 11, which is refused.
* `VideoQuality` and `VideoTransform`: three and four frames, early, in time and
  late by more than a second; a decoder waits for a key frame at most three.
* `MaxFailures`: in `CrossMx` and `Overlays` failing calls of GDI are counted, so
  that a handle lost per failure differs from one lost per call.

A suite lets a component come to rest at its bounds, and so does not check for
deadlock; that nobody waits for ever is what `CallsComeBack` says instead.

### Fairness

Nothing makes a program call: fairness is only ever about a call or a thread
that has begun.

* `DSC2CSLib`: `WF_vars(Step)`. A thread inside a native call goes on to the next
  statement (external calls return, with success or failure). `XYFifo`: the same
  for each thread inside a method; it holds the monitor, so nothing of it waits.
* Threads of the base classes: weak fairness of each thread's steps. The filter
  downstream gives a buffer back when it is stopped (`GiveBack`) or flushed
  (`down = "flush"`), never otherwise: that is what the code relies on.
* Strong fairness stands where a thread must get a critical section that others
  take again and again, which Windows' queueing of waiters grants: `Transform`'s
  control and flushing calls, `BaseRenderer`'s source and timer callbacks,
  `DynamicPin`'s `StopUsing` (a pin whose use count falls to zero now and then),
  `BaseWindow`'s messages (against a stream that changes the palette for ever).
* `CmdQueue`, `RefClock`: time goes on (`WF_vars(Tick)`).
* In a suite, which has no fairness of its own, a liveness property is
  `Component!Fairness => Component!Property`.

## 4. Where the base classes differ from their comments

Each of these properties is what a comment, an assertion or a declaration says.
It stands in its module, and TLC refutes it there with `SPECIFICATION Spec`, the
module's other constants as in the suite and those of the second column. None of
them is an invariant of a run, except where a suite's constants make it hold.

| Property | Refuted with | Claim | Code |
|---|---|---|---|
| `OutputQueue!IdleMeansEmpty` | `BatchExact` | `outputq.cpp:789` "If we're idle it shouldn't be possible for there to be anything on the work queue" | `IsIdle` is TRUE while the thread waits for a full batch |
| `OutputQueue!OnlyExactBatchesWait` | `Queued = FALSE` | `outputq.cpp:635` `ASSERT(m_nBatched == 0 \|\| m_bBatchExact)` | a batch that is not full waits also with inexact batches (651) |
| `OutputQueue!PacketFollows` | `MemoryMayFail`, batches of one | `outputq.cpp:412` "the packet immediately following a NEW_SEGMENT value is a NewSegmentPacket" | `QueueSample` drops what `AddTail` cannot add, one entry at a time (425) |
| `OutputQueue!ResetCancels` | batches of one, 2 flushes | `outputq.cpp:700` "cancels sticky m_hr" | `Reset` waits for an event a flush may have left set (711) |
| `SourceStream!NoThreadBeforeCreate` | `MayFail` | `source.cpp:317` `ASSERT(!ThreadExists())` | when `OnThreadCreate` fails the handle stays open (326), and `Stop` of the stopped filter does nothing |
| `PullPin!ErrorsFromUpstream` | `ReadMayFail` | `pullpin.h:142` "these errors are all returned from the upstream filter" | `OnError` also gets what `Receive` returned (390) |
| `PullPin!InactiveStops` | `FlushMayFail` | `pullpin.h:110` "stop pulling data" | `Inactive` drops the failure of `StopThread`, which left the thread running (180) |
| `Allocator!WaitingIsCounted` | `NoWait` | `amfilter.h:1416` "m_lWaiting + Semaphore count == nWaiting" | `GetBuffer` counts itself before it looks at `AM_GBF_NOWAIT` (4763) |
| `Allocator!AliveInRelease` | two users | `amfilter.cpp:4834` "For each buffer there is one AddRef, made in GetBuffer" | the only one is made in `Commit`; `ReleaseBuffer` reads a member after the lock (4823) |
| `MediaSample!TimeIsOfThisUse` | `StopFlagAlone` | `amfilter.cpp:3763` "Check a flag isn't being set for a property not being provided" | only `AM_SAMPLE_TIMEVALID` is looked at |
| `MediaSample!MediaTimeReadsBack` | `MediaBits = 2` | `amfilter.h:1224` "A difference to get the end" | the difference is cut to a LONG (3542) |
| `MediaSample!DataFits` | a prefix that ends between `lActual` and `cbBuffer` | `amfilter.cpp:3631` `ASSERT(lActual <= GetSize())` | a structure that ends after `lActual` sets any length (3787) |
| `AllocSize!ProperlyAligned` | as in the suite | `amfilter.cpp:5169` "making sure it's properly aligned" | an alignment of 3 passes both checks (5066, 5072) |
| `Connection!BothOrNone` | `Dynamic` input pins, failures | `amfilter.cpp:1975` "Failing this will also ... disconnect the other pin as well" | `Disconnect` refuses while its filter is not stopped (1806) |
| `BaseFilter!StoppedIsInactive` | `ActiveMayFail` | `amfilter.cpp:528` "make sure everyone is inactivated regardless" | `Stop` skips its loop when `Pause` failed half way (518) |
| `EnumPins!NoneFetchedWhenOutOfSync` | as in the suite | `amfilter.cpp:1129` `ASSERT(cFetched==0)` | a pin removed after `Next` fetched another |
| `BaseRenderer!RunIsComplete` | `Clock = FALSE` | `renbase.cpp:357` "calling GetState after ... Run will NOT return this" | `Run` of a stopped filter pauses it after `Ready` (546) |
| `BaseRenderer!AbortedPauseIsComplete` | `Clock = FALSE` | `renbase.cpp:354` "if the m_bAbort flag has been set ... there is no point waiting" | `CompleteStateChange` does not look at it (378) |
| `BaseRenderer!NoStrayAdvise` | `Clock` | `renbase.cpp:433` "There should be no outstanding clock advise" | `SignalTimerFired` clears the advise `StartStreaming` has just made (278) |
| `BaseRenderer!FlushIsIntermediate` | `Clock = FALSE` | `renbase.cpp:700` "report state intermediate until we get some data" | `Ready` of a sample the flush has thrown away (1157) |
| `VideoQuality!FirstFrameIsDrawn` | durations 0, late | `renbase.cpp:1835` "The first frame will definitely be drawn" | the last drawing is 0.1 ms before, not long ago (1840) |
| `VideoQuality!WaitingSpeedsUp` | early frames | `renbase.cpp:2219` "Go cautiously faster" | the quotient is taken before the product (2229) |
| `VideoQuality!DataAreCounted` | three frames | `renbase.cpp:2796` "N is cFramesDrawn-1" | three frames give one datum (1990) |
| `VideoTransform!OutputIsDecodable` | `Untimed` | `vtrans.cpp:390` "we cannot stop until we hit a key frame" | a frame without time is decoded (324) |
| `VideoTransform!LateIsBounded` | `Lates` with 31000 | `vtrans.cpp:446` "more than 30 secs late is already silly" | the member is tested before it is assigned (445) |
| `TransInPlace!AllocatorAgreed` | `Refuses`, one filter | `transip.cpp:685` "then we will tell our output pin" | `GetAllocator` stores it before (707) |
| `TransInPlace!RestingState` | one filter | `transip.cpp:197` "if the input disconnects ..." | nothing is passed on when it does (405) |
| `Transform!SkippedIsRemembered` | kind "media", a skipped sample | `transfrm.h:276` "Did we just skip a frame" | `Pause` clears it while running (529) |
| `Transform!RunTimeErrorEndsStream` | kind "badtype" | `transfrm.cpp:691` "EndOfStream that passes straight downstream" | `CheckStreaming` answers with the error (697) |
| `StreamControl!ExtraFollowsStop` | `MaxChanges = 5` (two sessions) | `strmctl.cpp:302` "send one more than we were supposed to" | the flag stays set for the next session (366) |
| `StreamControl!BeginsAsAsked` | `MaxCalls = 3` | `strmctl.cpp:56` "we assume they want to be started" | a later start does not undo it (103) |
| `StreamControl!NotFlushing` | `MaxChanges = 3` | `strmctl.cpp:239` `ASSERT(!m_bIsFlushing)` | tested before the lock is taken (290) |
| `CmdQueue!DueIsSignalled` | 2 commands, `TimesOut = FALSE` | `ctlutil.h:850` "signalled whenever there are deferred commands due" | `SetTimeAdvise` resets the event first (2336) |
| `CmdQueue!TakenLeavesQueue` | `MayFail` | `ctlutil.cpp:2120` "remove from list whether or not successful" | two returns before that (2099) |
| `CmdQueue!ClockIsAdvised` | `MaxChanges = 3` (a new clock) | `ctlutil.cpp:2319` "set up a new advise" | the time asked for is remembered from the old clock (2366) |
| `CmdQueue!InvokedIsOutstanding` | `MayCancel` | `ctlutil.cpp:2082` "check that we are still outstanding" | `Cancel` during `Invoke` (2122) |
| `CmdQueue!ReferencesAreCounted` | `Accurate`, `MayCancel = FALSE` | `ctlutil.cpp:2488` "returns an AddRef'd object" | the third return does not (2533) |
| `Seeking!ToldWhereInMedium` | `HasSeeking`, `Untimed = FALSE`, a target above 0 | `ctlutil.cpp:978` "store the media times" | a sample's time counts from the last seek (1008) |
| `ImageAllocator!AllocBeginsWithNothing` | `Fails` | `winutil.cpp:1578` `ASSERT(m_lAllocated == 0)` | a failing `Alloc` leaves samples |
| `ImageAllocator!DrawnInItsColours` | `Used = {0, 2}` | `winutil.cpp:1939` "The number of colours may be zero filled" | zero colours are copied and the sample is marked up to date (998) |
| `BaseWindow!InstalledIsRealised` | as in the suite | `winutil.cpp:310` "we realise the palette by sending it a special message" | a hidden window realises nothing (779), and only a later query selects it |
| `BaseWindow!NothingAfterDone` | `PostToDestroy = FALSE` | `winutil.cpp:94` "no messages arrive after" | a sent message is handled inside another one (138) |
| `BaseWindow!NoRecursion` | as in the suite | `winutil.cpp:770` `ASSERT(!m_bRealizing)` | the window gets its own `WM_PALETTECHANGED` |
| `ControlWindow!RestoreIsPosition` | as in the suite | `winctrl.cpp:876` "returns the same coordinates as GetWindowPosition" | a tool window is placed in screen coordinates (901) |

## 5. What is proved

The theorems hold for every value of the constants, within the assumptions
named; the provers check them to the last step. A module's own assumption
(`ComAssumption`, `FifoAssumption`, `ConnectionAssumption`, ...) only says what
kind of thing its constants are, and TLC evaluates it for each instance of the
runs. Every other hypothesis stands in the theorem and is named here.

**The player** (`DSC2CSLibProofs`): any number of graphs and windows, any set of
calls that fail, careful and careless callers.

* `TypeCorrect`, `Spec => []TypeOK`. One lemma per group of actions;
  `LabelsClosed` says that each step goes on to an existing one.
* `GraphExists` (`StateImpliesGraph`) and `RendererMatches`
  (`RendererOfThisGraph`). Neither is inductive: `GetCapabilities` sets `m_state`
  at the end of a call without looking at the graph, so one must know that the
  graph was alive all through it. `SessionInv` adds the labels at which a call is
  building on a graph (`Building`) and says that there the graph is alive.
* `NoDanglingPointer` (`PointersHoldReferences`), inductive together with
  `SessionInv`. The counting argument is `OnePointerMoves`: assigning one pointer
  raises the number of pointers to the new graph by at most one, and to no other.
  Overwriting a pointer is why the counts are an inequality: references leak,
  never the other way round.
* `MixerMatches` (`MixerOfThisRenderer`): `MixerInv` says so within calls too.
* `WindowsMatch` (`WindowsAgree`): `WindowInv` says so within calls too, but for the
  one step in which a new session has recorded its window and the old renderer is
  not gone yet; `ControlInv` rules out a control interface without a renderer.
* `StateMatches` (`StateFollowsGraph`). `CommandInv`: the graph has its control
  interface wherever a command can be given; `ClosedInv`: while a file is being
  opened `m_state` is still closed; `StateInv`: hence the state the graph was last
  commanded into is `m_state`, or a command is between the two. The properties
  themselves say of which callers and failures they speak.
* `PlayerImplemented`, `Spec => ImplementsMediaPlayer`, `PlayableShows`
  (`PlayableIsRendered`) and `OnlyUnconnectedGo` (`OnlyUnconnectedRemoved`), if
  `"FindConnectedPin" \notin MayFail`. `PictureInv` says at which labels the
  current graph has a connected renderer; it is what lets each step map to a step
  of `MediaPlayer` or to none. `RenderedInv` says the same of the pointer. The
  assumption is needed: run `find_pin`.
* `FaultCauses` (`FaultsHaveCauses`), under the same assumption: an untested
  pointer that is NULL when it is followed has one of the causes the property
  lists. One lemma per statement that follows a pointer; `NoGraphInv`,
  `InterfaceInv` and `DecoderInv` say which interfaces are there at each label.
* `NoFaultFor` (`NoFault`), if `Safe`: the caller is careful, COM is initialised
  on the thread (`ComInits > 0`), and none of `CoCreateInstance`,
  `QueryInterface`, `GetPin`, `Windowless` and `FindConnectedPin` fails. It excludes the causes one after the other: `ComInv`
  (COM outlives each `Close`), `ProtocolInv` (which sources a careful caller opens),
  `GraphsInv` and `AloneInv` (no other renderer in the graph than the player's).

**The managed side.**

* `DSCSWrapper!TypeCorrect`, and `OneObjectIsSafe`: with one object every use of
  the global finds a living player, `Close` closes and none is lost. `OneInv`:
  whoever is in a method has the monitor (`Exclusion`), the object's flag and the
  global agree between methods (`Agree`), and what is alive is what the global
  names (`Whole`).
* `DSCSWrapper!OverlapsAreTheCause`, any number of objects: a use of a player that is
  not there, and the loss of one, need two calls of different objects at the same time
  (`SerialInv`: as long as no two have met, what holds of one object holds of all).
* `ManagedProofs!CrossesAreWhole` and `PicturesAreWhole`: with `Careful` and crosses
  that share no id (`Distinct`), both lines of an idle cross are alike, no NULL entry
  is used, and no frame shows one line of a cross without the other. `CrossInv` adds
  what a thread between its two calls has done so far (`Drawing`, `Removing`) and
  that a cross has one thread at most (`OneEach`). `HandlesAreGivenBack`
  (`HandlesComeBack`) needs no assumption: `HandleInv`, a handle that a failing
  call left behind is one of those counted.
* `ManagedProofs!EverythingManagedIsInOrder`, the three invariants of the run
  `managed` at once, under the same two hypotheses, which its `.cfg` meets. It adds the ring of `CrossMx`
  (`RingInv`) and the sample program (`AppInv`). The property counts how often a
  point is shown and how often it was pushed; two sets of indices are as large as each
  other because one is mapped onto the other (`SameCounts`, `CountedAlike`), and the
  map is found from `RingOf`: the slot a point went into is its number modulo the size
  of the ring. That lines belong to one slot each (no id below the counter is used
  twice) is what keeps a redrawn slot from hiding another.
* `ManagedProofs!EveryStepHasItsCause` (`StepsHaveCauses`), the action properties of
  the same run, from the same invariant.
* `XYFifo!TypeCorrect`: no index of the queue leaves its array, for any size and
  any number of threads. `ImplementsFifo`, `Spec => IsBoundedFifo`: each step is one
  of the bounded queue or none. `RingInv` says that the slots from the one index
  round to the other are the points of the abstract queue, in order, and what the
  thread inside the monitor has read or written of them so far.

**The base classes.**

* `Allocator`, any number of users and buffers: `SamplesCounted`,
  `WakeupsAreNotLost`, `SettledInUse`, `OneReference`, `AliveInUse`, all from
  `AllocInv`. Its parts: `CommitInv` (what commit and decommit have left open),
  `SampleInv` (a sample that is not free is held, by as many users as its count says,
  the last time by one user alone), `RefInv` (the allocator's references are the
  owner's, one while committed or decommitting, one while the owner is in the middle
  of a decommit, and one of each user about to give the last sample back,
  `Releasing`), and `NoLostWakeup`, inductive as it stands.
* `PinProofs`, any pins, types, preferences and failures: `PinsHaveAgreed`,
  `NothingLeft`, `RefsBalance`, `MemoryInUse` from `ConnInv`. Between calls an output
  pin has nothing (`Fresh`) or a partner it agrees with (`Paired`); `CallInv` says
  how far the pins of the call under way are between the two, and `PairStep` that
  nothing else moves. `RerefCounts` and `AgreedCounts` count the references.
  `BothEnds` needs `Dynamic \cap Ins = {}`: an input pin that connects while its
  filter is active refuses the `Disconnect` that should take the connection back,
  and then one end stays connected.
* `PinProofs`, any number of pins of a filter: `StartedIsActive`, `ErrorsAreFresh`,
  `ClockLives` from `FilterInv` (`LoopInv`: which pins the loop under way has told).
  `StopDeactivates` needs `~ActiveMayFail`: after a `Pause` that failed half way
  `m_State` is still stopped, and `Stop` returns at once.
* `PinProofs`, any pins, changes and enumerators: `NoPinTwice` and `EndReached` from
  `EnumInv`: what was returned is in the cache (`SeenInv`), and while the versions
  agree the count is that of the list, but for the moment between reading the one
  and the other (`CountInv`).
* `PinProofs!FailsOnlyForAReason` (`FailsForAReason`, of steps): a `Connect` in which
  only types can fail does fail only when none suits both pins. `ReasonInv` says of
  each point of the search that every type tried so far does not suit: those of the
  lists gone through, and of the present list all but the ones left.
* `PinProofs!TypesOfOneList` (`EnumMediaTypes!InOrder`): an enumerator that is in step
  with its pin has a list nobody has replaced since, and is where its position says.
* `PinProofs`, a sample: `InvalidFailsWhole` (`FailsWhole`, of steps),
  `NothingOfLastUse` (`TypeHasFlag`, `RecycledIsClean`, `StartIsOfThisUse`);
  `MediaTimeKept` if differences of media times fit a LONG (`MediaTimesFit`), and
  `DataFitsBuffer` if who gives the length of the data gives the size with it
  (`LengthWithSize`). Section 4 shows what happens without these two.
* `PinProofs`, the arithmetic of sizes: `BlockIsLargeEnough` and `SamplesAreAligned`.
  `Width` (a LONG has one bit for its sign) and `PowersDivide` (a power of two within
  the granularity divides it) are facts of arithmetic that these provers cannot compute from
  the bits; TLC evaluates them. `RoundingFits` says that buffer, prefix and alignment
  together are less than a whole turn of a LONG, or that the prefix is as long as the
  alignment: only requests as large as a good part of the address space are left out.
* `PinProofs!BlockIsValid`: a block's state agrees with its event, its caller and
  the use count, for any number of applications. `BlockExcludes`: with one
  application, nobody streams while it holds the pin; `OwnerInv` relates where that
  thread is to the state of the block.
* `MCConnecting`, all of these side by side: `PinIsConsistent`, `PinIsLeftAlone`,
  `MemoryAccounted`, `EveryoneAgrees` and `FailuresHaveReasons` state the five safety
  properties of the run `connecting`. A second instance of a component is an
  instance of `PinProofs`, whose lemmas hold of it as they do of the first. The
  hypotheses about numbers are conjuncts of `ConnectingAssumption`. `EveryoneAgrees`
  needs what `BothEnds` and `StopDeactivates` need.
* `RenderingProofs!SamplesAreSafe`: a held sample exists (`UseInv`), also when
  bitmaps run out. `SamplesMatchFormat` (`Allocated`) without such failures.
  `DrawnRight` (`Coloured`: a sample with the present version has the present
  colours) for formats that say how many colours they use. `SamplesAlwaysExist`
  (`SamplesExist`) and `ColoursAreRight` (`DrawnInItsColours`) say so beside the other
  components of `MCRendering`; a step of the allocator that cannot fail is one of the
  failing allocator, so one invariant serves both.
* `RenderingProofs!NothingElseMoves` (`NothingElseChanges`), of steps, for any times of
  the frames and any places. `QualityInv` relates the time of the last decision to draw
  to when the picture on the screen was drawn: it is not later, but for a frame that
  waits or is being drawn. The decision is then four facts (`DecisionIs`) about what it
  leaves and what it found; its averages matter only in being integers. `ControlInv` has
  types, and that a window is a child while it has an owner; that a style moves nothing
  rests on `PutBack`: moved off the screen and put where it was, counted from its
  parent, a window is where it was.
* `RenderingProofs!SourceIsShown` (`WindowShowsSource`), for any formats, requests,
  and width of a LONG. `ImageInv`: both rectangles have sizes that are LONGs, whether
  to stretch is what they say, and the source is in the video. `Wraps` says what
  arithmetic on a LONG does to sums of two; `RenderedIs` and `CopyIs`, that lines
  counted from the bottom are the rows of the source. `SeekInv`: a setting the derived
  class does not have is in the notices of a thread.
* Two instances of a component in `MCRendering` are shown to be instances of a third,
  whose constants are the unions of theirs (`Any`, `Picture`); the invariants are about
  that one.

Only model-checked: all liveness, `CallsReturn`, `CallsComeBack` and `MediaPlayerSpec`
among it (these provers know neither fairness nor `ENABLED`); `FramesAreInTime`, which
takes an integer square root by iteration and needs that a variance is not negative (its
decisions are in `NothingElseMoves`);
the suites `streaming` (but for the point queue) and `filters`.
Induction over data and recursive operators are out of the provers' reach; no
module uses a recursive operator, and what folds compute (sums, lists) is only
checked.

## 6. What is not modelled, and why

* `HandleGraphEvent`, the player's seeking and volume methods: no export reaches
  them. `UpdateVolume`, which an initialisation calls, does nothing because
  `m_pAudio` is never set.
* `UpdateVideoWindow`, `Repaint`, `DisplayModeChanged` of `video.cpp`: they change
  no state of the program.
* Reference counts of filters and pins in the player: they keep objects of a
  graph alive, not the graph; only whether the pointer is NULL or of another
  graph matters.
* Pens, fonts and brushes of `ApplyOverlay`; `DrawLine1`, which nobody calls.
* Two threads in one `CrossMx`, or in one list: neither class has a lock, so they
  go wrong at once. (`wxlist.cpp:14` says otherwise: "separate threads may add and
  delete items in the list concurrently".)
* Quality messages of `CTransformFilter`, painting and repainting, property pages,
  registration, class factories, media types, arithmetic in `arithutil.h`,
  `CDisplay`'s choice of a format, streams in storage, debugging output, palette
  conversion: tables, conversions and thin wrappers without behaviour over several
  steps of their own.
* The graph walks of `common/dshowutil.h` beyond the three functions the player
  uses, and the window helpers in `common`: nothing here calls them.
* Entry points of the DLL, resources and code made by the form designer.

## 7. What is left to do

1. Inductive invariants for further base classes whose properties are of safety
   and local: `RefClock!ListInOrder` and `OneOutcome`, `Transform!BuffersAccounted`,
   `StreamControl!EventsInOrder`; then the suites `streaming` and `filters` from them,
   as it is done for `connecting` and `managed`.
2. The composition of a source, a transform and a renderer in one graph that is
   started, flushed and stopped as the graph manager does it.
