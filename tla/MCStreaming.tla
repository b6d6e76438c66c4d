---------------------------- MODULE MCStreaming ----------------------------
(***************************************************************************)
(* Small instances of the components that pass samples, requests and time  *)
(* from thread to thread, side by side: each execution is about one of     *)
(* them, named by part, and the others stay as they are initially.         *)
(***************************************************************************)
EXTENDS XYFifo

CONSTANTS
    Parts,           \* the components a run is about
    Given, Flushes,  \* bounds: what the output queue gets, and how often it is flushed
    Corrections,     \* forward corrections of the clock
    LastTime         \* bound: how far its time goes

VARIABLES
    part,
    \* OutputQueue.
    queuePc, call, lock, list, batch, sending, packet, hr, waiting, sem,
    queueFlushing, flushed, queueComplete, terminate, down, given, flushes,
    unreleased, queueDelivered, barrier, failed,
    \* RefClock.
    packets, nextCookie, count, ev, serialize, signals, cancelled, clockNow,
    prevTime, privateTime, lastGotTime, clockPc, rtNow, wakeAt, abort,
    deltas, sumOfDeltas, drift,
    \* SourceStream.
    sourceExists, sourceParam, sourceReturnVal, sourceSend, sourceComplete,
    sourceWorker, sourceReplying, state, sourceApp, pins, sourceCommitted,
    holder, sourceDownstream, starts, sent, ended,
    \* PullPin.
    pullExists, pullParam, pullReturnVal, pullSend, pullComplete, pullWorker,
    pullReplying, pullApp, mState, connected, range, pullCommitted,
    pullFlushing, requests, current, bounds, fresh, sample, held,
    pullDownstream, calls, pullDelivered, eos, error,
    \* CmdQueue.
    q, cmd, cmdNow, cmdWorker, cmdApp, appHolds, executed, fault, changes

queueVars == <<queuePc, call, lock, list, batch, sending, packet, hr,
    waiting, sem, queueFlushing, flushed, queueComplete, terminate, down,
    given, flushes, unreleased, queueDelivered, barrier, failed>>
clockVars == <<packets, nextCookie, count, ev, serialize, signals,
    cancelled, clockNow, prevTime, privateTime, lastGotTime, clockPc, rtNow,
    wakeAt, abort, deltas, sumOfDeltas, drift>>
sourceVars == <<sourceExists, sourceParam, sourceReturnVal, sourceSend,
    sourceComplete, sourceWorker, sourceReplying, state, sourceApp, pins,
    sourceCommitted, holder, sourceDownstream, starts, sent, ended>>
pullVars == <<pullExists, pullParam, pullReturnVal, pullSend,
    pullComplete, pullWorker, pullReplying, pullApp, mState, connected,
    range, pullCommitted, pullFlushing, requests, current, bounds, fresh,
    sample, held, pullDownstream, calls, pullDelivered, eos, error>>
cmdVars == <<q, cmd, cmdNow, cmdWorker, cmdApp, appHolds, executed,
    fault, changes>>

Output == INSTANCE OutputQueue
    WITH Queued <- TRUE, BatchSize <- 2, BatchExact <- FALSE,
    FlushingOpt <- FALSE, MemoryMayFail <- FALSE, MaxGiven <- Given,
    MaxFlushes <- Flushes, pc <- queuePc, flushing <- queueFlushing,
    complete <- queueComplete, delivered <- queueDelivered

ExactOutput == INSTANCE OutputQueue
    WITH Queued <- TRUE, BatchSize <- 2, BatchExact <- TRUE,
    FlushingOpt <- TRUE, MemoryMayFail <- FALSE, MaxGiven <- Given,
    MaxFlushes <- 1, pc <- queuePc, flushing <- queueFlushing,
    complete <- queueComplete, delivered <- queueDelivered

Clock == INSTANCE RefClock
    WITH MAX_TIME <- 99, MaxPackets <- 2, Wrap <- 4,
    Deltas <- {-2} \cup Corrections, Times <- {2, 4}, Periods <- {0, 3},
    MaxTime <- LastTime, MaxDeltas <- 1, now <- clockNow, pc <- clockPc

Source == INSTANCE SourceStream
    WITH Threads <- {1, 2}, NumPins <- 2, MayFail <- FALSE, MaxSamples <- 2,
    MaxStarts <- 2, exists <- sourceExists, param <- sourceParam,
    returnVal <- sourceReturnVal, send <- sourceSend,
    complete <- sourceComplete, worker <- sourceWorker,
    replying <- sourceReplying, app <- sourceApp,
    committed <- sourceCommitted, downstream <- sourceDownstream

Puller == INSTANCE PullPin
    WITH Threads <- {"t"}, Sync <- FALSE, Buffers <- 2, Align <- 2,
    Size <- 2, Duration <- 5, Ranges <- {<<1, 9>>, <<3, 3>>},
    FlushMayFail <- FALSE, ReadMayFail <- FALSE, MaxCalls <- 3,
    exists <- pullExists, param <- pullParam, returnVal <- pullReturnVal,
    send <- pullSend, complete <- pullComplete, worker <- pullWorker,
    replying <- pullReplying, app <- pullApp, committed <- pullCommitted,
    flushing <- pullFlushing, downstream <- pullDownstream,
    delivered <- pullDelivered

Command == INSTANCE CmdQueue
    WITH Commands <- {"c1", "c2"}, None <- "None", Times <- {1, 2},
    Offsets <- {0, 1}, Accurate <- FALSE, TimesOut <- TRUE,
    MayCancel <- TRUE, MayFail <- FALSE, MaxTime <- 2, MaxChanges <- 2,
    now <- cmdNow, worker <- cmdWorker, app <- cmdApp
ASSUME StreamingAssumption ==
    /\ Output!QueueAssumption /\ ExactOutput!QueueAssumption
    /\ Clock!ScheduleAssumption /\ Clock!ClockAssumption
    /\ Source!SourceAssumption /\ Puller!PullAssumption /\ Command!CmdQueueAssumption

StreamingInit ==
    /\ part \in Parts
    /\ Init /\ Output!Init /\ Clock!Init /\ Source!Init /\ Puller!Init /\ Command!Init

StreamingNext ==
    /\ part' = part
    /\ IF part = "XYFifo" THEN Next ELSE UNCHANGED vars
    /\ CASE part = "OutputQueue" -> Output!Next
         [] part = "ExactQueue"  -> ExactOutput!Next
         [] OTHER -> UNCHANGED queueVars
    /\ IF part = "RefClock" THEN Clock!Next ELSE UNCHANGED clockVars
    /\ IF part = "SourceStream" THEN Source!Next ELSE UNCHANGED sourceVars
    /\ IF part = "PullPin" THEN Puller!Next ELSE UNCHANGED pullVars
    /\ IF part = "CmdQueue" THEN Command!Next ELSE UNCHANGED cmdVars

StreamingSpec ==
    StreamingInit /\ [][StreamingNext]_<<part, vars, queueVars, clockVars, sourceVars, pullVars, cmdVars>>

-----------------------------------------------------------------------------
\* COutputQueue: samples, ends of stream and segments arrive downstream in the
\* order in which they were given, each sample is in one place until it is
\* released and nothing stays behind the destructor; nothing from before a
\* flush arrives after it, nothing follows a refusal, and the thread never
\* sleeps while it has something to send.
OutputInOrder ==
    /\ [](part = "OutputQueue" =>
             /\ Output!TypeOK /\ Output!InOrder /\ Output!ReleasedOnce /\ Output!NothingLeft
             /\ Output!SendingIsNotFlushed /\ Output!PacketFollows /\ Output!IdleMeansEmpty)
    /\ [](part = "ExactQueue" => ExactOutput!NoLostWakeup)
    /\ Output!NothingOldArrives /\ Output!NothingAfterRefusal

\* CBaseReferenceClock and CAMSchedule: the list of notifications stays in the
\* order of time, each has one outcome, the clock keeps the time although its
\* counter wraps and never shows an earlier time than before, and its thread
\* oversleeps nothing.
ClockKeepsItsWord ==
    /\ [](part = "RefClock" =>
             /\ Clock!TypeOK /\ Clock!ListInOrder /\ Clock!OneOutcome
             /\ Clock!KeepsTime /\ Clock!NobodyOverslept)
    /\ Clock!TimeNeverGoesBack

\* CSourceStream and CPullPin on CAMThread: a reply belongs to the request
\* that is waited for, a worker is gone when Inactive returns and delivers
\* nothing after the end of its stream, and a pulled range arrives whole.
WorkersObey ==
    /\ [](part = "SourceStream" =>
             Source!TypeOK /\ Source!ReplyIsForThisRequest /\ Source!QuietAfterInactive)
    /\ [](part = "PullPin" =>
             Puller!TypeOK /\ Puller!WholeRange /\ Puller!NothingOutstanding /\ Puller!RangeIsStable)
    /\ Source!NothingAfterEnd /\ Puller!InactiveStops

\* CCmdQueue: the two lists stay consistent and in order while commands are
\* postponed, cancelled and executed, references add up, no stale advice is
\* left with the clock, and a command is given when it is due and executed once.
CommandsInTime ==
    /\ [](part = "CmdQueue" =>
             /\ Command!TypeOK /\ Command!QueueIsConsistent /\ Command!ReferencesAreCounted
             /\ Command!ExecutedOnce /\ Command!NoStaleAdvice)
    /\ Command!GivenInTime

\* Under the fairness of each component its calls come back: the monitor of the
\* ring is released, a flush ends, every notification is given and the clock's
\* thread ends, and the calls of source and puller return.
CallsComeBack ==
    /\ part = "XYFifo" => (Fairness => MonitorIsReleased)
    /\ part = "OutputQueue" => (Output!Fairness => Output!FlushEnds)
    /\ part = "RefClock" => (Clock!Fairness => Clock!AllNotified /\ Clock!ThreadEnds)
    /\ part = "SourceStream" => (Source!Fairness => Source!CallsReturn)
    /\ part = "PullPin" => (Puller!Fairness => Puller!CallsReturn)
====
