------------------------------- MODULE Transform -------------------------------
(***************************************************************************)
(* CTransformFilter between a source that pushes samples on one thread and *)
(* flushes on another, and a renderer that blocks Receive while it is      *)
(* paused.  m_csFilter serialises control, m_csReceive streaming; Stop and *)
(* Pause take both.  The graph manager stops the renderer before the       *)
(* filter and the source after it.                                         *)
(***************************************************************************)
EXTENDS Integers

CONSTANTS
    Buffers,        \* of the output allocator
    CanFail,        \* StartStreaming, StopStreaming and Transform may fail
    Kinds,          \* of samples: "media", "other" (another stream), "badtype"
    MaxFlushes,     \* bound
    MaxSessions     \* bound: Pause after Stop

TransformAssumption ==
    /\ Buffers \in Nat \ {0} /\ CanFail \in BOOLEAN /\ MaxFlushes \in Nat /\ MaxSessions \in Nat
    /\ Kinds \subseteq {"media", "other", "badtype"}

VARIABLES
    flt,            \* the filter: m_State, flags, connected pins
    lockF, lockR,   \* who holds m_csFilter and m_csReceive
    app, push, seek,\* where the three threads are
    down,           \* the renderer
    out,            \* the output pin's allocator
    flushes,
    sessions

vars == <<flt, lockF, lockR, app, push, seek, down, out, flushes, sessions>>

Init ==
    /\ \E c \in {{"in", "out"}, {"out"}, {"in"}} :
           flt = [state |-> "stopped", flushing |-> FALSE, runTimeError |-> FALSE, skipped |-> FALSE,
                  eosDelivered |-> FALSE, streaming |-> FALSE, conn |-> c, dropped |-> FALSE]
    /\ lockF = "free" /\ lockR = "free"
    /\ app = [pc |-> "idle", op |-> "none"]
    /\ push = [pc |-> "idle", kind |-> "media", ok |-> FALSE, buffer |-> FALSE, result |-> "ok"]
    /\ seek = "idle"
    /\ down = [state |-> "stopped", flushing |-> FALSE, eos |-> FALSE, held |-> 0, keeps |-> 0]
    /\ out = [committed |-> FALSE, free |-> Buffers]
    /\ flushes = 0 /\ sessions = 0

Connected == flt.conn = {"in", "out"}

-----------------------------------------------------------------------------
\* The renderer.  Receive rejects while stopped or flushing, blocks while paused; it may keep
\* the buffer of a sample it accepted for a while.
Rejects(d) == d.state = "stopped" \/ d.flushing
DownStop(d) == [d EXCEPT !.state = "stopped", !.eos = FALSE, !.held = 0]
DownFlush(d) == [d EXCEPT !.flushing = TRUE, !.eos = FALSE, !.held = 0]
DownReleases ==
    /\ down.held > 0 /\ down.state = "running"
    /\ down' = [down EXCEPT !.held = @ - 1] /\ out' = [out EXCEPT !.free = @ + 1]
    /\ UNCHANGED <<flt, lockF, lockR, app, push, seek, flushes, sessions>>

-----------------------------------------------------------------------------
\* Stop, Pause and Run of the graph; the renderer first.
Asks(op) ==
    /\ app.pc = "idle" /\ app' = [pc |-> op, op |-> op]
    /\ op # "stop" => flt.state # "stopped" \/ sessions < MaxSessions
    /\ CASE op = "stop" -> down' = DownStop(down) /\ out' = [out EXCEPT !.free = @ + down.held]
         [] op = "pause" -> down' = [down EXCEPT !.state = "paused"] /\ UNCHANGED out
         [] op = "run" -> down.state = "paused" /\ down' = [down EXCEPT !.state = "running"] /\ UNCHANGED out
    /\ UNCHANGED <<flt, lockF, lockR, push, seek, flushes, sessions>>
GraphStops == Asks("stop")
GraphPauses == Asks("pause")
GraphRuns == Asks("run")

\* CTransformFilter::Stop: nothing to do, or a pin is not connected, or the input pin is made
\* inactive before m_csReceive is waited for.
StopEnter ==
    /\ app.pc = "stop" /\ lockF = "free"
    /\ IF flt.state = "stopped" \/ ~Connected
       THEN /\ flt' = [flt EXCEPT !.state = "stopped", !.eosDelivered = IF flt.state = "stopped" THEN @ ELSE FALSE]
            /\ app' = [app EXCEPT !.pc = "source"] /\ UNCHANGED lockF
       ELSE /\ flt' = [flt EXCEPT !.runTimeError = FALSE, !.flushing = FALSE]
            /\ app' = [app EXCEPT !.pc = "stopLocked"] /\ lockF' = "app"
    /\ UNCHANGED <<lockR, push, seek, down, out, flushes, sessions>>

\* With both locks: the output allocator is decommitted, StopStreaming; a failure leaves m_State.
Stopped(failed) ==
    IF failed THEN flt
    ELSE [flt EXCEPT !.state = "stopped", !.eosDelivered = FALSE, !.streaming = FALSE]

\* A slip in StopLocked: Stop does not wait for m_csReceive.
StopLocked_NoReceiveLock ==
    /\ app.pc = "stopLocked"
    /\ \E failed \in {FALSE, CanFail} : flt' = Stopped(failed)
    /\ out' = [out EXCEPT !.committed = FALSE]
    /\ app' = [app EXCEPT !.pc = "source"] /\ lockF' = "free"
    /\ UNCHANGED <<lockR, push, seek, down, flushes, sessions>>

StopLocked ==
    /\ app.pc = "stopLocked" /\ lockR = "free"
    /\ \E failed \in {FALSE, CanFail} : flt' = Stopped(failed)
    /\ out' = [out EXCEPT !.committed = FALSE]
    /\ app' = [app EXCEPT !.pc = "source"] /\ lockF' = "free"
    /\ UNCHANGED <<lockR, push, seek, down, flushes, sessions>>

\* The source is stopped: its thread ends.
SourceStops ==
    /\ app.pc = "source" /\ push.pc = "idle"
    /\ push' = [push EXCEPT !.ok = FALSE] /\ app' = [app EXCEPT !.pc = "idle"]
    /\ UNCHANGED <<flt, lockF, lockR, seek, down, out, flushes, sessions>>

-----------------------------------------------------------------------------
\* CTransformFilter::Pause, which Run calls in the stopped state.  m_bSampleSkipped is reset in
\* every case, without m_csReceive.  Without an input the renderer is told the end at once.
Goal == IF app.op = "run" THEN "running" ELSE "paused"
PauseEnter ==
    /\ app.pc \in {"pause", "run"} /\ lockF = "free"
    /\ IF flt.state = "stopped" /\ Connected
       THEN lockF' = "app" /\ app' = [app EXCEPT !.pc = "start"] /\ UNCHANGED <<flt, down>>
       ELSE /\ UNCHANGED lockF /\ app' = [app EXCEPT !.pc = "idle"]
            /\ LET tells == flt.state = "stopped" /\ "in" \notin flt.conn /\ ~flt.eosDelivered IN
               /\ flt' = [flt EXCEPT !.state = Goal, !.eosDelivered = @ \/ tells,
                                     !.skipped = IF app.op = "run" THEN @ ELSE FALSE]
               /\ down' = [down EXCEPT !.eos = @ \/ (tells /\ "out" \in flt.conn)]
    /\ UNCHANGED <<lockR, push, seek, out, flushes>>
    /\ sessions' = sessions + (IF flt.state = "stopped" THEN 1 ELSE 0)

\* StartStreaming under m_csReceive; after a failure the pins are not activated.
PauseStarts ==
    /\ app.pc = "start" /\ lockR = "free"
    /\ \/ /\ flt' = [flt EXCEPT !.streaming = TRUE] /\ app' = [app EXCEPT !.pc = "activate"] /\ UNCHANGED lockF
       \/ /\ CanFail /\ flt' = [flt EXCEPT !.skipped = FALSE]
          /\ app' = [app EXCEPT !.pc = "idle"] /\ lockF' = "free"
    /\ UNCHANGED <<lockR, push, seek, down, out, flushes, sessions>>

\* CBaseFilter::Pause: the pins commit their allocators.  Then the graph pauses the source, which
\* starts to send.
PauseActivates ==
    /\ app.pc = "activate"
    /\ flt' = [flt EXCEPT !.state = Goal, !.skipped = FALSE, !.dropped = FALSE]
    /\ out' = [out EXCEPT !.committed = TRUE]
    /\ push' = [push EXCEPT !.ok = TRUE]
    /\ app' = [app EXCEPT !.pc = "idle"] /\ lockF' = "free"
    /\ UNCHANGED <<lockR, seek, down, flushes, sessions>>

\* Pins are connected and disconnected in the stopped state only.
Reconnects ==
    /\ app.pc = "idle" /\ flt.state = "stopped" /\ push.pc = "idle" /\ seek = "idle" /\ lockF = "free"
    /\ \E c \in {{"in", "out"}, {"out"}, {"in"}} \ {flt.conn} : flt' = [flt EXCEPT !.conn = c]
    /\ UNCHANGED <<lockF, lockR, app, push, seek, down, out, flushes, sessions>>

-----------------------------------------------------------------------------
\* The source's thread calls Receive: CTransformInputPin::CheckStreaming under m_csReceive.
PushCalls ==
    /\ push.pc = "idle" /\ push.ok /\ Connected /\ seek # "end"
    /\ \E k \in Kinds :
           push' = [push EXCEPT !.pc = "enter", !.kind = k, !.result = "ok"]
    /\ UNCHANGED <<flt, lockF, lockR, app, seek, down, out, flushes, sessions>>

Streams(f) == f.conn = {"in", "out"} /\ ~f.flushing /\ f.state # "stopped" /\ ~f.runTimeError

\* CBaseInputPin::Receive: a refused format raises the run time error; EndOfStream is called after
\* the flag is set.  Then CTransformFilter::Receive: another stream's sample goes straight on.
EndOfStreamPasses(f) == Streams(f)
PushEnters ==
    /\ push.pc = "enter" /\ lockR = "free"
    /\ CASE ~Streams(flt) ->
              /\ push' = [push EXCEPT !.pc = "idle", !.ok = FALSE] /\ UNCHANGED <<flt, down, lockR>>
         [] Streams(flt) /\ push.kind = "badtype" ->
              /\ flt' = [flt EXCEPT !.runTimeError = TRUE]
              /\ down' = [down EXCEPT !.eos = @ \/ EndOfStreamPasses(flt')]
              /\ push' = [push EXCEPT !.pc = "idle", !.ok = FALSE] /\ UNCHANGED lockR
         [] OTHER ->
              /\ push' = [push EXCEPT !.pc = IF push.kind = "other" THEN "deliver" ELSE "buffer"]
              /\ lockR' = "push" /\ UNCHANGED <<flt, down>>
    /\ UNCHANGED <<lockF, app, seek, out, flushes, sessions>>

\* InitializeOutputSample: GetBuffer blocks until a buffer is free or the allocator decommitted.
PushGetsBuffer ==
    /\ push.pc = "buffer" /\ (out.free > 0 \/ ~out.committed)
    /\ IF out.committed
       THEN out' = [out EXCEPT !.free = @ - 1] /\ push' = [push EXCEPT !.pc = "transform", !.buffer = TRUE]
       ELSE UNCHANGED out /\ push' = [push EXCEPT !.pc = "leave", !.result = "failed"]
    /\ UNCHANGED <<flt, lockF, lockR, app, seek, down, flushes, sessions>>

\* Transform: S_OK, S_FALSE (not to be delivered, but no end of the stream) or a failure.
PushTransforms ==
    /\ push.pc = "transform"
    /\ \/ push' = [push EXCEPT !.pc = "deliver"] /\ UNCHANGED <<flt, out>>
       \/ /\ push' = [push EXCEPT !.pc = "leave", !.buffer = FALSE]
          /\ out' = [out EXCEPT !.free = @ + 1]
          /\ flt' = [flt EXCEPT !.skipped = TRUE, !.dropped = TRUE]
       \/ /\ CanFail /\ push' = [push EXCEPT !.pc = "leave", !.result = "failed"] /\ UNCHANGED <<flt, out>>
    /\ UNCHANGED <<lockF, lockR, app, seek, down, flushes, sessions>>

\* m_pInputPin->Receive of the renderer returns: it rejected the sample, or took it, perhaps
\* with a reference to the buffer.
PushDelivers ==
    /\ push.pc = "deliver" /\ (Rejects(down) \/ down.state = "running")
    /\ push' = [push EXCEPT !.pc = "leave", !.result = IF Rejects(down) THEN "refused" ELSE "ok"]
    /\ \E keep \in {0, IF push.buffer /\ ~Rejects(down) THEN 1 ELSE 0} :
           down' = [down EXCEPT !.held = @ + keep, !.keeps = keep]
    /\ flt' = [flt EXCEPT !.skipped = IF push.buffer THEN FALSE ELSE @,
                          !.dropped = IF push.buffer THEN FALSE ELSE @]
    /\ UNCHANGED <<lockF, lockR, app, seek, out, flushes, sessions>>

\* The output sample is released and m_csReceive with it; a result other than S_OK stops the source.
PushLeaves ==
    /\ push.pc = "leave" /\ lockR' = "free"
    /\ out' = [out EXCEPT !.free = @ + (IF push.buffer /\ down.keeps = 0 THEN 1 ELSE 0)]
    /\ down' = [down EXCEPT !.keeps = 0]
    /\ push' = [push EXCEPT !.pc = "idle", !.buffer = FALSE, !.ok = @ /\ push.result = "ok"]
    /\ UNCHANGED <<flt, lockF, app, seek, flushes, sessions>>

\* EndOfStream of the source, after which it sends no more.
PushEnds ==
    /\ push.pc = "idle" /\ push.ok /\ lockR = "free" /\ Connected /\ seek # "end"
    /\ push' = [push EXCEPT !.ok = FALSE]
    /\ down' = [down EXCEPT !.eos = @ \/ EndOfStreamPasses(flt)]
    /\ UNCHANGED <<flt, lockF, lockR, app, seek, out, flushes, sessions>>

-----------------------------------------------------------------------------
\* The source's control thread.  BeginFlush holds m_csFilter only: the flag, then the renderer.
FlushCalls ==
    /\ seek = "idle" /\ flt.state # "stopped" /\ flushes < MaxFlushes /\ seek' = "call"
    /\ UNCHANGED <<flt, lockF, lockR, app, push, down, out, flushes, sessions>>
BeginFlush ==
    /\ seek = "call" /\ lockF = "free"
    /\ IF Connected
       THEN lockF' = "seek" /\ seek' = "begin" /\ flt' = [flt EXCEPT !.flushing = TRUE]
       ELSE seek' = "idle" /\ UNCHANGED <<flt, lockF>>
    /\ UNCHANGED <<lockR, app, push, down, out, flushes, sessions>>
DeliverBeginFlush ==
    /\ seek = "begin"
    /\ lockF' = "free" /\ seek' = "flushing" /\ down' = DownFlush(down)
    /\ out' = [out EXCEPT !.free = @ + down.held]
    /\ UNCHANGED <<flt, lockR, app, push, flushes, sessions>>

\* EndFlush, for which the source has stopped its thread.  The renderer leaves the flush first,
\* then samples are let in again and the thread goes on.
EndFlush ==
    /\ seek = "flushing" /\ lockF = "free" /\ push.pc = "idle"
    /\ lockF' = "seek" /\ seek' = "end"
    /\ down' = [down EXCEPT !.flushing = FALSE]
    /\ UNCHANGED <<flt, lockR, app, push, out, flushes, sessions>>
EndFlushes ==
    /\ seek = "end"
    /\ flt' = [flt EXCEPT !.flushing = FALSE, !.runTimeError = FALSE]
    /\ lockF' = "free" /\ seek' = "idle" /\ flushes' = flushes + 1
    /\ push' = [push EXCEPT !.ok = @ \/ flt.state # "stopped"]
    /\ UNCHANGED <<lockR, app, down, out, sessions>>

Control == StopEnter \/ StopLocked \/ SourceStops \/ PauseEnter \/ PauseStarts \/ PauseActivates
Streaming == PushEnters \/ PushGetsBuffer \/ PushTransforms \/ PushDelivers \/ PushLeaves
Flushing == BeginFlush \/ DeliverBeginFlush \/ EndFlush \/ EndFlushes
Next ==
    \/ GraphStops \/ GraphPauses \/ GraphRuns \/ Reconnects \/ DownReleases
    \/ Control \/ PushCalls \/ PushEnds \/ Streaming \/ FlushCalls \/ Flushing

\* Each thread goes on once it has started a call; nobody need start one.
Fairness ==
    /\ WF_vars(Control) /\ WF_vars(Streaming) /\ WF_vars(DownReleases) /\ WF_vars(Flushing)
    /\ SF_vars(BeginFlush) /\ SF_vars(EndFlush) /\ SF_vars(StopEnter) /\ SF_vars(StopLocked) /\ SF_vars(PauseEnter)
    /\ SF_vars(PauseStarts) /\ SF_vars(PushEnters) /\ SF_vars(SourceStops)
Spec == Init /\ [][Next]_vars /\ Fairness

-----------------------------------------------------------------------------
\* Every variable has its type.
TypeOK ==
    /\ flt.state \in {"stopped", "paused", "running"} /\ lockF \in {"free", "app", "seek"}
    /\ lockR \in {"free", "push"} /\ seek \in {"idle", "call", "begin", "flushing", "end"}
    /\ out.free \in 0..Buffers /\ down.held \in 0..Buffers /\ flushes \in 0..MaxFlushes

\* Every output buffer is free, with the filter or kept by the renderer, whatever became of the
\* sample: delivered, refused, dropped or failed.
BuffersAccounted ==
    Buffers = out.free + down.held + (IF push.buffer /\ down.keeps = 0 THEN 1 ELSE 0)

\* Transform runs between StartStreaming and StopStreaming only.
TransformsWhileStreaming == push.pc = "transform" => flt.streaming

\* A renderer below a filter without input is told the end of the stream whenever the filter is
\* active, in each session anew.
RendererDoesNotWait ==
    flt.state # "stopped" /\ flt.conn = {"out"} /\ app.pc = "idle" /\ down.state # "stopped" => down.eos

\* m_bSampleSkipped never says a frame was skipped when the last one was delivered.
NoFalseSkip == flt.skipped => flt.dropped

\* "Did we just skip a frame": the flag says so until the next sample is delivered.
SkippedIsRemembered == flt.dropped /\ flt.state # "stopped" => flt.skipped

\* After the run time error EndOfStream was called, which "passes straight downstream".
RunTimeErrorEndsStream == flt.runTimeError /\ ~flt.flushing => down.eos

\* Stop and a flush return, wherever streaming is, even when Receive is blocked in a paused
\* renderer or waits for a buffer the renderer keeps.
CallsEnd ==
    /\ (app.op = "stop" /\ app.pc # "idle") ~> (app.pc = "idle")
    /\ (seek # "idle") ~> (seek = "idle")
================================================================================
