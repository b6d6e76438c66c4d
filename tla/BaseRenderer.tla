------------------------------ MODULE BaseRenderer ------------------------------
(***************************************************************************)
(* CBaseRenderer and its input pin: an application thread that stops,      *)
(* pauses, runs and flushes; the source's thread in Receive, which waits   *)
(* for the clock without a lock; the clock's and the end of stream timer's *)
(* threads; and a window thread.  A step that holds m_InterfaceLock from   *)
(* its first line to its last is one action; app.at is "free" when no call *)
(* of the application holds it.                                            *)
(***************************************************************************)
EXTENDS Integers, FiniteSets

CONSTANTS
    Clock,          \* the graph has a clock
    TypeFails,      \* a sample may carry a type the renderer refuses
    Cookies         \* bound: advises that are with the clock at a time

BaseRendererAssumption ==
    /\ Clock \in BOOLEAN /\ TypeFails \in BOOLEAN
    /\ Cookies \subseteq Nat \ {0} /\ IsFiniteSet(Cookies)

VARIABLES
    r,              \* the renderer's and its pin's members; sent counts EC_COMPLETE
    clock,          \* the clock's advises that have not fired
    app,            \* the application thread
    src,            \* the source's thread
    falseErrors     \* EC_ERRORABORT sent though nothing was refused

vars == <<r, clock, app, src, falseErrors>>

Free == app = "free"
Stopped == "stopped"
Paused == "paused"
Running == "running"

Init ==
    /\ r = [state |-> Stopped, connected |-> FALSE, streaming |-> FALSE, ready |-> TRUE,
            signal |-> FALSE, event |-> FALSE, advise |-> 0, media |-> FALSE, eos |-> FALSE,
            delivered |-> FALSE, timer |-> FALSE, abort |-> FALSE, inReceive |-> FALSE,
            flushing |-> FALSE, error |-> FALSE, sent |-> 0]
    /\ clock = {} /\ app = "free"
    /\ src = [at |-> "idle", ended |-> FALSE, refused |-> FALSE]
    /\ falseErrors = 0

-----------------------------------------------------------------------------
\* The members' own functions, from one state of the renderer to the next.
ClearPendingSample(x) == [x EXCEPT !.media = FALSE]
StopStreaming(x) == [x EXCEPT !.streaming = FALSE, !.delivered = FALSE, !.sent = 0]

\* A slip in ResetEndOfStream: the timer goes on.
ResetEndOfStream_KeepsTimer(x) == [x EXCEPT !.eos = FALSE, !.delivered = FALSE, !.sent = 0]

ResetEndOfStream(x) == [x EXCEPT !.timer = FALSE, !.eos = FALSE, !.delivered = FALSE, !.sent = 0]
CancelNotification(x) == [x EXCEPT !.advise = 0, !.event = FALSE]
Unadvise(x) == clock \ {x.advise}

\* The state is complete when there is nothing to wait for.
CompleteStateChange(x, old) ==
    [x EXCEPT !.ready = ~x.connected \/ x.eos \/ (x.media /\ old # Stopped)]

\* ScheduleSample: drawn now, when its time comes, or not at all.
Ways == IF Clock THEN {"now", "later", "drop"} ELSE {"now", "drop"}
NewCookie == CHOOSE c \in Cookies : c \notin clock
Schedule(x, how) ==
    CASE how = "now"   -> [x EXCEPT !.event = TRUE]
      [] how = "later" -> [x EXCEPT !.advise = NewCookie]
      [] how = "drop"  -> x
Advised(how) == IF how = "later" THEN {NewCookie} ELSE {}

\* The end of the stream is told once, now or by the timer.
Tells(x) == x.eos /\ ~x.delivered /\ ~x.timer
NotifyEndOfStream(x) ==
    IF x.streaming THEN [x EXCEPT !.timer = FALSE, !.delivered = TRUE, !.sent = @ + 1] ELSE x
SendEndOfStream(x, long) ==
    IF ~Tells(x) THEN x
    ELSE IF Clock /\ long THEN [x EXCEPT !.timer = TRUE]
    ELSE NotifyEndOfStream(x)

StartStreaming(x, how, long) ==
    IF ~x.media THEN SendEndOfStream([x EXCEPT !.streaming = TRUE], long)
    ELSE IF how = "drop" THEN [x EXCEPT !.streaming = TRUE, !.event = TRUE]
    ELSE Schedule([x EXCEPT !.streaming = TRUE], how)

-----------------------------------------------------------------------------
\* The application thread.  It pauses or runs a stopped graph when the source's
\* thread has ended, and does so outside a flush.
MayStart == Free /\ ~r.flushing /\ (r.state = Stopped => src.at = "idle")
Connect ==
    /\ Free /\ r.state = Stopped /\ src.at = "idle"
    /\ r' = IF r.connected
            THEN ClearPendingSample(ResetEndOfStream([r EXCEPT !.connected = FALSE, !.abort = FALSE]))
            ELSE [r EXCEPT !.connected = TRUE, !.abort = FALSE]
    /\ UNCHANGED <<clock, app, src, falseErrors>>

PauseNow(x) ==
    LET y == [CancelNotification(StopStreaming(x)) EXCEPT
                 !.state = Paused, !.signal = FALSE, !.timer = FALSE]
        z == IF x.state = Stopped THEN ClearPendingSample([y EXCEPT !.abort = FALSE]) ELSE y
    IN CompleteStateChange(z, x.state)

Pause ==
    /\ MayStart
    /\ IF r.connected /\ r.state # Paused
       THEN r' = PauseNow(r) /\ clock' = Unadvise(r)
       ELSE /\ r' = CompleteStateChange([r EXCEPT !.state = Paused], Paused)
            /\ UNCHANGED clock
    /\ UNCHANGED <<app, src, falseErrors>>

\* Run of a stopped filter pauses it first; how and long are the clock's.
Run ==
    \E how \in Ways, long \in BOOLEAN :
        LET y == IF r.state = Stopped THEN PauseNow([r EXCEPT !.ready = TRUE]) ELSE [r EXCEPT !.ready = TRUE]
            z == StartStreaming([y EXCEPT !.state = Running, !.signal = FALSE], how, long)
        IN
        /\ MayStart /\ r.state # Running
        /\ how = "later" => Cookies \ clock # {}
        /\ IF r.connected
           THEN /\ r' = z
                /\ clock' = clock \cup IF z.media THEN Advised(how) ELSE {}
           ELSE r' = [r EXCEPT !.state = Running] /\ UNCHANGED clock
        /\ UNCHANGED <<app, src, falseErrors>>

\* A slip in Stop: who waits in Receive for the time of its sample is not woken.
Stop_KeepsSignal ==
    /\ Free /\ ~r.flushing /\ r.state # Stopped
    /\ IF r.connected
       THEN /\ r' = [CancelNotification(ResetEndOfStream(StopStreaming(ClearPendingSample(r)))) EXCEPT
                        !.state = Stopped, !.error = FALSE, !.ready = TRUE]
            /\ clock' = Unadvise(r) /\ app' = "stop"
       ELSE r' = [r EXCEPT !.state = Stopped] /\ UNCHANGED <<clock, app>>
    /\ UNCHANGED <<src, falseErrors>>

\* Stop up to its wait for Receive; the pin is inactive first.
Stop ==
    /\ Free /\ ~r.flushing /\ r.state # Stopped
    /\ IF r.connected
       THEN /\ r' = [CancelNotification(ResetEndOfStream(StopStreaming(ClearPendingSample(r)))) EXCEPT
                        !.state = Stopped, !.signal = TRUE, !.error = FALSE, !.ready = TRUE]
            /\ clock' = Unadvise(r) /\ app' = "stop"
       ELSE r' = [r EXCEPT !.state = Stopped] /\ UNCHANGED <<clock, app>>
    /\ UNCHANGED <<src, falseErrors>>

\* WaitForReceiveToComplete, and the rest of Stop: the source begins anew.
StopReturns ==
    /\ app = "stop" /\ ~r.inReceive
    /\ r' = [r EXCEPT !.abort = FALSE] /\ app' = "free"
    /\ src' = [src EXCEPT !.ended = FALSE]
    /\ UNCHANGED <<clock, falseErrors>>

\* BeginFlush keeps the renderer's lock too while it waits.
BeginFlush ==
    /\ Free /\ ~r.flushing /\ r.connected /\ r.state # Stopped
    /\ r' = [ClearPendingSample(CancelNotification(r)) EXCEPT
                !.flushing = TRUE, !.signal = TRUE, !.ready = @ /\ r.state # Paused]
    /\ clock' = Unadvise(r) /\ app' = "flush"
    /\ UNCHANGED <<src, falseErrors>>

BeginFlushReturns ==
    /\ app = "flush" /\ ~r.inReceive
    /\ r' = ResetEndOfStream(r) /\ app' = "free"
    /\ UNCHANGED <<clock, src, falseErrors>>

\* The source ends a flush when its thread has left Receive.
EndFlush ==
    /\ Free /\ r.flushing /\ src.at = "idle"
    /\ r' = [r EXCEPT !.flushing = FALSE, !.signal = FALSE, !.error = FALSE]
    /\ src' = [src EXCEPT !.ended = FALSE]
    /\ UNCHANGED <<clock, app, falseErrors>>

-----------------------------------------------------------------------------
\* The source's thread.
StreamingOk == r.state # Stopped /\ ~r.flushing /\ ~r.error
To(pc) == src' = [src EXCEPT !.at = pc]

\* PrepareReceive: refused, dropped, or pending; "type" is a refused type.
PrepareReceive ==
    \E how \in Ways \cup (IF TypeFails THEN {"type"} ELSE {}) :
        /\ Free /\ src.at = "idle" /\ ~src.ended /\ r.connected
        /\ how = "later" => Cookies \ clock # {}
        /\ IF ~StreamingOk \/ how = "type"
           THEN /\ r' = r
                /\ src' = [src EXCEPT !.at = "failed", !.refused = StreamingOk]
                /\ UNCHANGED clock
           ELSE IF r.media \/ r.eos \/ r.abort
           THEN /\ r' = [r EXCEPT !.ready = TRUE]
                /\ src' = [src EXCEPT !.at = "failed", !.refused = TRUE]
                /\ UNCHANGED clock
           ELSE IF r.streaming /\ how = "drop"
           THEN r' = r /\ UNCHANGED <<src, clock>>
           ELSE /\ r' = [(IF r.streaming THEN Schedule(r, how) ELSE r) EXCEPT !.media = TRUE, !.inReceive = TRUE]
                /\ clock' = clock \cup IF r.streaming THEN Advised(how) ELSE {}
                /\ To("check")
        /\ UNCHANGED <<app, falseErrors>>

\* The state is read without a lock; a paused renderer gives its lock away.
CheckState ==
    /\ src.at = "check"
    /\ IF r.state = Paused
       THEN r' = [r EXCEPT !.inReceive = FALSE] /\ To("first")
       ELSE r' = r /\ To("wait")
    /\ UNCHANGED <<clock, app, falseErrors>>

FirstSample ==
    /\ src.at = "first" /\ Free
    /\ IF r.state = Stopped
       THEN r' = r /\ To("idle")
       ELSE r' = [r EXCEPT !.inReceive = TRUE] /\ To("ready")
    /\ UNCHANGED <<clock, app, falseErrors>>

FirstReady ==
    /\ src.at = "ready" /\ To("wait")
    /\ r' = [r EXCEPT !.ready = TRUE]
    /\ UNCHANGED <<clock, app, falseErrors>>

\* WaitForRenderTime: a state change before a sample's time.
WaitEnds ==
    /\ src.at = "wait" /\ (r.signal \/ r.event)
    /\ IF r.signal
       THEN r' = [r EXCEPT !.inReceive = FALSE] /\ To("idle")
       ELSE r' = [r EXCEPT !.event = FALSE] /\ To("fired")
    /\ UNCHANGED <<clock, app, falseErrors>>

SignalTimerFired ==
    /\ src.at = "fired" /\ To("render")
    /\ r' = [r EXCEPT !.advise = 0, !.inReceive = FALSE]
    /\ UNCHANGED <<clock, app, falseErrors>>

\* The end of Receive; the locks were given away, so the state is looked at again.
Render ==
    \E long \in BOOLEAN :
        LET y == SendEndOfStream(ClearPendingSample(r), long) IN
        /\ src.at = "render" /\ Free /\ To("idle")
        /\ IF r.state = Stopped
           THEN UNCHANGED <<r, clock>>
           ELSE r' = CancelNotification(y) /\ clock' = Unadvise(r)
        /\ UNCHANGED <<app, falseErrors>>

\* CRendererInputPin::Receive after a failure: the graph is told once, unless
\* the state explains it.
ReceiveFails ==
    LET y == IF r.streaming /\ ~r.delivered THEN NotifyEndOfStream(r) ELSE r IN
    /\ src.at = "failed" /\ Free
    /\ src' = [src EXCEPT !.at = "idle", !.refused = FALSE]
    /\ IF StreamingOk /\ ~r.abort
       THEN /\ r' = [y EXCEPT !.error = TRUE]
            /\ falseErrors' = IF src.refused THEN falseErrors ELSE 1
       ELSE UNCHANGED <<r, falseErrors>>
    /\ UNCHANGED <<clock, app>>

\* EndOfStream, again if the source will: told after the sample that is pending.
EndOfStream ==
    \E long \in BOOLEAN :
        LET x == [r EXCEPT !.eos = TRUE]
            y == IF x.media THEN x
                 ELSE IF x.streaming THEN SendEndOfStream([x EXCEPT !.ready = TRUE], long)
                 ELSE [x EXCEPT !.ready = TRUE]
        IN
        /\ Free /\ src.at = "idle" /\ r.connected
        /\ src' = [src EXCEPT !.ended = TRUE]
        /\ IF StreamingOk THEN r' = y ELSE UNCHANGED r
        /\ UNCHANGED <<clock, app, falseErrors>>

-----------------------------------------------------------------------------
\* The other threads: an advise or the timer fires, the display changes.
ClockFires ==
    \E c \in clock :
        /\ clock' = clock \ {c} /\ r' = [r EXCEPT !.event = TRUE]
        /\ UNCHANGED <<app, src, falseErrors>>

TimerCallback ==
    \E long \in BOOLEAN :
        LET y == SendEndOfStream([r EXCEPT !.timer = FALSE], long) IN
        /\ app # "flush" /\ r.timer
        /\ r' = y
        /\ UNCHANGED <<clock, app, src, falseErrors>>

OnDisplayChange ==
    /\ app # "flush" /\ r.connected
    /\ r' = ClearPendingSample([r EXCEPT !.abort = TRUE])
    /\ UNCHANGED <<clock, app, src, falseErrors>>

AppNext == Connect \/ Pause \/ Run \/ Stop \/ BeginFlush
AppReturns == StopReturns \/ BeginFlushReturns \/ EndFlush
SrcNext == PrepareReceive \/ EndOfStream
SrcReturns ==
    CheckState \/ FirstSample \/ FirstReady \/ WaitEnds \/ SignalTimerFired \/ Render \/ ReceiveFails

Next ==
    \/ AppNext \/ AppReturns \/ SrcNext \/ SrcReturns
    \/ ClockFires \/ TimerCallback \/ OnDisplayChange

\* The threads run, the source delivers what it has, the clock comes to each
\* time, and a timer that is set again and again comes to the end in the end.
Fairness ==
    /\ WF_vars(AppReturns) /\ WF_vars(SrcNext) /\ SF_vars(SrcReturns)
    /\ WF_vars(ClockFires) /\ SF_vars(TimerCallback /\ ~r'.timer)

Spec == Init /\ [][Next]_vars /\ Fairness

-----------------------------------------------------------------------------
\* Every variable has its type.
TypeOK ==
    /\ r.state \in {Stopped, Paused, Running} /\ r.advise \in Cookies \cup {0}
    /\ clock \subseteq Cookies /\ app \in {"free", "stop", "flush"}
    /\ src.at \in {"idle", "check", "first", "ready", "wait", "fired", "render", "failed"}
    /\ r.inReceive => src.at \in {"check", "ready", "wait", "fired"}

\* "There should be no outstanding advise" and no end of stream timer: a
\* stopped renderer holds no sample, streams nothing and has nothing set.
StoppedIsEmpty ==
    r.state = Stopped => ~r.media /\ ~r.streaming /\ ~r.timer /\ ~r.eos /\ r.advise = 0

\* EC_COMPLETE is sent once for each run to the end.
ToldOnce == r.sent <= 1

\* A stale sample is never taken for a new one, and EC_COMPLETE is for the last:
\* while a sample is pending the end has not been told.
EndAfterLastSample == r.streaming /\ r.delivered /\ ~r.error => ~r.media /\ r.eos

\* A sample that is refused for a flush or a stop is not an error of the graph.
NoFalseError == falseErrors = 0

\* Stop and BeginFlush wait for Receive, which waits for their lock: both return.
CallsReturn == (app # "free") ~> Free

\* "the source filter must call end of stream on us or send us an image
\* otherwise we'll hang": when it does, the pause is complete in the end.
PauseCompletes == <>[](r.state = Paused /\ r.connected /\ ~r.flushing /\ ~r.abort /\ ~r.error) => []<>r.ready

\* At the end of the stream a running renderer says so, whatever was pending.
CompleteIsSent == (r.state = Running /\ r.eos) ~> (r.delivered \/ r.state # Running \/ ~r.eos)

\* "calling GetState after either being stopped or Run will NOT return this".
RunIsComplete == r.state = Running /\ Free => r.ready

\* "if the m_bAbort flag has been set then all samples are rejected so there is
\* no point waiting for one".
AbortedPauseIsComplete ==
    [][r.state = Running /\ r'.state = Paused /\ r'.abort => r'.ready]_vars

\* "There should be no outstanding clock advise" after Stop.
NoStrayAdvise == r.state = Stopped /\ Free => clock = {}

\* "If paused then report state intermediate until we get some data".
FlushIsIntermediate == r.state = Paused /\ r.flushing /\ Free => ~r.ready
=============================================================================
