----------------------------- MODULE StreamControl -----------------------------
(***************************************************************************)
(* CBaseStreamControl: an application asks for the stream of a pin to start*)
(* and stop at given times; the pin's streaming thread asks for each sample*)
(* whether to pass it on, and is held back while a sample is discarded.    *)
(* StopAt, StartAt, NotifyFilterState, Flushing and CheckSampleTimes hold  *)
(* m_CritSec; CheckStreamState does not.  One unit of time is 10 ms.       *)
(***************************************************************************)
EXTENDS Integers

CONSTANTS
    Never,          \* MAX_TIME: no such request
    Stops, Starts,  \* times an application asks for; Never cancels, Now is a NULL pointer
    Now,
    SendExtra,      \* what bSendExtra may be
    Times,          \* positions of the stream
    Lengths,        \* of samples, 0 for one without time stamps
    MaxCalls,       \* bound: StopAt and StartAt
    MaxChanges      \* bound: changes of the filter's state, flushes

StreamControlAssumption ==
    /\ Times \subseteq Nat /\ Never \in Nat /\ \A t \in Times : t < Never
    /\ Now \in Int \ Nat /\ Lengths \subseteq Nat /\ SendExtra \subseteq BOOLEAN
    /\ Stops \subseteq Times \cup {Never, Now} /\ Starts \subseteq Times \cup {Never, Now}

VARIABLES
    c,              \* the members of the object
    event,          \* m_StreamEvent, reset when a wait ends
    clock,          \* a reference clock is set
    now,            \* stream time
    push,           \* the streaming thread and the sample it asks about
    position,       \* where the next sample starts
    calls, changes

vars == <<c, event, clock, now, push, position, calls, changes>>

Init ==
    /\ c = [stream |-> "flowing", onStop |-> "flowing", start |-> Never, stop |-> Never,
            sendExtra |-> FALSE, extraSent |-> FALSE, flushing |-> FALSE, state |-> "stopped",
            disordered |-> FALSE, stoppedHere |-> FALSE, extras |-> 0]
    /\ event = FALSE /\ clock \in BOOLEAN /\ now = 0 /\ position = 0 /\ calls = 0 /\ changes = 0
    /\ push = [pc |-> "idle", from |-> 0, to |-> 0, state |-> "flowing", should |-> "flowing", asserts |-> TRUE, lone |-> FALSE]

-----------------------------------------------------------------------------
\* StopAt and StartAt.
CancelStop(x) == [x EXCEPT !.stop = Never, !.onStop = "flowing"]
CancelStart(x) == [x EXCEPT !.start = Never]

Before(x, begins) == IF x.state = "stopped" THEN begins ELSE x.stream
NoExtra(x) == [x EXCEPT !.sendExtra = FALSE, !.extraSent = FALSE, !.extras = 0]
StopAt(t, extra) ==
    LET x == NoExtra(c) IN
    /\ calls < MaxCalls /\ calls' = calls + 1
    /\ c' = CASE t = Never -> [CancelStop(x) EXCEPT !.stream = IF x.start < Never THEN Before(x, "discarding") ELSE @]
              [] t = Now -> [CancelStop(x) EXCEPT !.stream = "discarding"]
              [] OTHER -> [x EXCEPT !.stream = IF x.start > t THEN Before(x, "flowing") ELSE @,
                                    !.sendExtra = extra, !.stop = t, !.onStop = "discarding"]
    /\ event' = (event \/ t # Never)
    /\ UNCHANGED <<clock, now, push, position, changes>>

\* A slip in StartAt: the event is not set.
StartAt_Silent(t) ==
    /\ calls < MaxCalls /\ calls' = calls + 1
    /\ c' = CASE t = Never -> [CancelStart(c) EXCEPT !.stream = IF c.stop < Never THEN Before(c, "flowing") ELSE @]
              [] t = Now -> [CancelStart(c) EXCEPT !.stream = "flowing"]
              [] OTHER -> [c EXCEPT !.stream = IF c.stop >= t THEN Before(c, "discarding") ELSE @, !.start = t]
    /\ UNCHANGED <<event, clock, now, push, position, changes>>

StartAt(t) ==
    /\ calls < MaxCalls /\ calls' = calls + 1
    /\ c' = CASE t = Never -> [CancelStart(c) EXCEPT !.stream = IF c.stop < Never THEN Before(c, "flowing") ELSE @]
              [] t = Now -> [CancelStart(c) EXCEPT !.stream = "flowing"]
              [] OTHER -> [c EXCEPT !.stream = IF c.stop >= t THEN Before(c, "discarding") ELSE @, !.start = t]
    /\ event' = (event \/ t # Never)
    /\ UNCHANGED <<clock, now, push, position, changes>>
AppStops == \E t \in Stops, extra \in SendExtra : StopAt(t, extra)
AppStarts == \E t \in Starts : StartAt(t)

-----------------------------------------------------------------------------
\* A request is carried out: its event is sent to the graph and it is forgotten.  The ghosts note
\* an event sent before that of an earlier request, and that a stop took place in this session.
ExecuteStop(x) ==
    [CancelStop(x) EXCEPT !.stream = x.onStop, !.disordered = @ \/ x.start <= x.stop, !.stoppedHere = TRUE]
ExecuteStart(x) ==
    [CancelStart(x) EXCEPT !.stream = "flowing", !.disordered = @ \/ x.stop < x.start]
ExecuteBoth(x) ==
    IF x.start <= x.stop THEN ExecuteStop(ExecuteStart(x)) ELSE ExecuteStart(ExecuteStop(x))

\* NotifyFilterState; stopping carries out what is pending.
AllExecuted(x) ==
    CASE x.start # Never /\ x.stop = Never -> ExecuteStart(x)
      [] x.start = Never /\ x.stop # Never -> ExecuteStop(x)
      [] x.start # Never /\ x.stop # Never -> ExecuteBoth(x)
      [] OTHER -> x
NotifyFilterState(new) ==
    /\ changes < MaxChanges /\ changes' = changes + 1 /\ event' = TRUE
    /\ c' = IF new = "stopped"
            THEN [AllExecuted(c) EXCEPT !.stream = "flowing", !.state = new, !.stoppedHere = FALSE]
            ELSE [c EXCEPT !.state = new]
    /\ IF new = "stopped" THEN now' = 0 /\ position' = 0 ELSE UNCHANGED <<now, position>>
    /\ UNCHANGED <<clock, push, calls>>
FilterStops == c.state # "stopped" /\ NotifyFilterState("stopped")
FilterPauses == c.state # "paused" /\ NotifyFilterState("paused")
FilterRuns == c.state = "paused" /\ NotifyFilterState("running")

Flushing ==
    /\ changes < MaxChanges /\ changes' = changes + 1 /\ event' = TRUE
    /\ c' = [c EXCEPT !.flushing = TRUE]
    /\ UNCHANGED <<clock, now, push, position, calls>>
\* Flushing(FALSE), for which the streaming thread is idle; the source begins anew.
Flushed ==
    /\ c.flushing /\ push.pc = "idle" /\ event' = TRUE /\ position' = 0
    /\ c' = [c EXCEPT !.flushing = FALSE]
    /\ UNCHANGED <<clock, now, push, calls, changes>>
FilterFlushes == ~c.flushing /\ Flushing

Tick ==
    /\ c.state = "running" /\ now + 1 \in Times /\ now' = now + 1
    /\ UNCHANGED <<c, event, clock, push, position, calls, changes>>

-----------------------------------------------------------------------------
\* CheckSampleTimes for a sample that covers from..to-1.
Executed(x, from, to) ==
    CASE x.stop >= from /\ x.start >= to -> x
      [] x.stop >= from /\ x.start < to -> ExecuteStart(IF x.stop < x.start THEN ExecuteStop(x) ELSE x)
      [] x.stop < from /\ x.start >= to -> ExecuteStop(x)
      [] x.stop < from /\ x.start < to -> ExecuteBoth(x)

\* What the rules above CheckSampleTimes ask for: a start goes before a stop of the same time, a
\* request is inside the sample from its first moment on, and the sample is sent if any part of it is.
\* A stop then leaves the stream discarding.
StateAfter(x, first, last, state) ==
    IF x.start \notin first..last /\ x.stop \notin first..last THEN state
    ELSE IF x.start \in first..last /\ (x.stop \notin first..last \/ x.stop < x.start) THEN "flowing"
    ELSE "discarding"
Should(x, from, to) ==
    LET entry == StateAfter(x, 0, from - 1, x.stream) IN
    IF entry = "flowing" \/ x.start \in from..(to - 1) THEN "flowing" ELSE "discarding"

-----------------------------------------------------------------------------
\* CheckStreamState.  The flags are read without the lock.
Asks ==
    /\ push.pc = "idle" /\ ~c.flushing /\ c.state # "stopped"
    /\ \E n \in Lengths : position + n \in Times /\ position' = position + n
          /\ push' = [push EXCEPT !.pc = "check", !.from = position, !.to = position + n]
    /\ UNCHANGED <<c, event, clock, now, calls, changes>>
Checks ==
    /\ push.pc = "check"
    /\ push' = [push EXCEPT !.pc = IF c.flushing \/ c.state = "stopped" \/ push.from = push.to THEN "idle" ELSE "times"]
    /\ UNCHANGED <<c, event, clock, now, position, calls, changes>>
CheckSampleTimes ==
    /\ push.pc = "times"
    /\ c' = Executed(c, push.from, push.to)
    /\ push' = [push EXCEPT !.pc = IF c'.stream = "flowing" THEN "idle" ELSE "discard",
                            !.state = c'.stream, !.should = Should(c, push.from, push.to),
                            !.asserts = @ /\ ~c.flushing]
    /\ UNCHANGED <<event, clock, now, position, calls, changes>>

\* Discarding: one extra sample may be due; without a clock the sample is dropped at once, and
\* when it is nearly time for it; while paused the wait has no end.
ExtraDue == c.sendExtra /\ ~c.extraSent /\ c.stop = Never /\ c.state # "stopped"
SendsExtra ==
    /\ push.pc = "discard" /\ ExtraDue
    /\ c' = [c EXCEPT !.extraSent = TRUE, !.extras = @ + 1]
    /\ push' = [push EXCEPT !.pc = "idle", !.lone = @ \/ ~c.stoppedHere]
    /\ UNCHANGED <<event, clock, now, position, calls, changes>>
Discards ==
    /\ push.pc = "discard" /\ ~ExtraDue
    /\ push' = [push EXCEPT !.pc = IF ~clock \/ (c.state # "paused" /\ push.from <= now) THEN "idle"
                                   ELSE IF c.state = "paused" THEN "hold" ELSE "wait"]
    /\ UNCHANGED <<c, event, clock, now, position, calls, changes>>
Wakes ==
    /\ push.pc \in {"wait", "hold"} /\ event
    /\ event' = FALSE /\ push' = [push EXCEPT !.pc = "check"]
    /\ UNCHANGED <<c, clock, now, position, calls, changes>>
TimesOut ==
    /\ push.pc = "wait" /\ ~event /\ push.from <= now
    /\ push' = [push EXCEPT !.pc = "idle"]
    /\ UNCHANGED <<c, event, clock, now, position, calls, changes>>

Streaming == Checks \/ CheckSampleTimes \/ SendsExtra \/ Discards \/ Wakes \/ TimesOut
Next ==
    \/ AppStops \/ AppStarts \/ FilterStops \/ FilterPauses \/ FilterRuns \/ FilterFlushes \/ Flushed
    \/ Tick \/ Asks \/ Streaming
\* The streaming thread runs on; the filter and the application need do nothing.
Fairness == WF_vars(Streaming)
Spec == Init /\ [][Next]_vars /\ Fairness

-----------------------------------------------------------------------------
\* Every variable has its type.
TypeOK ==
    /\ c.stream \in {"flowing", "discarding"} /\ c.onStop \in {"flowing", "discarding"}
    /\ (c.onStop = "discarding") = (c.stop # Never)
    /\ c.start \in Times \cup {Never} /\ c.stop \in Times \cup {Never} /\ now \in Times /\ position \in Times
    /\ push.pc \in {"idle", "check", "times", "discard", "hold", "wait"}

\* The decision on a sample is the one the rules of the 19 cases ask for.
FlowsIfAnyPartShould == push.pc # "times" => push.state = push.should

\* The events of requests are sent in the order of their times, a start before a stop.
EventsInOrder == ~c.disordered

\* A sample leaves no request behind that lies before it, and no start inside it.
PastIsForgotten ==
    [][CheckSampleTimes => c'.start >= push.to /\ c'.stop >= push.from]_vars

\* A sample that waits to be discarded is let go only at its time or to ask again: a request that
\* came in the meantime is seen.
NoRequestMissed ==
    [][TimesOut => Executed(c, push.from, push.to).stream = "discarding"]_vars

\* At most one more sample is sent for a StopAt that asks for it.
OneExtraSample == c.extras <= 1

\* "Told to send one more": the extra sample follows a stop of the same session.
ExtraFollowsStop == ~push.lone

\* Before the first run the stream begins in the state before the first of the pending requests.
BeginsAsAsked ==
    c.state = "stopped" /\ ~(c.start = Never /\ c.stop = Never) =>
        c.stream = IF c.start <= c.stop THEN "discarding" ELSE "flowing"

\* CheckSampleTimes asserts that no flush is in progress.
NotFlushing == push.asserts

\* A sample held back is let go when the filter stops or flushes, also from the endless wait.
HeldIsReleased ==
    (push.pc # "idle" /\ (c.flushing \/ c.state = "stopped")) ~> (push.pc = "idle" \/ ~(c.flushing \/ c.state = "stopped"))
================================================================================
