------------------------------- MODULE RefClock -------------------------------
(***************************************************************************)
(* CBaseReferenceClock with its schedule and its advise thread.  Time is   *)
(* counted in half milliseconds, of which the system timer counts only the *)
(* whole ones, in a counter that wraps; the clock may be corrected.        *)
(***************************************************************************)
EXTENDS Integers, Sequences, SequencesExt

\* CAMSchedule: the notifications a clock owes, in the order of their times.
\* The list ends in a sentry with the time MAX_TIME; here it is a sequence and
\* the sentry is what one finds beyond its end.  Every method holds m_Serialize,
\* Advise over several steps.
CONSTANTS MAX_TIME, MaxPackets
ScheduleAssumption == MAX_TIME \in Nat /\ MaxPackets \in Nat

VARIABLES
    packets,    \* the list: cookie, time and period (0 for a single event)
    nextCookie, \* m_dwNextCookie
    count,      \* m_dwAdviseCount
    ev,         \* m_ev is set
    serialize,  \* m_Serialize is held by Advise
    signals,    \* history: how often the handle of each cookie was signalled
    cancelled   \* history: cookies that Unadvise has removed

scheduleVars == <<packets, nextCookie, count, ev, serialize, signals, cancelled>>

ScheduleInit ==
    /\ packets = <<>> /\ nextCookie = 0 /\ count = 0
    /\ ev = FALSE /\ serialize = FALSE
    /\ signals = [c \in 1..MaxPackets |-> 0] /\ cancelled = {}

Packet(cookie, time, period) == [cookie |-> cookie, time |-> time, period |-> period]

GetNextAdviseTime == IF packets = <<>> THEN MAX_TIME ELSE Head(packets).time

\* Before the first packet that is not earlier.
PlaceOf(time) ==
    1 + Len(SelectSeq(packets, LAMBDA p : p.time < time))

\* A packet that becomes the first one wakes whoever waits for the schedule.
WakesThread(place) == place = 1

\* Memory for a packet may be short; nothing happens then.
AddAdvisePacket(time, period) ==
    /\ ~serialize /\ nextCookie < MaxPackets
    /\ nextCookie' = nextCookie + 1
    /\ packets' = InsertAt(packets, PlaceOf(time), Packet(nextCookie + 1, time, period))
    /\ count' = count + 1
    /\ ev' = (ev \/ WakesThread(PlaceOf(time)))
    /\ UNCHANGED <<serialize, signals, cancelled>>

\* A cookie that is not on the list (any more) is refused with S_FALSE.
Unadvise(cookie) ==
    /\ ~serialize
    /\ \E i \in DOMAIN packets :
          /\ packets[i].cookie = cookie
          /\ packets' = RemoveAt(packets, i)
    /\ count' = count - 1
    /\ cancelled' = cancelled \cup {cookie}
    /\ UNCHANGED <<nextCookie, ev, serialize, signals>>

\* A due periodic packet goes behind all that are not later than its new time.
ShuntHead(p) ==
    LET earlier == Len(SelectSeq(Tail(packets), LAMBDA q : q.time <= p.time))
    IN  InsertAt(Tail(packets), earlier + 1, p)

AdviseEnter == ~serialize /\ serialize' = TRUE

Due(time) == time >= GetNextAdviseTime /\ packets # <<>>

RemoveOneShot == packets' = Tail(packets) /\ count' = count - 1

\* One turn of the loop of Advise: the first packet is due and is signalled.
AdviseSignal(time) ==
    /\ Due(time)
    /\ LET p == Head(packets)
       IN  /\ signals' = [signals EXCEPT ![p.cookie] = @ + 1]
           /\ IF p.period > 0
              THEN packets' = ShuntHead([p EXCEPT !.time = @ + p.period]) /\ UNCHANGED count
              ELSE RemoveOneShot
    /\ UNCHANGED <<nextCookie, ev, serialize, cancelled>>

-----------------------------------------------------------------------------
\* CBaseReferenceClock.
CONSTANTS
    Wrap,       \* timeGetTime counts milliseconds modulo Wrap (2^32 in the code)
    Deltas,     \* corrections a program makes, in half milliseconds
    Times,      \* times a program asks to be notified at
    Periods,    \* periods, with 0 for a single notification
    MaxTime,    \* bound: milliseconds an execution lasts
    MaxDeltas   \* bound: corrections

ClockAssumption ==
    /\ Wrap \in Nat \ {0} /\ Wrap % 2 = 0
    /\ Deltas \subseteq Int /\ Times \subseteq 1..(MAX_TIME - 1) /\ Periods \subseteq Nat
    /\ MaxTime \in Nat /\ MaxDeltas \in Nat

VARIABLES
    now,         \* milliseconds since the clock was made
    prevTime,    \* m_dwPrevSystemTime
    privateTime, \* m_rtPrivateTime
    lastGotTime, \* m_rtLastGotTime
    pc,          \* where the advise thread is
    rtNow,       \* its local: the time at which it woke
    wakeAt,      \* when its wait times out, MAX_TIME for never
    abort,       \* m_bAbort
    deltas,      \* corrections so far
    sumOfDeltas, \* history: all corrections
    drift        \* history: corrections of which the thread has not been told
                 \* since it read the clock

clockVars == <<prevTime, privateTime, lastGotTime>>
threadVars == <<pc, rtNow, wakeAt>>
vars == <<scheduleVars, clockVars, threadVars, now, abort, deltas, sumOfDeltas, drift>>

HalfTicks(ms) == 2 * ms
timeGetTime == now % Wrap

Init ==
    /\ ScheduleInit
    /\ now = 0 /\ prevTime = 0 /\ privateTime = 0 /\ lastGotTime = 0
    /\ pc = "wait" /\ rtNow = 0 /\ wakeAt = MAX_TIME
    /\ abort = FALSE
    /\ deltas = 0 /\ sumOfDeltas = 0 /\ drift = 0

\* Int32x32To64 of an unsigned difference: a difference of half the range and
\* more is negative.
Elapsed(ms) == LET d == ms % Wrap IN IF d < Wrap \div 2 THEN d ELSE d - Wrap

PrivateTime == privateTime + HalfTicks(Elapsed(timeGetTime - prevTime))

GetPrivateTime ==
    /\ privateTime' = PrivateTime
    /\ prevTime' = timeGetTime

\* A slip in GetTime: the private time is returned as it is.
GetTime_Unchecked ==
    /\ pc # "ended"
    /\ GetPrivateTime
    /\ lastGotTime' = PrivateTime
    /\ UNCHANGED <<scheduleVars, threadVars, now, abort, deltas, sumOfDeltas, drift>>

\* The program reads the clock.
GetTime ==
    /\ pc # "ended"
    /\ GetPrivateTime
    /\ lastGotTime' = IF PrivateTime > lastGotTime THEN PrivateTime ELSE lastGotTime
    /\ UNCHANGED <<scheduleVars, threadVars, now, abort, deltas, sumOfDeltas, drift>>

AdviseTime ==
    \E time \in Times, period \in Periods :
        /\ ~abort
        /\ AddAdvisePacket(time, period)
        /\ UNCHANGED <<clockVars, threadVars, now, abort, deltas, sumOfDeltas, drift>>

UnadviseTime ==
    \E cookie \in 1..nextCookie :
        /\ ~abort
        /\ Unadvise(cookie)
        /\ UNCHANGED <<clockVars, threadVars, now, abort, deltas, sumOfDeltas, drift>>

\* The thread is told of a correction only if it is a real step forward.
Triggers(delta) == delta > 1 /\ count > 0

SetTimeDelta ==
    \E delta \in Deltas :
        /\ ~abort /\ deltas < MaxDeltas
        /\ privateTime' = privateTime + delta
        /\ ev' = (ev \/ Triggers(delta))
        /\ deltas' = deltas + 1
        /\ sumOfDeltas' = sumOfDeltas + delta
        /\ drift' = drift + (IF delta > 1 THEN 0 ELSE delta)
        /\ UNCHANGED <<packets, nextCookie, count, serialize, signals, cancelled,
                       prevTime, lastGotTime, threadVars, now, abort>>

\* The destructor tells the thread to end and waits for it.
Destroy ==
    /\ ~abort
    /\ abort' = TRUE
    /\ ev' = TRUE
    /\ UNCHANGED <<packets, nextCookie, count, serialize, signals, cancelled,
                   clockVars, threadVars, now, deltas, sumOfDeltas, drift>>

-----------------------------------------------------------------------------
\* AdviseThread.

Wake ==
    /\ pc = "wait"
    /\ ev \/ now >= wakeAt
    /\ ev' = FALSE
    /\ pc' = IF abort THEN "ended" ELSE "woken"
    /\ UNCHANGED <<packets, nextCookie, count, serialize, signals, cancelled, clockVars,
                   rtNow, wakeAt, now, abort, deltas, sumOfDeltas, drift>>

ReadClock ==
    /\ pc = "woken"
    /\ GetPrivateTime
    /\ rtNow' = PrivateTime
    /\ drift' = 0
    /\ pc' = "advise"
    /\ UNCHANGED <<scheduleVars, lastGotTime, wakeAt, now, abort, deltas, sumOfDeltas>>

EnterAdvise ==
    /\ pc = "advise"
    /\ AdviseEnter
    /\ pc' = "signal"
    /\ UNCHANGED <<packets, nextCookie, count, ev, signals, cancelled, clockVars, rtNow,
                   wakeAt, now, abort, deltas, sumOfDeltas, drift>>

\* Advise is asked for what is due one millisecond from now.
Horizon == rtNow + HalfTicks(1)

SignalDue ==
    /\ pc = "signal"
    /\ AdviseSignal(Horizon)
    /\ UNCHANGED <<clockVars, threadVars, now, abort, deltas, sumOfDeltas, drift>>

\* How long to wait: the whole milliseconds until the next notification.
WaitFor(rt) == (rt - rtNow) \div 2

LeaveAdvise ==
    /\ pc = "signal" /\ ~Due(Horizon)
    /\ serialize' = FALSE
    /\ wakeAt' = IF packets = <<>> THEN MAX_TIME ELSE now + WaitFor(GetNextAdviseTime)
    /\ pc' = IF abort THEN "ended" ELSE "wait"
    /\ UNCHANGED <<packets, nextCookie, count, ev, signals, cancelled, clockVars, rtNow, now,
                   abort, deltas, sumOfDeltas, drift>>

Thread == Wake \/ ReadClock \/ EnterAdvise \/ SignalDue \/ LeaveAdvise

-----------------------------------------------------------------------------
\* A millisecond passes.  The thread runs at the highest priority, so it waits
\* whenever time passes; and the timer is read before half its range has passed
\* ("the time period is long enough").
Tick ==
    /\ now < MaxTime
    /\ pc = "ended" \/ (pc = "wait" /\ ~ev /\ now < wakeAt)
    /\ Elapsed(timeGetTime - prevTime) + 1 < Wrap \div 2
    /\ now' = now + 1
    /\ UNCHANGED <<scheduleVars, clockVars, threadVars, abort, deltas, sumOfDeltas, drift>>

Next == GetTime \/ AdviseTime \/ UnadviseTime \/ SetTimeDelta \/ Destroy \/ Thread \/ Tick

\* The thread runs, time passes and the clock is read now and then.
Fairness == WF_vars(Thread) /\ WF_vars(Tick) /\ WF_vars(GetTime)
Spec == Init /\ [][Next]_vars /\ Fairness

-----------------------------------------------------------------------------
\* Every variable has its type.
TypeOK ==
    /\ \A i \in DOMAIN packets : packets[i].cookie \in 1..nextCookie
    /\ {packets[i].time : i \in DOMAIN packets} \subseteq 1..(MAX_TIME - 1)
    /\ count \in 0..MaxPackets
    /\ prevTime \in 0..(Wrap - 1)
    /\ pc \in {"wait", "woken", "advise", "signal", "ended"}
    /\ {ev, serialize, abort} \subseteq BOOLEAN

\* Whatever is added, cancelled, signalled and moved, the list stays in the
\* order of time, and the count is its length.
ListInOrder ==
    /\ \A i \in 1..(Len(packets) - 1) : packets[i].time <= packets[i + 1].time
    /\ count = Len(packets)

\* A notification once asked for is pending, has been given or was cancelled:
\* never two of them, and never given twice if it is a single one.
OneOutcome ==
    \A c \in 1..nextCookie :
        LET pending == \E i \in DOMAIN packets : packets[i].cookie = c
            given == signals[c] > 0 /\ ~pending /\ c \notin cancelled
        IN  /\ pending => c \notin cancelled
            /\ pending \/ c \in cancelled \/ given
            /\ given => signals[c] = 1

\* The time the clock keeps is the time that has passed plus the corrections,
\* although the counter it is made from wraps.
KeepsTime == PrivateTime = HalfTicks(now) + sumOfDeltas

\* While the thread sleeps nothing is overdue: additions and corrections wake
\* it, and it waits no longer than until the first notification.  Small steps
\* forward, of which it is not told, make it late by their sum at most.
NobodyOverslept ==
    pc = "wait" /\ ~ev /\ now < wakeAt =>
        GetNextAdviseTime + (IF drift > 0 THEN drift ELSE 0) >= PrivateTime

\* The time a program reads never goes back, whatever the corrections.
TimeNeverGoesBack == [][lastGotTime' >= lastGotTime]_vars

\* A notification for which enough time is left is given or cancelled, or the
\* clock goes away.
AllNotified ==
    \A c \in 1..MaxPackets :
        (c <= nextCookie) ~> (abort \/ c \in cancelled \/ signals[c] > 0)

\* The destructor gets its thread back.
ThreadEnds == abort ~> pc = "ended"
====
