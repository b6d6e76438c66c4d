------------------------------ MODULE VideoQuality ------------------------------
(***************************************************************************)
(* CBaseVideoRenderer: for every frame it decides to draw it at once, when *)
(* it is due, or not at all, from averages of the frames before; it tells  *)
(* its supplier how to adapt and keeps statistics.  Times are whole        *)
(* milliseconds of stream time (the code counts 100 ns units).  A frame    *)
(* without times, or one that ends before it starts, never gets here.      *)
(***************************************************************************)
EXTENDS Integers

CONSTANTS
    Leads,          \* how long before its stamp a frame arrives
    Durations,      \* how long a frame lasts
    DrawTimes,      \* how long it takes to draw one
    Gaps,           \* the time between a frame and the next
    MaxFrames       \* bound: frames of a run

VideoQualityAssumption ==
    /\ Leads \subseteq Int /\ Durations \subseteq Nat
    /\ DrawTimes \subseteq Nat /\ Gaps \subseteq Nat /\ MaxFrames \in Nat

VARIABLES
    m,              \* the members of CBaseVideoRenderer
    frame,          \* the frame it has: none, arrived, waiting, due, or being drawn
    now,            \* stream time
    last,           \* the last frame: its quality message, what it came from, and its fate
    shown,          \* when the picture on the screen was drawn, -1 if there is none
    data,           \* how many latenesses and intervals went into the sums
    frames          \* frames so far

vars == <<m, frame, now, last, shown, data, frames>>

UNITS == 1000
AVGPERIOD == 4
\* C's division, towards zero.
Div(a, b) == IF a >= 0 THEN a \div b ELSE -((-a) \div b)
Average(old, new) == Div(new + old * (AVGPERIOD - 1), AVGPERIOD)
Clip(x, lo, hi) == IF x < lo THEN lo ELSE IF x > hi THEN hi ELSE x

\* ResetStreamingTimes; the 0.1 ms of m_trLastDraw and the "unset" of
\* m_trFrameAvg are the time 0 and -1 here.
ResetStreamingTimes ==
    [lastDraw |-> 0, renderAvg |-> 0, frameAvg |-> -1, duration |-> 0, renderLast |-> 0,
     waitAvg |-> 0, drawn |-> 0, dropped |-> 0, totAcc |-> 0, sumSqAcc |-> 0, frame |-> 0,
     late |-> 0, sumFrameTime |-> 0, sumSqFrameTime |-> 0, normal |-> 0, earliness |-> 0,
     throttle |-> 0]
NoFrame == [at |-> "none", start |-> 0, stamp |-> 0, early |-> FALSE]
Quiet == [proportion |-> 1000, late |-> 0, frameAvg |-> -1, waitAvg |-> 0, dropped |-> FALSE]

Init ==
    /\ m = ResetStreamingTimes /\ frame = NoFrame /\ now = 0 /\ last = Quiet
    /\ shown = -1 /\ data = [acc |-> 0, interval |-> 0] /\ frames = 0

OnStartStreaming ==
    /\ frame = NoFrame /\ frames = MaxFrames
    /\ m' = ResetStreamingTimes /\ now' = 0 /\ last' = Quiet /\ shown' = -1
    /\ data' = [acc |-> 0, interval |-> 0] /\ frames' = 0
    /\ UNCHANGED frame

-----------------------------------------------------------------------------
\* SendQuality: how fast the supplier should go, in thousandths.
Proportion(late) ==
    IF m.frameAvg < 0 THEN 1000
    ELSE IF late > 0 THEN Clip(1000 - late, 500, 1000)
    ELSE IF m.waitAvg > 2 /\ late < -2
    THEN IF m.waitAvg >= m.frameAvg THEN 2000
         ELSE Clip(1000 * (m.frameAvg \div (m.frameAvg + 2 - m.waitAvg)), 0, 2000)
    ELSE 1000

\* The picture appears about 8 ms later than it is drawn.
Bias(t) == IF t >= 8 THEN t - 8 ELSE t

\* Whether this frame comes after one that was dropped, by the supplier or here.
JustDropped(handling, gap) == (handling /\ gap) \/ m.normal = -1

Observed(dur) ==
    LET t == Div(m.duration, 32) IN
    IF dur > m.duration + t \/ dur < m.duration - t
    THEN [m EXCEPT !.frameAvg = dur, !.duration = dur]
    ELSE m

Earliness(late, afterDrop) ==
    IF late > 0 THEN 0
    ELSE IF late >= m.earliness \/ afterDrop THEN late
    ELSE m.earliness - Div(m.earliness, 8)

Since(t) == Clip(now - t, now - t, UNITS)

\* The frame is drawn if one of these holds; x has the average of this frame's rate.
DrawIt(x, late, dur, handling) ==
    \/ 3 * x.renderAvg <= x.frameAvg
    \/ IF handling THEN late <= dur * 4 ELSE late + late < dur
    \/ x.waitAvg > 8
    \/ now - x.lastDraw > UNITS

\* At once, because a frame was dropped or the rate is low, unless far too early.
PlayASAP(x, late, dur, afterDrop) ==
    /\ late >= -900
    /\ afterDrop \/ (x.frameAvg > dur + Div(dur, 16) /\ late > -dur * 10)

DrawNow(x, late) ==
    [x EXCEPT !.normal = 0, !.waitAvg = Div(@ * (AVGPERIOD - 1), AVGPERIOD),
              !.frameAvg = Average(@, Since(m.lastDraw)), !.late = late,
              !.frame = Since(m.lastDraw), !.lastDraw = now,
              !.earliness = IF @ > late THEN late ELSE @]

\* Drawn at its time, a little early while the machine has been fast.
Planned(x, stamp, dur) == stamp + Clip(x.earliness, -dur, 0)
DrawLater(x, late, start, stamp, dur) ==
    [x EXCEPT !.normal = @ + 1, !.frameAvg = dur,
              !.waitAvg = Average(@, IF late < 0 THEN -late ELSE 0),
              !.lastDraw = IF late < 0 THEN start ELSE now,
              !.frame = IF late < 0 THEN start - m.lastDraw ELSE Since(m.lastDraw),
              !.late = IF late < 0 THEN start - stamp ELSE late]

Drop(x, late) ==
    [x EXCEPT !.waitAvg = Average(@, IF late < 0 THEN -late ELSE 0), !.normal = -1,
              !.dropped = @ + 1]

\* ShouldDrawSampleNow and ScheduleSample: the frame is for time, lasts dur; handling
\* is the supplier's answer and gap its mark of a discontinuity.
Decide(time, dur, handling, gap) ==
    LET stamp == Bias(time)
        late == now - stamp
        after == JustDropped(handling, gap)
        x == [Observed(dur) EXCEPT !.earliness = Earliness(late, after)]
        start == Planned(x, stamp, dur)
    IN
    /\ last' = [proportion |-> Proportion(late), late |-> late,
                frameAvg |-> m.frameAvg, waitAvg |-> m.waitAvg,
                dropped |-> ~DrawIt(x, late, dur, handling)]
    /\ IF ~DrawIt(x, late, dur, handling)
       THEN m' = Drop(x, late) /\ frame' = NoFrame
       ELSE IF PlayASAP(x, late, dur, after)
       THEN /\ m' = DrawNow(x, late)
            /\ frame' = [at |-> "due", start |-> now, stamp |-> stamp, early |-> late < 0]
       ELSE /\ m' = DrawLater(x, late, start, stamp, dur)
            /\ frame' = [at |-> IF late < 0 THEN "waiting" ELSE "due",
                         start |-> IF late < 0 THEN start ELSE now,
                         stamp |-> stamp, early |-> FALSE]

\* Time passes until the next frame is there.
Arrive ==
    \E gap \in Gaps :
        /\ frame = NoFrame /\ frames < MaxFrames
        /\ now' = now + gap
        /\ frame' = [NoFrame EXCEPT !.at = "here"]
        /\ UNCHANGED <<m, last, shown, data, frames>>

Frame ==
    \E lead \in Leads, dur \in Durations, handling \in BOOLEAN, gap \in BOOLEAN :
        /\ frame.at = "here" /\ now + lead >= 0
        /\ gap => handling
        /\ Decide(now + lead, dur, handling, gap)
        /\ frames' = frames + 1
        /\ UNCHANGED <<now, shown, data>>

-----------------------------------------------------------------------------
\* The clock's signal for a frame that waits.
Due ==
    /\ frame.at = "waiting"
    /\ now' = IF frame.start > now THEN frame.start ELSE now
    /\ frame' = [frame EXCEPT !.at = "due"]
    /\ UNCHANGED <<m, last, shown, data, frames>>

\* The first frames' times mean little and stay out of the sums.
RecordFrameLateness(x) ==
    LET late == IF x.late \in -1000 .. 1000 THEN x.late
                ELSE IF x.drawn <= 1 THEN 0 ELSE Clip(x.late, -1000, 1000)
        interval == IF x.frame > 1000 \/ x.frame < 0 THEN 1000 ELSE x.frame
        acc == IF x.drawn > 1 THEN 1 ELSE 0
        int == IF x.drawn > 2 THEN 1 ELSE 0
    IN [x EXCEPT !.totAcc = @ + acc * late, !.sumSqAcc = @ + acc * late * late,
                 !.sumFrameTime = @ + int * interval,
                 !.sumSqFrameTime = @ + int * interval * interval, !.drawn = @ + 1]

OnRenderStart ==
    /\ frame.at = "due"
    /\ m' = RecordFrameLateness(m)
    /\ data' = [acc |-> IF m.drawn > 1 THEN data.acc + 1 ELSE data.acc,
                interval |-> IF m.drawn > 2 THEN data.interval + 1 ELSE data.interval]
    /\ shown' = now
    /\ frame' = [frame EXCEPT !.at = "drawing"]
    /\ UNCHANGED <<now, last, frames>>

\* OnRenderEnd, with ThrottleWait: one slow draw is left out of the average.
OnRenderEnd ==
    \E tr \in DrawTimes :
        /\ frame.at = "drawing"
        /\ m' = [m EXCEPT
                    !.renderAvg = IF tr < @ * 2 \/ tr < 2 * m.renderLast THEN Average(@, tr) ELSE @,
                    !.renderLast = tr]
        /\ now' = now + tr + m.throttle
        /\ frame' = NoFrame
        /\ UNCHANGED <<last, shown, data, frames>>

\* OnDirectRender: the supplier has drawn it itself.
OnDirectRender ==
    /\ frame.at = "due"
    /\ m' = RecordFrameLateness([m EXCEPT !.renderAvg = 0, !.renderLast = 500])
    /\ data' = [acc |-> IF m.drawn > 1 THEN data.acc + 1 ELSE data.acc,
                interval |-> IF m.drawn > 2 THEN data.interval + 1 ELSE data.interval]
    /\ shown' = now /\ now' = now + m.throttle
    /\ frame' = NoFrame
    /\ UNCHANGED <<last, frames>>

\* Another renderer is in need: sleep after every frame.
Throttle(proportion) == IF proportion >= 1000 THEN 0 ELSE (388880000 \div (proportion + 167) - 330000) \div 10000
Notify ==
    \E proportion \in {500, 1000} :
        /\ frame = NoFrame
        /\ m' = [m EXCEPT !.throttle = Throttle(proportion)]
        /\ UNCHANGED <<frame, now, last, shown, data, frames>>

Next == \/ OnStartStreaming \/ Arrive \/ Frame \/ Due \/ OnRenderStart \/ OnRenderEnd
        \/ OnDirectRender \/ Notify
Spec == Init /\ [][Next]_vars

-----------------------------------------------------------------------------
\* GetStdDev: what it takes the square root of, and its root.
Variance(n, sumSq, tot) == IF n <= 1 THEN 0 ELSE Div(sumSq - (tot * tot) \div n, n - 1)
Guess(x) == CHOOSE s \in {2^k : k \in 0 .. 15} :
                s * s >= x /\ \A t \in {2^k : k \in 0 .. 15} : t * t >= x => s <= t
Newton(s, x) == (s * s + x) \div (2 * s)
isqrt(x) == IF x = 0 THEN 0 ELSE Newton(Newton(Newton(Guess(x), x), x), x)
get_DevSyncOffset == isqrt(Variance(m.drawn - 1, m.sumSqAcc, m.totAcc))
get_Jitter == isqrt(Variance(m.drawn - 2, m.sumSqFrameTime, m.sumFrameTime))

\* Every variable has its type.
TypeOK ==
    /\ m.lastDraw \in Int /\ m.renderAvg \in Nat /\ m.frameAvg \in Int /\ m.waitAvg \in Nat
    /\ m.drawn \in 0 .. MaxFrames /\ m.dropped \in 0 .. MaxFrames /\ m.normal \in -1 .. MaxFrames
    /\ frame.at \in {"none", "here", "waiting", "due", "drawing"}
    /\ m.drawn + m.dropped <= frames /\ frames <= MaxFrames

\* A frame that waits is never planned for a time that is over, nor for later than its
\* stamp, nor more than the length of a frame before it: earliness slides gracefully.
PlannedInTime ==
    frame.at = "waiting" =>
        /\ now <= frame.start /\ frame.start <= frame.stamp
        /\ frame.start >= frame.stamp - m.frameAvg

\* A frame that is not late is drawn, unless it has no duration.
EarlyIsNotDropped == [][m'.dropped > m.dropped => last'.late >= 0]_vars

\* The screen does not look frozen: when a frame is dropped the picture there was drawn
\* less than a second ago.
NotHung == [][(m'.dropped > m.dropped /\ shown >= 0) => now - shown <= UNITS]_vars

\* After a dropped frame the next one that is drawn is drawn at once, unless it is
\* more than 900 ms early.
NextAfterDropIsEarly ==
    [][(last.dropped /\ frame' # frame /\ frame'.at = "waiting") => last'.late < -900]_vars

\* The quality message never asks for less than half or more than double the rate, never
\* to slow down when the frame is early, never to speed up when it is late.
QualityIsSane ==
    /\ last.proportion \in 500 .. 2000
    /\ last.late > 0 => last.proportion <= 1000
    /\ last.late <= 0 => last.proportion >= 1000

\* The deviations are roots of what is not negative, to the millisecond (GetStdDev asserts
\* the sign): sums and counts go together.
DeviationsAreReal ==
    LET Root(n, sumSq, tot, s) ==
            LET v == Variance(n, sumSq, tot) IN
            /\ v >= 0 /\ (s > 0 => (s - 1) * (s - 1) <= v) /\ v < (s + 1) * (s + 1)
    IN
    /\ Root(m.drawn - 1, m.sumSqAcc, m.totAcc, get_DevSyncOffset)
    /\ Root(m.drawn - 2, m.sumSqFrameTime, m.sumFrameTime, get_Jitter)

\* The first frame is drawn, however late.
FirstFrameIsDrawn == m.dropped > 0 => m.drawn > 0

\* A supplier whose frames wait for more than 2 ms is asked to go faster.
WaitingSpeedsUp ==
    (last.frameAvg >= 0 /\ last.late < -2 /\ last.waitAvg > 2) => last.proportion > 1000

\* The deviation is taken over as many data as there are: two frames give one.
DataAreCounted == data.acc = IF m.drawn < 1 THEN 0 ELSE m.drawn - 1
================================================================================
