----------------------------- MODULE VideoTransform -----------------------------
(***************************************************************************)
(* CVideoTransformFilter: a decoder that skips frames until the next key   *)
(* frame when it is late, and withholds frames after a discontinuity.      *)
(* Receive and EndFlush hold m_csReceive and are one action each.  Times   *)
(* are in milliseconds, the average decode time in sixteenths of one.      *)
(***************************************************************************)
EXTENDS Integers

CONSTANTS
    KeyWait,        \* frames withheld until a key frame comes: 30 in the code
    Unset,          \* what m_nWaitForKey holds before anything is written to it
    Durations,      \* of a frame
    DecodeTimes,    \* of Transform
    Lates,          \* what quality messages say
    Untimed,        \* frames may have no time stamps
    MaxFrames       \* bound: frames between two starts

VideoTransformAssumption ==
    /\ KeyWait \in Nat \ {0} /\ Unset \subseteq Nat /\ Durations \subseteq Nat
    /\ DecodeTimes \subseteq Nat /\ Lates \subseteq Int /\ Untimed \in BOOLEAN /\ MaxFrames \in Nat

VARIABLES
    m,              \* the members of the filter
    out,            \* the frame that went out last, if any, and how its buffer was asked for
    stream,         \* the source: what it has sent and what it must send next
    events          \* EC_QUALITY_CHANGE since streaming started

vars == <<m, out, stream, events>>

\* StartStreaming of this class; m_nWaitForKey is not touched, m_bNoSkip never read.
Started(x) ==
    [x EXCEPT !.late = 0, !.period = 0, !.since = 0, !.skipping = FALSE, !.avgDecode = 30 * 16,
              !.qualityChanged = FALSE, !.sampleSkipped = FALSE]

NoOutput == [frame |-> FALSE, missing |-> "no", skippedBefore |-> FALSE, afterSkip |-> FALSE]
NewStream == [broken |-> "gap", sinceGap |-> 0, waited |-> FALSE, dropped |-> FALSE, first |-> TRUE, ended |-> FALSE, sent |-> 0]

Init ==
    /\ \E wait \in Unset :
           m = [late |-> 0, period |-> 0, since |-> 0, skipping |-> FALSE, avgDecode |-> 30 * 16,
                qualityChanged |-> FALSE, sampleSkipped |-> FALSE, waitForKey |-> wait]
    /\ out = NoOutput /\ stream = NewStream /\ events = 0

\* The filter starts, or a flush ends: the source begins anew, with a key frame or a
\* discontinuity.
Restart ==
    /\ stream.sent > 0
    /\ m' = Started(m) /\ out' = NoOutput /\ stream' = NewStream /\ events' = 0

-----------------------------------------------------------------------------
\* ShouldSkipFrame.
KeyFrameSeen(x, key) ==
    IF key THEN [x EXCEPT !.period = IF @ < x.since THEN x.since ELSE @, !.since = 0, !.skipping = FALSE]
    ELSE IF x.since > x.period /\ x.period > 0 THEN [x EXCEPT !.period = x.since]
    ELSE x
Worthwhile(x, dur) ==
    /\ x.avgDecode * 4 > dur * 16
    /\ x.late > dur
    /\ x.period > 0
    /\ x.late > dur * (x.period - x.since - 1)

\* A slip in Judged: skipping ends before the next key frame.
Judged_Reconsiders(x, key, dur) ==
    LET y == KeyFrameSeen(x, key)
        z == [y EXCEPT !.skipping = Worthwhile(y, dur), !.since = @ + 1]
    IN IF z.skipping THEN [z EXCEPT !.late = @ - dur, !.qualityChanged = TRUE] ELSE z

Judged(x, key, dur) ==
    LET y == KeyFrameSeen(x, key)
        z == [y EXCEPT !.skipping = @ \/ Worthwhile(y, dur), !.since = @ + 1]
    IN IF z.skipping THEN [z EXCEPT !.late = @ - dur, !.qualityChanged = TRUE] ELSE z

\* A frame is of use only when no frame is missing since the last key frame.
Broken(key, gap) ==
    IF key THEN "no" ELSE IF gap /\ stream.broken = "no" THEN "gap" ELSE stream.broken

\* m_nWaitForKey before and after Transform.
Waits(x, disc, formatOut) == IF disc \/ formatOut THEN KeyWait ELSE x.waitForKey
StillWaits(wait, key) == IF wait <= 1 \/ key THEN 0 ELSE wait - 1

Decoded(x, time, wait) == [x EXCEPT !.avgDecode = time + 15 * (@ \div 16), !.waitForKey = wait]
Withheld(x) == [x EXCEPT !.sampleSkipped = TRUE, !.qualityChanged = TRUE]
Told(x, y) == IF y.qualityChanged /\ ~x.qualityChanged THEN events + 1 ELSE events

\* A frame that is to be decoded: a sample is there for the result, told that frames are
\* missing before it; formatOut if it brings a new output format.
Decode(x, key, disc, formatOut, time, result) ==
    LET y == IF formatOut THEN Started(x) ELSE [x EXCEPT !.sampleSkipped = FALSE]
        before == IF formatOut THEN 0 ELSE events
        wait == StillWaits(Waits(y, disc, formatOut), key)
        z == Decoded(y, time, wait)
        broken == Broken(key, disc \/ formatOut)
    IN
    /\ IF result = "fail" THEN m' = z
       ELSE IF result = "drop" \/ wait > 0 THEN m' = Withheld(z)
       ELSE m' = z
    /\ out' = IF m' # z \/ result = "fail" THEN NoOutput
              ELSE [frame |-> TRUE, missing |-> broken, skippedBefore |-> x.sampleSkipped,
                    afterSkip |-> stream.dropped]
    /\ stream' = [broken |-> broken,
                  sinceGap |-> IF disc \/ formatOut THEN 1 ELSE stream.sinceGap + 1,
                  waited |-> wait > 0 /\ result = "ok",
                  dropped |-> m' # z, first |-> FALSE, ended |-> result = "fail",
                  sent |-> stream.sent + 1]
    /\ events' = before + IF m'.qualityChanged /\ ~z.qualityChanged THEN 1 ELSE 0

Skip(x, key) ==
    /\ m' = [x EXCEPT !.sampleSkipped = TRUE]
    /\ out' = NoOutput
    /\ stream' = [stream EXCEPT !.broken = "skip", !.waited = FALSE, !.dropped = TRUE, !.first = FALSE,
                                !.sent = @ + 1]
    /\ events' = Told(m, x)

\* Receive; a frame that has no time stamps is not judged.
Receive ==
    \E key, timed, disc, formatOut \in BOOLEAN, dur \in Durations, time \in DecodeTimes,
       result \in {"ok", "drop", "fail"} :
        LET x == IF timed THEN Judged(m, key, dur) ELSE m IN
        /\ stream.sent < MaxFrames /\ ~stream.ended
        /\ timed \/ Untimed
        /\ stream.first => disc \/ key
        /\ IF timed /\ x.skipping
           THEN Skip(x, key)
           ELSE Decode(x, key, disc, formatOut, time, result)

\* A frame with a new input format restarts streaming; the frame itself is the first.
FormatChange ==
    /\ stream.sent > 0 /\ stream.sent < MaxFrames /\ ~stream.ended
    /\ m' = Started(m) /\ events' = 0
    /\ stream' = [stream EXCEPT !.broken = "gap", !.dropped = FALSE, !.first = TRUE]
    /\ UNCHANGED out

\* The restart for a new format fails: the graph is told and the stream ends.
AbortPlayback ==
    /\ stream.sent > 0 /\ ~stream.ended
    /\ stream' = [stream EXCEPT !.ended = TRUE]
    /\ out' = NoOutput
    /\ UNCHANGED <<m, events>>

\* A quality message from downstream: the check is on the old lateness.
AlterQuality ==
    \E late \in Lates :
        /\ m' = [m EXCEPT !.late = IF @ > 30000 THEN 30000 ELSE late]
        /\ UNCHANGED <<out, stream, events>>

Next == Restart \/ Receive \/ FormatChange \/ AbortPlayback \/ AlterQuality
Spec == Init /\ [][Next]_vars

-----------------------------------------------------------------------------
\* Every variable has its type.
TypeOK ==
    /\ m.period \in 0 .. MaxFrames /\ m.since \in 0 .. MaxFrames /\ m.late \in Int
    /\ m.avgDecode \in Nat /\ m.waitForKey \in Nat
    /\ \A f \in {"skipping", "qualityChanged", "sampleSkipped"} : m[f] \in BOOLEAN
    /\ stream.sent \in 0 .. MaxFrames

\* A frame that goes out can be decoded: no frame was skipped since the last key frame,
\* and if the source left a gap the filter has waited for a key frame as long as it does.
OutputIsDecodable ==
    /\ out.missing # "skip"
    /\ out.missing = "gap" => stream.sinceGap >= KeyWait

\* The buffer of a frame is asked for as one after a gap exactly when the frame before it
\* was skipped or withheld.
GapsAreAnnounced == out.frame => out.skippedBefore = out.afterSkip

\* One message says that quality is lost, and it is there when a frame was skipped.
QualityToldOnce == events <= 1 /\ (stream.dropped => events = 1)

\* The wait for a key frame is over after as many frames, whatever m_nWaitForKey held
\* before anything was written to it.
GivesUpWaiting == stream.waited => stream.sinceGap < KeyWait

\* A lateness of more than 30 s is not kept.
LateIsBounded == m.late <= 30000
================================================================================
