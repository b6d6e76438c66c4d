------------------------------- MODULE Seeking -------------------------------
(***************************************************************************)
(* How a program seeks: it calls the renderer, whose CRendererPosPassThru  *)
(* hands everything but the current position to the output pin upstream, a *)
(* CSourceSeeking or a CSourcePosition, which tells the class derived from *)
(* it what has changed.  That class, which restarts its stream, and the    *)
(* stream are external.  Time is counted in samples.                       *)
(***************************************************************************)
EXTENDS Integers, Sequences

CONSTANTS
    Threads,     \* threads of the program
    HasSeeking,  \* the source is a CSourceSeeking, else a CSourcePosition
    Untimed,     \* a sample may have no times
    Length,      \* duration of the medium
    Targets,     \* positions a program asks for, or by how much to move
    MaxSeeks,    \* bound: calls that change something
    E_NOTIMPL    \* stands for the error in the place of a value

SeekingAssumption ==
    /\ Length \in Nat \ {0} /\ Targets \subseteq Int /\ MaxSeeks \in Nat
    /\ HasSeeking \in BOOLEAN /\ Untimed \in BOOLEAN /\ E_NOTIMPL \notin Int

VARIABLES
    source,     \* m_rtStart, m_rtStop, m_dRateSeeking; m_Start, m_Stop, m_Rate
    todo,       \* what each thread has changed and not yet notified
    seen,       \* what the derived class was last notified of
    connected,  \* the renderer's input pin is connected
    stream,     \* the stream: running, the renderer in Stop, the position, where it began
    position,   \* m_StartMedia, m_EndMedia and m_bReset of the renderer
    eos,        \* its EndOfStream: "no", "asked" for the stop position, "done"
    stopFound,  \* the local of EOS: the stop position, or E_NOTIMPL
    shown,      \* history: position in the medium of the last sample rendered
    answer,     \* what the program was last told
    seeks       \* changes so far

vars == <<source, todo, seen, connected, stream, position, eos, stopFound, shown, answer, seeks>>

NoPosition == [start |-> 0, end |-> 0, reset |-> TRUE]

Init ==
    /\ source = [start |-> 0, stop |-> Length, rate |-> 1]
    /\ todo = [t \in Threads |-> <<>>]
    /\ seen = source
    /\ connected = TRUE
    /\ stream = [running |-> FALSE, stopping |-> FALSE, at |-> 0, base |-> 0]
    /\ position = NoPosition
    /\ eos = "no" /\ stopFound = 0 /\ shown = 0
    /\ answer = [of |-> "none", value |-> 0]
    /\ seeks = 0

\* GetPeerSeeking and GetPeer: the interface of the pin that is connected, for
\* the one call that is passed on.
PeerSeeking == connected /\ HasSeeking
PeerPosition == connected /\ ~HasSeeking

-----------------------------------------------------------------------------
\* Changes.

StartAfter(flag, x) ==
    CASE flag = "none" -> source.start [] flag = "absolute" -> x
      [] flag = "relative" -> source.start + x

StopAfter(flag, x, start) ==
    CASE flag = "none" -> source.stop [] flag = "absolute" -> x
      [] flag = "incremental" -> start + x [] flag = "relative" -> source.stop + x

\* The derived class is told of the stop position first.
NoticesOf(startFlag, stopFlag) ==
    (IF stopFlag = "none" THEN <<>> ELSE <<"stop">>)
        \o (IF startFlag = "none" THEN <<>> ELSE <<"start">>)

\* The change is made under the lock of the source, the notices are given after.
Change(t, members, notices) ==
    /\ todo[t] = <<>> /\ seeks < MaxSeeks
    /\ source' = members
    /\ todo' = [todo EXCEPT ![t] = notices]
    /\ seeks' = seeks + 1
    /\ UNCHANGED <<seen, connected, stream, position, eos, stopFound, shown, answer>>

SetPositions ==
    \E t \in Threads, startFlag \in {"none", "absolute", "relative"},
       stopFlag \in {"none", "absolute", "incremental", "relative"}, x, y \in Targets :
        LET start == StartAfter(startFlag, x)
        IN  /\ PeerSeeking
            /\ Change(t, [source EXCEPT !.start = start, !.stop = StopAfter(stopFlag, y, start)],
                      NoticesOf(startFlag, stopFlag))

\* put_CurrentPosition and put_StopTime, of a source with IMediaPosition.
PutCurrentPosition ==
    \E t \in Threads, x \in Targets :
        PeerPosition /\ Change(t, [source EXCEPT !.start = x], <<"start">>)

PutStopTime ==
    \E t \in Threads, x \in Targets :
        PeerPosition /\ Change(t, [source EXCEPT !.stop = x], <<"stop">>)

\* A rate of 0 is refused before it is passed on.
SetRate ==
    \E t \in Threads, rate \in {0, 1, 2} :
        /\ rate # 0 /\ connected
        /\ Change(t, [source EXCEPT !.rate = rate], <<"rate">>)

-----------------------------------------------------------------------------
ResetMediaTime == NoPosition

\* The derived class reads what has changed; if it streams, it flushes, waits
\* for its thread and begins again, and the end of the flush forgets the
\* renderer's position. A flush takes both locks of the renderer, that of its
\* interface, which Stop has, and that of its samples, which EOS is called under.
Restart(restarts, start) ==
    IF restarts
    THEN /\ eos # "asked" /\ ~stream.stopping
         /\ stream' = [stream EXCEPT !.at = start, !.base = start]
         /\ position' = ResetMediaTime
         /\ eos' = "no"
    ELSE UNCHANGED <<stream, position, eos>>

Notify ==
    \E t \in Threads :
        /\ todo[t] # <<>>
        /\ seen' = [seen EXCEPT ![Head(todo[t])] = source[Head(todo[t])]]
        /\ todo' = [todo EXCEPT ![t] = Tail(@)]
        /\ Restart(stream.running, seen'.start)
        /\ UNCHANGED <<source, connected, stopFound, shown, answer, seeks>>

Start ==
    /\ connected /\ ~stream.running /\ eos = "no"
    /\ stream' = [running |-> TRUE, stopping |-> FALSE, at |-> seen.start, base |-> seen.start]
    /\ UNCHANGED <<source, todo, seen, connected, position, eos, stopFound, shown, answer, seeks>>

\* Stop has the interface lock. It comes to Inactive, which forgets the position
\* without the lock that EOS is called under: a timer may be in EOS ...
Inactive ==
    /\ stream.running /\ ~stream.stopping
    /\ stream' = [stream EXCEPT !.stopping = TRUE]
    /\ position' = ResetMediaTime
    /\ UNCHANGED <<source, todo, seen, connected, eos, stopFound, shown, answer, seeks>>

\* ... and then takes it, to clear the sample and the end of the stream. The
\* thread of the source ends.
Stop ==
    /\ stream.stopping /\ eos # "asked"
    /\ stream' = [stream EXCEPT !.running = FALSE, !.stopping = FALSE]
    /\ eos' = "no"
    /\ UNCHANGED <<source, todo, seen, connected, position, stopFound, shown, answer, seeks>>

Connect ==
    /\ ~stream.running
    /\ connected' = ~connected
    /\ UNCHANGED <<source, todo, seen, stream, position, eos, stopFound, shown, answer, seeks>>

-----------------------------------------------------------------------------
\* The stream.

\* The renderer takes the times of the sample, which count from where the
\* stream began; a sample without times leaves the old ones. PrepareReceive has
\* the interface lock.
Registered(timed) ==
    IF timed THEN [start |-> stream.at - stream.base, end |-> stream.at - stream.base + 1,
                   reset |-> FALSE]
    ELSE position

Deliver ==
    \E timed \in IF Untimed THEN BOOLEAN ELSE {TRUE} :
        /\ stream.running /\ ~stream.stopping /\ eos = "no"
        /\ stream.at >= 0 /\ stream.at < seen.stop /\ stream.at < Length
        /\ stream' = [stream EXCEPT !.at = @ + 1]
        /\ position' = Registered(timed)
        /\ shown' = stream.at
        /\ UNCHANGED <<source, todo, seen, connected, eos, stopFound, answer, seeks>>

\* Without a sample there is no position to move.
NextEos == IF position.reset THEN "done" ELSE "asked"

\* CRendererPosPassThru::EOS up to the answer of the source, and its end, which
\* leaves m_bReset as it is.
EndOfStream ==
    /\ stream.running /\ eos = "no"
    /\ ~(stream.at >= 0 /\ stream.at < seen.stop /\ stream.at < Length)
    /\ eos' = NextEos
    /\ stopFound' = IF PeerSeeking THEN source.stop ELSE E_NOTIMPL
    /\ UNCHANGED <<source, todo, seen, connected, stream, position, shown, answer, seeks>>

EndAtStop(p) == [p EXCEPT !.start = stopFound, !.end = stopFound]

EndOfStreamEnds ==
    /\ eos = "asked"
    /\ position' = IF stopFound = E_NOTIMPL THEN position ELSE EndAtStop(position)
    /\ eos' = "done"
    /\ UNCHANGED <<source, todo, seen, connected, stream, stopFound, shown, answer, seeks>>

-----------------------------------------------------------------------------
\* Questions.

\* CSourceSeeking has no current position; the renderer's is converted by the
\* source, which does not if it has no IMediaSeeking.
CurrentPosition ==
    IF ~position.reset /\ PeerSeeking THEN position.start ELSE E_NOTIMPL
StopPosition == IF connected THEN source.stop ELSE E_NOTIMPL
Rate == IF connected THEN source.rate ELSE E_NOTIMPL

Ask ==
    \E a \in {[of |-> "position", value |-> CurrentPosition],
              [of |-> "stop", value |-> StopPosition], [of |-> "rate", value |-> Rate]} :
        /\ answer' = a
        /\ UNCHANGED <<source, todo, seen, connected, stream, position, eos, stopFound, shown,
                       seeks>>

Streaming == Deliver \/ EndOfStream \/ EndOfStreamEnds
Next ==
    \/ SetPositions \/ PutCurrentPosition \/ PutStopTime \/ SetRate \/ Notify
    \/ Start \/ Inactive \/ Stop \/ Connect \/ Streaming \/ Ask

\* A call returns and the source goes on.
Fairness == WF_vars(Notify) /\ WF_vars(Stop) /\ WF_vars(Streaming)
Spec == Init /\ [][Next]_vars /\ Fairness

-----------------------------------------------------------------------------
\* Every variable has its type.
TypeOK ==
    /\ source.rate \in {1, 2} /\ source.start \in Int /\ source.stop \in Int
    /\ \A t \in Threads : Len(todo[t]) <= 2
    /\ eos \in {"no", "asked", "done"}
    /\ stream.base <= stream.at /\ (stream.stopping => stream.running)

Quiet == \A t \in Threads : todo[t] = <<>>

\* However the calls of two threads overlap, when all have returned the derived
\* class has been told of every member as it is now.
ChangesAreNoticed == Quiet => seen = source

\* At the end of the stream the renderer is at the stop position, unless
\* somebody has just moved it or no sample came: GetCurrentPosition gets there.
EndsAtStop ==
    eos = "done" /\ ~position.reset /\ Quiet /\ PeerSeeking /\ stopFound = source.stop
        => CurrentPosition = source.stop

\* A position is of what the stream plays now: none is left from before a seek
\* or from before the filter was stopped.
NoOldPosition ==
    /\ stream.stopping \/ ~stream.running => position.reset
    /\ ~position.reset /\ eos = "no" => stream.base + position.start < stream.at

\* Whatever was sought, the stream comes to its end once the seeking has.
PlaysToTheEnd == <>[](stream.running /\ Quiet) => <>(eos = "done")

\* The comment on the renderer's position says that the media times of the
\* samples are stored and returned in GetCurrentPosition: the program is told
\* where in the medium the sample it sees is.
ToldWhereInMedium ==
    [][Ask /\ answer'.of = "position" /\ answer'.value # E_NOTIMPL /\ eos = "no"
        => answer'.value = shown]_vars

=============================================================================
