------------------------------ MODULE MediaSample ------------------------------
(***************************************************************************)
(* CMediaSample: what one sample says of its data while a user fills it,   *)
(* passes it on and the allocator hands it out again.  The properties of   *)
(* IMediaSample2 arrive as a prefix of a structure, given by the number of *)
(* its fields that are there.                                              *)
(***************************************************************************)
EXTENDS Integers

CONSTANTS
    Times,          \* stream times
    MediaTimes,     \* media times
    MediaBits,      \* the width of m_MediaEnd
    Sizes,          \* buffer sizes
    Prefixes,       \* how many fields of the structure callers give
    StopFlagAlone,  \* callers may say that the stop time is valid and not the start
    NoTypeMemory    \* a media type may not be copied for lack of memory

MediaSampleAssumption ==
    /\ Times \cup MediaTimes \cup Sizes \cup Prefixes \subseteq Nat
    /\ MediaBits \in Nat \ {0}
    /\ {StopFlagAlone, NoTypeMemory} \subseteq BOOLEAN

VARIABLES
    s,          \* the sample's members
    inUse,      \* a user has it
    given,      \* which of "start" and "stop" this user has given
    media,      \* the media times this user gave last, <<>> for none
    result      \* of the last call

vars == <<s, inUse, given, media, result>>

NoMediaType == "none"
Flags == {"time", "stop", "media", "type", "sync"}
Settable == Flags \ {"media"}

\* AM_SAMPLE2_PROPERTIES: the place of each field.
HasFlags(n) == n >= 3
HasActual(n) == n >= 4
HasStart(n) == n >= 5
HasStop(n) == n >= 6
HasType(n) == n >= 8
HasSize(n) == n >= 10
AllFields == 10

ToLong(x) == LET h == 2 ^ (MediaBits - 1) IN ((x + h) % (2 * h)) - h

Init ==
    \E z \in Sizes :
        /\ s = [flags |-> {}, start |-> 0, stop |-> 0, mediaStart |-> 0, mediaEnd |-> 0,
                type |-> NoMediaType, actual |-> z, size |-> z]
        /\ inUse = FALSE /\ given = {} /\ media = <<>> /\ result = "ok"

-----------------------------------------------------------------------------
GetBuffer ==
    /\ ~inUse /\ inUse' = TRUE
    /\ given' = {} /\ media' = <<>>
    /\ UNCHANGED <<s, result>>

\* CMediaSample::SetPointer, which only its allocator can call.
SetPointer ==
    \E z \in Sizes :
        /\ ~inUse
        /\ s' = [s EXCEPT !.size = z, !.actual = z]
        /\ result' = "ok"
        /\ UNCHANGED <<inUse, given, media>>

SetTime ==
    \E w \in {{}, {"start"}, {"start", "stop"}}, a, b \in Times :
        /\ inUse /\ a <= b
        /\ s' = [s EXCEPT !.flags = (@ \ {"time", "stop"})
                                      \cup (IF "start" \in w THEN {"time"} ELSE {})
                                      \cup (IF "stop" \in w THEN {"stop"} ELSE {}),
                          !.start = IF "start" \in w THEN a ELSE @,
                          !.stop = IF "stop" \in w THEN b ELSE @]
        /\ given' = given \cup w
        /\ result' = "ok"
        /\ UNCHANGED <<inUse, media>>

SetMediaTime ==
    \E a, b \in MediaTimes, reset \in BOOLEAN :
        /\ inUse /\ a <= b
        /\ s' = IF reset THEN [s EXCEPT !.flags = @ \ {"media"}]
                ELSE [s EXCEPT !.flags = @ \cup {"media"}, !.mediaStart = a, !.mediaEnd = ToLong(b - a)]
        /\ media' = IF reset THEN <<>> ELSE <<a, b>>
        /\ result' = "ok"
        /\ UNCHANGED <<inUse, given>>

\* SetSyncPoint, SetDiscontinuity and SetPreroll.
SetMark ==
    \E b \in BOOLEAN :
        /\ inUse
        /\ s' = [s EXCEPT !.flags = IF b THEN @ \cup {"sync"} ELSE @ \ {"sync"}]
        /\ result' = "ok"
        /\ UNCHANGED <<inUse, given, media>>

SetActualDataLength ==
    \E n \in Sizes \cup {0} :
        /\ inUse
        /\ IF n > s.size THEN s' = s /\ result' = "overflow"
           ELSE s' = [s EXCEPT !.actual = n] /\ result' = "ok"
        /\ UNCHANGED <<inUse, given, media>>

\* The old type goes first, so a failed copy leaves none.
Typed(r, t) ==
    [r EXCEPT !.type = t, !.flags = IF t = NoMediaType THEN @ \ {"type"} ELSE @ \cup {"type"}]

SetMediaType ==
    \E t \in {NoMediaType, "t1", "t2"}, copied \in BOOLEAN :
        /\ inUse
        /\ copied \/ (t # NoMediaType /\ NoTypeMemory)
        /\ s' = Typed(s, IF copied THEN t ELSE NoMediaType)
        /\ result' = IF copied THEN "ok" ELSE "memory"
        /\ UNCHANGED <<inUse, given, media>>

-----------------------------------------------------------------------------
\* SetProperties: first the checks on a prefix of n fields p.
StartIsMissing(n, p) == "time" \in p.flags /\ "time" \notin s.flags /\ ~HasStop(n)

Rejected(n, p) ==
    \/ n > AllFields
    \/ HasFlags(n) /\ StartIsMissing(n, p)
    \/ HasSize(n) /\ p.size \notin {0, s.size}
    \/ HasSize(n) /\ p.size < p.actual

\* Then the assignments; the flag of the type follows the type that is there.
Assigned(n, p) ==
    LET r == [s EXCEPT
                !.flags = IF HasFlags(n) THEN p.flags \cup (@ \cap {"media"}) ELSE @,
                !.actual = IF HasActual(n) THEN p.actual ELSE @,
                !.stop = IF HasStop(n) THEN p.stop ELSE @,
                !.start = IF HasStart(n) THEN p.start ELSE @]
        t == IF HasType(n) /\ "type" \in p.flags THEN p.type ELSE s.type
    IN Typed(r, t)

TakeProperties(n, p) ==
    LET noType == HasType(n) /\ "type" \in p.flags /\ ~Rejected(n, p) IN
    /\ inUse
    /\ ("stop" \in p.flags => "time" \in p.flags) \/ StopFlagAlone
    /\ \/ /\ Rejected(n, p)
          /\ result' = "invalid" /\ UNCHANGED <<s, given>>
       \/ /\ noType /\ NoTypeMemory
          /\ result' = "memory" /\ UNCHANGED <<s, given>>
       \/ /\ ~Rejected(n, p)
          /\ s' = Assigned(n, p) /\ result' = "ok"
          /\ given' = given \cup (IF HasStart(n) THEN {"start"} ELSE {})
                            \cup (IF HasStop(n) THEN {"stop"} ELSE {})
    /\ UNCHANGED <<inUse, media>>

SetProperties ==
    \E n \in Prefixes, f \in SUBSET Settable, a, b \in Times, z \in Sizes \cup {0}, l \in Sizes :
        TakeProperties(n, [flags |-> f, start |-> a, stop |-> b, type |-> "t1", actual |-> l, size |-> z])

-----------------------------------------------------------------------------
\* The last Release empties the sample; times and data length stay, unflagged.
Release ==
    /\ inUse /\ inUse' = FALSE
    /\ s' = [s EXCEPT !.type = IF "type" \in s.flags THEN NoMediaType ELSE @, !.flags = {}]
    /\ result' = "ok"
    /\ UNCHANGED <<given, media>>

Next ==
    \/ GetBuffer \/ SetPointer \/ Release
    \/ SetTime \/ SetMediaTime \/ SetMark \/ SetActualDataLength \/ SetMediaType \/ SetProperties

Spec == Init /\ [][Next]_vars

-----------------------------------------------------------------------------
\* What the calls that read return.
GetTime ==
    CASE "stop" \in s.flags -> <<s.start, s.stop>>
      [] "stop" \notin s.flags /\ "time" \in s.flags -> <<s.start, s.start + 1>>
      [] OTHER -> <<>>
GetMediaTime == IF "media" \in s.flags THEN <<s.mediaStart, s.mediaStart + s.mediaEnd>> ELSE <<>>

\* Every variable has its type.
TypeOK ==
    /\ s.flags \subseteq Flags /\ {s.start, s.stop} \subseteq Times \cup {0}
    /\ s.type \in {NoMediaType, "t1", "t2"} /\ s.size \in Sizes
    /\ inUse \in BOOLEAN /\ given \subseteq {"start", "stop"}

\* The asserts in GetMediaType and Release: a type is there exactly if the flag
\* says so, whatever mixture of the two interfaces set it.
TypeHasFlag == ("type" \in s.flags) <=> s.type # NoMediaType

\* A sample that is handed out again says nothing of its last use.
RecycledIsClean == ~inUse => s.flags = {} /\ s.type = NoMediaType

\* "Check a flag isn't being set for a property not being provided": a start time
\* that GetTime vouches for was given in this use of the buffer.
StartIsOfThisUse == "time" \in s.flags => "start" \in given

\* The same of what GetTime returns at all.
TimeIsOfThisUse == GetTime # <<>> => "start" \in given

\* GetMediaTime returns what SetMediaTime was given, and SetProperties never
\* changes it.
MediaTimeReadsBack == inUse => GetMediaTime = media

\* "Check lActual": the sample never claims more data than its buffer holds.
DataFits == s.actual <= s.size

\* "Do checks first, the assignments (for backout)": SetProperties fails whole.
FailsWhole == [][inUse /\ result' = "invalid" => s' = s]_vars
=============================================================================
