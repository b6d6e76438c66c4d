----------------------------- MODULE MCRendering -----------------------------
(***************************************************************************)
(* Instances of the base classes of video renderers and decoders,          *)
(* side by side: each execution is about one of them, named by part, and   *)
(* the others stay as they are initially.                                  *)
(***************************************************************************)
EXTENDS ImageAllocator

CONSTANTS
    Parts,          \* the components a run is about
    \* VideoQuality, of frames that are in time and of late ones.
    QualityLeads, QualityDurations, QualityDrawTimes, QualityGaps,
    LateLeads, LateDurations, LateDrawTimes, LateGaps, QualityFrames,
    \* ControlVideo, near and at the ends of a LONG.
    IntMax, Videos, SourceValues, TargetValues, FarVideos, FarTargets, Windows, Chunks,
    \* ControlWindow.
    Places, Origin, WorkArea, DefaultSize, Offscreen,
    \* Seeking.
    Threads, Length, Targets, MaxSeeks, E_NOTIMPL

VARIABLES
    part,
    \* VideoQuality.
    qualityM, frame, now, last, qualityShown, data, frames,
    \* VideoTransform.
    decoderM, out, decoderStream, events,
    \* ControlVideo.
    video, imageSource, target, stretch, shared, paused, call, told, copied,
    imageDrawn, entries,
    \* ControlWindow.
    w, controlConnected, activated, owner, autoShow, cursorHidden, drain,
    \* Seeking.
    seekSource, todo, seen, seekConnected, seekStream, position, eos,
    stopFound, seekShown, answer, seeks

qualityVars == <<qualityM, frame, now, last, qualityShown, data, frames>>
decoderVars == <<decoderM, out, decoderStream, events>>
imageVars == <<video, imageSource, target, stretch, shared, paused, call,
    told, copied, imageDrawn, entries>>
controlVars == <<w, controlConnected, activated, owner, autoShow,
    cursorHidden, drain>>
seekVars == <<seekSource, todo, seen, seekConnected, seekStream,
    position, eos, stopFound, seekShown, answer, seeks>>

Failing == INSTANCE ImageAllocator WITH Fails <- TRUE

Quality == INSTANCE VideoQuality
    WITH Leads <- QualityLeads, Durations <- QualityDurations, DrawTimes <- QualityDrawTimes,
    Gaps <- QualityGaps, MaxFrames <- QualityFrames, m <- qualityM, shown <- qualityShown

LateQuality == INSTANCE VideoQuality
    WITH Leads <- LateLeads, Durations <- LateDurations, DrawTimes <- LateDrawTimes,
    Gaps <- LateGaps, MaxFrames <- QualityFrames, m <- qualityM, shown <- qualityShown

Decoder == INSTANCE VideoTransform
    WITH KeyWait <- 3, Unset <- {0, 7}, Durations <- {40, 200},
    DecodeTimes <- {20}, Lates <- {0, 100, 130}, Untimed <- FALSE,
    MaxFrames <- 4, m <- decoderM, stream <- decoderStream

Image == INSTANCE ControlVideo
    WITH source <- imageSource, drawn <- imageDrawn

FarImage == INSTANCE ControlVideo
    WITH Videos <- FarVideos, SourceValues <- SourceValues \cap Nat, TargetValues <- FarTargets,
    source <- imageSource, drawn <- imageDrawn

Control == INSTANCE ControlWindow
    WITH connected <- controlConnected

Seeker == INSTANCE Seeking
    WITH HasSeeking <- TRUE, Untimed <- TRUE, source <- seekSource,
    connected <- seekConnected, stream <- seekStream, shown <- seekShown

ASSUME RenderingAssumption ==
    /\ Quality!VideoQualityAssumption
    /\ LateQuality!VideoQualityAssumption
    /\ Decoder!VideoTransformAssumption
    /\ Image!ControlVideoAssumption
    /\ FarImage!ControlVideoAssumption
    /\ Control!ControlWindowAssumption
    /\ Seeker!SeekingAssumption

\* Values of the constants for TLC.
EarlyAndLate == {-600, -12, 60}
LateBySeconds == {-60, 1000}
TwoVideos ==
    {[width |-> 3, height |-> 2, bits |-> 8, used |-> 3],[width |-> 2, height |-> 3, bits |-> 24, used |-> 0]}
FarVideo == {[width |-> 3, height |-> 2, bits |-> 8, used |-> 0]}
OneOff == {-1, 1}
LeftEnd == {-8, 2}
OneWindow == {<<3, 2>>}
TwoOne == <<2, 1>>
BelowTaskBar == <<0, 1>>
ThreeTwo == <<3, 2>>
NineNine == <<9, 9>>
Back == {-1}

RenderingInit ==
    /\ part \in Parts
    /\ part \notin {"ImageAllocator", "FailingAllocator"} => format = CHOOSE f \in Formats : TRUE
    /\ Init
    /\ CASE part = "LateQuality" -> LateQuality!Init
         [] OTHER -> Quality!Init
    /\ Decoder!Init
    /\ CASE part = "FarImage" -> FarImage!Init
         [] OTHER -> Image!Init
    /\ Control!Init
    /\ Seeker!Init
    /\ part # "VideoTransform" => decoderM.waitForKey = 0

RenderingNext ==
    /\ part' = part
    /\ CASE part = "ImageAllocator" -> Next
         [] part = "FailingAllocator" -> Failing!Next
         [] OTHER -> UNCHANGED vars
    /\ CASE part = "VideoQuality" -> Quality!Next
         [] part = "LateQuality" -> LateQuality!Next
         [] OTHER -> UNCHANGED qualityVars
    /\ IF part = "VideoTransform" THEN Decoder!Next ELSE UNCHANGED decoderVars
    /\ CASE part = "ControlVideo" -> Image!Next
         [] part = "FarImage" -> FarImage!Next
         [] OTHER -> UNCHANGED imageVars
    /\ IF part = "ControlWindow" THEN Control!Next /\ Control!Bound' ELSE UNCHANGED controlVars
    /\ IF part = "Seeking" THEN Seeker!Next ELSE UNCHANGED seekVars

RenderingSpec ==
    RenderingInit /\ [][RenderingNext]_<<part, vars, qualityVars, decoderVars, imageVars, controlVars, seekVars>>

-----------------------------------------------------------------------------
\* CImageAllocator: the samples of a committed allocator are as agreed, every
\* sample that is held exists, and none is freed while it is held.
SamplesExist ==
    /\ part = "ImageAllocator" => TypeOK /\ SamplesAsAgreed /\ InUseExists
    /\ part = "FailingAllocator" => TypeOK /\ InUseExists

\* CBaseVideoRenderer and CVideoTransformFilter: frames are planned in time and
\* the quality messages are sane; what leaves the decoder can be decoded, gaps are
\* announced and the loss of quality is told once.
FramesAreInTime ==
    /\ part \in {"VideoQuality", "LateQuality"} => Quality!TypeOK
    /\ part = "VideoQuality" =>
         Quality!PlannedInTime /\ Quality!QualityIsSane /\ Quality!DeviationsAreReal
    /\ part = "VideoTransform" =>
         /\ Decoder!TypeOK /\ Decoder!OutputIsDecodable /\ Decoder!GapsAreAnnounced
         /\ Decoder!QualityToldOnce /\ Decoder!GivesUpWaiting

\* CBaseControlVideo, CBaseControlWindow and CRendererPosPassThru: the source is
\* a part of the video and exactly that is drawn and copied, whatever sides a
\* program moves; a window is a child while it has an owner; the end of the stream
\* is at the stop position, and no position is of an earlier stream.
WindowShowsSource ==
    /\ part = "ControlVideo" =>
         /\ Image!TypeOK /\ Image!SourceInVideo /\ Image!DrawsTheSource
         /\ Image!CopyIsTheSource /\ Image!EntriesInPalette
    /\ part = "FarImage" => FarImage!TypeOK
    /\ part = "ControlWindow" => Control!TypeOK
    /\ part = "Seeking" =>
         /\ Seeker!TypeOK /\ Seeker!ChangesAreNoticed /\ Seeker!EndsAtStop /\ Seeker!NoOldPosition

\* An early frame is not dropped, the picture does not look frozen and the frame
\* after a dropped one is early; moving a side of the window or changing its style
\* changes nothing else of its place, and in an owner only the program moves it.
NothingElseChanges ==
    /\ Quality!EarlyIsNotDropped /\ Quality!NotHung /\ Quality!NextAfterDropIsEarly
    /\ Control!OneSideMoves /\ Control!StyleKeepsPlace /\ Control!OwnedStaysPut
=============================================================================
