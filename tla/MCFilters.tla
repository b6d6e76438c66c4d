------------------------------ MODULE MCFilters ------------------------------
(***************************************************************************)
(* Small instances of the base classes of filters and their parts, side by *)
(* side: each execution is about one of them, named by part, and the others *)
(* stay as they are initially.                                             *)
(***************************************************************************)
EXTENDS BaseList

CONSTANTS
    Parts,          \* the components a run is about
    E_NOTIMPL       \* of Seeking

VARIABLES
    part,
    \* BaseRenderer.
    r, rendererClock, rendererApp, src, falseErrors,
    \* BaseWindow.
    window, posted, sent, frames, realizing, asked, program, paletteStream,
    windowLock, paletteLock, mine, hPalette, selected, made, alive, foreign,
    visible, missed,
    \* Transform.
    flt, lockF, lockR, transformApp, transformPush, seek, down, out, flushes,
    sessions,
    \* TransInPlace.
    placeConnected, outAlloc, inAlloc, readOnly, up, offers, pending,
    \* StreamControl.
    c, event, controlClock, now, controlPush, controlPosition, calls, changes,
    \* Seeking.
    source, todo, seen, seekConnected, seekStream, seekPosition, eos,
    stopFound, shown, answer, seeks

rendererVars == <<r, rendererClock, rendererApp, src, falseErrors>>
paletteVars == <<window, posted, sent, frames, realizing, asked, program,
    paletteStream, windowLock, paletteLock, mine, hPalette, selected, made,
    alive, foreign, visible, missed>>
transformVars == <<flt, lockF, lockR, transformApp, transformPush, seek,
    down, out, flushes, sessions>>
placeVars == <<placeConnected, outAlloc, inAlloc, readOnly, up, offers,
    pending>>
controlVars == <<c, event, controlClock, now, controlPush,
    controlPosition, calls, changes>>
seekVars == <<source, todo, seen, seekConnected, seekStream,
    seekPosition, eos, stopFound, shown, answer, seeks>>

Renderer == INSTANCE BaseRenderer
    WITH TypeFails <- FALSE, Clock <- TRUE, Cookies <- {1, 2},
    clock <- rendererClock, app <- rendererApp

RefusingRenderer == INSTANCE BaseRenderer
    WITH TypeFails <- TRUE, Clock <- TRUE, Cookies <- {1, 2},
    clock <- rendererClock, app <- rendererApp

Window == INSTANCE BaseWindow
    WITH PostToDestroy <- TRUE, NoRealize <- FALSE, MaxPalettes <- 2,
    MaxForeign <- 1, stream <- paletteStream

PlainWindow == INSTANCE BaseWindow
    WITH PostToDestroy <- FALSE, NoRealize <- TRUE, MaxPalettes <- 2,
    MaxForeign <- 1, stream <- paletteStream

Transformer == INSTANCE Transform
    WITH Buffers <- 2, CanFail <- TRUE,
    Kinds <- {"media", "other", "badtype"}, MaxFlushes <- 1,
    MaxSessions <- 1, app <- transformApp, push <- transformPush

InPlace == INSTANCE TransInPlace
    WITH Filters <- 2, Modifies <- {2}, Upstreams <- {1, 2},
    Refuses <- FALSE, None <- <<>>, connected <- placeConnected

RefusedInPlace == INSTANCE TransInPlace
    WITH Filters <- 2, Modifies <- {1, 2}, Upstreams <- {1}, Refuses <- TRUE,
    None <- <<>>, connected <- placeConnected

Control == INSTANCE StreamControl
    WITH Stops <- {1, 3, 9, -1}, Starts <- {1, 3, 9, -1},
    SendExtra <- BOOLEAN, Times <- 0..4, Lengths <- {0, 2}, MaxChanges <- 2,
    Never <- 9, Now <- -1, MaxCalls <- 2, clock <- controlClock,
    push <- controlPush, position <- controlPosition

Positioner == INSTANCE Seeking
    WITH Threads <- {"t1", "t2"}, HasSeeking <- FALSE, Untimed <- FALSE,
    Length <- 2, Targets <- {0, 1, 2}, MaxSeeks <- 2,
    connected <- seekConnected, stream <- seekStream,
    position <- seekPosition

ASSUME FiltersAssumption ==
    /\ BaseListAssumption
    /\ Renderer!BaseRendererAssumption
    /\ RefusingRenderer!BaseRendererAssumption
    /\ Window!BoundsAssumption
    /\ PlainWindow!BoundsAssumption
    /\ Transformer!TransformAssumption
    /\ InPlace!TransInPlaceAssumption
    /\ RefusedInPlace!TransInPlaceAssumption
    /\ Control!StreamControlAssumption
    /\ Positioner!SeekingAssumption

FiltersInit ==
    /\ part \in Parts
    /\ part # "StreamControl" => controlClock = FALSE
    /\ Init
    /\ CASE part = "RefusingRenderer" -> RefusingRenderer!Init
         [] OTHER -> Renderer!Init
    /\ CASE part = "PlainWindow" -> PlainWindow!Init
         [] OTHER -> Window!Init
    /\ Transformer!Init
    /\ CASE part = "RefusedInPlace" -> RefusedInPlace!Init
         [] OTHER -> InPlace!Init
    /\ Control!Init
    /\ Positioner!Init
    /\ part # "Transform" => flt.conn = {"in", "out"}

FiltersNext ==
    /\ part' = part
    /\ IF part = "BaseList" THEN Next ELSE UNCHANGED h
    /\ CASE part = "BaseRenderer" -> Renderer!Next
         [] part = "RefusingRenderer" -> RefusingRenderer!Next
         [] OTHER -> UNCHANGED rendererVars
    /\ CASE part = "BaseWindow" -> Window!Next
         [] part = "PlainWindow" -> PlainWindow!Next
         [] OTHER -> UNCHANGED paletteVars
    /\ IF part = "Transform" THEN Transformer!Next ELSE UNCHANGED transformVars
    /\ CASE part = "TransInPlace" -> InPlace!Next
         [] part = "RefusedInPlace" -> RefusedInPlace!Next
         [] OTHER -> UNCHANGED placeVars
    /\ IF part = "StreamControl" THEN Control!Next ELSE UNCHANGED controlVars
    /\ IF part = "Seeking" THEN Positioner!Next ELSE UNCHANGED seekVars

FiltersSpec ==
    FiltersInit /\ [][FiltersNext]_<<part, h, rendererVars, paletteVars, transformVars, placeVars, controlVars, seekVars>>

-----------------------------------------------------------------------------
\* CBaseRenderer and CBaseWindow: a stopped renderer holds nothing, the end of the
\* stream is told once and after the last sample, and no error is told that is
\* none; the selected palette exists and is the installed one, or the default one
\* if the window was hidden, and nothing of a window runs after its destructor.
RendererIsInOrder ==
    /\ part \in {"BaseRenderer", "RefusingRenderer"} =>
         /\ Renderer!TypeOK /\ Renderer!StoppedIsEmpty /\ Renderer!ToldOnce
         /\ Renderer!EndAfterLastSample /\ Renderer!NoFalseError
    /\ part \in {"BaseWindow", "PlainWindow"} =>
         Window!TypeOK /\ Window!SelectedIsAlive /\ Window!InstalledIsSelected
    /\ part = "BaseWindow" => Window!NothingAfterDone

\* CTransformFilter and CTransInPlaceFilter: every buffer is accounted for,
\* samples are transformed only while streaming and a renderer below is not kept
\* waiting; the pins of a chain agree on an allocator, read-only samples are copied
\* and no other is needlessly.
TransformsInOrder ==
    /\ part = "Transform" =>
         /\ Transformer!TypeOK /\ Transformer!BuffersAccounted
         /\ Transformer!TransformsWhileStreaming /\ Transformer!RendererDoesNotWait
         /\ Transformer!NoFalseSkip
    /\ part = "TransInPlace" =>
         /\ InPlace!TypeOK /\ InPlace!AllocatorAgreed /\ InPlace!ReadOnlyIsCopied
         /\ InPlace!NoNeedlessCopy

\* CBaseStreamControl, CSourcePosition and CGenericList: a sample flows if any part
\* of it should and the events come in the order of time; changes of the position
\* are noticed however two threads overlap; the lists are whole and operations put
\* objects where they are asked to.
PositionsAndLists ==
    /\ part = "StreamControl" =>
         /\ Control!TypeOK /\ Control!FlowsIfAnyPartShould /\ Control!EventsInOrder
         /\ Control!OneExtraSample
    /\ part = "Seeking" => Positioner!TypeOK /\ Positioner!ChangesAreNoticed
    /\ part = "BaseList" =>
         /\ TypeOK /\ ListsAreWhole /\ NodesAccounted /\ ObjectsGoWhereAsked
         /\ ListsKeepTheirOrder /\ PartsAreJoined

\* A sample leaves no request behind that lies before it, and a request that came
\* while it waited is seen.
RequestsAreSeen == Control!PastIsForgotten /\ Control!NoRequestMissed

\* Under the fairness of each component Stop and flushes return, a pause is
\* completed and the end of the stream told, a change of the palette and the calls
\* of the program end, reconnections end, a sample held back is let go, and the
\* stream plays to its end.
CallsComeBack ==
    /\ part = "BaseRenderer" =>
         (Renderer!Fairness => Renderer!CallsReturn /\ Renderer!PauseCompletes /\ Renderer!CompleteIsSent)
    /\ part = "BaseWindow" => (Window!Fairness => Window!ChangeEnds /\ Window!CallsEnd)
    /\ part = "Transform" => (Transformer!Fairness => Transformer!CallsEnd)
    /\ part = "RefusedInPlace" => (RefusedInPlace!Fairness => RefusedInPlace!ReconnectsEnd)
    /\ part = "StreamControl" => (Control!Fairness => Control!HeldIsReleased)
    /\ part = "Seeking" => (Positioner!Fairness => Positioner!PlaysToTheEnd)
=============================================================================
