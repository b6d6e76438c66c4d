------------------------------ MODULE Overlays ------------------------------
(***************************************************************************)
(* The shapes the player draws over the video: the map m_overlays, the      *)
(* operations on it (DShowPlayer.cpp), and ApplyOverlay, which paints the   *)
(* visible ones on a bitmap and hands that to the mixer.  Every operator    *)
(* below is one export of the DLL, called under the lock of the DSCS        *)
(* object, so that it is one step.                                         *)
(***************************************************************************)
EXTENDS Integers, FiniteSets

CONSTANTS Ids,          \* the shape ids in use
          Places,       \* where a shape may be drawn
          Origin,       \* the place of coordinates that are all zero
          GdiMayFail,   \* the calls of ApplyOverlay that may fail
          MaxFailures   \* how many of them fail in one execution (a bound)

GdiCalls == {"GetDC", "CreateCompatibleDC", "GetObject", "SelectObject",
             "SetAlphaBitmap"}

ASSUME OverlayAssumption == /\ Origin \in Places
                            /\ GdiMayFail \subseteq GdiCalls
                            /\ MaxFailures \in Nat

VARIABLES m_dsShowPlayer,      \* whether there is a player
          m_videoInitialized,  \* the flag of the DSCS object
          m_pVideo,            \* whether it has a renderer, a VMR-9 with a mixer
          m_overlays,          \* the player's map from ids to shapes
          picture,             \* the shapes in the mixer's bitmap
          gdi,                 \* GDI handles nobody gives back any more
          failures,            \* how many calls of ApplyOverlay have failed
          crashed              \* whether a NULL entry has been used

session  == <<m_dsShowPlayer, m_videoInitialized, m_pVideo>>
overlays == <<session, m_overlays, picture, gdi, failures, crashed>>

Types == {"line", "circle", "text"}

\* What the map holds for an id: nothing, a NULL pointer, or a shape.
Absent       == [type |-> "absent", visible |-> FALSE, at |-> Origin]
NullEntry    == [type |-> "null", visible |-> FALSE, at |-> Origin]
Shape(ty, p) == [type |-> ty, visible |-> TRUE, at |-> p]

IsShape(e) == e.type \in Types
NoShapes   == [id \in Ids |-> Absent]
Visibles   == [id \in Ids |-> IF m_overlays[id].visible THEN m_overlays[id]
                                                      ELSE Absent]

\* Handles of each kind that ApplyOverlay takes.
Handles(w, m, b) == [windowDC |-> w, memoryDC |-> m, bitmap |-> b]
NoHandles == Handles(0, 0, 0)

NoPlayer == /\ m_dsShowPlayer = FALSE
            /\ m_videoInitialized = FALSE
            /\ m_pVideo = FALSE
            /\ m_overlays = NoShapes
            /\ picture = NoShapes
            /\ gdi = NoHandles
            /\ failures = 0
            /\ crashed = FALSE

\* Without a player the exports return S_FALSE and change nothing.
OnPlayer(A) == \/ m_dsShowPlayer /\ A
               \/ ~m_dsShowPlayer /\ UNCHANGED overlays

DereferencesNull == /\ crashed' = TRUE
                    /\ UNCHANGED <<session, m_overlays, picture, gdi, failures>>

SetOverlays(new) == /\ m_overlays' = new
                    /\ UNCHANGED <<session, picture, gdi, failures, crashed>>

\* The four functions that add a shape: an entry already in the map is
\* overwritten in place, without a test of the pointer.
AddShape(ty, id, p) ==
  OnPlayer(IF m_overlays[id].type = "null" THEN DereferencesNull
           ELSE SetOverlays([m_overlays EXCEPT ![id] = Shape(ty, p)]))

AddLine(id, p)          == AddShape("line", id, p)
AddCircle(id, p)        == AddShape("circle", id, p)
AddTextOverlay(id, p)   == AddShape("text", id, p)
AddTextOverlay2(id, p)  == AddShape("text", id, p)

\* The index operator of the map adds a NULL entry for an id it does not have.
Visible(id, visible) ==
  OnPlayer(SetOverlays([m_overlays EXCEPT
             ![id] = IF IsShape(@) THEN [@ EXCEPT !.visible = visible]
                                   ELSE NullEntry]))

HasNullEntry == \E id \in Ids : m_overlays[id].type = "null"

ClearAll ==
  OnPlayer(IF HasNullEntry THEN DereferencesNull
           ELSE SetOverlays([id \in Ids |->
                               [m_overlays[id] EXCEPT !.visible = FALSE]]))

\* What each failing call of ApplyOverlay leaves behind.
LeftBy == [GetDC              |-> NoHandles,
           CreateCompatibleDC |-> Handles(1, 0, 0),
           GetObject          |-> Handles(1, 0, 0),
           SelectObject       |-> Handles(1, 0, 1),
           SetAlphaBitmap     |-> Handles(1, 1, 1)]

Lose(lost) == gdi' = [h \in DOMAIN gdi |-> gdi[h] + lost[h]]

\* A slip in ApplyOverlay: the window's device context is not released.
Painted_KeepsDC ==
  /\ picture' = IF m_pVideo THEN Visibles ELSE picture
  /\ Lose(Handles(1, 0, 0))
  /\ UNCHANGED <<session, m_overlays, failures, crashed>>

\* The bitmap goes to the mixer; everything ApplyOverlay created is given back.
Painted ==
  /\ picture' = IF m_pVideo THEN Visibles ELSE picture
  /\ UNCHANGED <<session, m_overlays, gdi, failures, crashed>>

\* The calls before the loop over the overlays.
BeforeLoop == GdiCalls \ {"SetAlphaBitmap"}

ApplyOverlay ==
  OnPlayer(\/ \E c \in GdiMayFail :
                /\ failures < MaxFailures                 \* the bound
                /\ c \in BeforeLoop \/ (m_pVideo /\ ~HasNullEntry)
                /\ Lose(LeftBy[c])
                /\ failures' = failures + 1
                /\ UNCHANGED <<session, m_overlays, picture, crashed>>
           \/ HasNullEntry /\ DereferencesNull
           \/ ~HasNullEntry /\ Painted)

-----------------------------------------------------------------------------
\* The life of the player, as far as the overlays go.

\* An initialisation makes a player if there is none.  One that fails may leave
\* it with or without a renderer.
InitilizeRSTPSource ==
  /\ m_dsShowPlayer' = TRUE
  /\ \/ m_pVideo' = TRUE /\ m_videoInitialized' = TRUE
     \/ m_pVideo' \in BOOLEAN /\ UNCHANGED m_videoInitialized
  /\ picture' = NoShapes
  /\ UNCHANGED <<m_overlays, gdi, failures, crashed>>

SelectDecoder == /\ m_dsShowPlayer' = TRUE
                 /\ UNCHANGED <<m_videoInitialized, m_pVideo, m_overlays, picture,
                                gdi, failures, crashed>>

\* The map goes with the player, and the mixer with the renderer.
Close == /\ m_videoInitialized /\ m_dsShowPlayer
         /\ m_dsShowPlayer' = FALSE
         /\ m_pVideo' = FALSE
         /\ m_overlays' = NoShapes
         /\ picture' = NoShapes
         /\ UNCHANGED <<m_videoInitialized, gdi, failures, crashed>>

Shapes  == [type : Types, visible : BOOLEAN, at : Places]
Entries == {Absent, NullEntry} \cup Shapes

\* The picture consists of visible shapes.
OverlayTypeOK ==
  /\ m_dsShowPlayer \in BOOLEAN
  /\ m_videoInitialized \in BOOLEAN
  /\ m_pVideo \in BOOLEAN
  /\ m_overlays \in [Ids -> Entries]
  /\ picture \in [Ids -> {Absent} \cup {e \in Shapes : e.visible}]
  /\ gdi \in [{"windowDC", "memoryDC", "bitmap"} -> Nat]
  /\ failures \in 0 .. MaxFailures
  /\ crashed \in BOOLEAN
=============================================================================
