------------------------------ MODULE MCManaged ------------------------------
(***************************************************************************)
(* The managed side, side by side: the crosses, their rings, the DSCS      *)
(* objects and the sample application.  Each execution is about one of     *)
(* them, named by part, and the others stay as they are.                   *)
(***************************************************************************)
EXTENDS Cross

CONSTANTS
    Parts,                                          \* the components a run is about
    RingIds, MaxIndex, RingObjects, RingSizes,      \* of CrossMx
    AnObject, ThreadsOfOne, DscsObjects, ThreadsOfAll, MaxPlayers,    \* of DSCSWrapper
    Ticks, MaxForms                                 \* of SampleApp

VARIABLES
    part,
    \* CrossMx.
    ringDsShowPlayer, ringVideoInitialized, ringPVideo, ringOverlays,
    ringPicture, ringGdi, ringFailures, ringCrashed, index, m_ixStart,
    m_size, m_xy, m_wix, m_fsize, m_last, ringDraw, recent, stored,
    \* DSCSWrapper.
    wrapperDsShowPlayer, made, alive, open, wrapperVideoInitialized, monitor,
    pc, object, op, this, fault, met,
    \* SampleApp.
    player, video, window, area, fileName, appVideoInitialized,
    m_replaceWindow, m_mouseDown, m_cross, form2, count, end

ringVars == <<ringDsShowPlayer, ringVideoInitialized, ringPVideo,
    ringOverlays, ringPicture, ringGdi, ringFailures, ringCrashed, index,
    m_ixStart, m_size, m_xy, m_wix, m_fsize, m_last, ringDraw, recent, stored>>
wrapperVars == <<wrapperDsShowPlayer, made, alive, open,
    wrapperVideoInitialized, monitor, pc, object, op, this, fault, met>>
appVars == <<player, video, window, area, fileName, appVideoInitialized,
    m_replaceWindow, m_mouseDown, m_cross, form2, count, end>>


CONSTANTS c1, c2   \* two crosses

\* The circle of the sample application has the id 0, the lines of its cross
\* have 1 and 2, those of a second cross 3 and 4.
TwoIds == 0 .. 4
TwoCrosses == [c \in {c1, c2} |-> [n \in 1 .. 2 |-> IF c = c1 THEN n ELSE n + 2]]

Ring == INSTANCE CrossMx
    WITH Ids <- RingIds, Objects <- RingObjects, Sizes <- RingSizes,
    m_dsShowPlayer <- ringDsShowPlayer,
    m_videoInitialized <- ringVideoInitialized, m_pVideo <- ringPVideo,
    m_overlays <- ringOverlays, picture <- ringPicture, gdi <- ringGdi,
    failures <- ringFailures, crashed <- ringCrashed, draw <- ringDraw

OneObject == INSTANCE DSCSWrapper
    WITH Threads <- ThreadsOfOne, Objects <- {AnObject},
    m_dsShowPlayer <- wrapperDsShowPlayer,
    m_videoInitialized <- wrapperVideoInitialized

TwoObjects == INSTANCE DSCSWrapper
    WITH Threads <- ThreadsOfAll, Objects <- DscsObjects,
    m_dsShowPlayer <- wrapperDsShowPlayer,
    m_videoInitialized <- wrapperVideoInitialized

App == INSTANCE SampleApp
    WITH m_videoInitialized <- appVideoInitialized

ASSUME ManagedAssumption ==
    /\ Ring!CrossMxAssumption
    /\ OneObject!WrapperAssumption
    /\ TwoObjects!WrapperAssumption
    /\ App!SampleAssumption

ManagedInit ==
    /\ part \in Parts
    /\ Init
    /\ Ring!Init
    /\ CASE part = "TwoObjects" -> TwoObjects!Init
         [] OTHER -> OneObject!Init
    /\ App!Init

ManagedNext ==
    /\ part' = part
    /\ IF part = "Cross" THEN Next ELSE UNCHANGED vars
    /\ IF part = "CrossMx" THEN Ring!Next ELSE UNCHANGED ringVars
    /\ CASE part = "OneObject" -> OneObject!Next
         [] part = "TwoObjects" -> TwoObjects!Next
         [] OTHER -> UNCHANGED wrapperVars
    /\ IF part = "SampleApp" THEN App!Next ELSE UNCHANGED appVars

ManagedSpec ==
    ManagedInit /\ [][ManagedNext]_<<part, vars, ringVars, wrapperVars, appVars>>

-----------------------------------------------------------------------------
\* Every variable of the wrapper and the sample application has its type; no
\* overlay is a NULL pointer; a ring shows its most recent points and nothing else;
\* the calls of one DSCS object never use a dead player and lose none, and those of
\* two objects only when they overlap; the sample's picture is where it is visible.
ManagedIsInOrder ==
    /\ part = "Cross" => TypeOK /\ NoNullEntry
    /\ part = "CrossMx" => Ring!TypeOK /\ Ring!RingHoldsRecent /\ Ring!NothingStaleIsShown
    /\ part = "OneObject" =>
         /\ OneObject!TypeOK /\ OneObject!UsesAreAlive /\ OneObject!CloseCloses
         /\ OneObject!NoPlayerIsLost
    /\ part = "TwoObjects" => TwoObjects!FaultsTakeTwoCalls
    /\ App!TypeOK /\ App!PictureIsVisible /\ App!StumblesAfterFailure /\ App!NothingLeftOpen

\* A picture shows no half of a cross nobody was drawing; the one player two
\* objects share is lost only by calls that overlap; and the sample forgets which
\* panel it shows, or leaves the picture in another size, only where it opens a
\* source or resizes.
StepsHaveCauses ==
    /\ [][part = "Cross" => PictureShowsWhole]_<<part, vars>>
    /\ TwoObjects!LossesTakeTwoCalls
    /\ App!FlagGetsLostOnly /\ App!MisfitsHaveCauses
=============================================================================
