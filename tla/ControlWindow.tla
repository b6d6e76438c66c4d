---------------------------- MODULE ControlWindow ----------------------------
(***************************************************************************)
(* The IVideoWindow side of a video renderer (CBaseControlWindow, winctrl) *)
(* with the activation of its window (CBaseWindow, winutil): a program     *)
(* moves, shows, styles and owns the window while the pin is connected and *)
(* disconnected and the window activated and inactivated.                  *)
(*                                                                         *)
(* The window itself is the system's: a rectangle in screen coordinates, a *)
(* parent and style bits. The system takes the coordinates of a child from *)
(* the client area of its parent.                                          *)
(***************************************************************************)
EXTENDS Integers, Sequences

CONSTANTS
  Places,      \* coordinates and sizes a program passes
  Origin,      \* <<x, y>> of the client area of the owner
  WorkArea,    \* <<x, y>> of the screen without its task bar
  DefaultSize, \* <<width, height>> of GetDefaultRect with its frame
  Offscreen    \* <<x, y>>, where a hidden window is shown for a moment

ControlWindowAssumption ==
  /\ Places \subseteq Int
  /\ {Origin, WorkArea, DefaultSize, Offscreen} \subseteq Int \X Int

VARIABLES
  w,         \* the window
  connected, \* the pin is connected
  activated, \* m_bActivated
  owner,     \* m_hwndOwner: TRUE for the window of the program
  autoShow, cursorHidden, drain \* m_bAutoShow, m_bCursorHidden, m_hwndDrain

vars == <<w, connected, activated, owner, autoShow, cursorHidden, drain>>
settings == <<autoShow, cursorHidden, drain>>

Rect(l, t, wd, h) == [left |-> l, top |-> t, width |-> wd, height |-> h]
Rects == [left : Int, top : Int, width : Int, height : Int]

----------------------------------------------------------------------------
(* What the system does *)

GetParent(win) == win.child
Base(win) == IF win.child THEN Origin ELSE <<0, 0>>
\* SetWindowPos and MoveWindow
Put(win, r) == [win EXCEPT !.rect = Rect(r.left + Base(win)[1], r.top + Base(win)[2], r.width, r.height)]
Shown(win, on) == [win EXCEPT !.visible = on]
\* SetParent keeps the coordinates within the parent.
SetParent(win, child) ==
  LET inside == Rect(win.rect.left - Base(win)[1], win.rect.top - Base(win)[2], win.rect.width, win.rect.height)
  IN  Put([win EXCEPT !.child = child], inside)
\* GetWindowPlacement leaves out the task bar, except for a tool window.
Placement(win) ==
  IF win.child \/ win.tool THEN win.rect
  ELSE Rect(win.rect.left - WorkArea[1], win.rect.top - WorkArea[2], win.rect.width, win.rect.height)

----------------------------------------------------------------------------
(* The code's own helpers *)

\* A slip in Inside: a child's rectangle is given in the coordinates of the screen.
Inside_Screen(win) == win.rect

\* GetWindowRect, and MapWindowPoints for a window with a parent
Inside(win) ==
  IF GetParent(win)
  THEN Rect(win.rect.left - Origin[1], win.rect.top - Origin[2], win.rect.width, win.rect.height)
  ELSE win.rect

\* DoSetWindowStyle: SetWindowLong may also change the visible bit, and a
\* hidden window is shown off the screen, hidden and moved back.
Restyle(old, win) ==
  IF old.visible THEN Shown(win, TRUE)
  ELSE Put(Shown(Put(win, Rect(Offscreen[1], Offscreen[2], win.rect.width, win.rect.height)), FALSE), Inside(win))

\* m_ShowStageTop
ShowStageTop(win, top) == [win EXCEPT !.topmost = top, !.visible = top \/ win.visible]

----------------------------------------------------------------------------
Init ==
  /\ w = [rect |-> Rect(0, 0, DefaultSize[1], DefaultSize[2]), child |-> FALSE, visible |-> FALSE,
          topmost |-> FALSE, tool |-> FALSE, caption |-> TRUE]
  /\ connected = FALSE /\ activated = FALSE /\ owner = FALSE
  /\ autoShow = TRUE /\ cursorHidden = FALSE /\ drain = FALSE

\* A method of the interface that changes the window only
Method(win) ==
  /\ connected /\ w' = win
  /\ UNCHANGED <<connected, activated, owner, settings>>

put_Left(n) == Method(Put(w, [Inside(w) EXCEPT !.left = n]))
put_Top(n) == Method(Put(w, [Inside(w) EXCEPT !.top = n]))
put_Width(n) == Method(Put(w, [Inside(w) EXCEPT !.width = n]))
put_Height(n) == Method(Put(w, [Inside(w) EXCEPT !.height = n]))
SetWindowPosition(r) == Method(Put(w, r))
GetWindowPosition == w.rect

\* GetRestorePosition adds the task bar for a window without a parent.
GetRestorePosition ==
  LET p == Placement(w)
  IN  IF GetParent(w) THEN p ELSE Rect(p.left + WorkArea[1], p.top + WorkArea[2], p.width, p.height)

MoveSide == \E n \in Places : put_Left(n) \/ put_Top(n) \/ put_Width(n) \/ put_Height(n)
MoveAll == \E l \in Places, n \in Places : SetWindowPosition(Rect(l, l, n, n))

\* A program changes the style it has read, and leaves the child bit alone.
put_WindowStyle ==
  \E caption \in BOOLEAN, bit \in BOOLEAN : Method(Restyle(w, [w EXCEPT !.caption = caption, !.visible = bit]))

\* The topmost bit is the window thread's to change, the others are set here.
put_WindowStyleEx ==
  \E top \in BOOLEAN, tool \in BOOLEAN :
    LET win == IF w.topmost /\ ~top THEN ShowStageTop(w, FALSE)
               ELSE IF top THEN ShowStageTop(w, TRUE) ELSE w
    IN  Method(IF top /\ ~tool THEN win ELSE Restyle(win, [win EXCEPT !.tool = tool]))

put_Visible == \E on \in BOOLEAN : Method(Shown(w, on))
SetWindowForeground == Method(Shown(w, TRUE))

\* put_Owner: the owner, the child bit, the parent, in this order
put_Owner(on) ==
  /\ connected /\ owner' = on /\ w' = SetParent(w, on)
  /\ UNCHANGED <<connected, activated, settings>>
Own == \E on \in BOOLEAN : put_Owner(on)

put_AutoShow ==
  /\ connected /\ autoShow' \in BOOLEAN
  /\ UNCHANGED <<w, connected, activated, owner, cursorHidden, drain>>
HideCursor ==
  /\ connected /\ cursorHidden' \in BOOLEAN
  /\ UNCHANGED <<w, connected, activated, owner, autoShow, drain>>
put_MessageDrain ==
  /\ connected /\ drain' \in BOOLEAN
  /\ UNCHANGED <<w, connected, activated, owner, autoShow, cursorHidden>>

----------------------------------------------------------------------------
(* The renderer *)

Connect ==
  /\ ~connected /\ connected' = TRUE /\ activated' = FALSE
  /\ UNCHANGED <<w, owner, settings>>
Disconnect ==
  /\ connected /\ connected' = FALSE
  /\ UNCHANGED <<w, activated, owner, settings>>

\* ActivateWindow: the first time, and without a parent, the window gets its
\* default size and is aligned.
Placed(win) == activated \/ GetParent(win)
ActivateWindow ==
  /\ connected /\ activated' = TRUE
  /\ w' = IF Placed(w) THEN w
          ELSE Put(w, Rect(w.rect.left - (w.rect.left % 4), w.rect.top - (w.rect.top % 4), DefaultSize[1], DefaultSize[2]))
  /\ UNCHANGED <<connected, owner, settings>>

InactivateWindow ==
  /\ activated /\ activated' = FALSE /\ w' = Shown(w, FALSE)
  /\ UNCHANGED <<connected, owner, settings>>

\* The user closes the window: OnClose only hides it.
OnClose ==
  /\ w.visible /\ w' = Shown(w, FALSE)
  /\ UNCHANGED <<connected, activated, owner, settings>>

Next ==
  \/ MoveSide \/ MoveAll \/ put_WindowStyle \/ put_WindowStyleEx \/ put_Visible \/ SetWindowForeground
  \/ Own \/ put_AutoShow \/ HideCursor \/ put_MessageDrain
  \/ Connect \/ Disconnect \/ ActivateWindow \/ InactivateWindow \/ OnClose

Bound == \A n \in {w.rect.left, w.rect.top} : n <= 6
Spec == Init /\ [][Next /\ Bound']_vars

----------------------------------------------------------------------------
\* Every variable has its type, and the window is a child exactly while it
\* has an owner (put_Owner, put_WindowStyle): the code asks now one, now the
\* other.
TypeOK ==
  /\ w.rect \in Rects /\ connected \in BOOLEAN /\ activated \in BOOLEAN /\ autoShow \in BOOLEAN
  /\ w.child = owner

Differences(a, b) == {f \in {"left", "top", "width", "height"} : a[f] # b[f]}

\* Moving one side of the window leaves the other three numbers as they were,
\* on the screen and in an owner (MapWindowPoints).
OneSideMoves ==
  [][MoveSide => \A f \in Differences(w.rect, w'.rect) : Differences(w.rect, w'.rect) = {f}]_vars

\* A change of style leaves the window where it was and as visible as it was,
\* though it is moved, shown and hidden on the way (DoSetWindowStyle).
StyleKeepsPlace == [][put_WindowStyle => w'.rect = w.rect /\ w'.visible = w.visible]_vars

\* A window inside an owner is not moved by the renderer, only by the
\* program: neither styles nor activation take it from its place.
OwnedStaysPut == [][owner /\ owner' /\ w'.rect # w.rect => MoveSide \/ MoveAll]_vars

\* "When in a normal position then this returns the same coordinates as
\* GetWindowPosition": the comment of GetRestorePosition.
RestoreIsPosition == GetRestorePosition = GetWindowPosition
=============================================================================
