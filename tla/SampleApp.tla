------------------------------ MODULE SampleApp ------------------------------
(***************************************************************************)
(* The sample application: Form1, which shows the picture in one of its    *)
(* two panels, and Form2, a second window it shows modally with a timer    *)
(* that repaints. The handlers run on one thread; each calls the library   *)
(* through the same DSCS object. The library is reduced to what they see:  *)
(* a player, its renderer and the window of the renderer.                  *)
(***************************************************************************)
EXTENDS Integers, Sequences

CONSTANTS
  Ticks,    \* after how many ticks the timer of a Form2 stops
  MaxForms  \* bound: how often the second window is shown

SampleAssumption == Ticks \in Nat \ {0} /\ MaxForms \in Nat

VARIABLES
  player, video, window, \* the player exists, its renderer exists, and its window
  area,                  \* the panel whose size the picture was last given
  fileName,              \* the player has got the name of a file
  m_videoInitialized,
  m_replaceWindow, m_mouseDown,
  m_cross,               \* not null
  form2,                 \* a second window is shown
  count,                 \* of the timer of each second window made so far
  end                    \* "running", "closed", or the pointer a handler stumbled over

vars == <<player, video, window, area, fileName, m_videoInitialized, m_replaceWindow, m_mouseDown,
          m_cross, form2, count, end>>
library == <<player, video, window, area, fileName, m_videoInitialized>>
form1 == <<m_replaceWindow, m_mouseDown, m_cross>>
second == <<form2, count>>

Init ==
  /\ player = FALSE /\ video = FALSE /\ fileName = FALSE /\ m_videoInitialized = FALSE
  /\ window = "none" /\ area = "none"
  /\ m_replaceWindow = FALSE /\ m_mouseDown = FALSE /\ m_cross = FALSE
  /\ form2 = FALSE /\ count = <<>> /\ end = "running"

----------------------------------------------------------------------------
(* What the library does *)

\* Both initialisations: the old renderer goes and the window is recorded,
\* whatever comes next. One that fails late leaves its renderer.
Initialize(ok) ==
  /\ player' = TRUE /\ window' = "panel1" /\ video' \in {ok, TRUE}
  /\ m_videoInitialized' = (m_videoInitialized \/ ok)

\* UpdateVideoWindow, in the state the handler has reached
UpdateVideoWindow(panel) == area' = IF m_videoInitialized' /\ video' THEN panel ELSE area

\* SetWindowHandle does nothing before a first initialisation or after Close,
\* and needs a renderer otherwise.
SetWindowHandle(w) ==
  IF ~m_videoInitialized \/ ~player THEN UNCHANGED <<window, end>>
  ELSE IF video THEN window' = w /\ UNCHANGED end
  ELSE window' = w /\ end' = "m_pVideo"

\* A handler that shows the picture in another panel, and sizes it
Show(w) ==
  /\ UNCHANGED <<player, video, fileName, m_videoInitialized>>
  /\ SetWindowHandle(w) /\ UpdateVideoWindow(w)

Close ==
  IF m_videoInitialized
  THEN /\ player' = FALSE /\ video' = FALSE /\ window' = "none"
       /\ UNCHANGED <<area, fileName, m_videoInitialized>>
  ELSE UNCHANGED library

----------------------------------------------------------------------------
(* Form1, whose controls are disabled while Form2 is shown *)

Active == end = "running" /\ ~form2

\* The name is dropped while there is no player: the first click fails.
btnPlayerExample ==
  /\ Active /\ fileName' = (player \/ fileName)
  /\ \E ok \in BOOLEAN : Initialize(ok) /\ (video' => fileName')
  /\ UpdateVideoWindow("panel1")
  /\ UNCHANGED <<form1, second, end>>

btnRTSP ==
  /\ Active
  /\ \E ok \in BOOLEAN : Initialize(ok) /\ m_cross' = (ok \/ m_cross)
  /\ UNCHANGED <<area, fileName, m_replaceWindow, m_mouseDown, second, end>>

\* button2, which saves the stream
SaveRTSP ==
  /\ Active /\ fileName' = (player \/ fileName)
  /\ \E ok \in BOOLEAN : Initialize(ok)
  /\ UpdateVideoWindow("panel1")
  /\ UNCHANGED <<form1, second, end>>

\* button1, the only handler that turns the flag
Switch ==
  /\ Active /\ Show(IF m_replaceWindow THEN "panel1" ELSE "panel2")
  /\ m_replaceWindow' = ~m_replaceWindow
  /\ UNCHANGED <<m_mouseDown, m_cross, second>>

Form1_Resize ==
  /\ end = "running"
  /\ UNCHANGED <<player, video, window, fileName, m_videoInitialized, form1, second, end>>
  /\ UpdateVideoWindow(IF m_replaceWindow THEN "panel2" ELSE "panel1")

panel1_MouseDown == Active /\ m_mouseDown' = TRUE /\ UNCHANGED <<library, m_replaceWindow, m_cross, second, end>>
panel1_MouseUp == Active /\ m_mouseDown' = FALSE /\ UNCHANGED <<library, m_replaceWindow, m_cross, second, end>>

\* Dragging draws with the cross of an RTSP source.
panel1_MouseMove ==
  /\ Active /\ m_mouseDown /\ ~m_cross /\ end' = "m_cross"
  /\ UNCHANGED <<library, form1, second>>

button3 == Active /\ Close /\ UNCHANGED <<form1, second, end>>

\* Application.Run returns when Form1 is closed.
Form1_FormClosing ==
  /\ Active /\ Close /\ end' = "closed"
  /\ UNCHANGED <<form1, second>>

----------------------------------------------------------------------------
(* Form2 *)

\* button4: SetPanel starts the timer; Form2_Shown sizes the picture for the
\* new panel before it moves there.
ShowDialog ==
  /\ Active /\ Len(count) < MaxForms
  /\ form2' = TRUE /\ count' = Append(count, 0)
  /\ Show("second")
  /\ UNCHANGED form1

\* ShowDialog returns; the picture goes back to the first panel.
Return ==
  /\ end = "running" /\ form2 /\ form2' = FALSE
  /\ Show("panel1")
  /\ UNCHANGED <<form1, count>>

\* The timer goes on when the form has been closed.
timer1_Tick(f) ==
  /\ end = "running" /\ f \in DOMAIN count /\ count[f] < Ticks
  /\ count' = [count EXCEPT ![f] = @ + 1]
  /\ UNCHANGED <<library, form1, form2, end>>

Next ==
  \/ btnPlayerExample \/ btnRTSP \/ SaveRTSP \/ Switch \/ Form1_Resize
  \/ panel1_MouseDown \/ panel1_MouseUp \/ panel1_MouseMove \/ button3 \/ Form1_FormClosing
  \/ ShowDialog \/ Return \/ \E f \in 1 .. MaxForms : timer1_Tick(f)
Spec == Init /\ [][Next]_vars

----------------------------------------------------------------------------
Panels == {"panel1", "panel2", "second"}

\* Every variable has its type, and a picture is in some panel.
TypeOK ==
  /\ window \in Panels \cup {"none"} /\ area \in Panels \cup {"none"} /\ \A f \in DOMAIN count : count[f] \in 0 .. Ticks
  /\ video => player /\ window # "none"
  /\ end \in {"running", "closed", "m_cross", "m_pVideo"}
  /\ {player, fileName, form2, m_replaceWindow, m_mouseDown, m_cross} \subseteq BOOLEAN

\* The picture of a source that opened, the library following the form
Playing == video /\ m_videoInitialized /\ end = "running"

\* The picture is in the second window exactly while that is shown: when it
\* is closed the picture comes back to a panel that is there.
PictureIsVisible == Playing => (window = "second" <=> form2)

\* The flag of the two panels tells where the picture is, until a source is
\* opened or the second window closed: these show panel1 and leave the flag.
FlagTellsPanel == Playing /\ ~form2 => (m_replaceWindow <=> window = "panel2")
\* Nothing else loses the flag.
FlagGetsLostOnly ==
  [][FlagTellsPanel /\ ~FlagTellsPanel' => btnPlayerExample \/ btnRTSP \/ SaveRTSP \/ Return]_vars

\* The picture has the size of the panel it is in, until a stream is opened,
\* which does not size it, or Form1 is resized: its handler goes by the flag.
Fits == Playing => area = window
\* Nothing else makes the picture fit its panel no more.
MisfitsHaveCauses == [][Fits /\ ~Fits' => btnRTSP \/ Form1_Resize]_vars

\* A handler stumbles over a renderer only after a source that was open has
\* been followed by one that failed.
StumblesAfterFailure == end = "m_pVideo" => m_videoInitialized /\ player /\ ~video

\* When the application has ended after some source was opened, nothing is
\* left in the library, whatever failed since.
NothingLeftOpen == end = "closed" /\ m_videoInitialized => ~player
=============================================================================
