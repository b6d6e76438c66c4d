----------------------------- MODULE BaseWindow -----------------------------
(***************************************************************************)
(* The window of a video renderer (CBaseWindow, winutil) and its palette   *)
(* (CImagePalette), with three threads: that of the window, which handles  *)
(* messages; that of the stream, which changes the palette; and that of    *)
(* the program, which has a window of its own, asks for the background     *)
(* palette and at last destroys the renderer. A message that is sent waits *)
(* for its answer, and a thread that waits so handles the messages sent to *)
(* it. RealizePalette sends WM_PALETTECHANGED to every window.             *)
(***************************************************************************)
EXTENDS Integers, Sequences, SequencesExt, FiniteSets

CONSTANTS
  PostToDestroy, \* m_bDoPostToDestroy
  NoRealize,     \* m_bNoRealize: select the palette, do not realise it
  MaxPalettes,   \* bound: palettes made for one window
  MaxForeign     \* bound: palette changes of other programs for one window

BoundsAssumption == MaxPalettes \in Nat /\ MaxForeign \in Nat

VARIABLES
  window,    \* m_hwnd: "none", "open", or "gone" once the object is deleted
  visible,   \* IsWindowVisible
  posted,    \* the messages posted to the window
  sent,      \* the message each other thread has sent and waits for, or "none"
  frames,    \* the handlers the window's thread is in, the innermost last
  realizing, \* m_bRealizing
  asked,     \* WM_PALETTECHANGED was sent to the window of the program
  program,   \* what the thread of the program does
  stream,    \* what the thread of the stream does
  windowLock, paletteLock, \* m_WindowLock, m_PaletteLock: who has them
  mine,      \* CImagePalette's m_hPalette
  hPalette,  \* CBaseWindow's m_hPalette
  selected,  \* the palette in both device contexts, Default, or NoDC
  made,      \* palettes made so far for this window, and ...
  alive,     \* ... those not deleted
  missed,    \* history: the window was hidden when it was to realise hPalette
  foreign    \* palette changes of other programs so far

palettes == <<mine, hPalette, selected, made, alive>>
sight == <<visible, missed>>
locks == <<windowLock, paletteLock>>
messages == <<posted, sent, frames, realizing, asked, foreign>>
vars == <<window, messages, program, stream, locks, palettes, sight>>

NULL == 0
Default == 0
NoDC == -1
Free == "free"

----------------------------------------------------------------------------
Init ==
  /\ window = "none" /\ posted = <<>> /\ sent = [t \in {"program", "stream"} |-> "none"]
  /\ frames = <<>> /\ realizing = FALSE /\ asked = FALSE /\ foreign = 0
  /\ program = "idle" /\ stream = "idle" /\ windowLock = Free /\ paletteLock = Free
  /\ mine = NULL /\ hPalette = NULL /\ selected = NoDC /\ made = 0 /\ alive = {}
  /\ visible = FALSE /\ missed = FALSE

Top == frames[Len(frames)]
Send(t, m) == sent' = [sent EXCEPT ![t] = m]

\* PrepareWindow, DoCreateWindow, InitialiseWindow, on the thread that will
\* handle the messages. The window is hidden.
PrepareWindow ==
  /\ window = "none" /\ window' = "open" /\ selected' = Default
  /\ UNCHANGED <<messages, program, stream, locks, mine, hPalette, made, alive, sight>>

\* The program, the graph that stops and the user, who closes it, show and hide
\* the window whenever they like: DoShowWindow, InactivateWindow, OnClose.
DoShowWindow ==
  /\ window = "open" /\ visible' = ~visible
  /\ UNCHANGED <<window, messages, program, stream, locks, palettes, missed>>

----------------------------------------------------------------------------
(* The stream: PreparePalette, and RemovePalette in it *)

Rests == UNCHANGED <<window, program, visible>>
Stays == Rests /\ UNCHANGED missed

\* RemovePalette takes the palette lock for all of itself ...
RemovePalette ==
  /\ stream = "idle" /\ window = "open" /\ program # "destroying" /\ made < MaxPalettes /\ paletteLock = Free
  /\ paletteLock' = "stream" /\ stream' = IF mine = NULL THEN "unlock" ELSE "unset"
  /\ Stays /\ UNCHANGED <<messages, windowLock, palettes>>

\* ... and UnsetPalette the window lock as well.
UnsetPalette ==
  /\ stream = "unset" /\ windowLock = Free /\ selected' = Default /\ hPalette' = NULL /\ stream' = "delete"
  /\ Stays /\ UNCHANGED <<messages, locks, mine, made, alive>>

DeletePalette ==
  /\ stream = "delete" /\ alive' = alive \ {mine} /\ mine' = NULL /\ stream' = "unlock"
  /\ Stays /\ UNCHANGED <<messages, locks, hPalette, selected, made>>

UnlockPalette ==
  /\ stream = "unlock" /\ paletteLock' = Free /\ stream' \in {"make", "idle"}
  /\ Stays /\ UNCHANGED <<messages, windowLock, palettes>>

\* MakePalette, in the palette lock
MakePalette ==
  /\ stream = "make" /\ paletteLock = Free
  /\ made' = made + 1 /\ mine' = made + 1 /\ alive' = alive \cup {made + 1} /\ stream' = "set"
  /\ Stays /\ UNCHANGED <<messages, locks, hPalette, selected>>

\* SetPalette(hPalette), in both locks, ...
SetPaletteHandle ==
  /\ stream = "set" /\ windowLock = Free /\ paletteLock = Free
  /\ hPalette' = mine /\ missed' = FALSE /\ windowLock' = "stream" /\ stream' = "send"
  /\ Rests /\ UNCHANGED <<messages, paletteLock, mine, selected, made, alive>>

\* ... which are released before SetPalette() sends its message.
SendRealize ==
  /\ stream = "send" /\ ~NoRealize /\ windowLock' = Free
  /\ Send("stream", "realize") /\ stream' = "wait"
  /\ Stays /\ UNCHANGED <<posted, frames, realizing, asked, foreign, paletteLock, palettes>>

SelectHere ==
  /\ stream = "send" /\ NoRealize /\ paletteLock = Free
  /\ windowLock' = Free /\ selected' = hPalette /\ stream' = "idle"
  /\ Stays /\ UNCHANGED <<messages, paletteLock, mine, hPalette, made, alive>>

Realized ==
  /\ stream = "wait" /\ sent["stream"] = "none" /\ stream' = "idle" /\ windowLock' = Free
  /\ Stays /\ UNCHANGED <<messages, paletteLock, palettes>>

----------------------------------------------------------------------------
(* The program *)

StreamRests == UNCHANGED <<stream, paletteLock, palettes, sight>>

\* put_BackgroundPalette: the wait for the window lock handles no messages.
PutBackgroundPalette ==
  /\ program = "idle" /\ window = "open" /\ ~asked /\ posted = <<>>
  /\ program' = "background"
  /\ StreamRests /\ UNCHANGED <<window, messages, windowLock>>

PostRealize ==
  /\ program = "background" /\ windowLock = Free
  /\ posted' = Append(posted, "realize") /\ program' = "idle"
  /\ StreamRests /\ UNCHANGED <<window, sent, frames, realizing, asked, foreign, windowLock>>

\* Its own window gets WM_PALETTECHANGED; the filter graph may pass it on
\* (NotifyOwnerMessage) and the program waits for the video window then.
NotifyOwnerMessage ==
  /\ program = "idle" /\ asked /\ window = "open" /\ Send("program", "changed here") /\ program' = "notify"
  /\ StreamRests /\ UNCHANGED <<window, posted, frames, realizing, asked, foreign, windowLock>>

Notified ==
  /\ program = "notify" /\ sent["program"] = "none" /\ program' = "idle" /\ asked' = FALSE
  /\ StreamRests /\ UNCHANGED <<window, posted, sent, frames, realizing, foreign, windowLock>>

\* WaitDispatchingMessages and a thread in SendMessage answer too.
Dispatching == program \in {"idle", "destroying"}
Answer ==
  /\ asked /\ Dispatching /\ asked' = FALSE
  /\ StreamRests /\ UNCHANGED <<window, posted, sent, frames, realizing, foreign, program, windowLock>>

\* DoneWithWindow, in the destructor: the filter is disconnected by then and
\* has no palette.
DoneWithWindow ==
  /\ program = "idle" /\ window = "open" /\ stream = "idle" /\ mine = NULL /\ ~asked /\ program' = "destroying"
  /\ IF PostToDestroy THEN posted' = Append(posted, "destroy") /\ UNCHANGED sent
     ELSE Send("program", "destroy") /\ UNCHANGED posted
  /\ StreamRests /\ UNCHANGED <<window, frames, realizing, asked, foreign, windowLock>>

\* The destroyed window has answered: the object is deleted.
Deleted ==
  /\ program = "destroying" /\ window = "gone" /\ sent["program"] = "none" /\ program' = "idle"
  /\ UNCHANGED <<window, messages, stream, locks, palettes, sight>>

----------------------------------------------------------------------------
(* The thread of the window *)

Frame(m, from) == [message |-> m, from |-> from, at |-> "enter"]
Waits == frames # <<>> => Top.at = "wait"
Others == UNCHANGED <<program, stream>>
WindowOnly == Others /\ UNCHANGED sight

\* GetMessage takes a posted message when none is sent; sent ones are taken
\* whenever the thread waits.
Dispatch ==
  /\ frames = <<>> /\ posted # <<>> /\ \A t \in DOMAIN sent : sent[t] = "none"
  /\ frames' = <<Frame(Head(posted), "queue")>> /\ posted' = Tail(posted)
  /\ WindowOnly /\ UNCHANGED <<window, sent, realizing, asked, foreign, locks, palettes>>

Receive ==
  /\ Waits /\ \E t \in DOMAIN sent :
       /\ sent[t] # "none" /\ \A i \in DOMAIN frames : frames[i].from # t
       /\ frames' = Append(frames, Frame(sent[t], t))
  /\ WindowOnly /\ UNCHANGED <<window, posted, sent, realizing, asked, foreign, locks, palettes>>

\* Another program changes the palette of the screen, or the window is about to
\* have the focus and is asked for its own (WM_QUERYNEWPALETTE).
ReceiveForeign ==
  /\ Waits /\ window = "open" /\ foreign < MaxForeign /\ foreign' = foreign + 1
  /\ frames' = Append(frames, Frame("changed elsewhere", "other"))
  /\ WindowOnly /\ UNCHANGED <<window, posted, sent, realizing, asked, locks, palettes>>

At(place) == frames' = [frames EXCEPT ![Len(frames)].at = place]
Return ==
  /\ frames' = Front(frames)
  /\ sent' = [t \in DOMAIN sent |-> IF t = Top.from THEN "none" ELSE sent[t]]

\* OnPaletteChange up to DoRealisePalette. Its own change is not answered with
\* another one, and a hidden window realises nothing.
OnPaletteChange ==
  /\ frames # <<>> /\ Top.at = "enter" /\ Top.message # "destroy"
  /\ LET due == window = "open" /\ Top.message \in {"realize", "changed elsewhere"} IN
     /\ IF due /\ visible THEN At("select") /\ realizing' = TRUE /\ UNCHANGED sent
        ELSE Return /\ UNCHANGED realizing
     /\ missed' = (missed \/ (due /\ ~visible /\ hPalette # NULL))
  /\ Others /\ UNCHANGED <<window, visible, posted, asked, foreign, locks, palettes>>

\* DoRealisePalette: the palette is selected in the palette lock, ...
SelectPalette ==
  /\ frames # <<>> /\ Top.at = "select" /\ paletteLock = Free
  /\ IF hPalette = NULL THEN At("end") /\ UNCHANGED selected
     ELSE selected' = hPalette /\ At("realise")
  /\ WindowOnly /\ UNCHANGED <<window, posted, sent, realizing, asked, foreign, locks, mine, hPalette, made, alive>>

\* ... and realised without a lock; when the screen changes, both windows
\* are told and their answers awaited.
RealizePalette ==
  /\ frames # <<>> /\ Top.at = "realise"
  /\ \/ At("end") /\ UNCHANGED asked
     \/ /\ ~asked /\ asked' = TRUE
        /\ frames' = Append([frames EXCEPT ![Len(frames)].at = "wait"], Frame("changed here", "self"))
  /\ WindowOnly /\ UNCHANGED <<window, posted, sent, realizing, foreign, locks, palettes>>

Answered ==
  /\ frames # <<>> /\ Top.at = "wait" /\ ~asked /\ At("end")
  /\ WindowOnly /\ UNCHANGED <<window, posted, sent, realizing, asked, foreign, locks, palettes>>

\* The end of OnPaletteChange: m_bRealizing of the object is reset.
EndPaletteChange ==
  /\ frames # <<>> /\ Top.at = "end" /\ Return /\ realizing' = FALSE
  /\ WindowOnly /\ UNCHANGED <<window, posted, asked, foreign, locks, palettes>>

\* DoneWithWindow on the window's thread: the contexts and the window go,
\* with the messages still posted, and the caller may proceed.
DestroyWindow ==
  /\ frames # <<>> /\ Top.at = "enter" /\ Top.message = "destroy"
  /\ window' = "gone" /\ posted' = <<>> /\ Return
  /\ selected' = NoDC /\ visible' = FALSE
  /\ Others /\ UNCHANGED missed /\ UNCHANGED <<realizing, asked, foreign, locks, mine, hPalette, made, alive>>

WindowStep ==
  \/ Dispatch \/ Receive \/ OnPaletteChange \/ SelectPalette \/ RealizePalette
  \/ Answered \/ EndPaletteChange \/ DestroyWindow
StreamStep ==
  \/ UnsetPalette \/ DeletePalette \/ UnlockPalette \/ MakePalette \/ SetPaletteHandle
  \/ SendRealize \/ SelectHere \/ Realized
ProgramStep == PostRealize \/ Notified \/ Answer \/ Deleted

Next ==
  \/ PrepareWindow \/ DoShowWindow \/ RemovePalette \/ PutBackgroundPalette \/ NotifyOwnerMessage \/ DoneWithWindow
  \/ ReceiveForeign \/ WindowStep \/ StreamStep \/ ProgramStep

(* Each thread goes on with what it has begun: the window's reads its      *)
(* messages and gets a lock that is free again and again, the stream's     *)
(* finishes its change, the program answers.                               *)
Fairness == SF_vars(WindowStep) /\ WF_vars(StreamStep) /\ WF_vars(ProgramStep)
Spec == Init /\ [][Next]_vars /\ Fairness
----------------------------------------------------------------------------
\* Every variable has its type; no lock is held at rest and the two palette
\* handles are those of palettes that exist.
TypeOK ==
  /\ window \in {"none", "open", "gone"} /\ realizing \in BOOLEAN /\ asked \in BOOLEAN
  /\ program \in {"idle", "background", "notify", "destroying"}
  /\ windowLock \in {Free, "stream"} /\ paletteLock \in {Free, "stream"}
  /\ \A t \in DOMAIN sent : sent[t] \in {"none", "realize", "changed here", "destroy"}
  /\ stream = "idle" => windowLock = Free /\ paletteLock = Free
  /\ {mine, hPalette} \subseteq alive \cup {NULL}
  /\ {visible, missed} \subseteq BOOLEAN

\* No device context has a palette selected that was deleted, whenever the
\* window's thread realises its palette during a change.
SelectedIsAlive == selected \in alive \cup {Default, NoDC}

\* Once the stream is at rest and the window has handled what it was sent, the
\* palette of the stream is the window's (the assertion of RemovePalette) and the
\* one that is selected for drawing. A window that was hidden when it was asked to
\* realise it may still draw with the default one, never with one of before.
InstalledIsSelected ==
  stream = "idle" /\ frames = <<>> /\ window = "open" /\ program # "destroying"
    => hPalette = mine /\ (selected = mine \/ (missed /\ selected = Default))

\* "we realise the palette by sending it a special message": after SetPalette the
\* palette that was installed is the one drawn with, whether the window is seen or not.
InstalledIsRealised ==
  stream = "idle" /\ frames = <<>> /\ window = "open" /\ program # "destroying" /\ hPalette # NULL
    => selected = hPalette

\* Once the destructor has returned no handler of the object is running on
\* the window's thread: the reason to post the message that destroys it.
NothingAfterDone == window = "gone" /\ program = "idle" => frames = <<>>

\* The assertion of OnPaletteChange: it is not entered while realising.
NoRecursion == (frames # <<>> /\ Top.at = "enter" /\ Top.message # "destroy" /\ window = "open") => ~realizing

\* A change of the palette and a call of the program come to their end, though each
\* waits for the window's thread, and that for the program: nobody sends a
\* message with a lock held that a handler needs, or waits without answering.
ChangeEnds == stream # "idle" ~> stream = "idle"
\* ... and so does a call of the program (DoneWithWindow, PrepareWindow).
CallsEnd == program # "idle" ~> program = "idle"
=============================================================================
