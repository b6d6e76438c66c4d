---------------------------- MODULE VideoRenderer ----------------------------
(***************************************************************************)
(* DSC2CSLib/video.cpp and RemoveUnconnectedRenderer: the objects that put  *)
(* a video renderer filter into a graph, keep its control interface, and    *)
(* take it out again.  An operator's last parameter r is what the function  *)
(* returns: "ok", "failed", or "fault" for a NULL pointer it dereferences.  *)
(***************************************************************************)
EXTENDS Integers, FiniteSets

\* COM and the filter graph manager, as DSC2CSLib uses them.  A graph is alive
\* while the program holds a reference to it.  A call the program makes on these
\* components may fail when its name is in MayFail.
CONSTANTS MaxGraphs,   \* how many graphs one execution may create (a bound)
          ComInits,    \* how often COM is initialised on the calling thread
                       \* before the DLL is first called
          MayFail      \* the external calls that may fail

Calls == {"CoCreateInstance", "QueryInterface", "SetNotifyWindow",
          "AddSourceFilter", "AddFilter", "Load", "SetFileName", "EnumPins",
          "GetPin", "QueryPinInfo", "Connect", "RenderEx", "FindConnectedPin",
          "RemoveFilter", "GetCapabilities", "Windowless", "MixerBitmap",
          "SetVideoWindow", "Control", "Abort"}

ASSUME ComAssumption == /\ MaxGraphs \in Nat \ {0}
                        /\ ComInits \in Nat
                        /\ MayFail \subseteq Calls

VARIABLES refs,        \* how many references to each graph the program holds
          mode,        \* whether each graph exists, and whether it streams
          renderers,   \* the video renderer filters in each graph
          windowless,  \* those told to draw in a window of the program
          connected,   \* those with a connected input pin
          comInits     \* COM initialisations of the thread still in force

graphVars == <<refs, mode, renderers, windowless, connected>>

Null      == 0
Graphs    == 1 .. MaxGraphs
Renderers == {"EVR", "VMR9", "VMR7"}

Live(g) == mode[g] \in {"stopped", "paused", "running"}

\* What a call may answer: TRUE for a success code.
Outcome(c) == IF c \in MayFail THEN BOOLEAN ELSE {TRUE}

NoGraphs == /\ refs = [g \in Graphs |-> 0]
            /\ mode = [g \in Graphs |-> "absent"]
            /\ renderers = [g \in Graphs |-> {}]
            /\ windowless = [g \in Graphs |-> {}]
            /\ connected = [g \in Graphs |-> {}]
            /\ comInits = ComInits

\* CoCreateInstance(CLSID_FilterGraph) can succeed only while COM is
\* initialised on the thread.
NewGraph(g) == /\ comInits > 0
               /\ mode[g] = "absent"
               /\ \A h \in Graphs : mode[h] = "absent" => g <= h
               /\ mode' = [mode EXCEPT ![g] = "stopped"]
               /\ refs' = [refs EXCEPT ![g] = 1]
               /\ UNCHANGED <<renderers, windowless, connected, comInits>>

\* Releasing n[g] references to each graph g; a graph stops and disappears
\* with its last reference.
Release(n) ==
  /\ refs' = [g \in Graphs |-> refs[g] - n[g]]
  /\ mode' = [g \in Graphs |-> IF n[g] > 0 /\ refs[g] = n[g]
                                 THEN "gone" ELSE mode[g]]
  /\ UNCHANGED <<renderers, windowless, connected>>

\* A filter of a running graph reports EC_ERRORABORT and the graph manager
\* stops the graph by itself.
Abort(g) == /\ "Abort" \in MayFail
            /\ mode[g] = "running"
            /\ mode' = [mode EXCEPT ![g] = "stopped"]
            /\ UNCHANGED <<refs, renderers, windowless, connected, comInits>>

\* That a count is never negative is not a matter of types here: it follows
\* from what the program does with its pointers.
GraphTypeOK ==
  /\ refs \in [Graphs -> Int]
  /\ mode \in [Graphs -> {"absent", "stopped", "paused", "running", "gone"}]
  /\ renderers \in [Graphs -> SUBSET Renderers]
  /\ windowless \in [Graphs -> SUBSET Renderers]
  /\ connected \in [Graphs -> SUBSET Renderers]
  /\ comInits \in 0 .. ComInits

-----------------------------------------------------------------------------
\* The renderer objects.
CONSTANT Windows   \* the windows the program hands to the DLL

VARIABLES m_pVideo,   \* the player's renderer object
          pBmp        \* the graph whose VMR-9 mixer the global points to

NoWindow == "none"

\* A renderer object: its class, the graph its filter was put into, whether
\* it still holds the filter's control interface, and that control's window.
Renderer(k, g, w) == [kind |-> k, graph |-> g, ctl |-> TRUE, hwnd |-> w]
NoVideo == [kind |-> "none", graph |-> Null, ctl |-> FALSE, hwnd |-> NoWindow]

HasVideo == m_pVideo.ctl

\* The EVR has no rendering mode to set: it draws in the window of its control.
InitializeEVR(r) ==
  /\ \E ok \in Outcome("Windowless") : r = IF ok THEN "ok" ELSE "failed"
  /\ UNCHANGED <<windowless, pBmp>>

\* For the VMR-7 the rendering mode comes first.
InitWindowlessVMR(g, r) ==
  \E drawsHere, rest \in Outcome("Windowless") :
    /\ windowless' = [windowless EXCEPT
                        ![g] = IF drawsHere THEN @ \cup {"VMR7"} ELSE @]
    /\ r = IF drawsHere /\ rest THEN "ok" ELSE "failed"
    /\ UNCHANGED pBmp

\* The query for the mixer overwrites hr: when it succeeds, an earlier
\* failure is forgotten and the control pointer is used although it is NULL.
InitWindowlessVMR9(g, r) ==
  \E drawsHere, control, clip \in Outcome("Windowless"),
     mixer \in Outcome("MixerBitmap") :
    /\ windowless' = [windowless EXCEPT
                        ![g] = IF drawsHere THEN @ \cup {"VMR9"} ELSE @]
    /\ pBmp' = IF mixer THEN g ELSE Null
    /\ r = IF ~mixer THEN "failed"
           ELSE IF ~(drawsHere /\ control) THEN "fault"
           ELSE IF clip THEN "ok" ELSE "failed"

\* The filter stays in the graph when the initialisation after it fails.
AddToGraph(k, g, r) ==
  \/ /\ "AddFilter" \in MayFail
     /\ r = "failed"
     /\ UNCHANGED <<renderers, windowless, pBmp>>
  \/ /\ renderers' = [renderers EXCEPT ![g] = @ \cup {k}]
     /\ \/ k = "EVR"  /\ InitializeEVR(r)
        \/ k = "VMR9" /\ InitWindowlessVMR9(g, r)
        \/ k = "VMR7" /\ InitWindowlessVMR(g, r)

\* FindConnectedPin fails when no input pin is connected, and also when a
\* pin cannot be examined.
FindConnectedPin(k, g) ==
  IF k \in connected[g] THEN Outcome("FindConnectedPin") ELSE {FALSE}

\* A slip in RemoveUnconnectedRenderer: the test of hr is the wrong way round.
RemoveUnconnectedRenderer_Swapped(g, removed, r) ==
  /\ r = "ok"
  /\ removed \in FindConnectedPin(m_pVideo.kind, m_pVideo.graph)
  /\ IF removed
       THEN /\ renderers' = [renderers EXCEPT ![g] = @ \ {m_pVideo.kind}]
            /\ connected' = [connected EXCEPT ![g] = @ \ {m_pVideo.kind}]
       ELSE UNCHANGED <<renderers, connected>>

RemoveUnconnectedRenderer(g, removed, r) ==
  \E found \in FindConnectedPin(m_pVideo.kind, m_pVideo.graph) :
    \/ /\ found
       /\ ~removed /\ r = "ok"
       /\ UNCHANGED <<renderers, connected>>
    \/ /\ ~found /\ g = Null
       /\ ~removed /\ r = "fault"
       /\ UNCHANGED <<renderers, connected>>
    \/ /\ ~found /\ g # Null
       /\ "RemoveFilter" \in MayFail \/ m_pVideo.graph # g
       /\ ~removed /\ r = "failed"
       /\ UNCHANGED <<renderers, connected>>
    \/ /\ ~found /\ g # Null /\ m_pVideo.graph = g
       /\ removed /\ r = "ok"
       /\ renderers' = [renderers EXCEPT ![g] = @ \ {m_pVideo.kind}]
       /\ connected' = [connected EXCEPT ![g] = @ \ {m_pVideo.kind}]

\* The VMRs ask their control for the filter first; the EVR has it at hand.
FinalizeGraph(g, r) ==
  \/ /\ ~m_pVideo.ctl
     /\ r = "ok"
     /\ UNCHANGED <<m_pVideo, renderers, connected>>
  \/ /\ m_pVideo.ctl /\ m_pVideo.kind # "EVR"
     /\ "QueryInterface" \in MayFail
     /\ r = "failed"
     /\ UNCHANGED <<m_pVideo, renderers, connected>>
  \/ /\ m_pVideo.ctl
     /\ \E removed \in BOOLEAN :
          /\ RemoveUnconnectedRenderer(g, removed, r)
          /\ m_pVideo' = IF removed THEN [m_pVideo EXCEPT !.ctl = FALSE]
                                    ELSE m_pVideo

\* The VMR-7 object ignores the request; the other two use their control
\* without a test, and do not look at its answer.
SetVideoWindow(w, r) ==
  \/ /\ m_pVideo.kind = "VMR7"
     /\ r = "ok"
     /\ UNCHANGED m_pVideo
  \/ /\ m_pVideo.kind \in {"EVR", "VMR9"} /\ ~m_pVideo.ctl
     /\ r = "fault"
     /\ UNCHANGED m_pVideo
  \/ /\ m_pVideo.kind \in {"EVR", "VMR9"} /\ m_pVideo.ctl
     /\ r = "ok"
     /\ \E ok \in Outcome("SetVideoWindow") :
          m_pVideo' = IF ok THEN [m_pVideo EXCEPT !.hwnd = w] ELSE m_pVideo

VideoObjects == [kind : Renderers \cup {"none"}, graph : 0 .. MaxGraphs,
                 ctl : BOOLEAN, hwnd : Windows \cup {NoWindow}]

\* The renderer objects' variables have their types.
VideoTypeOK ==
  /\ m_pVideo \in VideoObjects
  /\ pBmp \in 0 .. MaxGraphs
====
