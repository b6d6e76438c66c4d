----------------------------- MODULE DSC2CSLib -----------------------------
(***************************************************************************)
(* The functions the DLL exports (DSC2CSLib.cpp), each called through the   *)
(* method of the same name of one DSCS object (DSCSLib/DSCS.cs).  A method  *)
(* holds lock(this) until the native call returns, so the next one starts   *)
(* only at pc = "idle".  What remains when a function's early return is     *)
(* taken changes nothing and is not written down.                          *)
(***************************************************************************)
EXTENDS DShowPlayer

CONSTANT Careful   \* whether the caller keeps to the protocol below

ASSUME CarefulAssumption == Careful \in BOOLEAN

VARIABLES m_dsShowPlayer,      \* whether the global points to a player
          m_videoInitialized   \* the flag of the DSCS object

vars == <<graphVars, comInits, player, pBmp, m_sFileName, pc, call, fault,
          m_dsShowPlayer, m_videoInitialized>>

Init == /\ NoGraphs
        /\ Construct
        /\ pBmp = Null
        /\ m_sFileName = FALSE
        /\ pc = "idle"
        /\ call = NoCall
        /\ fault = "none"
        /\ m_dsShowPlayer = FALSE
        /\ m_videoInitialized = FALSE

Ready == pc = "idle" /\ fault = "none"

\* new DShowPlayer, if there is none: m_selectedDecoder is left as it was
\* in the memory the object got.
EnsurePlayer == /\ m_dsShowPlayer' = TRUE
                /\ IF m_dsShowPlayer THEN UNCHANGED m_selectedDecoder
                                     ELSE m_selectedDecoder' \in Decoders

\* A caller that knows the library initialises a player once, picks a decoder
\* for an RTSP source and asks for no audio, and closes before COM is unloaded.
Protocol(c) ==
  /\ \A i \in Interfaces : itf[i] = Null
  /\ c.op = "InitilizeRSTPSource" =>
        m_dsShowPlayer /\ m_selectedDecoder # "RENDER" /\ ~c.Audio

\* DSShow_InitializePlayer and DSShow_InitilizeRSTPSource.
Initialize(op, w, audio, save) ==
  LET c == [NoCall EXCEPT !.op = op, !.Audio = audio, !.SaveToFile = save]
  IN  /\ Ready
      /\ Careful => Protocol(c)
      /\ \E g \in Graphs : mode[g] = "absent"       \* the bound MaxGraphs
      /\ EnsurePlayer
      /\ call' = c
      /\ m_hwndVideo' = w
      /\ Goto("TearDownGraph")
      /\ UNCHANGED <<graphVars, comInits, session, itf, filter, m_pVideo, pBmp,
                     m_sFileName, m_videoInitialized>>

InitializePlayer(w) == Initialize("InitilizePlayer", w, FALSE, FALSE)
InitilizeRSTPSource(w, audio, save) ==
  Initialize("InitilizeRSTPSource", w, audio, save)

\* The method looks at the HRESULT before it leaves its lock.
Return == /\ pc \in {"S_OK", "failed"}
          /\ m_videoInitialized' = (m_videoInitialized \/ pc = "S_OK")
          /\ call' = NoCall
          /\ Goto("idle")
          /\ UNCHANGED <<graphVars, comInits, player, pBmp, m_sFileName,
                         m_dsShowPlayer>>

SelectDecoder(d) ==
  /\ Ready
  /\ m_dsShowPlayer' = TRUE
  /\ m_selectedDecoder' = d
  /\ UNCHANGED <<graphVars, comInits, session, m_hwndVideo, itf, filter,
                 m_pVideo, pBmp, m_sFileName, pc, call, fault,
                 m_videoInitialized>>

\* Dropped while there is no player, although the name is a global.
SetFileName ==
  /\ Ready
  /\ m_dsShowPlayer
  /\ m_sFileName' = TRUE
  /\ UNCHANGED <<graphVars, comInits, player, pBmp, pc, call, fault,
                 m_dsShowPlayer, m_videoInitialized>>

DSShow_Control == /\ Ready
                  /\ m_dsShowPlayer
                  /\ Play \/ Pause \/ Stop
                  /\ UNCHANGED <<m_dsShowPlayer, m_videoInitialized>>

DSShow_SetWindowHandle(w) ==
  /\ Ready
  /\ m_videoInitialized /\ m_dsShowPlayer
  /\ Careful => m_state # "STATE_CLOSED"
  /\ SetWindowHandle(w)
  /\ UNCHANGED <<m_dsShowPlayer, m_videoInitialized>>

\* ApplyOverlay hands the picture to the mixer behind pBmp whenever there is
\* a renderer, of whichever class; only this use of the pointer can go wrong.
DSShow_ApplyOverlay ==
  /\ Ready
  /\ m_dsShowPlayer
  /\ Careful => m_pVideo.kind \in {"none", "VMR9"}
  /\ m_pVideo.kind # "none" /\ pBmp = Null
  /\ Crash("pBmp")
  /\ UNCHANGED <<graphVars, comInits, player, pBmp, m_sFileName, call,
                 m_dsShowPlayer, m_videoInitialized>>

\* The method needs the flag, which nothing ever clears.
DSShow_Close ==
  /\ Ready
  /\ m_videoInitialized /\ m_dsShowPlayer
  /\ Careful => comInits > 1
  /\ Goto("Close")
  /\ UNCHANGED <<graphVars, comInits, player, pBmp, m_sFileName, call,
                 m_dsShowPlayer, m_videoInitialized>>

\* delete m_dsShowPlayer; m_dsShowPlayer = NULL.
Delete == /\ pc = "delete"
          /\ DeletePlayer
          /\ m_dsShowPlayer' = FALSE
          /\ Goto("idle")
          /\ UNCHANGED <<comInits, pBmp, m_sFileName, call, m_videoInitialized>>

\* The statements of a call in progress.
Step == /\ fault = "none"
        /\ \/ /\ InitializeStep \/ PlayerStep \/ RTSPStep \/ CloseStep
              /\ UNCHANGED <<m_dsShowPlayer, m_videoInitialized>>
           \/ Return
           \/ Delete

Client == \/ \E w \in Windows : InitializePlayer(w)
          \/ \E w \in Windows, audio, save \in BOOLEAN :
               InitilizeRSTPSource(w, audio, save)
          \/ \E d \in Decoders : SelectDecoder(d)
          \/ \E w \in Windows : DSShow_SetWindowHandle(w)
          \/ SetFileName \/ DSShow_Control \/ DSShow_ApplyOverlay \/ DSShow_Close

\* The graph manager acts on its own while the process lives.
Environment == /\ fault = "none"
               /\ \E g \in Graphs : Abort(g)
               /\ UNCHANGED <<player, pBmp, m_sFileName, pc, call, fault,
                              m_dsShowPlayer, m_videoInitialized>>

Next == Step \/ Client \/ Environment

\* The thread inside a native call keeps running; callers need not call.
Spec == Init /\ [][Next]_vars /\ WF_vars(Step)

-----------------------------------------------------------------------------
Labels == {"idle", "S_OK", "failed", "TearDownGraph", "CoCreateInstance",
           "SetNotifyWindow", "GetCapabilities", "AddSourceFilter",
           "RenderStreams", "AddDecoder", "RenderPins", "FinalizeGraph",
           "IFilterGraph2", "Load", "SetFileName", "GetPin", "Connect",
           "RenderEx", "Close", "CloseRenderer", "CoUninitialize", "delete"}
          \cup (Interfaces \ {"m_pGraph"}) \cup Renderers \cup Roles

Locals == [op : {"none", "InitilizePlayer", "InitilizeRSTPSource"},
           Audio : BOOLEAN, SaveToFile : BOOLEAN, pGraph2 : BOOLEAN,
           bRenderedAnyPin : BOOLEAN]

Faults == {"none", "m_pGraph", "m_pControl", "m_pSeek", "m_pVideo",
           "m_pWindowless", "pBmp", "pWC", "pGraph2", "pVideoDecoder", "pin",
           "released"}

\* Every variable keeps to its type.
TypeOK ==
  /\ GraphTypeOK /\ VideoTypeOK /\ PlayerTypeOK
  /\ pc \in Labels
  /\ call \in Locals
  /\ fault \in Faults
  /\ m_dsShowPlayer \in BOOLEAN
  /\ m_videoInitialized \in BOOLEAN

\* The assertion of Play, Pause and Stop: "If state is correct, the graph
\* should exist."  It also names a live graph, whose reference count no
\* overwritten pointer has lost.
StateImpliesGraph ==
  m_state # "STATE_CLOSED" => graph # Null /\ Live(graph)

\* No pointer of the player dangles: a graph holds at least one reference for
\* each of the interface pointers to it, through every re-initialisation that
\* overwrites some of them and fails, and through Close.
PointersHoldReferences ==
  \A g \in Graphs :
    /\ Cardinality({i \in Interfaces : itf[i] = g}) <= refs[g]
    /\ refs[g] > 0 <=> Live(g)

\* The renderer object never survives the graph its filter was put into: it
\* belongs to the graph m_pGraph points to, so that FinalizeGraph(m_pGraph)
\* asks the right graph to take the filter out.
RendererOfThisGraph ==
  m_pVideo.kind # "none" => graph # Null /\ m_pVideo.graph = graph

\* A player that can play shows something: after a successful initialisation
\* a renderer of its graph is connected, and either the renderer object
\* controls one or another renderer was left behind in the graph.
PlayableIsRendered ==
  Ready /\ m_state # "STATE_CLOSED" =>
    /\ connected[graph] # {}
    /\ m_pVideo.ctl \/ connected[graph] \ {m_pVideo.kind} # {}

\* After an RTSP source has been opened ApplyOverlay finds a mixer, and it is
\* the one of the renderer on screen, not of a graph that was left behind.
MixerOfThisRenderer ==
  Ready /\ m_pVideo.kind = "VMR9" => pBmp = graph

\* The picture is in the window the program last asked for, which is also the
\* one Repaint and UpdateVideoWindow work on.
WindowsAgree ==
  Ready /\ HasVideo /\ m_pVideo.kind # "VMR7" /\ "SetVideoWindow" \notin MayFail
    => m_pVideo.hwnd = m_hwndVideo

\* m_state tells whether the current graph streams, as long as the graph
\* manager neither fails to change its state nor stops by itself, and gives a
\* new graph's control interface to the player (InitilizeRSTPSource goes on
\* with the old one otherwise).
StateFollowsGraph ==
  Ready /\ graph # Null /\ {"Control", "Abort", "QueryInterface"} \cap MayFail = {}
  => mode[graph] = CASE m_state = "STATE_RUNNING" -> "running"
                     [] m_state = "STATE_PAUSED"  -> "paused"
                     [] OTHER -> "stopped"

\* A caller that keeps to the protocol never makes the library use a NULL or
\* dead pointer.
NoFault == fault = "none"

\* The pointers the code uses without a test are NULL only in these
\* situations, however sessions fail and follow one another: a file is always
\* opened and played safely, an RTSP source is not opened safely after a
\* failure in InitializeGraph, nor without a decoder, and windows and overlays
\* are safe while the player can play and its own renderer shows the stream.
FaultsHaveCauses ==
  /\ fault = "m_pGraph" =>
       /\ "CoCreateInstance" \in MayFail \/ comInits = 0
       /\ pc = "IFilterGraph2" \/ filter # [f \in Roles |-> Null]
  /\ fault = "m_pSeek" => InRTSP /\ "QueryInterface" \in MayFail
  /\ fault = "m_pControl" =>
       filter["pVideoDecoder"] # Null /\ "QueryInterface" \in MayFail
  /\ fault = "pVideoDecoder" =>
       \/ m_selectedDecoder = "RENDER"
       \/ call.Audio /\ filter["pAudioRenderer"] = Null
  /\ fault = "m_pVideo" => m_state = "STATE_CLOSED"
  /\ fault = "m_pWindowless" /\ m_state # "STATE_CLOSED" =>
       connected[graph] \ {m_pVideo.kind} # {}
  /\ fault = "pBmp" => m_pVideo.kind # "VMR9"
  /\ fault = "released" => comInits = 0

\* "Create a new filter graph. (This also closes the old one, if any.)": when
\* no call is in progress the only graph alive is the player's.
OldGraphIsClosed ==
  Ready => \A g \in Graphs : Live(g) => g = graph

\* "Set windowless mode on the VMR. This must be done before the VMR is
\* connected."
WindowlessBeforeConnected ==
  \A g \in Graphs : connected[g] \ {"EVR"} \subseteq windowless[g]

\* "If it fails, it means the renderer is not connected to anything, so we
\* remove it.": no renderer that draws the stream is taken out of a graph.
OnlyUnconnectedRemoved ==
  [][\A g \in Graphs : connected[g] \cap (renderers[g] \ renderers'[g]) = {}]_vars

\* Every call comes back to its caller, through whichever failure, unless
\* the process dies in it.
CallsReturn == []<>(pc = "idle" \/ fault # "none")

-----------------------------------------------------------------------------
\* The library implements MediaPlayer: a call of many steps, whose state is
\* spread over the player, the graph and the renderer object, is one of a few
\* steps of a state machine.
Stage ==
  CASE pc = "idle" -> "idle"
    [] pc = "TearDownGraph" -> "opening"
    [] pc \in {"S_OK", "failed"} -> "returning"
    [] pc \in {"Close", "CloseRenderer", "CoUninitialize"} -> "closing"
    [] pc = "delete" -> "deleting"
    [] OTHER -> "building"

Picture == graph # Null /\ connected[graph] # {}

\* Why an opened player has a picture, and a deleted one was closed.
PictureInv ==
  /\ pc = "GetCapabilities" => connected[graph] # {}
  /\ pc = "FinalizeGraph" /\ call.bRenderedAnyPin => connected[graph] # {}
  /\ pc = "delete" => m_state = "STATE_CLOSED"

Player == INSTANCE MediaPlayer WITH state <- m_state, stage <- Stage, picture <- Picture

\* However sessions fail and follow one another, and whatever the caller
\* does, the player is in the state its last completed call put it in, and
\* can be played only with a picture.
ImplementsMediaPlayer == Player!Safety

\* For a careful caller every call also comes to its end.
MediaPlayerSpec == Player!Spec
====
