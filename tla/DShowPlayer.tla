---------------------------- MODULE DShowPlayer ----------------------------
(***************************************************************************)
(* DSC2CSLib/DShowPlayer.cpp: the player object.  The two calls that build  *)
(* a graph, and Close, run over many steps: pc names the step about to be   *)
(* taken, one for each external call, and "idle" means that no call is in   *)
(* progress.  A pointer is modelled by the graph of the object it points    *)
(* to.  fault names the pointer that was NULL, or dead, when the program    *)
(* used it; the process ends there.                                        *)
(***************************************************************************)
EXTENDS VideoRenderer

VARIABLES m_state, m_seekCaps, m_selectedDecoder, m_hwndVideo,
          itf,           \* the four interface pointers to the graph
          filter,        \* the five pointers to filters of an RTSP session
          m_sFileName,   \* whether the global file name has been set
          pc,
          call,          \* parameters and locals of the call in progress
          fault

session == <<m_state, m_seekCaps>>
player  == <<session, m_selectedDecoder, m_hwndVideo, itf, filter, m_pVideo>>

Interfaces == {"m_pGraph", "m_pControl", "m_pEvent", "m_pSeek"}
Roles      == {"pLeadToolsRTSPSource", "pAudioRenderer", "pVideoDecoder",
               "pInfTeeFilter", "pSinkFilter"}
States     == {"STATE_RUNNING", "STATE_PAUSED", "STATE_STOPPED", "STATE_CLOSED"}
Decoders   == {"RENDER", "ELECARD", "LEADTOOLS"}

graph == itf["m_pGraph"]

NoCall == [op |-> "none", Audio |-> FALSE, SaveToFile |-> FALSE,
           pGraph2 |-> FALSE, bRenderedAnyPin |-> FALSE]

\* The fields the constructor initialises, and the ones it leaves alone.
Construct == /\ m_state = "STATE_CLOSED"
             /\ m_seekCaps = FALSE
             /\ itf = [i \in Interfaces |-> Null]
             /\ filter = [f \in Roles |-> Null]
             /\ m_pVideo = NoVideo
             /\ m_hwndVideo = NoWindow
             /\ m_selectedDecoder = "RENDER"

Goto(l)  == /\ pc' = l
            /\ UNCHANGED fault
Crash(p) == /\ fault' = p
            /\ UNCHANGED pc

InRTSP == call.op = "InitilizeRSTPSource"

-----------------------------------------------------------------------------
\* InitializeGraph: tear the old graph down, create a new one and ask it for
\* its interfaces.  InitilizeRSTPSource does not look at what it returns.

\* A slip in TearDownGraph: the state of the last session is kept.
TearDownGraph_KeepsState == /\ m_pVideo' = NoVideo
                            /\ UNCHANGED session

\* A slip in TearDownGraph: the renderer object survives.
TearDownGraph_KeepsRenderer == /\ m_state' = "STATE_CLOSED"
                               /\ m_seekCaps' = FALSE
                               /\ UNCHANGED m_pVideo

TearDownGraph == /\ m_pVideo' = NoVideo
                 /\ m_state' = "STATE_CLOSED"
                 /\ m_seekCaps' = FALSE

TearDownOld ==
  /\ pc = "TearDownGraph"
  /\ TearDownGraph
  /\ Goto("CoCreateInstance")
  /\ UNCHANGED <<graphVars, comInits, pBmp, m_selectedDecoder, m_hwndVideo,
                 itf, filter, m_sFileName, call>>

AfterInitializeGraph(ok) ==
  IF InRTSP THEN "IFilterGraph2" ELSE IF ok THEN "AddSourceFilter" ELSE "failed"

\* CComPtr's operator& hands out the pointer without releasing what it held.
CoCreateInstance ==
  /\ pc = "CoCreateInstance"
  /\ \/ \E g \in Graphs : /\ NewGraph(g)
                          /\ itf' = [itf EXCEPT !["m_pGraph"] = g]
                          /\ Goto("m_pControl")
     \/ /\ "CoCreateInstance" \in MayFail \/ comInits = 0
        /\ itf' = [itf EXCEPT !["m_pGraph"] = Null]
        /\ Goto(AfterInitializeGraph(FALSE))
        /\ UNCHANGED <<graphVars, comInits>>
  /\ UNCHANGED <<session, m_selectedDecoder, m_hwndVideo, filter, m_pVideo,
                 pBmp, m_sFileName, call>>

NextInterface == [m_pControl |-> "m_pEvent", m_pEvent |-> "m_pSeek",
                  m_pSeek |-> "SetNotifyWindow"]

\* A slip: the pointer is copied and the reference is not counted.
QueryInterface_NoAddRef(i) ==
  /\ pc = i
  /\ itf' = [itf EXCEPT ![i] = graph]
  /\ Goto(NextInterface[i])
  /\ UNCHANGED <<graphVars, comInits, session, m_selectedDecoder, m_hwndVideo,
                 filter, m_pVideo, pBmp, m_sFileName, call>>

QueryInterface(i) ==
  /\ pc = i
  /\ \/ /\ itf' = [itf EXCEPT ![i] = graph]
        /\ refs' = [refs EXCEPT ![graph] = @ + 1]
        /\ Goto(NextInterface[i])
     \/ /\ "QueryInterface" \in MayFail
        /\ itf' = [itf EXCEPT ![i] = Null]
        /\ Goto(AfterInitializeGraph(FALSE))
        /\ UNCHANGED refs
  /\ UNCHANGED <<mode, renderers, windowless, connected, comInits, session,
                 m_selectedDecoder, m_hwndVideo, filter, m_pVideo, pBmp,
                 m_sFileName, call>>

\* Steps that change nothing but where the call goes on.
SetNotifyWindow == /\ pc = "SetNotifyWindow"
                   /\ \E ok \in Outcome("SetNotifyWindow") :
                        Goto(AfterInitializeGraph(ok))
                   /\ UNCHANGED <<graphVars, comInits, player, pBmp,
                                  m_sFileName, call>>

-----------------------------------------------------------------------------
\* CreateVideoRenderer: InitilizePlayer tries three renderers in turn,
\* InitilizeRSTPSource only the VMR-9.

\* A slip in the loop over the renderers: it goes back to the one before.
NextRenderer_Loops == [EVR |-> "VMR9", VMR9 |-> "EVR", VMR7 |-> "failed"]

\* A slip in the loop: it goes one past the last renderer.
NextRenderer_OffByOne == [EVR |-> "VMR9", VMR9 |-> "VMR7", VMR7 |-> "none"]

NextRenderer == [EVR |-> "VMR9", VMR9 |-> "VMR7", VMR7 |-> "failed"]

AfterRenderer(k, ok) ==
  IF InRTSP THEN IF ok THEN "pLeadToolsRTSPSource" ELSE "failed"
            ELSE IF ok THEN "AddDecoder" ELSE NextRenderer[k]

\* A slip: the object of a renderer that cannot be used is not deleted.
CreateVideoRenderer_KeepsFailed(k) ==
  /\ pc = k
  /\ \E r \in {"ok", "failed", "fault"} :
       /\ AddToGraph(k, graph, r)
       /\ m_pVideo' = Renderer(k, graph, m_hwndVideo)
       /\ IF r = "fault" THEN Crash("pWC") ELSE Goto(AfterRenderer(k, r = "ok"))
  /\ UNCHANGED <<refs, mode, connected, comInits, session, m_selectedDecoder,
                 m_hwndVideo, itf, filter, m_sFileName, call>>

CreateVideoRenderer(k) ==
  /\ pc = k
  /\ \E r \in {"ok", "failed", "fault"} :
       /\ AddToGraph(k, graph, r)
       /\ m_pVideo' = IF r = "ok" THEN Renderer(k, graph, m_hwndVideo)
                                  ELSE NoVideo
       /\ IF r = "fault" THEN Crash("pWC") ELSE Goto(AfterRenderer(k, r = "ok"))
  /\ UNCHANGED <<refs, mode, connected, comInits, session, m_selectedDecoder,
                 m_hwndVideo, itf, filter, m_sFileName, call>>

-----------------------------------------------------------------------------
\* InitilizePlayer: AddSourceFilter, RenderStreams, GetCapabilities.

AddSourceFilter ==
  /\ pc = "AddSourceFilter"
  /\ \E ok \in Outcome("AddSourceFilter") :
       Goto(IF ok /\ m_sFileName THEN "RenderStreams" ELSE "failed")
  /\ UNCHANGED <<graphVars, comInits, player, pBmp, m_sFileName, call>>

RenderStreams ==
  /\ pc = "RenderStreams"
  /\ \E ok \in Outcome("QueryInterface") : Goto(IF ok THEN "EVR" ELSE "failed")
  /\ UNCHANGED <<graphVars, comInits, player, pBmp, m_sFileName, call>>

\* Both branches add the same decoder, whose pointer is a local variable.
AddDecoder ==
  /\ pc = "AddDecoder"
  /\ \/ Goto("RenderPins")
     \/ m_selectedDecoder # "RENDER" /\ "AddFilter" \in MayFail /\ Goto("failed")
  /\ UNCHANGED <<graphVars, comInits, player, pBmp, m_sFileName, call>>

\* Each pin that renders connects an existing renderer that was free; which
\* pins do, and to which renderer, is up to the graph manager.
RenderPins ==
  /\ pc = "RenderPins"
  /\ \/ /\ \E S \in SUBSET (renderers[graph] \ connected[graph]) :
             /\ connected' = [connected EXCEPT ![graph] = @ \cup S]
             /\ call' = [call EXCEPT !.bRenderedAnyPin = (S # {})]
        /\ Goto("FinalizeGraph")
     \/ /\ "EnumPins" \in MayFail
        /\ Goto("failed")
        /\ UNCHANGED <<connected, call>>
  /\ UNCHANGED <<refs, mode, renderers, windowless, comInits, player, pBmp,
                 m_sFileName>>

\* A slip: nobody looks whether any pin was rendered.
FinalizeStreams_IgnoresPins ==
  /\ pc = "FinalizeGraph"
  /\ \E r \in {"ok", "failed", "fault"} :
       /\ FinalizeGraph(graph, r)
       /\ IF r = "fault" THEN Crash("m_pGraph")
          ELSE Goto(IF r = "ok" THEN "GetCapabilities" ELSE "failed")
  /\ UNCHANGED <<refs, mode, windowless, comInits, session, m_selectedDecoder,
                 m_hwndVideo, itf, filter, pBmp, m_sFileName, call>>

\* The renderer goes if nothing reached it; then at least one pin must have
\* been rendered.
FinalizeStreams ==
  /\ pc = "FinalizeGraph"
  /\ \E r \in {"ok", "failed", "fault"} :
       /\ FinalizeGraph(graph, r)
       /\ IF r = "fault" THEN Crash("m_pGraph")
          ELSE Goto(IF r = "ok" /\ call.bRenderedAnyPin THEN "GetCapabilities"
                                                        ELSE "failed")
  /\ UNCHANGED <<refs, mode, windowless, comInits, session, m_selectedDecoder,
                 m_hwndVideo, itf, filter, pBmp, m_sFileName, call>>

\* The last call of both operations.  UpdateVolume, which InitilizePlayer
\* also makes, does nothing: m_pAudio is never set.
GetCapabilities ==
  /\ pc = "GetCapabilities"
  /\ \/ /\ itf["m_pSeek"] = Null
        /\ Crash("m_pSeek")
        /\ UNCHANGED session
     \/ /\ itf["m_pSeek"] # Null
        /\ "GetCapabilities" \in MayFail
        /\ Goto("failed")
        /\ UNCHANGED session
     \/ /\ itf["m_pSeek"] # Null
        /\ m_seekCaps' \in BOOLEAN
        /\ m_state' = "STATE_STOPPED"
        /\ Goto("S_OK")
  /\ UNCHANGED <<graphVars, comInits, m_selectedDecoder, m_hwndVideo, itf,
                 filter, m_pVideo, pBmp, m_sFileName, call>>

-----------------------------------------------------------------------------
\* InitilizeRSTPSource.

QueryFilterGraph2 ==
  /\ pc = "IFilterGraph2"
  /\ \/ /\ graph = Null
        /\ Crash("m_pGraph")
        /\ UNCHANGED call
     \/ /\ graph # Null
        /\ \E ok \in Outcome("QueryInterface") : call' = [call EXCEPT !.pGraph2 = ok]
        /\ Goto("VMR9")
  /\ UNCHANGED <<graphVars, comInits, player, pBmp, m_sFileName>>

AfterDecoder == IF call.SaveToFile THEN "pInfTeeFilter" ELSE "GetPin"

\* Where the call goes on when the filter f has been added, and when not: a
\* missing audio renderer only makes the code skip the decoder.
OnAdded(f)  == [pLeadToolsRTSPSource |-> "Load",
                pAudioRenderer       |-> "pVideoDecoder",
                pVideoDecoder        |-> AfterDecoder,
                pInfTeeFilter        |-> "pSinkFilter",
                pSinkFilter          |-> "SetFileName"][f]

\* A slip: the test after the decoder has been added is left out.
OnMissing_NoDecoder(f) ==
  IF f \in {"pAudioRenderer", "pVideoDecoder"} THEN AfterDecoder ELSE "failed"

OnMissing(f) == IF f = "pAudioRenderer" THEN AfterDecoder ELSE "failed"

\* AddFilterByCLSID clears the caller's pointer before anything else.
AddFilterByCLSID(f) ==
  /\ pc = f
  /\ f = "pVideoDecoder" => m_selectedDecoder # "RENDER"
  /\ \E ok \in Outcome("AddFilter") :
       /\ filter' = [filter EXCEPT ![f] = IF ok THEN graph ELSE Null]
       /\ Goto(IF ok THEN OnAdded(f) ELSE OnMissing(f))
  /\ UNCHANGED <<graphVars, comInits, session, m_selectedDecoder, m_hwndVideo,
                 itf, m_pVideo, pBmp, m_sFileName, call>>

\* Without a selected decoder the pointer keeps what an earlier call left.
SkipDecoder ==
  /\ pc = "pVideoDecoder"
  /\ m_selectedDecoder = "RENDER"
  /\ Goto(AfterDecoder)
  /\ UNCHANGED <<graphVars, comInits, player, pBmp, m_sFileName, call>>

Load ==
  /\ pc = "Load"
  /\ \E ok \in Outcome("Load") :
       Goto(IF ~ok THEN "failed"
            ELSE IF call.Audio THEN "pAudioRenderer" ELSE "pVideoDecoder")
  /\ UNCHANGED <<graphVars, comInits, player, pBmp, m_sFileName, call>>

SetSinkFileName ==
  /\ pc = "SetFileName"
  /\ \E ok \in Outcome("SetFileName") : Goto(IF ok THEN "GetPin" ELSE "failed")
  /\ UNCHANGED <<graphVars, comInits, player, pBmp, m_sFileName, call>>

\* What GetPin returns is never tested, and a pin it did not find is used.
GetPins ==
  /\ pc = "GetPin"
  /\ \/ "GetPin" \in MayFail /\ Crash("pin")
     \/ "QueryPinInfo" \in MayFail /\ Goto("failed")
     \/ filter["pVideoDecoder"] = Null /\ Crash("pVideoDecoder")
     \/ filter["pVideoDecoder"] # Null /\ Goto("Connect")
  /\ UNCHANGED <<graphVars, comInits, player, pBmp, m_sFileName, call>>

\* The source is connected to the decoder, through the tee and the dump
\* filter when the stream is saved.  Filters of two graphs do not connect.
ConnectPins ==
  /\ pc = "Connect"
  /\ \/ call.SaveToFile /\ "GetPin" \in MayFail /\ Crash("pin")
     \/ call.SaveToFile /\ "QueryPinInfo" \in MayFail /\ Goto("failed")
     \/ ~call.pGraph2 /\ Crash("pGraph2")
     \/ call.pGraph2 /\ "Connect" \in MayFail /\ Goto("failed")
     \/ call.pGraph2 /\ filter["pVideoDecoder"] # graph /\ Goto("failed")
     \/ call.pGraph2 /\ filter["pVideoDecoder"] = graph /\ Goto("RenderEx")
  /\ UNCHANGED <<graphVars, comInits, player, pBmp, m_sFileName, call>>

\* The decoder's output goes to a renderer already in the graph.
RenderDecoder ==
  /\ pc = "RenderEx"
  /\ \/ /\ "GetPin" \in MayFail
        /\ Crash("pin")
        /\ UNCHANGED connected
     \/ /\ {"QueryPinInfo", "RenderEx"} \cap MayFail # {}
        /\ Goto("failed")
        /\ UNCHANGED connected
     \/ /\ \E k \in renderers[graph] :
             connected' = [connected EXCEPT ![graph] = @ \cup {k}]
        /\ Goto("GetCapabilities")
  /\ UNCHANGED <<refs, mode, renderers, windowless, comInits, player, pBmp,
                 m_sFileName, call>>

InitializeStep == \/ TearDownOld \/ CoCreateInstance \/ SetNotifyWindow
                  \/ \E i \in Interfaces \ {"m_pGraph"} : QueryInterface(i)
                  \/ \E k \in Renderers : CreateVideoRenderer(k)
                  \/ GetCapabilities
PlayerStep     == \/ AddSourceFilter \/ RenderStreams \/ AddDecoder
                  \/ RenderPins \/ FinalizeStreams
RTSPStep       == \/ QueryFilterGraph2 \/ Load \/ SkipDecoder \/ SetSinkFileName
                  \/ \E f \in Roles : AddFilterByCLSID(f)
                  \/ GetPins \/ ConnectPins \/ RenderDecoder

-----------------------------------------------------------------------------
\* Close, and the destructor that DSShow_Close runs after it.  Neither stops
\* the graph.

\* The filters of an RTSP session are taken out of the graph; with the
\* decoder gone its renderer is no longer connected.
RemoveFilters ==
  /\ pc = "Close"
  /\ IF graph = Null
       THEN /\ IF \E f \in Roles \ {"pLeadToolsRTSPSource"} : filter[f] # Null
                 THEN Crash("m_pGraph")
                 ELSE Goto("CloseRenderer")
            /\ UNCHANGED connected
       ELSE /\ \E ok \in Outcome("RemoveFilter") :
                 connected' = IF ok /\ filter["pVideoDecoder"] = graph
                                THEN [connected EXCEPT ![graph] = {}]
                                ELSE connected
            /\ Goto("CloseRenderer")
  /\ UNCHANGED <<refs, mode, renderers, windowless, comInits, player, pBmp,
                 m_sFileName, call>>

CloseRenderer ==
  /\ pc = "CloseRenderer"
  /\ IF m_pVideo.kind = "none"
       THEN Goto("CoUninitialize") /\ UNCHANGED <<m_pVideo, renderers, connected>>
       ELSE \E r \in {"ok", "failed", "fault"} :
              /\ FinalizeGraph(graph, r)
              /\ IF r = "fault" THEN Crash("m_pGraph") ELSE Goto("CoUninitialize")
  /\ UNCHANGED <<refs, mode, windowless, comInits, session, m_selectedDecoder,
                 m_hwndVideo, itf, filter, pBmp, m_sFileName, call>>

\* CoUninitialize on a thread where COM is not initialised does nothing.
CoUninitialize ==
  /\ pc = "CoUninitialize"
  /\ pBmp' = Null
  /\ TearDownGraph
  /\ comInits' = IF comInits = 0 THEN 0 ELSE comInits - 1
  /\ Goto("delete")
  /\ UNCHANGED <<graphVars, m_selectedDecoder, m_hwndVideo, itf, filter,
                 m_sFileName, call>>

ReleaseInterfaces ==
  Release([g \in Graphs |-> Cardinality({i \in Interfaces : itf[i] = g})])

\* ~DShowPlayer tears the graph down once more, then the destructors of the
\* smart pointers release what they point to.
DeletePlayer == /\ ReleaseInterfaces
                /\ TearDownGraph
                /\ itf' = [i \in Interfaces |-> Null]
                /\ filter' = [f \in Roles |-> Null]
                /\ m_hwndVideo' = NoWindow
                /\ m_selectedDecoder' = "RENDER"

\* They run after CoUninitialize, which unloads COM when it was the last one.
DeleteAfterUnload ==
  /\ pc = "delete"
  /\ comInits = 0
  /\ \/ \E i \in Interfaces : itf[i] # Null
     \/ \E f \in Roles : filter[f] # Null
  /\ Crash("released")
  /\ UNCHANGED <<graphVars, comInits, player, pBmp, m_sFileName, call>>

CloseStep == RemoveFilters \/ CloseRenderer \/ CoUninitialize \/ DeleteAfterUnload

-----------------------------------------------------------------------------
\* Play, Pause and Stop.  When the graph manager reports a failure some of
\* the filters may have changed over.
Control(from, to, m) ==
  /\ m_state \in from
  /\ \/ /\ itf["m_pControl"] = Null
        /\ Crash("m_pControl")
        /\ UNCHANGED <<m_state, mode>>
     \/ /\ itf["m_pControl"] # Null
        /\ mode' = [mode EXCEPT ![itf["m_pControl"]] = m]
        /\ m_state' = to
        /\ Goto("idle")
     \/ /\ itf["m_pControl"] # Null
        /\ "Control" \in MayFail
        /\ mode' \in {mode, [mode EXCEPT ![itf["m_pControl"]] = m]}
        /\ Goto("idle")
        /\ UNCHANGED m_state
  /\ UNCHANGED <<refs, renderers, windowless, connected, comInits, m_seekCaps,
                 m_selectedDecoder, m_hwndVideo, itf, filter, m_pVideo, pBmp,
                 m_sFileName, call>>

Play  == Control({"STATE_PAUSED", "STATE_STOPPED"}, "STATE_RUNNING", "running")
Pause == Control({"STATE_RUNNING"}, "STATE_PAUSED", "paused")

\* A slip in Stop: the wrong method of m_pControl is called.
Stop_Pauses == Control({"STATE_RUNNING", "STATE_PAUSED"}, "STATE_STOPPED", "paused")

Stop  == Control({"STATE_RUNNING", "STATE_PAUSED"}, "STATE_STOPPED", "stopped")

\* A slip: the new window is not recorded.
SetWindowHandle_NotRecorded(w) ==
  /\ m_pVideo.kind # "none"
  /\ SetVideoWindow(w, "ok")
  /\ Goto("idle")
  /\ UNCHANGED <<graphVars, comInits, session, m_selectedDecoder, m_hwndVideo,
                 itf, filter, pBmp, m_sFileName, call>>

\* Neither this function nor the renderer tests the pointer it uses.
SetWindowHandle(w) ==
  /\ m_hwndVideo' = w
  /\ IF m_pVideo.kind = "none"
       THEN Crash("m_pVideo") /\ UNCHANGED m_pVideo
       ELSE \E r \in {"ok", "fault"} :
              /\ SetVideoWindow(w, r)
              /\ IF r = "fault" THEN Crash("m_pWindowless") ELSE Goto("idle")
  /\ UNCHANGED <<graphVars, comInits, session, m_selectedDecoder, itf, filter,
                 pBmp, m_sFileName, call>>

\* The player's own variables have their types.
PlayerTypeOK ==
  /\ m_state \in States
  /\ m_seekCaps \in BOOLEAN
  /\ m_selectedDecoder \in Decoders
  /\ m_hwndVideo \in Windows \cup {NoWindow}
  /\ itf \in [Interfaces -> 0 .. MaxGraphs]
  /\ filter \in [Roles -> 0 .. MaxGraphs]
  /\ m_sFileName \in BOOLEAN
=============================================================================
