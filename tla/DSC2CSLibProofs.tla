-------------------------- MODULE DSC2CSLibProofs --------------------------
(***************************************************************************)
(* Proofs about DSC2CSLib, for every number of graphs, every set of calls   *)
(* that may fail, careful and careless callers alike; and the proof that it *)
(* implements MediaPlayer, as long as a pin that is connected is also found *)
(* to be.                                                                  *)
(***************************************************************************)
EXTENDS DSC2CSLib, FiniteSetTheorems, TLAPS

-----------------------------------------------------------------------------
\* Types.

\* An external call answers success or failure.
LEMMA OutcomeType == ASSUME NEW c PROVE Outcome(c) \subseteq BOOLEAN
BY DEF Outcome

\* What the renderer pointer may be assigned.
LEMMA VideoObjectTypes ==
  /\ NoVideo \in VideoObjects
  /\ \A k \in Renderers, g \in 0 .. MaxGraphs, w \in Windows \cup {NoWindow} :
       Renderer(k, g, w) \in VideoObjects
BY ComAssumption DEF NoVideo, Null, Renderer, VideoObjects

\* No graph is one of the values a pointer may have.
LEMMA NullType == Null \in 0 .. MaxGraphs
BY ComAssumption DEF Null

\* What a change of a renderer object's fields leads to.
LEMMA VideoObjectUpdates ==
  \A v \in VideoObjects :
    /\ [v EXCEPT !.ctl = FALSE] \in VideoObjects
    /\ \A w \in Windows : [v EXCEPT !.hwnd = w] \in VideoObjects
BY DEF VideoObjects

\* Every place a step goes on to is a label.
LEMMA LabelsClosed ==
  /\ \A ok : AfterInitializeGraph(ok) \in Labels
  /\ AfterDecoder \in Labels
  /\ \A k \in Renderers : \A ok : AfterRenderer(k, ok) \in Labels
  /\ \A i \in Interfaces \ {"m_pGraph"} : NextInterface[i] \in Labels
  /\ \A f \in Roles : OnAdded(f) \in Labels /\ OnMissing(f) \in Labels
<1>. USE DEF Labels
<1>1. \A ok : AfterInitializeGraph(ok) \in Labels
  BY DEF AfterInitializeGraph
<1>2. AfterDecoder \in Labels
  BY DEF AfterDecoder, Roles
<1>3. ASSUME NEW k \in Renderers, NEW ok PROVE AfterRenderer(k, ok) \in Labels
  <2>1. NextRenderer[k] \in Labels
    <3>1. CASE k = "EVR"  BY <3>1 DEF NextRenderer, Renderers
    <3>2. CASE k = "VMR9" BY <3>2 DEF NextRenderer, Renderers
    <3>3. CASE k = "VMR7" BY <3>3 DEF NextRenderer
    <3>. QED BY <3>1, <3>2, <3>3 DEF Renderers
  <2>. QED BY <2>1 DEF AfterRenderer, Roles
<1>4. ASSUME NEW i \in Interfaces \ {"m_pGraph"} PROVE NextInterface[i] \in Labels
  <2>1. CASE i = "m_pControl" BY <2>1 DEF NextInterface, Interfaces
  <2>2. CASE i = "m_pEvent"   BY <2>2 DEF NextInterface, Interfaces
  <2>3. CASE i = "m_pSeek"    BY <2>3 DEF NextInterface
  <2>. QED BY <2>1, <2>2, <2>3 DEF Interfaces
<1>5. ASSUME NEW f \in Roles PROVE OnAdded(f) \in Labels /\ OnMissing(f) \in Labels
  <2>1. CASE f = "pLeadToolsRTSPSource" BY <2>1 DEF OnAdded, OnMissing
  <2>2. CASE f = "pAudioRenderer" BY <1>2, <2>2 DEF OnAdded, OnMissing, Roles
  <2>3. CASE f = "pVideoDecoder" BY <1>2, <2>3 DEF OnAdded, OnMissing
  <2>4. CASE f = "pInfTeeFilter" BY <2>4 DEF OnAdded, OnMissing, Roles
  <2>5. CASE f = "pSinkFilter" BY <2>5 DEF OnAdded, OnMissing
  <2>. QED BY <2>1, <2>2, <2>3, <2>4, <2>5 DEF Roles
<1>. QED BY <1>1, <1>2, <1>3, <1>4, <1>5

\* m_pGraph points to a graph or to none.
LEMMA GraphType == ASSUME PlayerTypeOK PROVE graph \in 0 .. MaxGraphs
BY DEF PlayerTypeOK, graph, Interfaces

\* What the locals of a call may be assigned.
LEMMA LocalsClosed ==
  /\ NoCall \in Locals
  /\ \A c \in Locals, b \in BOOLEAN :
       /\ [c EXCEPT !.pGraph2 = b] \in Locals
       /\ [c EXCEPT !.bRenderedAnyPin = b] \in Locals
BY DEF NoCall, Locals

\* FinalizeGraph changes the renderer object and the graph within their types.
LEMMA FinalizeGraphType ==
  ASSUME GraphTypeOK, VideoTypeOK, NEW r, FinalizeGraph(graph, r)
  PROVE  /\ m_pVideo' \in VideoObjects
         /\ renderers' \in [Graphs -> SUBSET Renderers]
         /\ connected' \in [Graphs -> SUBSET Renderers]
<1>1. \/ UNCHANGED m_pVideo
      \/ m_pVideo' = [m_pVideo EXCEPT !.ctl = FALSE]
  BY DEF FinalizeGraph
<1>2. \/ UNCHANGED <<renderers, connected>>
      \/ \E k : /\ renderers' = [renderers EXCEPT ![graph] = @ \ {k}]
                /\ connected' = [connected EXCEPT ![graph] = @ \ {k}]
  BY DEF FinalizeGraph, RemoveUnconnectedRenderer
<1>3. m_pVideo' \in VideoObjects
  BY <1>1, VideoObjectUpdates, Zenon DEF VideoTypeOK
<1>. QED
  BY <1>2, <1>3 DEF GraphTypeOK

\* There are finitely many interface pointers,
LEMMA InterfacesAreFinite == IsFiniteSet(Interfaces)
<1>1. IsFiniteSet({"m_pGraph"})
  BY FS_Singleton, Zenon
<1>2. IsFiniteSet({"m_pGraph"} \cup {"m_pControl"})
  BY <1>1, FS_AddElement, Zenon
<1>3. IsFiniteSet(({"m_pGraph"} \cup {"m_pControl"}) \cup {"m_pEvent"})
  BY <1>2, FS_AddElement, Zenon
<1>4. IsFiniteSet((({"m_pGraph"} \cup {"m_pControl"}) \cup {"m_pEvent"})
                    \cup {"m_pSeek"})
  BY <1>3, FS_AddElement, Zenon
<1>5. Interfaces = (({"m_pGraph"} \cup {"m_pControl"}) \cup {"m_pEvent"})
                     \cup {"m_pSeek"}
  BY DEF Interfaces
<1>. QED
  BY <1>4, <1>5, Zenon

\* so those to one graph can be counted.
LEMMA InterfacesFinite ==
  \A g : Cardinality({i \in Interfaces : itf[i] = g}) \in Nat
<1>1. \A g : {i \in Interfaces : itf[i] = g} \subseteq Interfaces
  OBVIOUS
<1>. QED
  BY <1>1, InterfacesAreFinite, FS_Subset, FS_CardinalityType

\* The steps that build a graph keep the types.
LEMMA InitializeStepType ==
  ASSUME TypeOK, InitializeStep,
         UNCHANGED <<m_dsShowPlayer, m_videoInitialized>>
  PROVE  TypeOK'
<1>. USE DEF TypeOK, GraphTypeOK, VideoTypeOK, PlayerTypeOK,
         graphVars, player, session, Goto, Crash
<1>0. graph \in 0 .. MaxGraphs /\ Null \in 0 .. MaxGraphs
  BY GraphType, ComAssumption DEF Null
<1>1. CASE TearDownOld
  BY <1>1, VideoObjectTypes DEF TearDownOld, TearDownGraph, Labels, States
<1>2. CASE CoCreateInstance
  <2>1. CASE /\ itf' = [itf EXCEPT !["m_pGraph"] = Null]
             /\ Goto(AfterInitializeGraph(FALSE))
             /\ UNCHANGED <<graphVars, comInits>>
    BY <1>0, <1>2, <2>1, LabelsClosed DEF CoCreateInstance
  <2>2. ASSUME NEW g \in Graphs, NewGraph(g),
               itf' = [itf EXCEPT !["m_pGraph"] = g], Goto("m_pControl")
        PROVE  TypeOK'
    <3>1. g \in 0 .. MaxGraphs
      BY ComAssumption DEF Graphs
    <3>2. "m_pControl" \in Labels
      BY DEF Labels, Interfaces
    <3>3. GraphTypeOK'
      BY <2>2 DEF NewGraph
    <3>. QED
      BY <1>2, <2>2, <3>1, <3>2, <3>3 DEF CoCreateInstance
  <2>. QED
    BY <1>2, <2>1, <2>2 DEF CoCreateInstance
<1>3. CASE SetNotifyWindow
  BY <1>3, LabelsClosed DEF SetNotifyWindow
<1>4. ASSUME NEW i \in Interfaces \ {"m_pGraph"}, QueryInterface(i)
      PROVE  TypeOK'
  <2>1. pc' \in {NextInterface[i], AfterInitializeGraph(FALSE)}
    BY <1>4 DEF QueryInterface
  <2>2. itf' \in {[itf EXCEPT ![i] = graph], [itf EXCEPT ![i] = Null]}
    BY <1>4 DEF QueryInterface
  <2>3. refs' \in {refs, [refs EXCEPT ![graph] = @ + 1]}
    BY <1>4 DEF QueryInterface
  <2>4. pc' \in Labels
    BY <2>1, LabelsClosed
  <2>5. itf' \in [Interfaces -> 0 .. MaxGraphs]
    BY <1>0, <2>2
  <2>6. refs' \in [Graphs -> Int]
    BY <2>3
  <2>. QED
    BY <1>4, <2>4, <2>5, <2>6 DEF QueryInterface
<1>5. ASSUME NEW k \in Renderers, CreateVideoRenderer(k)
      PROVE  TypeOK'
  <2>1. PICK r \in {"ok", "failed", "fault"} :
          /\ AddToGraph(k, graph, r)
          /\ m_pVideo' = IF r = "ok" THEN Renderer(k, graph, m_hwndVideo)
                                     ELSE NoVideo
          /\ IF r = "fault" THEN Crash("pWC") ELSE Goto(AfterRenderer(k, r = "ok"))
    BY <1>5 DEF CreateVideoRenderer
  <2>2. GraphTypeOK' /\ pBmp' \in 0 .. MaxGraphs
    BY <1>0, <1>5, <2>1 DEF CreateVideoRenderer, AddToGraph, InitializeEVR,
                            InitWindowlessVMR, InitWindowlessVMR9
  <2>3. pc' \in Labels /\ fault' \in Faults
    BY <2>1, LabelsClosed DEF Faults
  <2>4. m_pVideo' \in VideoObjects
    BY <1>0, <2>1, VideoObjectTypes
  <2>. QED
    BY <1>5, <2>2, <2>3, <2>4 DEF CreateVideoRenderer
<1>6. CASE GetCapabilities
  BY <1>6 DEF GetCapabilities, Labels, States, Faults
<1>. QED
  BY <1>1, <1>2, <1>3, <1>4, <1>5, <1>6 DEF InitializeStep

\* Those of InitilizePlayer alone.
LEMMA PlayerStepType ==
  ASSUME TypeOK, PlayerStep, UNCHANGED <<m_dsShowPlayer, m_videoInitialized>>
  PROVE  TypeOK'
<1>. USE DEF TypeOK, GraphTypeOK, VideoTypeOK, PlayerTypeOK,
         graphVars, player, session, Goto, Crash
<1>0. {"failed", "RenderStreams", "EVR", "RenderPins", "FinalizeGraph",
       "GetCapabilities"} \subseteq Labels
  BY DEF Labels, Renderers
<1>1. CASE AddSourceFilter
  BY <1>0, <1>1 DEF AddSourceFilter
<1>2. CASE RenderStreams
  BY <1>0, <1>2 DEF RenderStreams
<1>3. CASE AddDecoder
  BY <1>0, <1>3 DEF AddDecoder
<1>4. CASE RenderPins
  <2>1. CASE UNCHANGED <<connected, call>>
    BY <1>0, <1>4, <2>1 DEF RenderPins
  <2>2. ASSUME NEW S \in SUBSET (renderers[graph] \ connected[graph]),
               connected' = [connected EXCEPT ![graph] = @ \cup S],
               call' = [call EXCEPT !.bRenderedAnyPin = (S # {})]
        PROVE  TypeOK'
    <3>1. call' \in Locals
      BY <2>2, LocalsClosed
    <3>2. connected' \in [Graphs -> SUBSET Renderers]
      BY <2>2
    <3>. QED
      BY <1>0, <1>4, <3>1, <3>2 DEF RenderPins
  <2>. QED
    BY <1>4, <2>1, <2>2 DEF RenderPins
<1>5. CASE FinalizeStreams
  <2>1. PICK r \in {"ok", "failed", "fault"} :
          /\ FinalizeGraph(graph, r)
          /\ IF r = "fault" THEN Crash("m_pGraph")
             ELSE Goto(IF r = "ok" /\ call.bRenderedAnyPin
                         THEN "GetCapabilities" ELSE "failed")
    BY <1>5 DEF FinalizeStreams
  <2>2. /\ m_pVideo' \in VideoObjects
        /\ renderers' \in [Graphs -> SUBSET Renderers]
        /\ connected' \in [Graphs -> SUBSET Renderers]
    BY <2>1, FinalizeGraphType
  <2>3. pc' \in Labels /\ fault' \in Faults
    BY <1>0, <2>1 DEF Faults
  <2>. QED
    BY <1>5, <2>2, <2>3 DEF FinalizeStreams
<1>. QED
  BY <1>1, <1>2, <1>3, <1>4, <1>5 DEF PlayerStep

\* Those of InitilizeRSTPSource alone.
LEMMA RTSPStepType ==
  ASSUME TypeOK, RTSPStep, UNCHANGED <<m_dsShowPlayer, m_videoInitialized>>
  PROVE  TypeOK'
<1>. USE DEF TypeOK, GraphTypeOK, VideoTypeOK, PlayerTypeOK,
         graphVars, player, session, Goto, Crash
<1>0. /\ {"failed", "VMR9", "pAudioRenderer", "pVideoDecoder", "GetPin",
          "Connect", "RenderEx", "GetCapabilities"} \subseteq Labels
      /\ {"m_pGraph", "pin", "pVideoDecoder", "pGraph2"} \subseteq Faults
  BY DEF Labels, Renderers, Roles, Faults
<1>1. CASE QueryFilterGraph2
  <2>1. call' \in {call} \cup {[call EXCEPT !.pGraph2 = b] : b \in BOOLEAN}
    BY <1>1, OutcomeType DEF QueryFilterGraph2
  <2>2. call' \in Locals
    BY <2>1, LocalsClosed
  <2>. QED
    BY <1>0, <1>1, <2>2 DEF QueryFilterGraph2
<1>2. ASSUME NEW f \in Roles, AddFilterByCLSID(f)
      PROVE  TypeOK'
  <2>1. pc' \in {OnAdded(f), OnMissing(f)}
    BY <1>2 DEF AddFilterByCLSID
  <2>2. PICK v \in {graph, Null} : filter' = [filter EXCEPT ![f] = v]
    BY <1>2 DEF AddFilterByCLSID
  <2>3. pc' \in Labels
    BY <2>1, LabelsClosed
  <2>4. filter' \in [Roles -> 0 .. MaxGraphs]
    BY <2>2, GraphType, ComAssumption DEF Null
  <2>. QED
    BY <1>2, <2>3, <2>4 DEF AddFilterByCLSID
<1>3. CASE Load
  BY <1>0, <1>3 DEF Load
<1>4. CASE SkipDecoder
  BY <1>4, LabelsClosed DEF SkipDecoder
<1>5. CASE SetSinkFileName
  BY <1>0, <1>5 DEF SetSinkFileName
<1>6. CASE GetPins
  BY <1>0, <1>6 DEF GetPins
<1>7. CASE ConnectPins
  BY <1>0, <1>7 DEF ConnectPins
<1>8. CASE RenderDecoder
  <2>1. connected' \in [Graphs -> SUBSET Renderers]
    BY <1>8 DEF RenderDecoder
  <2>2. pc' \in Labels /\ fault' \in Faults
    BY <1>0, <1>8 DEF RenderDecoder
  <2>. QED
    BY <1>8, <2>1, <2>2 DEF RenderDecoder
<1>. QED
  BY <1>1, <1>2, <1>3, <1>4, <1>5, <1>6, <1>7, <1>8 DEF RTSPStep

\* Those of Close.
LEMMA CloseStepType ==
  ASSUME TypeOK, CloseStep, UNCHANGED <<m_dsShowPlayer, m_videoInitialized>>
  PROVE  TypeOK'
<1>. USE DEF TypeOK, GraphTypeOK, VideoTypeOK, PlayerTypeOK,
         graphVars, player, session, Goto, Crash
<1>0. /\ {"CloseRenderer", "CoUninitialize", "delete"} \subseteq Labels
      /\ {"m_pGraph", "released"} \subseteq Faults
  BY DEF Labels, Faults
<1>1. CASE RemoveFilters
  <2>1. connected' \in {connected, [connected EXCEPT ![graph] = {}]}
    BY <1>1 DEF RemoveFilters
  <2>2. connected' \in [Graphs -> SUBSET Renderers]
    BY <2>1
  <2>3. pc' \in Labels /\ fault' \in Faults
    BY <1>0, <1>1 DEF RemoveFilters
  <2>. QED
    BY <1>1, <2>2, <2>3 DEF RemoveFilters
<1>2. CASE CloseRenderer
  <2>1. /\ m_pVideo' \in VideoObjects
        /\ renderers' \in [Graphs -> SUBSET Renderers]
        /\ connected' \in [Graphs -> SUBSET Renderers]
    <3>1. CASE m_pVideo.kind = "none"
      BY <1>2, <3>1 DEF CloseRenderer
    <3>2. CASE \E r : FinalizeGraph(graph, r)
      BY <3>2, FinalizeGraphType
    <3>. QED
      BY <1>2, <3>1, <3>2 DEF CloseRenderer
  <2>2. pc' \in Labels /\ fault' \in Faults
    BY <1>0, <1>2 DEF CloseRenderer
  <2>. QED
    BY <1>2, <2>1, <2>2 DEF CloseRenderer
<1>3. CASE CoUninitialize
  <2>1. comInits' \in 0 .. ComInits
    BY <1>3, ComAssumption DEF CoUninitialize
  <2>2. /\ m_pVideo' \in VideoObjects /\ pBmp' \in 0 .. MaxGraphs
        /\ m_state' \in States /\ m_seekCaps' \in BOOLEAN
    BY <1>3, VideoObjectTypes, NullType
       DEF CoUninitialize, TearDownGraph, States
  <2>. QED
    BY <1>0, <1>3, <2>1, <2>2 DEF CoUninitialize
<1>4. CASE DeleteAfterUnload
  BY <1>0, <1>4 DEF DeleteAfterUnload
<1>. QED
  BY <1>1, <1>2, <1>3, <1>4 DEF CloseStep

\* A call returns.
LEMMA ReturnType == ASSUME TypeOK, Return PROVE TypeOK'
BY LocalsClosed DEF TypeOK, GraphTypeOK, VideoTypeOK, PlayerTypeOK, Return,
                    Goto, graphVars, player, session, Labels

\* Deleting the player counts down what it held.
LEMMA DeleteType == ASSUME TypeOK, Delete PROVE TypeOK'
<1>. USE DEF TypeOK, GraphTypeOK, VideoTypeOK, PlayerTypeOK
<1>1. GraphTypeOK'
  <2>1. \A g \in Graphs : Cardinality({i \in Interfaces : itf[i] = g}) \in Nat
    BY InterfacesFinite
  <2>. QED
    BY <2>1 DEF Delete, DeletePlayer, ReleaseInterfaces, Release
<1>2. VideoTypeOK'
  BY VideoObjectTypes DEF Delete, DeletePlayer, TearDownGraph
<1>3. PlayerTypeOK'
  BY NullType DEF Delete, DeletePlayer, TearDownGraph, States, Decoders
<1>4. pc' \in Labels /\ UNCHANGED <<call, fault, m_videoInitialized>>
  BY DEF Delete, Goto, Labels
<1>5. m_dsShowPlayer' \in BOOLEAN
  BY DEF Delete
<1>. HIDE DEF GraphTypeOK, VideoTypeOK, PlayerTypeOK
<1>. QED
  BY <1>1, <1>2, <1>3, <1>4, <1>5

\* What the program may do between two calls.
LEMMA ClientType == ASSUME TypeOK, Client PROVE TypeOK'
<1>. USE DEF TypeOK, GraphTypeOK, VideoTypeOK, PlayerTypeOK,
         graphVars, player, session, Goto, Crash
<1>0. /\ {"idle", "TearDownGraph", "Close"} \subseteq Labels
      /\ {"m_pControl", "m_pVideo", "m_pWindowless", "pBmp"} \subseteq Faults
  BY DEF Labels, Faults
<1>1. ASSUME NEW op \in {"InitilizePlayer", "InitilizeRSTPSource"},
             NEW w \in Windows, NEW audio \in BOOLEAN, NEW save \in BOOLEAN,
             Initialize(op, w, audio, save)
      PROVE  TypeOK'
  <2>1. call' \in Locals
    BY <1>1 DEF Initialize, NoCall, Locals
  <2>2. m_selectedDecoder' \in Decoders /\ m_dsShowPlayer' \in BOOLEAN
    BY <1>1 DEF Initialize, EnsurePlayer
  <2>. QED
    BY <1>0, <1>1, <2>1, <2>2 DEF Initialize
<1>2. ASSUME NEW d \in Decoders, SelectDecoder(d)
      PROVE  TypeOK'
  BY <1>2 DEF SelectDecoder
<1>3. CASE SetFileName
  BY <1>3 DEF SetFileName
<1>4. CASE DSShow_Control
  <2>1. PICK from \in SUBSET States, to \in States,
             m \in {"stopped", "paused", "running"} : Control(from, to, m)
    BY <1>4 DEF DSShow_Control, Play, Pause, Stop, States
  <2>2. mode' \in [Graphs -> {"absent", "stopped", "paused", "running", "gone"}]
    BY <2>1 DEF Control
  <2>3. m_state' \in States /\ pc' \in Labels /\ fault' \in Faults
    BY <1>0, <2>1 DEF Control
  <2>. QED
    BY <1>4, <2>1, <2>2, <2>3 DEF DSShow_Control, Control
<1>5. ASSUME NEW w \in Windows, DSShow_SetWindowHandle(w)
      PROVE  TypeOK'
  <2>1. m_pVideo' \in VideoObjects
    <3>1. \/ UNCHANGED m_pVideo
          \/ m_pVideo' = [m_pVideo EXCEPT !.hwnd = w]
      BY <1>5 DEF DSShow_SetWindowHandle, SetWindowHandle, SetVideoWindow
    <3>. QED
      BY <3>1, VideoObjectUpdates, Zenon
  <2>2. pc' \in Labels /\ fault' \in Faults
    BY <1>0, <1>5 DEF DSShow_SetWindowHandle, SetWindowHandle
  <2>. QED
    BY <1>5, <2>1, <2>2 DEF DSShow_SetWindowHandle, SetWindowHandle
<1>6. CASE DSShow_ApplyOverlay
  BY <1>0, <1>6 DEF DSShow_ApplyOverlay
<1>7. CASE DSShow_Close
  BY <1>0, <1>7 DEF DSShow_Close
<1>. QED
  BY <1>1, <1>2, <1>3, <1>4, <1>5, <1>6, <1>7
     DEF Client, InitializePlayer, InitilizeRSTPSource

\* The types hold in every behaviour of the library.
THEOREM TypeCorrect == Spec => []TypeOK
<1>1. Init => TypeOK
  <2>. SUFFICES ASSUME Init PROVE TypeOK
    OBVIOUS
  <2>1. GraphTypeOK
    BY ComAssumption DEF Init, NoGraphs, GraphTypeOK
  <2>2. VideoTypeOK
    BY VideoObjectTypes, NullType DEF Init, Construct, VideoTypeOK
  <2>3. PlayerTypeOK
    BY NullType DEF Init, Construct, PlayerTypeOK, States, Decoders
  <2>. QED
    BY <2>1, <2>2, <2>3, LocalsClosed DEF Init, TypeOK, Labels, Faults
<1>2. TypeOK /\ [Next]_vars => TypeOK'
  <2>. SUFFICES ASSUME TypeOK, [Next]_vars PROVE TypeOK'
    OBVIOUS
  <2>1. CASE Step
    BY <2>1, InitializeStepType, PlayerStepType, RTSPStepType, CloseStepType,
       ReturnType, DeleteType DEF Step
  <2>2. CASE Client
    BY <2>2, ClientType
  <2>3. CASE Environment
    BY <2>3 DEF Environment, Abort, TypeOK, GraphTypeOK, VideoTypeOK,
                PlayerTypeOK, player, session
  <2>4. CASE UNCHANGED vars
    BY <2>4 DEF vars, graphVars, player, session, TypeOK, GraphTypeOK,
                VideoTypeOK, PlayerTypeOK
  <2>. QED
    BY <2>1, <2>2, <2>3, <2>4 DEF Next
<1>. QED
  BY <1>1, <1>2, PTL DEF Spec

-----------------------------------------------------------------------------
\* The session: the state, the graph and the renderer object of one player.

\* Where a call can only be with a graph it has created.
Building == Labels \ {"idle", "S_OK", "failed", "TearDownGraph",
                      "CoCreateInstance", "IFilterGraph2", "Close",
                      "CloseRenderer", "CoUninitialize", "delete"}

\* StateImpliesGraph is not inductive: that GetCapabilities may declare the
\* player stopped rests on the graph made many steps before, and that the old
\* graph may be replaced rests on what TearDownGraph did just before.
SessionInv ==
  /\ graph # Null => Live(graph)
  /\ m_state # "STATE_CLOSED" => graph # Null
  /\ pc = "CoCreateInstance" => m_state = "STATE_CLOSED" /\ m_pVideo = NoVideo
  /\ pc \in Building => graph # Null
  /\ RendererOfThisGraph

\* A step that keeps the graph pointer and the state needs to show only where
\* it goes on and what it does to the renderer object.
LEMMA SessionKept ==
  ASSUME SessionInv, UNCHANGED <<m_state, itf>>,
         Live(graph) => Live(graph)',
         RendererOfThisGraph',
         pc' = "CoCreateInstance" => UNCHANGED <<pc, m_pVideo>>,
         pc' \in Building => graph # Null
  PROVE  SessionInv'
BY DEF SessionInv, graph

\* The same for a step that only moves the call on, or ends the process.
LEMMA SessionMoves ==
  ASSUME SessionInv, UNCHANGED <<m_state, itf, mode, m_pVideo>>,
         \/ UNCHANGED pc
         \/ pc' \notin {"CoCreateInstance"} /\ (pc' \in Building => graph # Null)
  PROVE  SessionInv'
BY DEF SessionInv, RendererOfThisGraph, graph, Live

\* FinalizeGraph does not exchange the renderer object.
LEMMA FinalizeGraphKeeps ==
  ASSUME VideoTypeOK, NEW r, FinalizeGraph(graph, r)
  PROVE  m_pVideo'.kind = m_pVideo.kind /\ m_pVideo'.graph = m_pVideo.graph
<1>1. m_pVideo' \in {m_pVideo, [m_pVideo EXCEPT !.ctl = FALSE]}
  BY DEF FinalizeGraph
<1>. QED
  BY <1>1 DEF VideoTypeOK, VideoObjects

\* The steps that build a graph keep the session invariant.
LEMMA InitializeStepSession ==
  ASSUME TypeOK, SessionInv, InitializeStep
  PROVE  SessionInv'
<1>. USE DEF graphVars, player, session, Goto, Crash
<1>0. /\ \A ok : AfterInitializeGraph(ok) \in
                   {"IFilterGraph2", "AddSourceFilter", "failed"}
      /\ ~(AfterInitializeGraph(FALSE) \in Building)
      /\ {"m_pControl", "SetNotifyWindow", "GetCapabilities"} \subseteq Building
      /\ Interfaces \ {"m_pGraph"} \subseteq Building
      /\ Renderers \subseteq Building
  BY DEF AfterInitializeGraph, Building, Labels, Interfaces, Renderers, Roles
<1>1. CASE TearDownOld
  BY <1>1 DEF TearDownOld, TearDownGraph, SessionInv, RendererOfThisGraph,
              NoVideo, Building, graph, Live
<1>2. CASE CoCreateInstance
  <2>1. m_state = "STATE_CLOSED" /\ m_pVideo = NoVideo
    BY <1>2 DEF CoCreateInstance, SessionInv
  <2>2. UNCHANGED <<m_state, m_pVideo>> /\ NoVideo.kind = "none"
    BY <1>2 DEF CoCreateInstance, NoVideo
  <2>3. CASE /\ itf' = [itf EXCEPT !["m_pGraph"] = Null]
             /\ Goto(AfterInitializeGraph(FALSE))
    <3>1. graph' = Null
      BY <2>3 DEF graph, TypeOK, PlayerTypeOK, Interfaces
    <3>. QED
      BY <1>0, <2>1, <2>2, <2>3, <3>1 DEF SessionInv, RendererOfThisGraph
  <2>4. ASSUME NEW g \in Graphs, NewGraph(g),
               itf' = [itf EXCEPT !["m_pGraph"] = g], Goto("m_pControl")
        PROVE  SessionInv'
    <3>1. graph' = g
      BY <2>4 DEF graph, TypeOK, PlayerTypeOK, Interfaces
    <3>2. Live(g)' /\ g # Null
      BY <2>4 DEF NewGraph, Live, TypeOK, GraphTypeOK, Graphs, Null
    <3>3. Live(graph)'
      BY <3>1, <3>2 DEF Live
    <3>. QED
      BY <1>0, <2>1, <2>2, <2>4, <3>1, <3>2, <3>3
         DEF SessionInv, RendererOfThisGraph
  <2>. QED
    BY <1>2, <2>3, <2>4 DEF CoCreateInstance
<1>3. CASE SetNotifyWindow
  <2>1. graph # Null
    BY <1>0, <1>3 DEF SetNotifyWindow, SessionInv
  <2>. QED
    BY <1>0, <1>3, <2>1, SessionMoves DEF SetNotifyWindow
<1>4. ASSUME NEW i \in Interfaces \ {"m_pGraph"}, QueryInterface(i)
      PROVE  SessionInv'
  <2>1. graph # Null
    BY <1>0, <1>4 DEF QueryInterface, SessionInv
  <2>2. itf' \in {[itf EXCEPT ![i] = graph], [itf EXCEPT ![i] = Null]}
    BY <1>4 DEF QueryInterface
  <2>3. graph' = graph
    <3>1. itf \in [Interfaces -> 0 .. MaxGraphs] /\ "m_pGraph" \in Interfaces
      BY DEF TypeOK, PlayerTypeOK, Interfaces
    <3>2. CASE itf' = [itf EXCEPT ![i] = graph]
      BY <3>1, <3>2 DEF graph
    <3>3. CASE itf' = [itf EXCEPT ![i] = Null]
      BY <3>1, <3>3 DEF graph
    <3>. QED
      BY <2>2, <3>2, <3>3
  <2>4. UNCHANGED <<m_state, mode, m_pVideo>>
    BY <1>4 DEF QueryInterface
  <2>5. pc' # "CoCreateInstance"
    <3>1. pc' \in {NextInterface[i], AfterInitializeGraph(FALSE)}
      BY <1>4 DEF QueryInterface
    <3>2. NextInterface[i] # "CoCreateInstance"
      <4>1. CASE i = "m_pControl" BY <4>1 DEF NextInterface
      <4>2. CASE i = "m_pEvent"   BY <4>2 DEF NextInterface
      <4>3. CASE i = "m_pSeek"    BY <4>3 DEF NextInterface
      <4>. QED BY <4>1, <4>2, <4>3 DEF Interfaces
    <3>. QED
      BY <1>0, <3>1, <3>2
  <2>. QED
    BY <2>1, <2>3, <2>4, <2>5 DEF SessionInv, RendererOfThisGraph, Live
<1>5. ASSUME NEW k \in Renderers, CreateVideoRenderer(k)
      PROVE  SessionInv'
  <2>1. graph # Null
    BY <1>0, <1>5 DEF CreateVideoRenderer, SessionInv
  <2>2. m_pVideo' \in {Renderer(k, graph, m_hwndVideo), NoVideo}
    BY <1>5 DEF CreateVideoRenderer
  <2>3. RendererOfThisGraph'
    BY <1>5, <2>1, <2>2
       DEF CreateVideoRenderer, RendererOfThisGraph, Renderer, NoVideo, graph
  <2>4. pc' # "CoCreateInstance"
    <3>1. \/ UNCHANGED pc
          \/ \E ok : pc' = AfterRenderer(k, ok)
      BY <1>5 DEF CreateVideoRenderer
    <3>2. NextRenderer[k] # "CoCreateInstance" /\ k # "CoCreateInstance"
      <4>1. CASE k = "EVR"  BY <4>1 DEF NextRenderer
      <4>2. CASE k = "VMR9" BY <4>2 DEF NextRenderer
      <4>3. CASE k = "VMR7" BY <4>3 DEF NextRenderer
      <4>. QED BY <4>1, <4>2, <4>3 DEF Renderers
    <3>. QED
      BY <1>5, <3>1, <3>2 DEF CreateVideoRenderer, AfterRenderer
  <2>5. UNCHANGED <<m_state, itf, mode>>
    BY <1>5 DEF CreateVideoRenderer
  <2>. QED
    BY <2>1, <2>3, <2>4, <2>5, SessionKept DEF Live, graph
<1>6. CASE GetCapabilities
  <2>1. graph # Null
    BY <1>0, <1>6 DEF GetCapabilities, SessionInv
  <2>. QED
    BY <1>6, <2>1 DEF GetCapabilities, SessionInv, RendererOfThisGraph, graph, Live
<1>. QED
  BY <1>1, <1>2, <1>3, <1>4, <1>5, <1>6 DEF InitializeStep

\* So do those of InitilizePlayer, which all have a graph,
LEMMA PlayerStepSession ==
  ASSUME TypeOK, SessionInv, PlayerStep
  PROVE  SessionInv'
<1>. USE DEF graphVars, player, session, Goto, Crash
<1>0. /\ "failed" \notin Building
      /\ {"RenderStreams", "EVR", "AddSourceFilter", "AddDecoder", "RenderPins",
          "FinalizeGraph", "GetCapabilities"} \subseteq Building
  BY DEF Building, Labels, Renderers
<1>1. graph # Null
  BY <1>0 DEF PlayerStep, AddSourceFilter, RenderStreams, AddDecoder, RenderPins,
              FinalizeStreams, SessionInv
<1>2. UNCHANGED <<m_state, itf, mode>>
  BY DEF PlayerStep, AddSourceFilter, RenderStreams, AddDecoder, RenderPins,
         FinalizeStreams
<1>3. pc' # "CoCreateInstance"
  BY DEF PlayerStep, AddSourceFilter, RenderStreams, AddDecoder, RenderPins,
         FinalizeStreams
<1>4. RendererOfThisGraph'
  <2>1. CASE UNCHANGED m_pVideo
    BY <1>2, <2>1 DEF SessionInv, RendererOfThisGraph, graph
  <2>2. ASSUME NEW r, FinalizeGraph(graph, r) PROVE RendererOfThisGraph'
    BY <1>2, <2>2, FinalizeGraphKeeps DEF SessionInv, RendererOfThisGraph, graph,
                                          TypeOK
  <2>. QED
    BY <2>1, <2>2 DEF PlayerStep, AddSourceFilter, RenderStreams, AddDecoder,
                      RenderPins, FinalizeStreams
<1>. QED
  BY <1>1, <1>2, <1>3, <1>4, SessionKept DEF Live, graph

\* those of InitilizeRSTPSource, whose first one ends the process without one,
LEMMA RTSPStepSession ==
  ASSUME TypeOK, SessionInv, RTSPStep
  PROVE  SessionInv'
<1>. USE DEF graphVars, player, session, Goto, Crash
<1>0. {"VMR9", "Load", "SetFileName", "GetPin", "Connect", "RenderEx",
       "pVideoDecoder"} \cup Roles \subseteq Building
  BY DEF Building, Labels, Renderers, Roles
<1>1. UNCHANGED <<m_state, itf, mode, m_pVideo>>
  BY DEF RTSPStep, QueryFilterGraph2, AddFilterByCLSID, Load, SkipDecoder,
         SetSinkFileName, GetPins, ConnectPins, RenderDecoder
<1>2. graph # Null \/ pc' = pc
  BY <1>0 DEF RTSPStep, QueryFilterGraph2, AddFilterByCLSID, Load, SkipDecoder,
              SetSinkFileName, GetPins, ConnectPins, RenderDecoder, SessionInv
<1>3. pc' # "CoCreateInstance"
  <2>1. ASSUME NEW f \in Roles, AddFilterByCLSID(f)
        PROVE  pc' # "CoCreateInstance"
    <3>1. pc' \in {OnAdded(f), OnMissing(f)}
      BY <2>1 DEF AddFilterByCLSID
    <3>2. AfterDecoder # "CoCreateInstance"
      BY DEF AfterDecoder
    <3>3. OnMissing(f) # "CoCreateInstance"
      BY <3>2 DEF OnMissing
    <3>4. OnAdded(f) # "CoCreateInstance"
      <4>1. CASE f = "pLeadToolsRTSPSource" BY <4>1 DEF OnAdded
      <4>2. CASE f = "pAudioRenderer" BY <4>2 DEF OnAdded
      <4>3. CASE f = "pVideoDecoder" BY <3>2, <4>3 DEF OnAdded
      <4>4. CASE f = "pInfTeeFilter" BY <4>4 DEF OnAdded
      <4>5. CASE f = "pSinkFilter" BY <4>5 DEF OnAdded
      <4>. QED BY <4>1, <4>2, <4>3, <4>4, <4>5 DEF Roles
    <3>. QED
      BY <3>1, <3>3, <3>4
  <2>. QED
    BY <2>1 DEF RTSPStep, QueryFilterGraph2, Load, SkipDecoder, AfterDecoder,
                SetSinkFileName, GetPins, ConnectPins, RenderDecoder
<1>. QED
  BY <1>1, <1>2, <1>3, SessionMoves

\* and those of Close, which need none.
LEMMA CloseStepSession ==
  ASSUME TypeOK, SessionInv, CloseStep
  PROVE  SessionInv'
<1>. USE DEF graphVars, player, session, Goto, Crash
<1>0. {"CloseRenderer", "CoUninitialize", "delete"} \cap Building = {}
  BY DEF Building
<1>1. CASE RemoveFilters
  BY <1>0, <1>1, SessionMoves DEF RemoveFilters
<1>2. CASE CloseRenderer
  <2>1. UNCHANGED <<m_state, itf, mode>> /\ pc' \in {pc, "CoUninitialize"}
        /\ pc = "CloseRenderer"
    BY <1>2 DEF CloseRenderer
  <2>2. RendererOfThisGraph'
    <3>1. CASE UNCHANGED m_pVideo
      BY <2>1, <3>1 DEF SessionInv, RendererOfThisGraph, graph
    <3>2. ASSUME NEW r, FinalizeGraph(graph, r) PROVE RendererOfThisGraph'
      BY <2>1, <3>2, FinalizeGraphKeeps DEF SessionInv, RendererOfThisGraph,
                                            graph, TypeOK
    <3>. QED
      BY <1>2, <3>1, <3>2 DEF CloseRenderer
  <2>. QED
    BY <1>0, <2>1, <2>2, SessionKept DEF Live, graph
<1>3. CASE CoUninitialize
  BY <1>0, <1>3 DEF CoUninitialize, TearDownGraph, SessionInv,
                    RendererOfThisGraph, NoVideo, graph, Live
<1>4. CASE DeleteAfterUnload
  BY <1>4, SessionMoves DEF DeleteAfterUnload
<1>. QED
  BY <1>1, <1>2, <1>3, <1>4 DEF CloseStep

\* The deleted player leaves nothing behind.
LEMMA DeleteSession ==
  ASSUME TypeOK, SessionInv, Delete
  PROVE  SessionInv'
<1>1. graph' = Null
  BY DEF Delete, DeletePlayer, graph, Interfaces
<1>2. m_state' = "STATE_CLOSED" /\ m_pVideo' = NoVideo /\ pc' = "idle"
  BY DEF Delete, DeletePlayer, TearDownGraph, Goto
<1>. QED
  BY <1>1, <1>2 DEF SessionInv, RendererOfThisGraph, NoVideo, Building

\* Between calls only Play, Pause and Stop touch the graph, and it exists.
LEMMA ClientSession ==
  ASSUME TypeOK, SessionInv, Client
  PROVE  SessionInv'
<1>. USE DEF graphVars, player, session, Goto, Crash
<1>0. {"idle", "TearDownGraph", "Close"} \cap Building = {}
  BY DEF Building
<1>1. ASSUME NEW op, NEW w, NEW audio, NEW save, Initialize(op, w, audio, save)
      PROVE  SessionInv'
  BY <1>0, <1>1, SessionMoves DEF Initialize
<1>2. ASSUME NEW d, SelectDecoder(d) PROVE SessionInv'
  BY <1>2, SessionMoves DEF SelectDecoder
<1>3. CASE SetFileName
  BY <1>3, SessionMoves DEF SetFileName
<1>4. CASE DSShow_Control
  <2>1. PICK from \in SUBSET {"STATE_RUNNING", "STATE_PAUSED", "STATE_STOPPED"},
             to \in States,
             m \in {"stopped", "paused", "running"} : Control(from, to, m)
    BY <1>4 DEF DSShow_Control, Play, Pause, Stop, States
  <2>2. m_state # "STATE_CLOSED"
    BY <2>1 DEF Control
  <2>3. graph # Null
    BY <2>2 DEF SessionInv
  <2>4. \/ UNCHANGED mode
        \/ mode' = [mode EXCEPT ![itf["m_pControl"]] = m]
    BY <2>1 DEF Control
  <2>5. UNCHANGED <<itf, m_pVideo>> /\ pc' \in {pc, "idle"} /\ pc = "idle"
    BY <1>4, <2>1 DEF Control, DSShow_Control, Ready
  <2>6. Live(graph)'
    <3>1. Live(graph) /\ graph' = graph
      BY <2>3, <2>5 DEF SessionInv, graph
    <3>2. mode \in [Graphs -> {"absent", "stopped", "paused", "running", "gone"}]
          /\ graph \in Graphs
      BY <2>3, GraphType, ComAssumption DEF TypeOK, GraphTypeOK, Graphs, Null
    <3>3. mode'[graph] \in {mode[graph], m}
      BY <2>4, <3>2
    <3>. QED
      BY <3>1, <3>3 DEF Live
  <2>. QED
    BY <1>0, <2>3, <2>5, <2>6 DEF SessionInv, RendererOfThisGraph, graph
<1>5. ASSUME NEW w, DSShow_SetWindowHandle(w) PROVE SessionInv'
  <2>1. UNCHANGED <<m_state, itf, mode>> /\ pc' = "idle"
    BY <1>5 DEF DSShow_SetWindowHandle, SetWindowHandle, Ready
  <2>2. m_pVideo' \in {m_pVideo, [m_pVideo EXCEPT !.hwnd = w]}
    BY <1>5 DEF DSShow_SetWindowHandle, SetWindowHandle, SetVideoWindow
  <2>3. m_pVideo'.kind = m_pVideo.kind /\ m_pVideo'.graph = m_pVideo.graph
    BY <2>2 DEF TypeOK, VideoTypeOK, VideoObjects
  <2>. QED
    BY <1>0, <2>1, <2>3, SessionKept DEF SessionInv, RendererOfThisGraph, graph,
                                         Live
<1>6. CASE DSShow_ApplyOverlay
  BY <1>6, SessionMoves DEF DSShow_ApplyOverlay
<1>7. CASE DSShow_Close
  BY <1>0, <1>7, SessionMoves DEF DSShow_Close
<1>. QED
  BY <1>1, <1>2, <1>3, <1>4, <1>5, <1>6, <1>7
     DEF Client, InitializePlayer, InitilizeRSTPSource

\* The session invariant holds in every behaviour of the library.
LEMMA SessionInvariant == Spec => []SessionInv
<1>1. Init => SessionInv
  BY DEF Init, Construct, SessionInv, RendererOfThisGraph, NoVideo, Building,
         graph, Interfaces
<1>2. TypeOK /\ SessionInv /\ [Next]_vars => SessionInv'
  <2>. SUFFICES ASSUME TypeOK, SessionInv, [Next]_vars PROVE SessionInv'
    OBVIOUS
  <2>1. CASE Step
    <3>1. CASE Return
      BY <3>1, SessionMoves DEF Return, Goto, Building, player, session, graphVars
    <3>. QED
      BY <2>1, <3>1, InitializeStepSession, PlayerStepSession, RTSPStepSession,
         CloseStepSession, DeleteSession DEF Step
  <2>2. CASE Client
    BY <2>2, ClientSession
  <2>3. CASE Environment
    <3>1. PICK g \in Graphs : Abort(g)
      BY <2>3 DEF Environment
    <3>2. Live(graph) => Live(graph)'
      BY <2>3, <3>1 DEF Environment, Abort, Live, graph, player, TypeOK, GraphTypeOK
    <3>3. UNCHANGED <<m_state, itf, m_pVideo, pc>>
      BY <2>3 DEF Environment, player, session
    <3>. QED
      BY <3>2, <3>3 DEF SessionInv, RendererOfThisGraph, graph
  <2>4. CASE UNCHANGED vars
    BY <2>4, SessionMoves DEF vars, player, session, graphVars
  <2>. QED
    BY <2>1, <2>2, <2>3, <2>4 DEF Next
<1>. QED
  BY <1>1, <1>2, TypeCorrect, PTL DEF Spec

\* "If state is correct, the graph should exist": Play, Pause and Stop never
\* run without a live graph, however initialisations fail and are repeated.
THEOREM GraphExists == Spec => []StateImpliesGraph
<1>1. SessionInv => StateImpliesGraph
  BY DEF SessionInv, StateImpliesGraph
<1>. QED
  BY <1>1, SessionInvariant, PTL

\* The renderer object never outlives the graph its filter was put into.
THEOREM RendererMatches == Spec => []RendererOfThisGraph
<1>1. SessionInv => RendererOfThisGraph
  BY DEF SessionInv
<1>. QED
  BY <1>1, SessionInvariant, PTL

-----------------------------------------------------------------------------
\* Reference counts.

\* The interface pointers of a player whose pointers are f that point to g.
PointersTo(f, g) == {i \in Interfaces : f[i] = g}

\* They are finitely many, so that they can be counted.
LEMMA PointersFinite ==
  \A f, g : IsFiniteSet(PointersTo(f, g)) /\ Cardinality(PointersTo(f, g)) \in Nat
<1>1. \A f, g : PointersTo(f, g) \subseteq Interfaces
  BY DEF PointersTo
<1>. QED
  BY <1>1, InterfacesAreFinite, FS_Subset, FS_CardinalityType

\* Assigning one pointer adds at most one pointer to the graph it then points
\* to, and none to any other.
LEMMA OnePointerMoves ==
  ASSUME NEW f \in [Interfaces -> 0 .. MaxGraphs], NEW i \in Interfaces, NEW v, NEW g
  PROVE  Cardinality(PointersTo([f EXCEPT ![i] = v], g)) <=
           Cardinality(PointersTo(f, g)) + (IF v = g THEN 1 ELSE 0)
<1>. DEFINE after == [f EXCEPT ![i] = v]
<1>1. /\ IsFiniteSet(PointersTo(f, g))
      /\ Cardinality(PointersTo(f, g)) \in Nat
      /\ Cardinality(PointersTo(after, g)) \in Nat
  BY PointersFinite
<1>2. CASE v = g
  <2>1. PointersTo(after, g) \in SUBSET (PointersTo(f, g) \cup {i})
    BY DEF PointersTo
  <2>2. /\ IsFiniteSet(PointersTo(f, g) \cup {i})
        /\ \/ Cardinality(PointersTo(f, g) \cup {i}) = Cardinality(PointersTo(f, g))
           \/ Cardinality(PointersTo(f, g) \cup {i}) = Cardinality(PointersTo(f, g)) + 1
    BY <1>1, FS_AddElement
  <2>3. Cardinality(PointersTo(after, g)) <= Cardinality(PointersTo(f, g) \cup {i})
    BY <2>1, <2>2, FS_Subset
  <2>4. Cardinality(PointersTo(after, g)) <= Cardinality(PointersTo(f, g)) + 1
    BY <1>1, <2>2, <2>3
  <2>. QED
    BY <1>2, <2>4
<1>3. CASE v # g
  <2>1. PointersTo(after, g) \in SUBSET PointersTo(f, g)
    BY <1>3 DEF PointersTo
  <2>2. Cardinality(PointersTo(after, g)) <= Cardinality(PointersTo(f, g))
    BY <1>1, <2>1, FS_Subset
  <2>3. Cardinality(PointersTo(after, g)) <= Cardinality(PointersTo(f, g)) + 0
    BY <1>1, <2>2
  <2>. QED
    BY <1>3, <2>3
<1>. QED
  BY <1>2, <1>3

\* A graph some pointer points to has a positive count of pointers.
LEMMA PointerCounts ==
  ASSUME NEW f, NEW i \in Interfaces
  PROVE  Cardinality(PointersTo(f, f[i])) > 0
<1>1. PointersTo(f, f[i]) # {}
  BY DEF PointersTo
<1>. QED
  BY <1>1, PointersFinite, FS_EmptySet

\* PointersHoldReferences, with the pointers of each graph named.
LEMMA PointersHoldReferencesDef ==
  PointersHoldReferences <=>
    \A g \in Graphs : /\ Cardinality(PointersTo(itf, g)) <= refs[g]
                      /\ refs[g] > 0 <=> Live(g)
BY DEF PointersHoldReferences, PointersTo

\* A step that touches neither the pointers nor the graphs keeps the counts.
LEMMA CountsKept ==
  ASSUME PointersHoldReferences, UNCHANGED <<itf, refs, mode>>
  PROVE  PointersHoldReferences'
BY DEF PointersHoldReferences, Live

\* A new graph has one reference, and nothing pointed to it before.
LEMMA CoCreateInstanceCounts ==
  ASSUME TypeOK, PointersHoldReferences, CoCreateInstance
  PROVE  PointersHoldReferences'
<1>1. itf \in [Interfaces -> 0 .. MaxGraphs] /\ "m_pGraph" \in Interfaces
  BY DEF TypeOK, PlayerTypeOK, Interfaces
<1>2. /\ refs \in [Graphs -> Int]
      /\ mode \in [Graphs -> {"absent", "stopped", "paused", "running", "gone"}]
      /\ Null \notin Graphs
  BY DEF TypeOK, GraphTypeOK, Graphs, Null
<1>3. \A g \in Graphs : /\ Cardinality(PointersTo(itf, g)) <= refs[g]
                        /\ refs[g] > 0 <=> Live(g)
                        /\ Cardinality(PointersTo(itf, g)) \in Nat
  BY PointersHoldReferencesDef, PointersFinite
<1>4. CASE itf' = [itf EXCEPT !["m_pGraph"] = Null] /\ UNCHANGED <<refs, mode>>
  <2>. SUFFICES ASSUME NEW g \in Graphs
                PROVE  /\ Cardinality(PointersTo(itf', g)) <= refs'[g]
                       /\ refs'[g] > 0 <=> Live(g)'
    BY DEF PointersHoldReferences, PointersTo
  <2>1. Cardinality(PointersTo(itf', g)) <= Cardinality(PointersTo(itf, g)) + 0
    BY <1>1, <1>2, <1>4, OnePointerMoves
  <2>2. Cardinality(PointersTo(itf', g)) \in Nat
    BY PointersFinite
  <2>. QED
    BY <1>2, <1>3, <1>4, <2>1, <2>2 DEF Live
<1>5. ASSUME NEW h \in Graphs, NewGraph(h), itf' = [itf EXCEPT !["m_pGraph"] = h]
      PROVE  PointersHoldReferences'
  <2>. SUFFICES ASSUME NEW g \in Graphs
                PROVE  /\ Cardinality(PointersTo(itf', g)) <= refs'[g]
                       /\ refs'[g] > 0 <=> Live(g)'
    BY DEF PointersHoldReferences, PointersTo
  <2>1. Cardinality(PointersTo(itf', g)) <=
          Cardinality(PointersTo(itf, g)) + (IF h = g THEN 1 ELSE 0)
    BY <1>1, <1>5, OnePointerMoves
  <2>2. Cardinality(PointersTo(itf', g)) \in Nat
    BY PointersFinite
  <2>3. CASE g = h
    <3>1. ~Live(g)
      BY <1>5, <2>3 DEF NewGraph, Live
    <3>2. Cardinality(PointersTo(itf, g)) = 0
      BY <1>2, <1>3, <3>1
    <3>3. refs'[g] = 1 /\ mode'[g] = "stopped"
      BY <1>2, <1>5, <2>3 DEF NewGraph
    <3>. QED
      BY <2>1, <2>2, <2>3, <3>2, <3>3 DEF Live
  <2>4. CASE g # h
    <3>1. refs'[g] = refs[g] /\ mode'[g] = mode[g]
      BY <1>2, <1>5, <2>4 DEF NewGraph
    <3>. QED
      BY <1>2, <1>3, <2>1, <2>2, <2>4, <3>1 DEF Live
  <2>. QED
    BY <2>3, <2>4
<1>. QED
  BY <1>4, <1>5 DEF CoCreateInstance, graphVars

\* A query counts the reference it hands out, and the graph is alive.
LEMMA QueryInterfaceCounts ==
  ASSUME TypeOK, SessionInv, PointersHoldReferences,
         NEW i \in Interfaces \ {"m_pGraph"}, QueryInterface(i)
  PROVE  PointersHoldReferences'
<1>1. itf \in [Interfaces -> 0 .. MaxGraphs]
  BY DEF TypeOK, PlayerTypeOK
<1>2. refs \in [Graphs -> Int] /\ Null \notin Graphs
  BY DEF TypeOK, GraphTypeOK, Graphs, Null
<1>3. \A g \in Graphs : /\ Cardinality(PointersTo(itf, g)) <= refs[g]
                        /\ refs[g] > 0 <=> Live(g)
                        /\ Cardinality(PointersTo(itf, g)) \in Nat
  BY PointersHoldReferencesDef, PointersFinite
<1>4. Live(graph)
  BY DEF QueryInterface, SessionInv, Building, Labels, Interfaces
<1>5. UNCHANGED mode
  BY DEF QueryInterface
<1>. SUFFICES ASSUME NEW g \in Graphs
              PROVE  /\ Cardinality(PointersTo(itf', g)) <= refs'[g]
                     /\ refs'[g] > 0 <=> Live(g)'
  BY DEF PointersHoldReferences, PointersTo
<1>6. Cardinality(PointersTo(itf', g)) \in Nat
  BY PointersFinite
<1>7. CASE itf' = [itf EXCEPT ![i] = Null] /\ UNCHANGED refs
  <2>1. Cardinality(PointersTo(itf', g)) <= Cardinality(PointersTo(itf, g)) + 0
    BY <1>1, <1>2, <1>7, OnePointerMoves
  <2>. QED
    BY <1>2, <1>3, <1>5, <1>6, <1>7, <2>1 DEF Live
<1>8. CASE itf' = [itf EXCEPT ![i] = graph] /\ refs' = [refs EXCEPT ![graph] = @ + 1]
  <2>1. Cardinality(PointersTo(itf', g)) <=
          Cardinality(PointersTo(itf, g)) + (IF graph = g THEN 1 ELSE 0)
    BY <1>1, <1>8, OnePointerMoves
  <2>2. refs'[g] = refs[g] + (IF graph = g THEN 1 ELSE 0)
    BY <1>2, <1>8
  <2>. HIDE DEF graph
  <2>. QED
    BY <1>2, <1>3, <1>4, <1>5, <1>6, <2>1, <2>2 DEF Live
<1>. QED
  BY <1>7, <1>8 DEF QueryInterface

\* The deleted player gives back one reference for each of its pointers.
LEMMA DeleteCounts ==
  ASSUME TypeOK, PointersHoldReferences, Delete
  PROVE  PointersHoldReferences'
<1>. SUFFICES ASSUME NEW g \in Graphs
              PROVE  /\ Cardinality(PointersTo(itf', g)) <= refs'[g]
                     /\ refs'[g] > 0 <=> Live(g)'
  BY DEF PointersHoldReferences, PointersTo
<1>. DEFINE n == Cardinality(PointersTo(itf, g))
<1>1. n \in Nat /\ n <= refs[g] /\ (refs[g] > 0 <=> Live(g)) /\ refs[g] \in Int
  BY PointersHoldReferencesDef, PointersFinite DEF TypeOK, GraphTypeOK
<1>2. /\ refs'[g] = refs[g] - n
      /\ mode'[g] = IF n > 0 /\ refs[g] = n THEN "gone" ELSE mode[g]
  BY DEF Delete, DeletePlayer, ReleaseInterfaces, Release, PointersTo
<1>3. PointersTo(itf', g) = {}
  BY DEF Delete, DeletePlayer, PointersTo, Graphs, Null
<1>4. Cardinality(PointersTo(itf', g)) = 0
  BY <1>3, FS_EmptySet
<1>. HIDE DEF n
<1>. QED
  BY <1>1, <1>2, <1>4 DEF Live

\* Play, Pause and Stop reach a live graph only: m_pControl holds it.
LEMMA ControlCounts ==
  ASSUME TypeOK, PointersHoldReferences,
         NEW from, NEW to, NEW m \in {"stopped", "paused", "running"},
         Control(from, to, m)
  PROVE  PointersHoldReferences'
<1>1. CASE UNCHANGED mode
  BY <1>1, CountsKept DEF Control
<1>2. CASE itf["m_pControl"] # Null /\ mode' = [mode EXCEPT ![itf["m_pControl"]] = m]
  <2>. DEFINE h == itf["m_pControl"]
  <2>1. h \in Graphs
    BY <1>2, ComAssumption DEF TypeOK, PlayerTypeOK, Interfaces, Graphs, Null
  <2>2. Cardinality(PointersTo(itf, h)) > 0 /\ Cardinality(PointersTo(itf, h)) \in Nat
    BY PointerCounts, PointersFinite DEF Interfaces
  <2>3. refs[h] > 0
    BY <2>1, <2>2, PointersHoldReferencesDef DEF TypeOK, GraphTypeOK
  <2>4. mode'[h] = m /\ \A g \in Graphs \ {h} : mode'[g] = mode[g]
    BY <1>2, <2>1 DEF TypeOK, GraphTypeOK
  <2>5. UNCHANGED <<itf, refs>>
    BY DEF Control
  <2>. HIDE DEF h
  <2>. QED
    BY <2>1, <2>3, <2>4, <2>5 DEF PointersHoldReferences, Live
<1>. QED
  BY <1>1, <1>2 DEF Control

\* No pointer of the player dangles, through any sequence of initialisations,
\* failures and Close: the counts never fall below the pointers they stand for.
THEOREM NoDanglingPointer == Spec => []PointersHoldReferences
<1>1. Init => PointersHoldReferences
  <2>. SUFFICES ASSUME Init, NEW g \in Graphs
                PROVE  /\ Cardinality(PointersTo(itf, g)) <= refs[g]
                       /\ refs[g] > 0 <=> Live(g)
    BY DEF PointersHoldReferences, PointersTo
  <2>1. PointersTo(itf, g) = {}
    BY DEF Init, Construct, PointersTo, Graphs, Null
  <2>2. Cardinality(PointersTo(itf, g)) = 0
    BY <2>1, FS_EmptySet
  <2>. QED
    BY <2>2 DEF Init, NoGraphs, Live
<1>2. TypeOK /\ SessionInv /\ PointersHoldReferences /\ [Next]_vars
        => PointersHoldReferences'
  <2>. SUFFICES ASSUME TypeOK, SessionInv, PointersHoldReferences, [Next]_vars
                PROVE  PointersHoldReferences'
    OBVIOUS
  <2>. USE DEF player, session, graphVars
  <2>1. CASE InitializeStep
    <3>1. CASE TearDownOld \/ SetNotifyWindow \/ GetCapabilities
               \/ \E k \in Renderers : CreateVideoRenderer(k)
      BY <3>1, CountsKept DEF TearDownOld, SetNotifyWindow, GetCapabilities,
                              CreateVideoRenderer
    <3>. QED
      BY <2>1, <3>1, CoCreateInstanceCounts, QueryInterfaceCounts DEF InitializeStep
  <2>2. CASE PlayerStep \/ RTSPStep \/ CloseStep
    BY <2>2, CountsKept
       DEF PlayerStep, AddSourceFilter, RenderStreams, AddDecoder, RenderPins,
           FinalizeStreams, RTSPStep, QueryFilterGraph2, AddFilterByCLSID, Load,
           SkipDecoder, SetSinkFileName, GetPins, ConnectPins, RenderDecoder,
           CloseStep, RemoveFilters, CloseRenderer, CoUninitialize,
           DeleteAfterUnload
  <2>3. CASE Return
    BY <2>3, CountsKept DEF Return
  <2>4. CASE Delete
    BY <2>4, DeleteCounts
  <2>5. CASE Client
    <3>1. CASE DSShow_Control
      BY <3>1, ControlCounts DEF DSShow_Control, Play, Pause, Stop
    <3>. QED
      BY <2>5, <3>1, CountsKept
         DEF Client, InitializePlayer, InitilizeRSTPSource, Initialize,
             SelectDecoder, DSShow_SetWindowHandle, SetWindowHandle, SetFileName,
             DSShow_ApplyOverlay, DSShow_Close
  <2>6. CASE Environment
    <3>1. PICK h \in Graphs : Abort(h)
      BY <2>6 DEF Environment
    <3>2. mode'[h] = "stopped" /\ \A g \in Graphs \ {h} : mode'[g] = mode[g]
      BY <3>1 DEF Abort, TypeOK, GraphTypeOK
    <3>3. UNCHANGED <<itf, refs>> /\ Live(h)
      BY <2>6, <3>1 DEF Environment, Abort, Live
    <3>. QED
      BY <3>2, <3>3 DEF PointersHoldReferences, Live
  <2>7. CASE UNCHANGED vars
    BY <2>7, CountsKept DEF vars
  <2>. QED
    BY <2>1, <2>2, <2>3, <2>4, <2>5, <2>6, <2>7 DEF Next, Step
<1>. QED
  BY <1>1, <1>2, TypeCorrect, SessionInvariant, PTL DEF Spec

-----------------------------------------------------------------------------
\* Where a picture comes from and where it is kept.

\* The stages at which a call makes its graph.
Making == Labels \ {"idle", "TearDownGraph", "S_OK", "failed", "Close",
                    "CloseRenderer", "CoUninitialize", "delete"}

\* At each of them the call is "building" for MediaPlayer.
LEMMA MakingStage ==
  /\ \A l \in Making : pc = l => Stage = "building"
  /\ \A l \in Making : pc' = l => Stage' = "building"
BY DEF Stage, Making

\* Every place such a call goes on to, except its end.
LEMMA MakingClosed ==
  /\ \A ok : AfterInitializeGraph(ok) \in Making \cup {"failed"}
  /\ AfterDecoder \in Making
  /\ \A k \in Renderers : \A ok : AfterRenderer(k, ok) \in Making \cup {"failed"}
  /\ \A i \in Interfaces \ {"m_pGraph"} : NextInterface[i] \in Making
  /\ \A f \in Roles : OnAdded(f) \in Making /\ OnMissing(f) \in Making \cup {"failed"}
<1>. USE DEF Making, Labels
<1>1. \A ok : AfterInitializeGraph(ok) \in Making \cup {"failed"}
  BY DEF AfterInitializeGraph
<1>2. AfterDecoder \in Making
  BY DEF AfterDecoder, Roles
<1>3. ASSUME NEW k \in Renderers, NEW ok
      PROVE  AfterRenderer(k, ok) \in Making \cup {"failed"}
  <2>1. NextRenderer[k] \in Making \cup {"failed"}
    <3>1. CASE k = "EVR"  BY <3>1 DEF NextRenderer, Renderers
    <3>2. CASE k = "VMR9" BY <3>2 DEF NextRenderer, Renderers
    <3>3. CASE k = "VMR7" BY <3>3 DEF NextRenderer
    <3>. QED BY <3>1, <3>2, <3>3 DEF Renderers
  <2>. QED BY <2>1 DEF AfterRenderer, Roles
<1>4. ASSUME NEW i \in Interfaces \ {"m_pGraph"} PROVE NextInterface[i] \in Making
  <2>1. CASE i = "m_pControl" BY <2>1 DEF NextInterface, Interfaces
  <2>2. CASE i = "m_pEvent"   BY <2>2 DEF NextInterface, Interfaces
  <2>3. CASE i = "m_pSeek"    BY <2>3 DEF NextInterface
  <2>. QED BY <2>1, <2>2, <2>3 DEF Interfaces
<1>5. ASSUME NEW f \in Roles
      PROVE  OnAdded(f) \in Making /\ OnMissing(f) \in Making \cup {"failed"}
  <2>1. CASE f = "pLeadToolsRTSPSource" BY <2>1 DEF OnAdded, OnMissing
  <2>2. CASE f = "pAudioRenderer" BY <1>2, <2>2 DEF OnAdded, OnMissing, Roles
  <2>3. CASE f = "pVideoDecoder" BY <1>2, <2>3 DEF OnAdded, OnMissing
  <2>4. CASE f = "pInfTeeFilter" BY <2>4 DEF OnAdded, OnMissing, Roles
  <2>5. CASE f = "pSinkFilter" BY <2>5 DEF OnAdded, OnMissing
  <2>. QED BY <2>1, <2>2, <2>3, <2>4, <2>5 DEF Roles
<1>. QED BY <1>1, <1>2, <1>3, <1>4, <1>5

\* A picture is a Boolean, and depends on nothing but the graph.
LEMMA PictureType == Picture \in BOOLEAN /\ Picture' \in BOOLEAN
BY DEF Picture

\* Who leaves the graph alone leaves the picture as it is.
LEMMA PictureKept == UNCHANGED <<itf, connected>> => Picture' = Picture
BY DEF Picture, graph

\* Steps that make the graph and leave the state: all but GetCapabilities.
LEMMA MakingSteps ==
  ASSUME TypeOK, InitializeStep \/ PlayerStep \/ RTSPStep, ~TearDownOld, ~GetCapabilities
  PROVE  m_state' = m_state /\ pc \in Making /\ pc' \in Making \cup {"failed"}
<1>. USE DEF player, session, Goto, Crash
<1>0. {"CoCreateInstance", "m_pControl", "SetNotifyWindow", "GetCapabilities", "AddSourceFilter",
       "RenderStreams", "AddDecoder", "RenderPins", "FinalizeGraph", "IFilterGraph2",
       "Load", "SetFileName", "GetPin", "Connect", "RenderEx", "EVR", "VMR9"} \subseteq Making
      /\ Interfaces \ {"m_pGraph"} \subseteq Making /\ Renderers \subseteq Making
      /\ Roles \subseteq Making /\ "pVideoDecoder" \in Roles /\ "pAudioRenderer" \in Roles
  BY DEF Making, Labels, Interfaces, Renderers, Roles
<1>1. CASE CoCreateInstance
  BY <1>0, <1>1, MakingClosed DEF CoCreateInstance
<1>2. CASE SetNotifyWindow
  BY <1>0, <1>2, MakingClosed DEF SetNotifyWindow
<1>3. ASSUME NEW i \in Interfaces \ {"m_pGraph"}, QueryInterface(i)
      PROVE  m_state' = m_state /\ pc \in Making /\ pc' \in Making \cup {"failed"}
  <2>1. pc' \in {NextInterface[i], AfterInitializeGraph(FALSE)}
    BY <1>3 DEF QueryInterface
  <2>. QED
    BY <1>0, <1>3, <2>1, MakingClosed DEF QueryInterface
<1>4. ASSUME NEW k \in Renderers, CreateVideoRenderer(k)
      PROVE  m_state' = m_state /\ pc \in Making /\ pc' \in Making \cup {"failed"}
  BY <1>0, <1>4, MakingClosed DEF CreateVideoRenderer
<1>5. CASE PlayerStep
  BY <1>0, <1>5 DEF PlayerStep, AddSourceFilter, RenderStreams, AddDecoder, RenderPins,
                    FinalizeStreams
<1>6. ASSUME NEW f \in Roles, AddFilterByCLSID(f)
      PROVE  m_state' = m_state /\ pc \in Making /\ pc' \in Making \cup {"failed"}
  <2>1. pc' \in {OnAdded(f), OnMissing(f)}
    BY <1>6 DEF AddFilterByCLSID
  <2>. QED
    BY <1>0, <1>6, <2>1, MakingClosed DEF AddFilterByCLSID
<1>7. CASE QueryFilterGraph2 \/ Load \/ SkipDecoder \/ SetSinkFileName \/ GetPins
           \/ ConnectPins \/ RenderDecoder
  BY <1>0, <1>7, MakingClosed
     DEF QueryFilterGraph2, Load, SkipDecoder, SetSinkFileName, GetPins, ConnectPins,
         RenderDecoder
<1>. QED
  BY <1>1, <1>2, <1>3, <1>4, <1>5, <1>6, <1>7 DEF InitializeStep, RTSPStep

\* FinalizeGraph takes no picture away: it finds the pin that has it.
LEMMA FinalizeGraphKeepsPicture ==
  ASSUME "FindConnectedPin" \notin MayFail, TypeOK, RendererOfThisGraph, graph \in Graphs,
         NEW r, FinalizeGraph(graph, r), connected[graph] # {}
  PROVE  connected'[graph] # {}
<1>1. CASE UNCHANGED connected
  BY <1>1
<1>2. CASE m_pVideo.ctl /\ \E removed \in BOOLEAN :
             RemoveUnconnectedRenderer(graph, removed, r)
  <2>1. PICK removed \in BOOLEAN : RemoveUnconnectedRenderer(graph, removed, r)
    BY <1>2
  <2>2. PICK found \in FindConnectedPin(m_pVideo.kind, m_pVideo.graph) :
          \/ UNCHANGED connected
          \/ /\ ~found /\ m_pVideo.graph = graph
             /\ connected' = [connected EXCEPT ![graph] = @ \ {m_pVideo.kind}]
    BY <2>1 DEF RemoveUnconnectedRenderer
  <2>3. CASE /\ ~found /\ m_pVideo.graph = graph
             /\ connected' = [connected EXCEPT ![graph] = @ \ {m_pVideo.kind}]
    <3>1. m_pVideo.kind \notin connected[graph]
      BY <2>2, <2>3 DEF FindConnectedPin, Outcome
    <3>2. connected'[graph] = connected[graph] \ {m_pVideo.kind}
      BY <2>3 DEF TypeOK, GraphTypeOK
    <3>. QED
      BY <3>1, <3>2
  <2>. QED
    BY <2>2, <2>3
<1>. QED
  BY <1>1, <1>2 DEF FinalizeGraph

\* The picture of an opened player, by the steps that could take it away or
\* that say there is one.
LEMMA PictureStep ==
  ASSUME "FindConnectedPin" \notin MayFail, TypeOK, SessionInv, PictureInv, [Next]_vars
  PROVE  PictureInv'
<1>. USE DEF graphVars, player, session, Goto, Crash
<1>0. {"FinalizeGraph", "RenderEx", "RenderPins"} \subseteq Building
  BY DEF Building, Labels
<1>1. ASSUME pc' = pc, UNCHANGED <<itf, connected, call, m_state>> PROVE PictureInv'
  BY <1>1 DEF PictureInv, graph
<1>2. ASSUME pc' \notin {"GetCapabilities", "FinalizeGraph", "delete"} PROVE PictureInv'
  BY <1>2 DEF PictureInv
<1>3. CASE InitializeStep \/ PlayerStep \/ RTSPStep
  <2>1. CASE TearDownOld \/ GetCapabilities
    BY <1>1, <1>2, <2>1 DEF TearDownOld, GetCapabilities
  <2>2. CASE FinalizeStreams
    <3>1. pc = "FinalizeGraph" /\ UNCHANGED <<itf, call>>
      BY <2>2 DEF FinalizeStreams
    <3>2. graph \in Graphs
      BY <1>0, <3>1, GraphType, ComAssumption DEF SessionInv, TypeOK, Graphs, Null
    <3>3. PICK r \in {"ok", "failed", "fault"} :
            /\ FinalizeGraph(graph, r)
            /\ IF r = "fault" THEN Crash("m_pGraph")
               ELSE Goto(IF r = "ok" /\ call.bRenderedAnyPin
                           THEN "GetCapabilities" ELSE "failed")
      BY <2>2 DEF FinalizeStreams
    <3>4. connected[graph] # {} => connected'[graph] # {}
      BY <3>2, <3>3, FinalizeGraphKeepsPicture DEF SessionInv
    <3>5. pc' # "failed" => call.bRenderedAnyPin \/ pc' = pc
      BY <3>3
    <3>6. pc' \in {"failed", "GetCapabilities", pc}
      BY <3>3
    <3>. QED
      BY <3>1, <3>4, <3>5, <3>6 DEF PictureInv, graph
  <2>3. CASE RenderPins
    <3>1. pc = "RenderPins" /\ UNCHANGED <<itf, m_state>>
      BY <2>3 DEF RenderPins
    <3>2. graph \in Graphs
      BY <1>0, <3>1, GraphType, ComAssumption DEF SessionInv, TypeOK, Graphs, Null
    <3>3. CASE pc' = "failed"
      BY <1>2, <3>3
    <3>4. ASSUME NEW S \in SUBSET (renderers[graph] \ connected[graph]),
                 connected' = [connected EXCEPT ![graph] = @ \cup S],
                 call' = [call EXCEPT !.bRenderedAnyPin = (S # {})], pc' = "FinalizeGraph"
          PROVE  PictureInv'
      <4>1. connected'[graph] = connected[graph] \cup S
        BY <3>2, <3>4 DEF TypeOK, GraphTypeOK
      <4>2. call'.bRenderedAnyPin = (S # {})
        BY <3>4, Zenon DEF TypeOK, Locals
      <4>3. S # {} => connected'[graph] # {}
        BY <4>1
      <4>. QED
        BY <3>1, <3>4, <4>2, <4>3 DEF PictureInv, graph
    <3>. QED
      BY <2>3, <3>3, <3>4 DEF RenderPins
  <2>4. CASE RenderDecoder
    <3>1. pc = "RenderEx" /\ UNCHANGED itf
      BY <2>4 DEF RenderDecoder
    <3>2. graph \in Graphs
      BY <1>0, <3>1, GraphType, ComAssumption DEF SessionInv, TypeOK, Graphs, Null
    <3>3. CASE pc' \in {"failed", pc}
      BY <1>2, <3>1, <3>3
    <3>4. ASSUME NEW k \in renderers[graph],
                 connected' = [connected EXCEPT ![graph] = @ \cup {k}], pc' = "GetCapabilities"
          PROVE  PictureInv'
      <4>1. connected'[graph] = connected[graph] \cup {k}
        BY <3>2, <3>4 DEF TypeOK, GraphTypeOK
      <4>. QED
        BY <3>1, <3>4, <4>1 DEF PictureInv, graph
    <3>. QED
      BY <2>4, <3>3, <3>4 DEF RenderDecoder
  <2>5. CASE ~(TearDownOld \/ GetCapabilities \/ FinalizeStreams \/ RenderPins \/ RenderDecoder)
    <3>1. pc' \notin {"GetCapabilities", "FinalizeGraph", "delete"}
      <4>1. ASSUME NEW i \in Interfaces \ {"m_pGraph"}, QueryInterface(i)
            PROVE  pc' \notin {"GetCapabilities", "FinalizeGraph", "delete"}
        <5>1. pc' \in {NextInterface[i], AfterInitializeGraph(FALSE)}
          BY <4>1 DEF QueryInterface
        <5>2. NextInterface[i] \in {"m_pEvent", "m_pSeek", "SetNotifyWindow"}
          <6>1. CASE i = "m_pControl" BY <6>1 DEF NextInterface
          <6>2. CASE i = "m_pEvent"   BY <6>2 DEF NextInterface
          <6>3. CASE i = "m_pSeek"    BY <6>3 DEF NextInterface
          <6>. QED BY <6>1, <6>2, <6>3 DEF Interfaces
        <5>. QED
          BY <5>1, <5>2 DEF AfterInitializeGraph
      <4>2. ASSUME NEW k \in Renderers, CreateVideoRenderer(k)
            PROVE  pc' \notin {"GetCapabilities", "FinalizeGraph", "delete"}
        <5>1. pc = k /\ (pc' = pc \/ \E ok : pc' = AfterRenderer(k, ok))
          BY <4>2 DEF CreateVideoRenderer
        <5>2. NextRenderer[k] \in {"VMR9", "VMR7", "failed"}
          <6>1. CASE k = "EVR"  BY <6>1 DEF NextRenderer
          <6>2. CASE k = "VMR9" BY <6>2 DEF NextRenderer
          <6>3. CASE k = "VMR7" BY <6>3 DEF NextRenderer
          <6>. QED BY <6>1, <6>2, <6>3 DEF Renderers
        <5>. QED
          BY <5>1, <5>2 DEF AfterRenderer, Renderers
      <4>3. ASSUME NEW f \in Roles, AddFilterByCLSID(f)
            PROVE  pc' \notin {"GetCapabilities", "FinalizeGraph", "delete"}
        <5>1. pc' \in {OnAdded(f), OnMissing(f)}
          BY <4>3 DEF AddFilterByCLSID
        <5>2. AfterDecoder \in {"pInfTeeFilter", "GetPin"}
          BY DEF AfterDecoder
        <5>3. OnAdded(f) \in {"Load", "pVideoDecoder", "pInfTeeFilter", "GetPin", "pSinkFilter",
                              "SetFileName"}
          <6>1. CASE f = "pLeadToolsRTSPSource" BY <6>1 DEF OnAdded
          <6>2. CASE f = "pAudioRenderer" BY <6>2 DEF OnAdded
          <6>3. CASE f = "pVideoDecoder" BY <5>2, <6>3 DEF OnAdded
          <6>4. CASE f = "pInfTeeFilter" BY <6>4 DEF OnAdded
          <6>5. CASE f = "pSinkFilter" BY <6>5 DEF OnAdded
          <6>. QED BY <6>1, <6>2, <6>3, <6>4, <6>5 DEF Roles
        <5>. QED
          BY <5>1, <5>2, <5>3 DEF OnMissing
      <4>4. CASE CoCreateInstance \/ SetNotifyWindow
        BY <4>4 DEF CoCreateInstance, SetNotifyWindow, AfterInitializeGraph
      <4>5. CASE AddSourceFilter \/ RenderStreams \/ AddDecoder
        BY <4>5 DEF AddSourceFilter, RenderStreams, AddDecoder
      <4>6. CASE QueryFilterGraph2 \/ Load \/ SkipDecoder \/ SetSinkFileName \/ GetPins
                 \/ ConnectPins
        BY <4>6 DEF QueryFilterGraph2, Load, SkipDecoder, SetSinkFileName, GetPins,
                    ConnectPins, AfterDecoder
      <4>. QED
        BY <1>3, <2>5, <4>1, <4>2, <4>3, <4>4, <4>5, <4>6
           DEF InitializeStep, PlayerStep, RTSPStep
    <3>. QED
      BY <1>2, <3>1
  <2>. QED
    BY <2>1, <2>2, <2>3, <2>4, <2>5
<1>4. CASE CloseStep
  BY <1>1, <1>2, <1>4 DEF CloseStep, RemoveFilters, CloseRenderer, CoUninitialize, TearDownGraph,
                          DeleteAfterUnload, PictureInv
<1>5. CASE Return \/ Delete
  BY <1>2, <1>5 DEF Return, Delete
<1>6. CASE Client
  <2>1. pc' \in {"idle", "TearDownGraph", "Close"}
    BY <1>6 DEF Client, InitializePlayer, InitilizeRSTPSource, Initialize, SelectDecoder,
         SetFileName, DSShow_Control, Play, Pause, Stop, Control, DSShow_SetWindowHandle,
         SetWindowHandle, DSShow_ApplyOverlay, DSShow_Close, Ready
  <2>. QED
    BY <1>2, <2>1
<1>7. CASE Environment
  BY <1>1, <1>7 DEF Environment, Abort
<1>8. CASE UNCHANGED vars
  BY <1>1, <1>8 DEF vars
<1>. QED
  BY <1>3, <1>4, <1>5, <1>6, <1>7, <1>8 DEF Next, Step

\* The picture invariant holds in every behaviour of the library.
LEMMA PictureInvariant ==
  ASSUME "FindConnectedPin" \notin MayFail
  PROVE  Spec => []PictureInv
<1>1. Init => PictureInv
  BY DEF Init, PictureInv
<1>2. TypeOK /\ SessionInv /\ PictureInv /\ [Next]_vars => PictureInv'
  BY PictureStep
<1>. QED
  BY <1>1, <1>2, TypeCorrect, SessionInvariant, PTL DEF Spec

-----------------------------------------------------------------------------
\* Each step of the library is a step of MediaPlayer, or none.

\* A step of an initialisation is one of MediaPlayer's Build, Opened or Failed.
LEMMA MakingSimulated ==
  ASSUME TypeOK, SessionInv, PictureInv, InitializeStep \/ PlayerStep \/ RTSPStep
  PROVE  Player!Next
<1>1. CASE TearDownOld
  <2>1. Stage = "opening" /\ Stage' = "building"
    BY <1>1 DEF TearDownOld, Goto, Stage
  <2>2. m_state' = "STATE_CLOSED" /\ Picture' = Picture
    BY <1>1, PictureKept DEF TearDownOld, TearDownGraph, graphVars
  <2>. QED
    BY <2>1, <2>2 DEF Player!Next, Player!TearDown
<1>2. CASE GetCapabilities
  <2>1. Stage = "building" /\ Picture' = Picture
    BY <1>2, PictureKept DEF GetCapabilities, Stage, graphVars
  <2>2. CASE pc' = "S_OK" /\ m_state' = "STATE_STOPPED"
    <3>1. Stage' = "returning"
      BY <2>2 DEF Stage
    <3>2. "GetCapabilities" \in Building
      BY DEF Building, Labels
    <3>3. Picture
      BY <1>2, <3>2 DEF GetCapabilities, PictureInv, SessionInv, Picture
    <3>. QED
      BY <2>1, <2>2, <3>1, <3>3 DEF Player!Next, Player!Opened
  <2>3. CASE pc' = "failed" /\ m_state' = m_state
    <3>1. Stage' = "returning"
      BY <2>3 DEF Stage
    <3>. QED
      BY <2>1, <2>3, <3>1, PictureType DEF Player!Next, Player!Failed
  <2>4. CASE pc' = pc /\ m_state' = m_state
    <3>1. Stage' = "building"
      BY <1>2, <2>4 DEF Stage, GetCapabilities
    <3>. QED
      BY <2>1, <2>4, <3>1, PictureType DEF Player!Next, Player!Build
  <2>. QED
    BY <1>2, <2>2, <2>3, <2>4 DEF GetCapabilities, Goto, Crash, session
<1>3. CASE ~TearDownOld /\ ~GetCapabilities
  <2>1. m_state' = m_state /\ pc \in Making /\ pc' \in Making \cup {"failed"}
    BY <1>3, MakingSteps
  <2>2. Stage = "building"
    BY <2>1, MakingStage
  <2>3. CASE pc' \in Making
    BY <2>1, <2>2, <2>3, MakingStage, PictureType DEF Player!Next, Player!Build
  <2>4. CASE pc' = "failed"
    <3>1. Stage' = "returning"
      BY <2>4 DEF Stage
    <3>. QED
      BY <2>1, <2>2, <3>1, PictureType DEF Player!Next, Player!Failed
  <2>. QED
    BY <2>1, <2>3, <2>4
<1>. QED
  BY <1>1, <1>2, <1>3

\* A step of Close is MediaPlayer's Disconnect or Close, or none.
LEMMA CloseSimulated ==
  ASSUME CloseStep
  PROVE  [Player!Next]_<<m_state, Stage, Picture>>
<1>1. CASE RemoveFilters \/ CloseRenderer
  <2>1. pc \in {"Close", "CloseRenderer"} /\ pc' \in {pc, "CloseRenderer", "CoUninitialize"}
        /\ m_state' = m_state
    BY <1>1 DEF RemoveFilters, CloseRenderer, Goto, Crash, player, session
  <2>2. Stage = "closing" /\ Stage' = "closing"
    BY <2>1 DEF Stage
  <2>. QED
    BY <2>1, <2>2, PictureType DEF Player!Next, Player!Disconnect
<1>2. CASE CoUninitialize
  <2>1. Stage = "closing" /\ Stage' = "deleting"
    BY <1>2 DEF CoUninitialize, Goto, Stage
  <2>2. m_state' = "STATE_CLOSED" /\ Picture' = Picture
    BY <1>2, PictureKept DEF CoUninitialize, TearDownGraph, graphVars
  <2>. QED
    BY <2>1, <2>2 DEF Player!Next, Player!Close
<1>3. CASE DeleteAfterUnload
  <2>1. pc' = pc /\ m_state' = m_state /\ Picture' = Picture
    BY <1>3, PictureKept DEF DeleteAfterUnload, Crash, graphVars, player, session
  <2>. QED
    BY <2>1 DEF Stage
<1>. QED
  BY <1>1, <1>2, <1>3 DEF CloseStep

\* A return is MediaPlayer's Return, and the deletion its Delete.
LEMMA ReturnSimulated ==
  ASSUME PictureInv, Return \/ Delete
  PROVE  Player!Next
<1>1. CASE Return
  <2>1. Stage = "returning" /\ Stage' = "idle" /\ m_state' = m_state /\ Picture' = Picture
    BY <1>1, PictureKept DEF Return, Goto, Stage, graphVars, player, session
  <2>. QED
    BY <2>1 DEF Player!Next, Player!Return
<1>2. CASE Delete
  <2>1. Stage = "deleting" /\ Stage' = "idle"
    BY <1>2 DEF Delete, Goto, Stage
  <2>2. m_state' = m_state
    BY <1>2 DEF Delete, DeletePlayer, TearDownGraph, PictureInv
  <2>3. Picture' = FALSE
    BY <1>2 DEF Delete, DeletePlayer, Picture, graph, Interfaces
  <2>. QED
    BY <2>1, <2>2, <2>3 DEF Player!Next, Player!Delete
<1>. QED
  BY <1>1, <1>2

\* What a caller starts is a call, a change of the state, or nothing the
\* state machine has.
LEMMA ClientSimulated ==
  ASSUME Client
  PROVE  [Player!Next]_<<m_state, Stage, Picture>>
<1>. USE DEF graphVars, player, session, Goto, Crash
<1>1. ASSUME pc' = pc, m_state' = m_state, UNCHANGED <<itf, connected>>
      PROVE  UNCHANGED <<m_state, Stage, Picture>>
  BY <1>1, PictureKept DEF Stage
<1>2. ASSUME pc = "idle", pc' \in {"TearDownGraph", "Close"}, m_state' = m_state,
             UNCHANGED <<itf, connected>>
      PROVE  Player!Next
  <2>1. Stage = "idle" /\ Stage' \in {"opening", "closing"} /\ Picture' = Picture
    BY <1>2, PictureKept DEF Stage
  <2>. QED
    BY <1>2, <2>1 DEF Player!Next, Player!Begin
<1>3. ASSUME NEW op, NEW w, NEW audio, NEW save, Initialize(op, w, audio, save)
      PROVE  Player!Next
  BY <1>2, <1>3 DEF Initialize, Ready
<1>4. CASE DSShow_Close
  BY <1>2, <1>4 DEF DSShow_Close, Ready
<1>5. ASSUME NEW d, SelectDecoder(d) PROVE UNCHANGED <<m_state, Stage, Picture>>
  BY <1>1, <1>5 DEF SelectDecoder
<1>6. CASE SetFileName \/ DSShow_ApplyOverlay
  BY <1>1, <1>6 DEF SetFileName, DSShow_ApplyOverlay
<1>7. ASSUME NEW w, DSShow_SetWindowHandle(w) PROVE UNCHANGED <<m_state, Stage, Picture>>
  BY <1>1, <1>7 DEF DSShow_SetWindowHandle, SetWindowHandle, Ready
<1>8. CASE DSShow_Control
  <2>1. pc = "idle" /\ pc' = "idle" /\ UNCHANGED <<itf, connected>>
    BY <1>8 DEF DSShow_Control, Play, Pause, Stop, Control, Ready
  <2>2. Stage = "idle" /\ Stage' = "idle" /\ Picture' = Picture
    BY <2>1, PictureKept DEF Stage
  <2>3. CASE m_state' = m_state
    BY <2>2, <2>3
  <2>4. CASE m_state' # m_state
    <3>1. \/ Play /\ m_state \in {"STATE_PAUSED", "STATE_STOPPED"} /\ m_state' = "STATE_RUNNING"
          \/ Pause /\ m_state \in {"STATE_RUNNING"} /\ m_state' = "STATE_PAUSED"
          \/ Stop /\ m_state \in {"STATE_RUNNING", "STATE_PAUSED"} /\ m_state' = "STATE_STOPPED"
      BY <1>8, <2>4 DEF DSShow_Control, Play, Pause, Stop, Control
    <3>. QED
      BY <2>2, <3>1 DEF Player!Next, Player!Play, Player!Pause, Player!Stop, Player!Control
  <2>. QED
    BY <2>3, <2>4
<1>. QED
  BY <1>3, <1>4, <1>5, <1>6, <1>7, <1>8 DEF Client, InitializePlayer, InitilizeRSTPSource

\* The library implements MediaPlayer: however sessions fail and follow one
\* another, the state moves only as Play, Pause and Stop move it, or to closed
\* at the start of a call that opens a source, and is left again only with a
\* picture in a renderer.
THEOREM PlayerImplemented ==
  ASSUME "FindConnectedPin" \notin MayFail
  PROVE  Spec => ImplementsMediaPlayer
<1>1. Init => Player!Init
  <2>. SUFFICES ASSUME Init PROVE Player!Init
    OBVIOUS
  <2>1. m_state = "STATE_CLOSED" /\ graph = Null /\ pc = "idle"
    BY DEF Init, Construct, graph, Interfaces
  <2>. QED
    BY <2>1 DEF Player!Init, Stage, Picture
<1>2. TypeOK /\ SessionInv /\ PictureInv /\ [Next]_vars => [Player!Next]_(Player!vars)
  <2>. SUFFICES ASSUME TypeOK, SessionInv, PictureInv, [Next]_vars
               PROVE  [Player!Next]_<<m_state, Stage, Picture>>
    BY DEF Player!vars
  <2>1. CASE Step
    BY <2>1, MakingSimulated, CloseSimulated, ReturnSimulated DEF Step
  <2>2. CASE Client
    BY <2>2, ClientSimulated
  <2>3. CASE Environment \/ UNCHANGED vars
    <3>1. UNCHANGED <<m_state, pc, itf, connected>>
      BY <2>3 DEF Environment, Abort, vars, graphVars, player, session
    <3>. QED
      BY <3>1, PictureKept DEF Stage
  <2>. QED
    BY <2>1, <2>2, <2>3 DEF Next
<1>. QED
  BY <1>1, <1>2, TypeCorrect, SessionInvariant, PictureInvariant, PTL
     DEF Spec, ImplementsMediaPlayer, Player!Safety

-----------------------------------------------------------------------------
(***************************************************************************)
(* The safety of the sessions beyond the graph they show: the renderer     *)
(* object and what belongs to it (its window, its picture mixer, its       *)
(* control interface), the state of the graph, and the pointers that       *)
(* DShowPlayer.cpp and DSC2CSLib.cpp follow without a test.                *)
(*                                                                         *)
(* The first part says how steps change variables and where calls go on;   *)
(* each later part has an inductive invariant and what follows from it.    *)
(* SessionInv and PictureInv from above are assumed throughout.            *)
(***************************************************************************)
\* Which steps change which variable.
LEMMA Changes ==
  ASSUME [Next]_vars
  PROVE  /\ \/ UNCHANGED m_pVideo
            \/ TearDownOld \/ (\E k \in Renderers : CreateVideoRenderer(k))
            \/ FinalizeStreams \/ CloseRenderer \/ CoUninitialize \/ Delete
            \/ \E w \in Windows : DSShow_SetWindowHandle(w)
         /\ \/ UNCHANGED itf
            \/ CoCreateInstance \/ Delete
            \/ \E i \in Interfaces \ {"m_pGraph"} : QueryInterface(i)
         /\ \/ UNCHANGED m_state
            \/ TearDownOld \/ GetCapabilities \/ CoUninitialize \/ Delete \/ DSShow_Control
         /\ \/ UNCHANGED pBmp
            \/ (\E k \in Renderers : CreateVideoRenderer(k)) \/ CoUninitialize
         /\ \/ UNCHANGED renderers
            \/ (\E k \in Renderers : CreateVideoRenderer(k))
            \/ FinalizeStreams \/ CloseRenderer
         /\ \/ UNCHANGED connected
            \/ RenderPins \/ RenderDecoder \/ FinalizeStreams \/ RemoveFilters \/ CloseRenderer
         /\ \/ UNCHANGED mode
            \/ CoCreateInstance \/ Delete \/ DSShow_Control \/ Environment
         /\ \/ UNCHANGED filter
            \/ (\E f \in Roles : AddFilterByCLSID(f)) \/ Delete
         /\ \/ UNCHANGED call
            \/ Client \/ QueryFilterGraph2 \/ RenderPins \/ Return
         /\ \/ UNCHANGED m_hwndVideo
            \/ Client /\ pc' = "TearDownGraph"
            \/ Delete
            \/ \E w \in Windows : DSShow_SetWindowHandle(w)
         /\ UNCHANGED m_selectedDecoder \/ Client \/ Delete
         /\ UNCHANGED comInits \/ CoUninitialize
<1>. USE DEF player, session, graphVars
<1>1. CASE InitializeStep
  BY <1>1 DEF InitializeStep, TearDownOld, CoCreateInstance, NewGraph, SetNotifyWindow,
              QueryInterface, CreateVideoRenderer, GetCapabilities
<1>2. CASE PlayerStep
  BY <1>2 DEF PlayerStep, AddSourceFilter, RenderStreams, AddDecoder, RenderPins,
              FinalizeStreams
<1>3. CASE RTSPStep
  BY <1>3 DEF RTSPStep, QueryFilterGraph2, Load, SkipDecoder, SetSinkFileName,
              AddFilterByCLSID, GetPins, ConnectPins, RenderDecoder
<1>4. CASE CloseStep
  BY <1>4 DEF CloseStep, RemoveFilters, CloseRenderer, CoUninitialize, DeleteAfterUnload
<1>5. CASE Delete
  BY <1>5 DEF Delete, DeletePlayer, ReleaseInterfaces, Release
<1>6. CASE Client
  BY <1>6 DEF Client, InitializePlayer, InitilizeRSTPSource, Initialize, SelectDecoder,
              SetFileName, DSShow_Control, Play, Pause, Stop, Control,
              DSShow_SetWindowHandle, SetWindowHandle, DSShow_ApplyOverlay, DSShow_Close, Goto
<1>7. CASE Return \/ Environment \/ UNCHANGED vars
  BY <1>7 DEF Return, Environment, Abort, vars
<1>. QED
  BY <1>1, <1>2, <1>3, <1>4, <1>5, <1>6, <1>7 DEF Next, Step

\* Callers call one at a time; only those that open a source change the locals.
LEMMA ClientIdle ==
  ASSUME Client
  PROVE  /\ pc = "idle" /\ fault = "none"
         /\ \/ UNCHANGED call
            \/ \E w \in Windows : InitializePlayer(w)
            \/ \E w \in Windows, audio, save \in BOOLEAN : InitilizeRSTPSource(w, audio, save)
BY DEF Client, InitializePlayer, InitilizeRSTPSource, Initialize, SelectDecoder, SetFileName,
       DSShow_Control, Play, Pause, Stop, Control, DSShow_SetWindowHandle, SetWindowHandle,
       DSShow_ApplyOverlay, DSShow_Close, Ready

\* Where the steps with a parameter go on.
LEMMA Destinations ==
  /\ \A ok : /\ AfterInitializeGraph(ok) \in {"IFilterGraph2", "AddSourceFilter", "failed"}
             /\ AfterInitializeGraph(ok) = "IFilterGraph2" <=> InRTSP
  /\ AfterInitializeGraph(FALSE) = IF InRTSP THEN "IFilterGraph2" ELSE "failed"
  /\ NextInterface["m_pControl"] = "m_pEvent"
  /\ NextInterface["m_pEvent"] = "m_pSeek"
  /\ NextInterface["m_pSeek"] = "SetNotifyWindow"
  /\ NextRenderer["EVR"] = "VMR9" /\ NextRenderer["VMR9"] = "VMR7"
  /\ NextRenderer["VMR7"] = "failed"
  /\ OnAdded("pLeadToolsRTSPSource") = "Load"
  /\ OnAdded("pAudioRenderer") = "pVideoDecoder"
  /\ OnAdded("pVideoDecoder") = AfterDecoder
  /\ OnAdded("pInfTeeFilter") = "pSinkFilter"
  /\ OnAdded("pSinkFilter") = "SetFileName"
  /\ \A f \in Roles : OnMissing(f) = IF f = "pAudioRenderer" THEN AfterDecoder ELSE "failed"
  /\ AfterDecoder \in {"pInfTeeFilter", "GetPin"}
BY DEF AfterInitializeGraph, NextInterface, NextRenderer, OnAdded, OnMissing, AfterDecoder, Roles

\* A query of an interface goes on to the next one with the pointer, or gives up without.
LEMMA QueryInterfaceGoes ==
  ASSUME NEW i \in Interfaces \ {"m_pGraph"}, QueryInterface(i)
  PROVE  /\ pc = i
         /\ \/ /\ <<pc, pc'>> \in {<<"m_pControl", "m_pEvent">>, <<"m_pEvent", "m_pSeek">>,
                                   <<"m_pSeek", "SetNotifyWindow">>}
               /\ itf' = [itf EXCEPT ![i] = graph]
            \/ /\ pc' = (IF InRTSP THEN "IFilterGraph2" ELSE "failed")
               /\ "QueryInterface" \in MayFail
               /\ itf' = [itf EXCEPT ![i] = Null]
<1>1. i \in {"m_pControl", "m_pEvent", "m_pSeek"}
  BY DEF Interfaces
<1>. QED
  BY <1>1, Destinations DEF QueryInterface, Goto

\* A renderer is there, and the call goes on with it, or with the next one.
LEMMA CreateVideoRendererGoes ==
  ASSUME NEW k \in Renderers, CreateVideoRenderer(k)
  PROVE  /\ pc = k
         /\ \/ /\ AddToGraph(k, graph, "ok")
               /\ m_pVideo' = Renderer(k, graph, m_hwndVideo)
               /\ pc' = IF InRTSP THEN "pLeadToolsRTSPSource" ELSE "AddDecoder"
               /\ fault' = fault
            \/ /\ AddToGraph(k, graph, "failed")
               /\ m_pVideo' = NoVideo
               /\ \/ InRTSP /\ pc' = "failed"
                  \/ ~InRTSP /\ <<pc, pc'>> \in {<<"EVR", "VMR9">>, <<"VMR9", "VMR7">>,
                                                 <<"VMR7", "failed">>}
               /\ fault' = fault
            \/ /\ AddToGraph(k, graph, "fault")
               /\ m_pVideo' = NoVideo
               /\ pc' = pc
               /\ fault' = "pWC"
<1>1. PICK r \in {"ok", "failed", "fault"} :
        /\ AddToGraph(k, graph, r)
        /\ m_pVideo' = IF r = "ok" THEN Renderer(k, graph, m_hwndVideo) ELSE NoVideo
        /\ IF r = "fault" THEN Crash("pWC") ELSE Goto(AfterRenderer(k, r = "ok"))
  BY DEF CreateVideoRenderer
<1>2. pc = k /\ k \in {"EVR", "VMR9", "VMR7"}
  BY DEF CreateVideoRenderer, Renderers
<1>3. CASE r = "ok"
  BY <1>1, <1>2, <1>3 DEF AfterRenderer, Goto
<1>4. CASE r = "failed"
  BY <1>1, <1>2, <1>4, Destinations DEF AfterRenderer, Goto
<1>5. CASE r = "fault"
  BY <1>1, <1>2, <1>5 DEF Crash
<1>. QED
  BY <1>1, <1>3, <1>4, <1>5

\* A filter of an RTSP session is there, or the call goes on without it.
LEMMA AddFilterGoes ==
  ASSUME NEW f \in Roles, AddFilterByCLSID(f)
  PROVE  /\ pc = f
         /\ \/ /\ filter' = [filter EXCEPT ![f] = graph]
               /\ \/ pc = "pLeadToolsRTSPSource" /\ pc' = "Load"
                  \/ pc = "pAudioRenderer" /\ pc' = "pVideoDecoder"
                  \/ pc = "pInfTeeFilter" /\ pc' = "pSinkFilter"
                  \/ pc = "pSinkFilter" /\ pc' = "SetFileName"
                  \/ pc = "pVideoDecoder" /\ pc' \in {"pInfTeeFilter", "GetPin"}
            \/ /\ filter' = [filter EXCEPT ![f] = Null]
               /\ \/ pc' = "failed"
                  \/ pc = "pAudioRenderer" /\ pc' \in {"pInfTeeFilter", "GetPin"}
<1>1. f \in {"pLeadToolsRTSPSource", "pAudioRenderer", "pVideoDecoder", "pInfTeeFilter",
             "pSinkFilter"}
  BY DEF Roles
<1>2. PICK ok \in BOOLEAN :
        /\ filter' = [filter EXCEPT ![f] = IF ok THEN graph ELSE Null]
        /\ pc' = IF ok THEN OnAdded(f) ELSE OnMissing(f)
  BY OutcomeType DEF AddFilterByCLSID, Goto
<1>3. pc = f
  BY DEF AddFilterByCLSID
<1>4. CASE ok = TRUE
  BY <1>1, <1>2, <1>3, <1>4, Destinations
<1>5. CASE ok = FALSE
  BY <1>1, <1>2, <1>3, <1>5, Destinations
<1>. QED
  BY <1>4, <1>5

\* Where a renderer has been made and may not have been asked for the stream yet.
Rendering == {"AddDecoder", "RenderPins", "FinalizeGraph", "Load", "SetFileName", "GetPin",
              "Connect", "RenderEx"} \cup Roles

\* How the places of a call are reached: by which step, and from which place.
LEMMA Reached ==
  ASSUME [Next]_vars, pc' # pc
  PROVE  /\ pc' \in Making => pc \in Making \/ TearDownOld
         /\ pc' = "CoCreateInstance" => TearDownOld
         /\ pc' = "m_pControl" => CoCreateInstance
         /\ pc' \in {"m_pEvent", "m_pSeek", "SetNotifyWindow"} =>
              \E i \in Interfaces \ {"m_pGraph"} : QueryInterface(i)
         /\ pc' = "IFilterGraph2" =>
              /\ InRTSP
              /\ CoCreateInstance \/ SetNotifyWindow
                   \/ \E i \in Interfaces \ {"m_pGraph"} : QueryInterface(i)
         /\ pc' = "AddSourceFilter" => SetNotifyWindow /\ ~InRTSP
         /\ pc' = "RenderStreams" => AddSourceFilter
         /\ pc' = "EVR" => RenderStreams
         /\ pc' = "VMR9" => CreateVideoRenderer("EVR") \/ QueryFilterGraph2
         /\ pc' = "VMR7" => CreateVideoRenderer("VMR9")
         /\ pc' \in {"AddDecoder", "pLeadToolsRTSPSource"} =>
              \E k \in Renderers : CreateVideoRenderer(k)
         /\ pc' = "RenderPins" => AddDecoder
         /\ pc' = "FinalizeGraph" => RenderPins
         /\ pc' = "pAudioRenderer" => Load /\ call.Audio
         /\ pc' \in {"GetPin", "pInfTeeFilter", "pSinkFilter", "SetFileName"} =>
              SkipDecoder \/ SetSinkFileName \/ \E f \in Roles : AddFilterByCLSID(f)
         /\ pc' = "RenderEx" => ConnectPins
         /\ pc' = "GetCapabilities" => FinalizeStreams \/ RenderDecoder
<1>. USE DEF player, session, graphVars, Goto, Crash
<1>0. Renderers = {"EVR", "VMR9", "VMR7"} /\ Interfaces \ {"m_pGraph"} = {"m_pControl", "m_pEvent", "m_pSeek"}
  BY DEF Renderers, Interfaces
<1>1. ASSUME NEW i \in Interfaces \ {"m_pGraph"}, QueryInterface(i)
      PROVE  /\ pc = i
             /\ pc' \in {"m_pEvent", "m_pSeek", "SetNotifyWindow", "IFilterGraph2", "failed"}
             /\ pc' = "IFilterGraph2" => InRTSP
  BY <1>0, <1>1, QueryInterfaceGoes
<1>2. ASSUME NEW k \in Renderers, CreateVideoRenderer(k)
      PROVE  /\ pc = k
             /\ \/ pc' \in {pc, "failed", "AddDecoder", "pLeadToolsRTSPSource"}
                \/ pc' = "VMR9" /\ k = "EVR"
                \/ pc' = "VMR7" /\ k = "VMR9"
  BY <1>0, <1>2, CreateVideoRendererGoes
<1>3. ASSUME NEW f \in Roles, AddFilterByCLSID(f)
      PROVE  pc = f /\ pc' \in {"Load", "pVideoDecoder", "pInfTeeFilter", "GetPin",
                                "pSinkFilter", "SetFileName", "failed"}
  BY <1>3, AddFilterGoes
<1>4. CASE InitializeStep
  <2>1. CASE TearDownOld \/ SetNotifyWindow \/ CoCreateInstance \/ GetCapabilities
    BY <2>1, Destinations DEF TearDownOld, SetNotifyWindow, CoCreateInstance, GetCapabilities, Making, Labels
  <2>. QED
    BY <1>0, <1>1, <1>2, <1>4, <2>1 DEF InitializeStep, Making, Labels
<1>5. CASE PlayerStep
  BY <1>5 DEF PlayerStep, AddSourceFilter, RenderStreams, AddDecoder, RenderPins,
              FinalizeStreams, Making, Labels
<1>6. CASE RTSPStep
  <2>1. CASE QueryFilterGraph2 \/ Load \/ SkipDecoder \/ SetSinkFileName \/ GetPins
             \/ ConnectPins \/ RenderDecoder
    BY <2>1, Destinations
       DEF QueryFilterGraph2, Load, SkipDecoder, SetSinkFileName,
              GetPins, ConnectPins, RenderDecoder, Making, Labels, Roles
  <2>. QED
    BY <1>3, <1>6, <2>1 DEF RTSPStep, Making, Labels, Roles
<1>7. CASE CloseStep \/ Return \/ Delete
  BY <1>7 DEF CloseStep, RemoveFilters, CloseRenderer, CoUninitialize, DeleteAfterUnload,
              Return, Delete, Making
<1>8. CASE Client
  BY <1>8 DEF Client, InitializePlayer, InitilizeRSTPSource, Initialize, SelectDecoder,
              SetFileName, DSShow_Control, Play, Pause, Stop, Control, Ready,
              DSShow_SetWindowHandle, SetWindowHandle, DSShow_ApplyOverlay, DSShow_Close, Making
<1>9. CASE Environment \/ UNCHANGED vars
  BY <1>9 DEF Environment, vars
<1>. QED
  BY <1>4, <1>5, <1>6, <1>7, <1>8, <1>9 DEF Next, Step

\* The same for the places at which the player is closed, or nothing runs.
LEMMA ClosingReached ==
  ASSUME [Next]_vars, pc' # pc
  PROVE  /\ pc' = "Close" => DSShow_Close
         /\ pc' = "CloseRenderer" => RemoveFilters
         /\ pc' = "CoUninitialize" => CloseRenderer
         /\ pc' = "delete" => CoUninitialize
         /\ pc' = "idle" => Return \/ Delete
<1>. USE DEF player, session, graphVars, Goto, Crash
<1>1. ASSUME InitializeStep \/ PlayerStep \/ RTSPStep
      PROVE  pc' \notin {"Close", "CloseRenderer", "CoUninitialize", "delete", "idle"}
  <2>1. ASSUME NEW i \in Interfaces \ {"m_pGraph"}, QueryInterface(i)
        PROVE  pc' \in {"m_pEvent", "m_pSeek", "SetNotifyWindow", "IFilterGraph2", "failed"}
    BY <2>1, QueryInterfaceGoes
  <2>2. ASSUME NEW k \in Renderers, CreateVideoRenderer(k)
        PROVE  pc' \in {pc, "AddDecoder", "pLeadToolsRTSPSource", "VMR9", "VMR7", "failed"}
    BY <2>2, CreateVideoRendererGoes
  <2>3. ASSUME NEW f \in Roles, AddFilterByCLSID(f)
        PROVE  pc' \in {"Load", "pVideoDecoder", "pInfTeeFilter", "GetPin", "pSinkFilter",
                        "SetFileName", "failed"}
    BY <2>3, AddFilterGoes
  <2>4. CASE TearDownOld \/ CoCreateInstance \/ SetNotifyWindow \/ GetCapabilities
    BY <2>4, Destinations DEF TearDownOld, CoCreateInstance, SetNotifyWindow, GetCapabilities
  <2>5. CASE PlayerStep
    BY <2>5 DEF PlayerStep, AddSourceFilter, RenderStreams, AddDecoder, RenderPins,
                FinalizeStreams
  <2>6. CASE QueryFilterGraph2 \/ Load \/ SkipDecoder \/ SetSinkFileName \/ GetPins
             \/ ConnectPins \/ RenderDecoder
    BY <2>6, Destinations DEF QueryFilterGraph2, Load, SkipDecoder, SetSinkFileName,
                GetPins, ConnectPins, RenderDecoder
  <2>. QED
    BY <1>1, <2>1, <2>2, <2>3, <2>4, <2>5, <2>6 DEF InitializeStep, RTSPStep
<1>2. CASE CloseStep \/ Return \/ Delete
  BY <1>2 DEF CloseStep, RemoveFilters, CloseRenderer, CoUninitialize, DeleteAfterUnload,
              Return, Delete
<1>3. CASE Client
  BY <1>3 DEF Client, InitializePlayer, InitilizeRSTPSource, Initialize, SelectDecoder,
              SetFileName, DSShow_Control, Play, Pause, Stop, Control, Ready,
              DSShow_SetWindowHandle, SetWindowHandle, DSShow_ApplyOverlay, DSShow_Close
<1>4. CASE Environment \/ UNCHANGED vars
  BY <1>4 DEF Environment, vars
<1>. QED
  BY <1>1, <1>2, <1>3, <1>4 DEF Next, Step

\* The only step at each of some places.
LEMMA Left ==
  ASSUME [Next]_vars, pc' # pc
  PROVE  /\ pc = "TearDownGraph" => TearDownOld
         /\ pc = "CoCreateInstance" => CoCreateInstance
         /\ \A i \in {"m_pControl", "m_pEvent", "m_pSeek"} : pc = i => QueryInterface(i)
         /\ pc = "CloseRenderer" => CloseRenderer
         /\ pc = "CoUninitialize" => CoUninitialize
         /\ pc = "delete" => Delete
<1>. USE DEF player, session, graphVars, Goto, Crash
<1>1. ASSUME NEW i \in Interfaces \ {"m_pGraph"}, QueryInterface(i)
      PROVE  pc = i /\ i \in {"m_pControl", "m_pEvent", "m_pSeek"}
  BY <1>1 DEF QueryInterface, Interfaces
<1>2. ASSUME NEW k \in Renderers, CreateVideoRenderer(k) PROVE pc \in {"EVR", "VMR9", "VMR7"}
  BY <1>2 DEF CreateVideoRenderer, Renderers
<1>3. ASSUME NEW f \in Roles, AddFilterByCLSID(f)
      PROVE  pc \in {"pLeadToolsRTSPSource", "pAudioRenderer", "pVideoDecoder",
                     "pInfTeeFilter", "pSinkFilter"}
  BY <1>3 DEF AddFilterByCLSID, Roles
<1>4. CASE InitializeStep
  BY <1>1, <1>2, <1>4
     DEF InitializeStep, TearDownOld, CoCreateInstance, SetNotifyWindow, GetCapabilities
<1>5. CASE PlayerStep
  BY <1>5 DEF PlayerStep, AddSourceFilter, RenderStreams, AddDecoder, RenderPins,
              FinalizeStreams
<1>6. CASE RTSPStep
  BY <1>3, <1>6 DEF RTSPStep, QueryFilterGraph2, Load, SkipDecoder, SetSinkFileName,
              GetPins, ConnectPins, RenderDecoder
<1>7. CASE CloseStep \/ Return \/ Delete
  BY <1>7 DEF CloseStep, RemoveFilters, CloseRenderer, CoUninitialize, DeleteAfterUnload,
              Return, Delete
<1>8. CASE Client
  BY <1>8 DEF Client, InitializePlayer, InitilizeRSTPSource, Initialize, SelectDecoder,
              SetFileName, DSShow_Control, Play, Pause, Stop, Control, Ready,
              DSShow_SetWindowHandle, SetWindowHandle, DSShow_ApplyOverlay, DSShow_Close
<1>9. CASE Environment \/ UNCHANGED vars
  BY <1>9 DEF Environment, vars
<1>. QED
  BY <1>4, <1>5, <1>6, <1>7, <1>8, <1>9 DEF Next, Step

\* The places at which a renderer has been made are reached from one another.
LEMMA RenderingReached ==
  ASSUME [Next]_vars, pc' # pc, pc' \in Rendering
  PROVE  pc \in Rendering \/ \E k \in Renderers : CreateVideoRenderer(k)
<1>. USE DEF player, session, graphVars, Goto, Crash, Rendering, Roles
<1>1. ASSUME NEW i \in Interfaces \ {"m_pGraph"}, QueryInterface(i)
      PROVE  pc' \in {"m_pEvent", "m_pSeek", "SetNotifyWindow", "IFilterGraph2", "failed"}
  BY <1>1, QueryInterfaceGoes
<1>2. ASSUME NEW f \in Roles, AddFilterByCLSID(f) PROVE pc \in Rendering
  BY <1>2 DEF AddFilterByCLSID
<1>3. CASE InitializeStep
  BY <1>1, <1>3, Destinations
     DEF InitializeStep, TearDownOld, CoCreateInstance, SetNotifyWindow, GetCapabilities
<1>4. CASE PlayerStep
  BY <1>4 DEF PlayerStep, AddSourceFilter, RenderStreams, AddDecoder, RenderPins,
              FinalizeStreams
<1>5. CASE RTSPStep
  BY <1>2, <1>5 DEF RTSPStep, QueryFilterGraph2, Load, SkipDecoder, SetSinkFileName,
              GetPins, ConnectPins, RenderDecoder
<1>6. CASE CloseStep \/ Return \/ Delete
  BY <1>6 DEF CloseStep, RemoveFilters, CloseRenderer, CoUninitialize, DeleteAfterUnload,
              Return, Delete
<1>7. CASE Client
  BY <1>7 DEF Client, InitializePlayer, InitilizeRSTPSource, Initialize, SelectDecoder,
              SetFileName, DSShow_Control, Play, Pause, Stop, Control, Ready,
              DSShow_SetWindowHandle, SetWindowHandle, DSShow_ApplyOverlay, DSShow_Close
<1>8. CASE Environment \/ UNCHANGED vars
  BY <1>8 DEF Environment, vars
<1>. QED
  BY <1>3, <1>4, <1>5, <1>6, <1>7, <1>8 DEF Next, Step

\* What stays as it is at which places.
LEMMA Stays ==
  ASSUME [Next]_vars
  PROVE  /\ pc \notin {"TearDownGraph", "EVR", "VMR9", "VMR7", "FinalizeGraph", "CloseRenderer",
                       "CoUninitialize", "delete", "idle"} => UNCHANGED m_pVideo
         /\ pc \notin {"CoCreateInstance", "m_pControl", "m_pEvent", "m_pSeek", "delete"}
              => UNCHANGED itf
         /\ pc \notin {"RenderPins", "RenderEx", "FinalizeGraph", "Close", "CloseRenderer"}
              => UNCHANGED connected
         /\ pc \notin {"TearDownGraph", "GetCapabilities", "CoUninitialize", "delete", "idle"}
              => UNCHANGED m_state
         /\ pc \notin {"EVR", "VMR9", "VMR7", "FinalizeGraph", "CloseRenderer"}
              => UNCHANGED renderers
         /\ pc \notin Roles \cup {"delete"} => UNCHANGED filter
<1>1. (\E k \in Renderers : CreateVideoRenderer(k)) => pc \in {"EVR", "VMR9", "VMR7"}
  BY DEF CreateVideoRenderer, Renderers
<1>2. (\E i \in Interfaces \ {"m_pGraph"} : QueryInterface(i))
        => pc \in {"m_pControl", "m_pEvent", "m_pSeek"}
  BY DEF QueryInterface, Interfaces
<1>3. (\E f \in Roles : AddFilterByCLSID(f)) => pc \in Roles
  BY DEF AddFilterByCLSID
<1>4. (\E w \in Windows : DSShow_SetWindowHandle(w)) \/ DSShow_Control => pc = "idle"
  BY DEF DSShow_SetWindowHandle, DSShow_Control, Ready
<1>. QED
  BY <1>1, <1>2, <1>3, <1>4, Changes
     DEF TearDownOld, CoCreateInstance, FinalizeStreams, CloseRenderer, CoUninitialize, Delete,
         GetCapabilities, RenderPins, RenderDecoder, RemoveFilters

\* A new window changes nothing else about the renderer object.
LEMMA SetWindowKeeps ==
  ASSUME TypeOK, NEW w \in Windows, DSShow_SetWindowHandle(w)
  PROVE  m_pVideo'.kind = m_pVideo.kind /\ (m_pVideo'.ctl <=> m_pVideo.ctl)
<1>1. m_pVideo' = m_pVideo \/ m_pVideo' = [m_pVideo EXCEPT !.hwnd = w]
  BY DEF DSShow_SetWindowHandle, SetWindowHandle, SetVideoWindow
<1>. QED
  BY <1>1, Zenon DEF TypeOK, VideoTypeOK, VideoObjects

\* How the renderer object changes: it is forgotten, or made, or it keeps its
\* class and the picture mixer of its graph.
LEMMA VideoMoves ==
  ASSUME TypeOK, SessionInv, [Next]_vars
  PROVE  \/ m_pVideo' = NoVideo
         \/ \E k \in Renderers :
              /\ CreateVideoRenderer(k)
              /\ AddToGraph(k, graph, "ok")
              /\ m_pVideo' = Renderer(k, graph, m_hwndVideo)
         \/ /\ m_pVideo'.kind = m_pVideo.kind
            /\ m_pVideo'.ctl => m_pVideo.ctl
            /\ (m_pVideo.ctl => m_pVideo'.ctl) \/ FinalizeStreams \/ CloseRenderer
            /\ \/ m_pVideo'.hwnd = m_pVideo.hwnd
               \/ \E w \in Windows : DSShow_SetWindowHandle(w)
            /\ m_pVideo.kind # "none" => UNCHANGED <<graph, pBmp>>
<1>. USE DEF player, session, graphVars
<1>1. ASSUME NEW k \in Renderers, CreateVideoRenderer(k)
      PROVE  \/ m_pVideo' = NoVideo
             \/ AddToGraph(k, graph, "ok") /\ m_pVideo' = Renderer(k, graph, m_hwndVideo)
  BY <1>1, CreateVideoRendererGoes
<1>2. CASE TearDownOld \/ CoUninitialize \/ Delete
  BY <1>2 DEF TearDownOld, CoUninitialize, Delete, DeletePlayer, TearDownGraph
<1>3. ASSUME m_pVideo.kind # "none", ~TearDownOld, ~CoUninitialize, ~Delete,
             ~\E k \in Renderers : CreateVideoRenderer(k)
      PROVE  UNCHANGED <<graph, pBmp>>
  <2>1. UNCHANGED pBmp
    BY <1>3, Changes
  <2>2. CASE UNCHANGED itf
    BY <2>1, <2>2 DEF graph
  <2>3. ~CoCreateInstance
    <3>1. pc # "CoCreateInstance"
      BY <1>3 DEF SessionInv, NoVideo
    <3>. QED
      BY <3>1 DEF CoCreateInstance
  <2>4. ASSUME NEW i \in Interfaces \ {"m_pGraph"}, QueryInterface(i)
        PROVE  UNCHANGED graph
    BY <2>4 DEF QueryInterface, graph, TypeOK, PlayerTypeOK, Interfaces
  <2>. QED
    BY <1>3, <2>1, <2>2, <2>3, <2>4, Changes
<1>4. ASSUME FinalizeStreams \/ CloseRenderer
      PROVE  /\ m_pVideo'.kind = m_pVideo.kind /\ m_pVideo'.hwnd = m_pVideo.hwnd
             /\ m_pVideo'.ctl => m_pVideo.ctl
  <2>1. m_pVideo' \in {m_pVideo, [m_pVideo EXCEPT !.ctl = FALSE]}
    BY <1>4 DEF FinalizeStreams, CloseRenderer, FinalizeGraph
  <2>. QED
    BY <2>1, Zenon DEF TypeOK, VideoTypeOK, VideoObjects
<1>5. ASSUME NEW w \in Windows, DSShow_SetWindowHandle(w)
      PROVE  m_pVideo'.kind = m_pVideo.kind /\ (m_pVideo'.ctl <=> m_pVideo.ctl)
  BY <1>5, SetWindowKeeps
<1>. QED
  BY <1>1, <1>2, <1>3, <1>4, <1>5, Changes

-----------------------------------------------------------------------------
\* The mixer: a VMR-9 object always has the picture mixer of its own graph.
MixerInv == m_pVideo.kind = "VMR9" => pBmp = graph

\* Every step keeps MixerInv: a VMR-9 is made together with its mixer, and no
\* mixer is replaced while one is on screen.
LEMMA MixerStep == ASSUME TypeOK, SessionInv, MixerInv, [Next]_vars PROVE MixerInv'
<1>1. CASE m_pVideo' = NoVideo
  BY <1>1 DEF MixerInv, NoVideo
<1>2. ASSUME NEW k \in Renderers, CreateVideoRenderer(k), AddToGraph(k, graph, "ok"),
             m_pVideo' = Renderer(k, graph, m_hwndVideo)
      PROVE  MixerInv'
  <2>1. m_pVideo'.kind = k
    BY <1>2 DEF Renderer
  <2>2. graph' = graph
    BY <1>2 DEF CreateVideoRenderer, graph
  <2>3. k = "VMR9" => pBmp' = graph
    BY <1>2 DEF AddToGraph, InitWindowlessVMR9
  <2>. QED
    BY <2>1, <2>2, <2>3 DEF MixerInv
<1>3. CASE m_pVideo'.kind = m_pVideo.kind /\ (m_pVideo.kind # "none" => UNCHANGED <<graph, pBmp>>)
  BY <1>3 DEF MixerInv
<1>. QED
  BY <1>1, <1>2, <1>3, VideoMoves

\* MixerInv holds of every session (CVMR9::InitWindowlessVMR sets pBmp).
LEMMA MixerInvariant == Spec => []MixerInv
<1>1. Init => MixerInv
  BY DEF Init, Construct, NoVideo, MixerInv
<1>2. TypeOK /\ SessionInv /\ MixerInv /\ [Next]_vars => MixerInv'
  BY MixerStep
<1>. QED
  BY <1>1, <1>2, TypeCorrect, SessionInvariant, PTL DEF Spec

\* After an RTSP source has been opened ApplyOverlay finds a mixer, and it is
\* the one of the renderer on screen, not of a graph that was left behind.
THEOREM MixerMatches == Spec => []MixerOfThisRenderer
<1>1. MixerInv => MixerOfThisRenderer
  BY DEF MixerInv, MixerOfThisRenderer
<1>. QED
  BY <1>1, MixerInvariant, PTL

-----------------------------------------------------------------------------
\* A control interface belongs to an object of some class.
ControlInv == m_pVideo.ctl => m_pVideo.kind # "none"

\* ControlInv holds of every session: TearDownGraph deletes object and interface
\* together.
LEMMA ControlInvariant == Spec => []ControlInv
<1>1. Init => ControlInv
  BY DEF Init, Construct, NoVideo, ControlInv
<1>2. ASSUME TypeOK, SessionInv, ControlInv, [Next]_vars PROVE ControlInv'
  <2>1. ASSUME NEW k \in Renderers, m_pVideo' = Renderer(k, graph, m_hwndVideo)
        PROVE  ControlInv'
    BY <2>1 DEF ControlInv, Renderer, Renderers
  <2>. QED
    BY <1>2, <2>1, VideoMoves DEF ControlInv, NoVideo
<1>. QED
  BY <1>1, <1>2, TypeCorrect, SessionInvariant, PTL DEF Spec

-----------------------------------------------------------------------------
\* The window.  A call that opens a source records its window before the old
\* renderer object goes, so the two differ for one step.
WindowInv ==
  pc # "TearDownGraph" /\ HasVideo /\ m_pVideo.kind # "VMR7" /\ "SetVideoWindow" \notin MayFail
    => m_pVideo.hwnd = m_hwndVideo

\* Every step keeps WindowInv, also those that make a renderer and SetWindowHandle.
LEMMA WindowStep ==
  ASSUME TypeOK, SessionInv, ControlInv, WindowInv, [Next]_vars
  PROVE  WindowInv'
<1>. USE DEF WindowInv, HasVideo
<1>1. CASE m_pVideo' = NoVideo
  BY <1>1 DEF NoVideo
<1>2. ASSUME NEW k \in Renderers, CreateVideoRenderer(k),
             m_pVideo' = Renderer(k, graph, m_hwndVideo)
      PROVE  WindowInv'
  BY <1>2 DEF CreateVideoRenderer, Renderer
<1>3. ASSUME NEW w \in Windows, DSShow_SetWindowHandle(w)
      PROVE  WindowInv'
  <2>1. m_hwndVideo' = w
    BY <1>3 DEF DSShow_SetWindowHandle, SetWindowHandle
  <2>2. CASE m_pVideo' = [m_pVideo EXCEPT !.hwnd = w]
    <3>1. m_pVideo'.hwnd = w
      BY <2>2, Zenon DEF TypeOK, VideoTypeOK, VideoObjects
    <3>. QED
      BY <2>1, <3>1
  <2>3. CASE m_pVideo' = m_pVideo /\ ~(m_pVideo.kind \in {"EVR", "VMR9"} /\ m_pVideo.ctl)
    BY <2>3 DEF TypeOK, VideoTypeOK, VideoObjects, Renderers, ControlInv
  <2>4. CASE m_pVideo' = m_pVideo /\ "SetVideoWindow" \in MayFail
    BY <2>4
  <2>5. CASE m_pVideo.kind = "none" \/ \E r \in {"ok", "fault"} : SetVideoWindow(w, r)
    BY <1>3, <2>2, <2>3, <2>4, <2>5
       DEF DSShow_SetWindowHandle, SetWindowHandle, SetVideoWindow, Outcome
  <2>. QED
    BY <1>3, <2>5 DEF DSShow_SetWindowHandle, SetWindowHandle
<1>4. CASE m_pVideo'.kind = m_pVideo.kind /\ (m_pVideo'.ctl => m_pVideo.ctl)
           /\ m_pVideo'.hwnd = m_pVideo.hwnd
  <2>1. ASSUME pc = "TearDownGraph", pc' # pc PROVE WindowInv'
    <3>1. m_pVideo' = NoVideo
      BY <2>1, Left DEF TearDownOld, TearDownGraph
    <3>. QED
      BY <1>1, <3>1
  <2>2. CASE pc' = "TearDownGraph"
    BY <2>2
  <2>3. CASE UNCHANGED m_hwndVideo /\ pc # "TearDownGraph"
    BY <1>4, <2>3
  <2>4. CASE Delete
    BY <1>1, <2>4 DEF Delete, DeletePlayer, TearDownGraph
  <2>. QED
    BY <1>3, <2>1, <2>2, <2>3, <2>4, Changes
<1>. QED
  BY <1>1, <1>2, <1>3, <1>4, VideoMoves

\* The picture is in the window the program last asked for, which is also the
\* one Repaint and UpdateVideoWindow work on.
THEOREM WindowsMatch == Spec => []WindowsAgree
<1>1. Init => WindowInv
  BY DEF Init, Construct, NoVideo, HasVideo, WindowInv
<1>2. TypeOK /\ SessionInv /\ ControlInv /\ WindowInv /\ [Next]_vars => WindowInv'
  BY WindowStep
<1>3. WindowInv => WindowsAgree
  BY DEF WindowInv, WindowsAgree, Ready
<1>. QED
  BY <1>1, <1>2, <1>3, TypeCorrect, SessionInvariant, ControlInvariant, PTL DEF Spec

-----------------------------------------------------------------------------
\* The state.  A session is made while the player is closed.
ClosedInv == pc \in Making => m_state = "STATE_CLOSED"

\* ClosedInv holds: TearDownGraph has closed the player before a source is opened.
LEMMA ClosedInvariant == Spec => []ClosedInv
<1>1. Init => ClosedInv
  BY DEF Init, Construct, ClosedInv
<1>2. ASSUME ClosedInv, [Next]_vars PROVE ClosedInv'
  <2>1. CASE TearDownOld \/ CoUninitialize \/ Delete
    BY <2>1 DEF TearDownOld, CoUninitialize, Delete, DeletePlayer, TearDownGraph, ClosedInv
  <2>2. CASE GetCapabilities \/ DSShow_Control
    BY <1>2, <2>2 DEF GetCapabilities, DSShow_Control, Play, Pause, Stop, Control, Ready, Goto, Crash,
                player, session, ClosedInv, Making
  <2>3. CASE UNCHANGED m_state
    BY <1>2, <2>1, <2>3, Reached DEF ClosedInv
  <2>. QED
    BY <1>2, <2>1, <2>2, <2>3, Changes
<1>. QED
  BY <1>1, <1>2, PTL DEF Spec

\* How the graph manager shows each state, and that it does what it is told.
Modes == [STATE_RUNNING |-> "running", STATE_PAUSED |-> "paused",
          STATE_STOPPED |-> "stopped", STATE_CLOSED |-> "stopped"]
Obeyed == {"Control", "Abort", "QueryInterface"} \cap MayFail = {}

\* The player commands the graph it shows, which streams as m_state says.
\* Between CoUninitialize and the end of the destructor the graph goes on.
CommandInv == graph # Null /\ pc # "m_pControl" => itf["m_pControl"] = graph
StateInv ==
  graph # Null /\ pc \notin {"CoCreateInstance", "delete"} => mode[graph] = Modes[m_state]

\* Every step keeps CommandInv and StateInv, one case per step that sets a state.
LEMMA StateStep ==
  ASSUME Obeyed, TypeOK, SessionInv, ClosedInv, CommandInv, StateInv, [Next]_vars
  PROVE  CommandInv' /\ StateInv'
<1>. USE DEF graph, player, session, graphVars, Goto, Crash
<1>1. CASE CoCreateInstance
  <2>1. m_state = "STATE_CLOSED" /\ UNCHANGED m_state
    BY <1>1 DEF CoCreateInstance, SessionInv
  <2>2. ASSUME NEW g \in Graphs, NewGraph(g), itf' = [itf EXCEPT !["m_pGraph"] = g],
               pc' = "m_pControl"
        PROVE  CommandInv' /\ StateInv'
    <3>1. graph' = g /\ mode'[g] = "stopped"
      BY <2>2 DEF NewGraph, TypeOK, PlayerTypeOK, GraphTypeOK, Interfaces
    <3>. QED
      BY <2>1, <2>2, <3>1 DEF CommandInv, StateInv, Modes
  <2>3. CASE itf' = [itf EXCEPT !["m_pGraph"] = Null]
    BY <2>3 DEF CommandInv, StateInv, TypeOK, PlayerTypeOK, Interfaces
  <2>. QED
    BY <1>1, <2>2, <2>3 DEF CoCreateInstance
<1>2. CASE Delete
  BY <1>2 DEF Delete, DeletePlayer, CommandInv, StateInv, Interfaces
<1>3. ASSUME NEW i \in Interfaces \ {"m_pGraph"}, QueryInterface(i)
      PROVE  CommandInv' /\ StateInv'
  <2>1. pc = i /\ itf' = [itf EXCEPT ![i] = graph] /\ UNCHANGED <<mode, m_state>>
    BY <1>3 DEF QueryInterface, Obeyed
  <2>2. graph' = graph /\ itf'["m_pControl"] = IF i = "m_pControl" THEN graph ELSE itf["m_pControl"]
    BY <2>1 DEF TypeOK, PlayerTypeOK, Interfaces
  <2>. QED
    BY <2>1, <2>2 DEF CommandInv, StateInv, Interfaces
<1>4. ASSUME UNCHANGED itf
      PROVE  CommandInv'
  BY <1>3, <1>4, Left DEF CommandInv, Interfaces
<1>5. CASE TearDownOld \/ CoUninitialize
  BY <1>4, <1>5 DEF TearDownOld, CoUninitialize, StateInv
<1>6. CASE GetCapabilities
  <2>1. m_state = "STATE_CLOSED"
    BY <1>6 DEF GetCapabilities, ClosedInv, Making, Labels
  <2>. QED
    BY <1>4, <1>6, <2>1 DEF GetCapabilities, StateInv, Modes
<1>7. CASE DSShow_Control
  <2>1. pc = "idle" /\ UNCHANGED itf
    BY <1>7 DEF DSShow_Control, Play, Pause, Stop, Control, Ready
  <2>2. ASSUME NEW from, NEW to \in States, NEW m, Control(from, to, m), m = Modes[to]
        PROVE  StateInv'
    <3>1. CASE UNCHANGED <<m_state, mode, pc>>
      BY <2>1, <3>1 DEF StateInv
    <3>2. CASE mode' = [mode EXCEPT ![itf["m_pControl"]] = m] /\ m_state' = to
      <4>1. graph # Null => itf["m_pControl"] = graph /\ graph \in Graphs
        BY <2>1, GraphType DEF CommandInv, TypeOK, Graphs, Null
      <4>. QED
        BY <2>1, <2>2, <3>2, <4>1 DEF StateInv, TypeOK, GraphTypeOK
    <3>. QED
      BY <2>2, <3>1, <3>2 DEF Control, Obeyed
  <2>3. /\ Modes["STATE_RUNNING"] = "running" /\ Modes["STATE_PAUSED"] = "paused"
        /\ Modes["STATE_STOPPED"] = "stopped"
        /\ {"STATE_RUNNING", "STATE_PAUSED", "STATE_STOPPED"} \subseteq States
    BY DEF Modes, States
  <2>. QED
    BY <1>4, <1>7, <2>1, <2>2, <2>3 DEF DSShow_Control, Play, Pause, Stop
<1>8. ASSUME UNCHANGED <<itf, m_state, mode>>, ~CoCreateInstance, ~Delete
      PROVE  StateInv'
  BY <1>8, Left DEF StateInv
<1>9. CASE Environment
  BY <1>9 DEF Environment, Abort, Obeyed
<1>. QED
  BY <1>1, <1>2, <1>3, <1>4, <1>5, <1>6, <1>7, <1>8, <1>9, Changes

\* m_state tells whether the current graph streams, as long as the graph
\* manager obeys.
THEOREM StateMatches == Spec => []StateFollowsGraph
<1>1. CASE Obeyed
  <2>1. Init => CommandInv /\ StateInv
    BY DEF Init, Construct, CommandInv, StateInv, graph, Interfaces
  <2>2. TypeOK /\ SessionInv /\ ClosedInv /\ CommandInv /\ StateInv /\ [Next]_vars
          => CommandInv' /\ StateInv'
    BY <1>1, StateStep
  <2>3. TypeOK /\ StateInv => StateFollowsGraph
    BY DEF StateInv, StateFollowsGraph, Ready, Modes, TypeOK, PlayerTypeOK, States
  <2>. QED
    BY <2>1, <2>2, <2>3, TypeCorrect, SessionInvariant, ClosedInvariant, PTL DEF Spec
<1>2. CASE ~Obeyed
  <2>1. StateFollowsGraph
    BY <1>2 DEF StateFollowsGraph, Obeyed
  <2>. QED
    BY <2>1, PTL
<1>. QED
  BY <1>1, <1>2

-----------------------------------------------------------------------------
\* The picture.  A connected renderer is one of the graph's, and FinalizeGraph
\* takes none of those out.

\* What FinalizeGraph does when it finds the pins that are connected.
LEMMA FinalizeGraphGoes ==
  ASSUME "FindConnectedPin" \notin MayFail, TypeOK, RendererOfThisGraph, NEW r,
         FinalizeGraph(graph, r)
  PROVE  /\ UNCHANGED connected
         /\ m_pVideo'.kind = m_pVideo.kind /\ m_pVideo'.graph = m_pVideo.graph
         /\ \/ UNCHANGED <<m_pVideo, renderers>>
            \/ /\ r = "ok" /\ m_pVideo.ctl /\ ~m_pVideo'.ctl
               /\ m_pVideo.kind \notin connected[graph]
               /\ renderers' = [renderers EXCEPT ![graph] = @ \ {m_pVideo.kind}]
<1>. DEFINE GivenUp == m_pVideo' = [m_pVideo EXCEPT !.ctl = FALSE]
            TakenOut == renderers' = [renderers EXCEPT ![graph] = @ \ {m_pVideo.kind}]
<1>1. ASSUME NEW removed \in BOOLEAN, RemoveUnconnectedRenderer(graph, removed, r)
      PROVE  /\ UNCHANGED connected
             /\ \/ ~removed /\ UNCHANGED renderers
                \/ removed /\ r = "ok" /\ m_pVideo.kind \notin connected[graph] /\ TakenOut
  <2>1. CASE UNCHANGED <<renderers, connected>> /\ ~removed
    BY <2>1
  <2>2. CASE /\ r = "ok" /\ removed
             /\ \E found \in FindConnectedPin(m_pVideo.kind, m_pVideo.graph) : ~found
             /\ m_pVideo.graph = graph /\ graph # Null
             /\ TakenOut
             /\ connected' = [connected EXCEPT ![graph] = @ \ {m_pVideo.kind}]
    <3>1. m_pVideo.kind \notin connected[graph]
      BY <2>2 DEF FindConnectedPin, Outcome
    <3>2. graph \in Graphs
      BY <2>2, GraphType DEF TypeOK, Graphs, Null
    <3>3. connected' = connected
      BY <2>2, <3>1, <3>2 DEF TypeOK, GraphTypeOK
    <3>. QED
      BY <2>2, <3>1, <3>3
  <2>. QED
    BY <1>1, <2>1, <2>2 DEF RemoveUnconnectedRenderer
<1>2. GivenUp => ~m_pVideo'.ctl
  BY Zenon DEF TypeOK, VideoTypeOK, VideoObjects
<1>3. m_pVideo'.kind = m_pVideo.kind /\ m_pVideo'.graph = m_pVideo.graph
  BY FinalizeGraphKeeps DEF TypeOK
<1>4. ASSUME m_pVideo.ctl, NEW removed \in BOOLEAN,
             RemoveUnconnectedRenderer(graph, removed, r),
             m_pVideo' = IF removed THEN [m_pVideo EXCEPT !.ctl = FALSE] ELSE m_pVideo
      PROVE  /\ UNCHANGED connected
             /\ \/ UNCHANGED <<m_pVideo, renderers>>
                \/ /\ r = "ok" /\ m_pVideo.ctl /\ ~m_pVideo'.ctl
                   /\ m_pVideo.kind \notin connected[graph]
                   /\ TakenOut
  <2>. HIDE DEF TakenOut
  <2>1. CASE removed
    BY <1>1, <1>2, <1>4, <2>1, Zenon
  <2>2. CASE ~removed
    BY <1>1, <1>4, <2>2, Zenon
  <2>. QED
    BY <2>1, <2>2
<1>. QED
  BY <1>3, <1>4 DEF FinalizeGraph

\* Between the making of a renderer and the end of its graph the object
\* controls it, or it was given up because others have got the stream.
Controlled == m_pVideo.kind # "none" /\ (m_pVideo.ctl \/ m_pVideo.kind \notin connected[graph])
RenderedInv ==
  /\ pc \in Rendering => m_pVideo.ctl
  /\ pc = "GetCapabilities" => Controlled
  /\ m_state # "STATE_CLOSED" /\ pc \notin {"CloseRenderer", "CoUninitialize"}
       => connected[graph] # {} /\ Controlled

\* Every step keeps RenderedInv, as long as FinalizeGraph can tell which pins of
\* the renderer are connected.
LEMMA RenderedStep ==
  ASSUME "FindConnectedPin" \notin MayFail, TypeOK, SessionInv, PictureInv, ControlInv,
         ClosedInv, RenderedInv, [Next]_vars
  PROVE  RenderedInv'
<1>. USE DEF graph, player, session, graphVars, Goto, Crash
<1>1. ASSUME NEW k \in Renderers, CreateVideoRenderer(k), pc' \in Rendering
      PROVE  m_pVideo'.ctl
  <2>1. m_pVideo' = Renderer(k, graph, m_hwndVideo)
    BY <1>1, CreateVideoRendererGoes DEF Rendering, Roles, Renderers
  <2>. QED
    BY <2>1, Zenon DEF Renderer
<1>2. ASSUME FinalizeStreams \/ CloseRenderer
      PROVE  /\ UNCHANGED <<itf, m_state, connected>>
             /\ m_pVideo'.kind = m_pVideo.kind
             /\ \/ UNCHANGED m_pVideo
                \/ pc' # pc /\ m_pVideo.kind \notin connected[graph]
  <2>1. CASE m_pVideo.kind = "none" /\ CloseRenderer
    BY <2>1 DEF CloseRenderer
  <2>2. CASE \E r \in {"ok", "failed", "fault"} :
               FinalizeGraph(graph, r) /\ (r = "ok" => pc' # pc)
    BY <1>2, <2>2, FinalizeGraphGoes DEF FinalizeStreams, CloseRenderer, SessionInv
  <2>. QED
    BY <1>2, <2>1, <2>2 DEF FinalizeStreams, CloseRenderer
<1>3. ASSUME pc' \in Rendering PROVE m_pVideo'.ctl
  <2>1. CASE pc \in Rendering
    <3>1. ~TearDownOld /\ ~CoUninitialize /\ ~Delete /\ ~\E w \in Windows : DSShow_SetWindowHandle(w)
      BY <2>1 DEF TearDownOld, CoUninitialize, Delete, DSShow_SetWindowHandle, Ready, Rendering, Roles
    <3>2. CASE FinalizeStreams \/ CloseRenderer
      BY <1>2, <1>3, <2>1, <3>2 DEF FinalizeStreams, CloseRenderer, Rendering, Roles, RenderedInv
    <3>. QED
      BY <1>1, <1>3, <2>1, <3>1, <3>2, Changes DEF RenderedInv
  <2>. QED
    BY <1>1, <1>3, <2>1, RenderingReached
<1>4. ASSUME pc' = "GetCapabilities" PROVE Controlled'
  <2>1. CASE FinalizeStreams
    BY <1>2, <1>4, <2>1 DEF FinalizeStreams, Controlled, RenderedInv, ControlInv, Rendering
  <2>2. CASE RenderDecoder
    BY <1>4, <2>2 DEF RenderDecoder, Controlled, RenderedInv, ControlInv, Rendering
  <2>3. CASE pc = "GetCapabilities"
    BY <2>3, Stays DEF Controlled, RenderedInv
  <2>. QED
    BY <1>4, <2>1, <2>2, <2>3, Reached
<1>5. ASSUME m_state' # "STATE_CLOSED", pc' \notin {"CloseRenderer", "CoUninitialize"}
      PROVE  connected'[graph'] # {} /\ Controlled'
  <2>1. CASE GetCapabilities
    BY <1>5, <2>1, Stays DEF GetCapabilities, Controlled, RenderedInv, PictureInv
  <2>2. CASE ~GetCapabilities
    <3>1. m_state # "STATE_CLOSED" /\ ~TearDownOld /\ ~CoUninitialize /\ ~Delete
      BY <1>5, <2>2, Changes
         DEF TearDownOld, CoUninitialize, Delete, DeletePlayer, TearDownGraph, DSShow_Control,
             Play, Pause, Stop, Control
    <3>2. pc \notin Making
      BY <3>1 DEF ClosedInv
    <3>3. pc \notin {"CloseRenderer", "CoUninitialize"}
      BY <1>5, <3>1, Left DEF CloseRenderer
    <3>4. CASE RemoveFilters
      BY <1>5, <3>1, <3>3, <3>4 DEF RemoveFilters, RenderedInv, Controlled
    <3>5. CASE ~RemoveFilters
      <4>1. UNCHANGED <<itf, connected>>
        BY <3>1, <3>2, <3>3, <3>5, Changes
           DEF CoCreateInstance, QueryInterface, RenderPins, RenderDecoder, FinalizeStreams,
               CloseRenderer, Making, Labels, Interfaces
      <4>2. ~FinalizeStreams /\ ~CloseRenderer /\ ~\E k \in Renderers : CreateVideoRenderer(k)
        BY <3>2, <3>3
           DEF FinalizeStreams, CloseRenderer, CreateVideoRenderer, Making, Labels, Renderers
      <4>3. m_pVideo'.kind = m_pVideo.kind /\ (m_pVideo.ctl => m_pVideo'.ctl)
        BY <3>1, <4>2, Changes, SetWindowKeeps
      <4>. QED
        BY <3>1, <3>3, <4>1, <4>3 DEF RenderedInv, Controlled
    <3>. QED
      BY <3>4, <3>5
  <2>. QED
    BY <2>1, <2>2
<1>. QED
  BY <1>3, <1>4, <1>5 DEF RenderedInv

\* RenderedInv holds of every session in which FindConnectedPin succeeds.
LEMMA RenderedInvariant ==
  ASSUME "FindConnectedPin" \notin MayFail
  PROVE  Spec => []RenderedInv
<1>1. Init => RenderedInv
  BY DEF Init, Construct, RenderedInv, Rendering, Roles
<1>2. TypeOK /\ SessionInv /\ PictureInv /\ ControlInv /\ ClosedInv /\ RenderedInv /\ [Next]_vars
        => RenderedInv'
  BY RenderedStep
<1>. QED
  BY <1>1, <1>2, TypeCorrect, SessionInvariant, PictureInvariant, ControlInvariant,
     ClosedInvariant, PTL DEF Spec

\* A player that can play shows something: a renderer of its graph is
\* connected, and either the renderer object controls one or another renderer
\* was left behind in the graph.
THEOREM PlayableShows ==
  ASSUME "FindConnectedPin" \notin MayFail
  PROVE  Spec => []PlayableIsRendered
<1>1. RenderedInv => PlayableIsRendered
  BY DEF RenderedInv, PlayableIsRendered, Controlled, Ready
<1>. QED
  BY <1>1, RenderedInvariant, PTL

\* No renderer that draws the stream is taken out of a graph.
THEOREM OnlyUnconnectedGo ==
  ASSUME "FindConnectedPin" \notin MayFail
  PROVE  Spec => OnlyUnconnectedRemoved
<1>. DEFINE Kept == \A g \in Graphs : connected[g] \cap (renderers[g] \ renderers'[g]) = {}
<1>1. ASSUME TypeOK, SessionInv, [Next]_vars PROVE [Kept]_vars
  <2>1. CASE UNCHANGED renderers
    BY <2>1
  <2>2. ASSUME NEW k \in Renderers, CreateVideoRenderer(k) PROVE Kept
    <3>1. \/ UNCHANGED renderers
          \/ renderers' = [renderers EXCEPT ![graph] = @ \cup {k}]
      BY <2>2 DEF CreateVideoRenderer, AddToGraph
    <3>. QED
      BY <1>1, <3>1 DEF TypeOK, GraphTypeOK
  <2>3. CASE FinalizeStreams \/ CloseRenderer
    <3>1. \/ UNCHANGED renderers
          \/ /\ m_pVideo.kind \notin connected[graph]
             /\ renderers' = [renderers EXCEPT ![graph] = @ \ {m_pVideo.kind}]
      BY <1>1, <2>3, FinalizeGraphGoes DEF FinalizeStreams, CloseRenderer, SessionInv
    <3>. QED
      BY <1>1, <3>1 DEF TypeOK, GraphTypeOK
  <2>. QED
    BY <1>1, <2>1, <2>2, <2>3, Changes
<1>. QED
  BY <1>1, TypeCorrect, SessionInvariant, PTL DEF Spec, OnlyUnconnectedRemoved

-----------------------------------------------------------------------------
\* The pointers.  A call that opens a source keeps its parameters.
LEMMA CallKeeps ==
  ASSUME TypeOK, [Next]_vars, pc \in Making
  PROVE  /\ call'.op = call.op /\ call'.Audio = call.Audio
         /\ UNCHANGED <<m_selectedDecoder, m_hwndVideo>>
<1>1. pc \notin {"idle", "S_OK", "failed", "delete"}
  BY DEF Making
<1>2. \/ UNCHANGED call
      \/ \E b : call' = [call EXCEPT !.pGraph2 = b] \/ call' = [call EXCEPT !.bRenderedAnyPin = b]
  BY <1>1, Changes, ClientIdle DEF Return, QueryFilterGraph2, RenderPins
<1>3. call'.op = call.op /\ call'.Audio = call.Audio
  BY <1>2, Zenon DEF TypeOK, Locals
<1>4. ~Client /\ ~Delete /\ ~\E w \in Windows : DSShow_SetWindowHandle(w)
  BY <1>1, ClientIdle DEF Delete, DSShow_SetWindowHandle, Ready
<1>5. UNCHANGED <<m_selectedDecoder, m_hwndVideo>>
  BY <1>4, Changes
<1>. QED
  BY <1>3, <1>5

\* The two operations that open a source share only the places at which they do the same.
OfFile   == {"AddSourceFilter", "RenderStreams", "EVR", "VMR7", "AddDecoder", "RenderPins",
             "FinalizeGraph"}
OfRTSP   == {"IFilterGraph2", "Load", "SetFileName", "GetPin", "Connect", "RenderEx"} \cup Roles
PlaceInv == (pc \in OfFile => ~InRTSP) /\ (pc \in OfRTSP => InRTSP)

\* Every step keeps PlaceInv: a call goes on at places of its own operation.
LEMMA PlaceStep == ASSUME TypeOK, PlaceInv, [Next]_vars PROVE PlaceInv'
<1>. USE DEF player, session, graphVars, Goto, Crash
<1>1. OfFile \subseteq Making /\ OfRTSP \subseteq Making
  BY DEF OfFile, OfRTSP, Making, Labels, Renderers, Roles
<1>2. ASSUME pc \notin Making PROVE PlaceInv'
  <2>1. pc' \notin Making \/ pc' = "CoCreateInstance"
    BY <1>2, Reached DEF TearDownOld
  <2>. QED
    BY <1>1, <2>1 DEF PlaceInv, OfFile, OfRTSP, Roles
<1>3. ASSUME pc \in Making PROVE InRTSP' = InRTSP
  BY <1>3, CallKeeps DEF InRTSP
<1>4. ASSUME pc \in Making, pc' = pc PROVE PlaceInv'
  BY <1>3, <1>4 DEF PlaceInv
<1>5. ASSUME NEW i \in Interfaces \ {"m_pGraph"}, QueryInterface(i), pc \in Making
      PROVE  PlaceInv'
  BY <1>3, <1>5, QueryInterfaceGoes DEF PlaceInv, OfFile, OfRTSP, Roles
<1>6. ASSUME NEW k \in Renderers, CreateVideoRenderer(k), pc \in Making
      PROVE  PlaceInv'
  BY <1>3, <1>6, CreateVideoRendererGoes DEF PlaceInv, OfFile, OfRTSP, Roles
<1>7. ASSUME NEW f \in Roles, AddFilterByCLSID(f), pc \in Making
      PROVE  PlaceInv'
  BY <1>3, <1>7, AddFilterGoes DEF PlaceInv, OfFile, OfRTSP, Roles
<1>8. ASSUME pc \in Making, CoCreateInstance \/ SetNotifyWindow \/ GetCapabilities PROVE PlaceInv'
  <2>1. \/ pc' \in {pc, "m_pControl", "failed", "S_OK"}
        \/ pc' = "IFilterGraph2" /\ InRTSP
        \/ pc' = "AddSourceFilter" /\ ~InRTSP
    BY <1>8 DEF CoCreateInstance, SetNotifyWindow, GetCapabilities, AfterInitializeGraph
  <2>. QED
    BY <1>3, <1>4, <1>8, <2>1 DEF PlaceInv, OfFile, OfRTSP, Roles
<1>9. ASSUME pc \in Making, PlayerStep PROVE PlaceInv'
  BY <1>3, <1>9 DEF PlayerStep, AddSourceFilter, RenderStreams, AddDecoder, RenderPins,
         FinalizeStreams, PlaceInv, OfFile, OfRTSP, Roles
<1>10. ASSUME pc \in Making, QueryFilterGraph2 \/ Load \/ SkipDecoder \/ SetSinkFileName
               \/ GetPins \/ ConnectPins \/ RenderDecoder
       PROVE PlaceInv'
  BY <1>3, <1>10, Destinations DEF QueryFilterGraph2, Load, SkipDecoder, SetSinkFileName,
         GetPins, ConnectPins, RenderDecoder, PlaceInv, OfFile, OfRTSP, Roles
<1>11. ASSUME pc \in Making, ~InitializeStep, ~PlayerStep, ~RTSPStep PROVE pc' = pc
  BY <1>11 DEF Next, Step, CloseStep, RemoveFilters, CloseRenderer, CoUninitialize, DeleteAfterUnload,
              Return, Delete, Making, Environment, vars, Client, InitializePlayer, InitilizeRSTPSource,
              Initialize, SelectDecoder, SetFileName, DSShow_Control, Play, Pause, Stop, Control, Ready,
              DSShow_SetWindowHandle, SetWindowHandle, DSShow_ApplyOverlay, DSShow_Close
<1>12. ~TearDownOld \/ pc \notin Making
  BY DEF TearDownOld, Making
<1>. QED
  BY <1>2, <1>4, <1>5, <1>6, <1>7, <1>8, <1>9, <1>10, <1>11, <1>12 DEF InitializeStep, RTSPStep

\* PlaceInv holds of every session.
LEMMA PlaceInvariant == Spec => []PlaceInv
<1>1. Init => PlaceInv
  BY DEF Init, PlaceInv, OfFile, OfRTSP, Roles
<1>2. TypeOK /\ PlaceInv /\ [Next]_vars => PlaceInv'
  BY PlaceStep
<1>. QED
  BY <1>1, <1>2, TypeCorrect, PTL DEF Spec

\* There is no graph only if none could be created.
NoFilters == [f \in Roles |-> Null]
NoGraphInv ==
  graph = Null /\ (pc = "IFilterGraph2" \/ filter # NoFilters)
    => "CoCreateInstance" \in MayFail \/ comInits = 0

\* NoGraphInv holds of every session.
LEMMA NoGraphInvariant == Spec => []NoGraphInv
<1>1. Init => NoGraphInv
  BY DEF Init, Construct, NoGraphInv, NoFilters
<1>2. ASSUME TypeOK, SessionInv, NoGraphInv, [Next]_vars PROVE NoGraphInv'
  <2>1. comInits = 0 => comInits' = 0
    BY <1>2, Changes DEF CoUninitialize
  <2>2. CASE Delete
    BY <2>2 DEF Delete, DeletePlayer, Goto, NoGraphInv, NoFilters
  <2>3. CASE CoCreateInstance
    <3>1. ASSUME NEW g \in Graphs, itf' = [itf EXCEPT !["m_pGraph"] = g] PROVE NoGraphInv'
      BY <1>2, <3>1 DEF NoGraphInv, graph, Graphs, Null, TypeOK, PlayerTypeOK, Interfaces
    <3>. QED
      BY <2>3, <3>1 DEF CoCreateInstance, NoGraphInv
  <2>4. ASSUME ~Delete, ~CoCreateInstance PROVE NoGraphInv'
    <3>1. graph' = graph
      BY <1>2, <2>4, Changes DEF QueryInterface, graph, TypeOK, PlayerTypeOK, Interfaces
    <3>2. ASSUME graph = Null PROVE UNCHANGED filter /\ (pc' = "IFilterGraph2" => pc' = pc)
      <4>1. pc \notin Building
        BY <1>2, <3>2 DEF SessionInv
      <4>2. pc \notin Roles \cup {"SetNotifyWindow", "m_pControl", "m_pEvent", "m_pSeek"}
        BY <4>1 DEF Building, Labels, Roles, Interfaces
      <4>. QED
        BY <1>2, <2>4, <4>2, Changes, Reached
           DEF AddFilterByCLSID, SetNotifyWindow, QueryInterface, Interfaces
    <3>. QED
      BY <1>2, <2>1, <3>1, <3>2 DEF NoGraphInv
  <2>. QED
    BY <2>2, <2>3, <2>4
<1>. QED
  BY <1>1, <1>2, TypeCorrect, SessionInvariant, PTL DEF Spec

\* A file is opened with all the interfaces of its graph, an RTSP source also
\* without them, but only if the graph may refuse them.
Asked == {"m_pControl", "m_pEvent", "m_pSeek"}
Answered == itf["m_pControl"] # Null /\ itf["m_pSeek"] # Null
InterfaceInv ==
  /\ pc \in {"m_pEvent", "m_pSeek"} => itf["m_pControl"] # Null
  /\ pc = "SetNotifyWindow" => Answered
  /\ ~InRTSP /\ pc \in Making \ (Asked \cup {"CoCreateInstance"}) => Answered
  /\ "QueryInterface" \notin MayFail /\ graph # Null /\ pc \notin Asked => Answered

\* Every step keeps InterfaceInv, one case per step of InitializeGraph.
LEMMA InterfaceStep == ASSUME TypeOK, SessionInv, InterfaceInv, [Next]_vars PROVE InterfaceInv'
<1>1. CASE CoCreateInstance
  <2>1. InRTSP' = InRTSP
    BY <1>1 DEF CoCreateInstance, InRTSP
  <2>2. CASE pc' = "m_pControl"
    BY <2>2 DEF InterfaceInv, Asked
  <2>3. CASE itf' = [itf EXCEPT !["m_pGraph"] = Null] /\ pc' = AfterInitializeGraph(FALSE)
    <3>1. graph' = Null
      BY <2>3 DEF graph, TypeOK, PlayerTypeOK, Interfaces
    <3>2. (pc' = "IFilterGraph2" /\ InRTSP) \/ pc' = "failed"
      BY <2>3 DEF AfterInitializeGraph
    <3>. QED
      BY <2>1, <3>1, <3>2 DEF InterfaceInv, Making
  <2>. QED
    BY <1>1, <2>2, <2>3 DEF CoCreateInstance, Goto
<1>2. CASE Delete
  BY <1>2 DEF Delete, DeletePlayer, Goto, InterfaceInv, graph, Interfaces, Making
<1>3. ASSUME NEW i \in Interfaces \ {"m_pGraph"}, QueryInterface(i)
      PROVE  InterfaceInv'
  <2>1. i \in Asked /\ pc = i
    BY <1>3, QueryInterfaceGoes DEF Interfaces, Asked
  <2>2. graph # Null
    BY <2>1 DEF SessionInv, Building, Labels, Interfaces, Asked
  <2>3. graph' = graph /\ InRTSP' = InRTSP
    BY <1>3 DEF QueryInterface, graph, InRTSP, TypeOK, PlayerTypeOK, Interfaces
  <2>4. CASE /\ <<pc, pc'>> \in {<<"m_pControl", "m_pEvent">>, <<"m_pEvent", "m_pSeek">>,
                                 <<"m_pSeek", "SetNotifyWindow">>}
             /\ itf' = [itf EXCEPT ![i] = graph]
    <3>1. itf'["m_pControl"] = IF i = "m_pControl" THEN graph ELSE itf["m_pControl"]
      BY <2>4 DEF TypeOK, PlayerTypeOK, Interfaces
    <3>2. itf'["m_pSeek"] = IF i = "m_pSeek" THEN graph ELSE itf["m_pSeek"]
      BY <2>4 DEF TypeOK, PlayerTypeOK, Interfaces
    <3>3. \/ i = "m_pControl" /\ pc' = "m_pEvent"
          \/ i = "m_pEvent" /\ pc' = "m_pSeek"
          \/ i = "m_pSeek" /\ pc' = "SetNotifyWindow"
      BY <2>1, <2>4
    <3>4. i # "m_pControl" => itf["m_pControl"] # Null
      BY <2>1 DEF InterfaceInv, Asked
    <3>5. itf'["m_pControl"] # Null /\ (pc' = "SetNotifyWindow" => Answered')
      BY <2>2, <3>1, <3>2, <3>3, <3>4 DEF Answered
    <3>6. pc' = "SetNotifyWindow" \/ pc' \in Asked
      BY <3>3 DEF Asked
    <3>. QED
      BY <3>5, <3>6 DEF InterfaceInv
  <2>5. CASE /\ pc' = IF InRTSP THEN "IFilterGraph2" ELSE "failed"
             /\ "QueryInterface" \in MayFail
    BY <2>3, <2>5 DEF InterfaceInv, Making
  <2>. QED
    BY <1>3, <2>4, <2>5, QueryInterfaceGoes
<1>4. ASSUME ~CoCreateInstance, ~Delete, ~\E i \in Interfaces \ {"m_pGraph"} : QueryInterface(i)
      PROVE  InterfaceInv'
  <2>1. UNCHANGED itf
    BY <1>4, Changes
  <2>2. pc' = pc \/ pc \notin Asked \cup {"CoCreateInstance"}
    BY <1>4, Left DEF Asked, Interfaces
  <2>3. pc' = pc \/ pc' \notin {"m_pEvent", "m_pSeek", "SetNotifyWindow"}
    BY <1>4, Reached
  <2>4. pc \in Making => InRTSP' = InRTSP
    BY CallKeeps DEF InRTSP
  <2>5. pc' \in Making => pc \in Making \/ pc' = "CoCreateInstance" \/ pc' = pc
    BY Reached DEF TearDownOld, Goto
  <2>. QED
    BY <2>1, <2>2, <2>3, <2>4, <2>5 DEF InterfaceInv, Answered, graph
<1>. QED
  BY <1>1, <1>2, <1>3, <1>4

\* InterfaceInv holds of every session.
LEMMA InterfaceInvariant == Spec => []InterfaceInv
<1>1. Init => InterfaceInv
  BY DEF Init, Construct, InterfaceInv, Making, graph, Interfaces
<1>2. TypeOK /\ SessionInv /\ InterfaceInv /\ [Next]_vars => InterfaceInv'
  BY InterfaceStep
<1>. QED
  BY <1>1, <1>2, TypeCorrect, SessionInvariant, PTL DEF Spec

\* The decoder is missing only if none was selected, or audio was asked for
\* and could not be had.
DecoderInv ==
  /\ InRTSP /\ pc \in {"RenderEx", "GetCapabilities"} => filter["pVideoDecoder"] # Null
  /\ m_state # "STATE_CLOSED" /\ itf["m_pControl"] = Null => filter["pVideoDecoder"] # Null
  /\ pc = "pAudioRenderer" => call.Audio
  /\ pc \in {"GetPin", "pInfTeeFilter", "pSinkFilter", "SetFileName"} =>
       \/ filter["pVideoDecoder"] # Null
       \/ m_selectedDecoder = "RENDER"
       \/ call.Audio /\ filter["pAudioRenderer"] = Null

\* Every step keeps DecoderInv, along the filters that InitilizeRSTPSource adds.
LEMMA DecoderStep ==
  ASSUME TypeOK, SessionInv, ClosedInv, PlaceInv, InterfaceInv, DecoderInv, [Next]_vars
  PROVE  DecoderInv'
<1>1. CASE Delete \/ TearDownOld \/ CoUninitialize
  BY <1>1 DEF Delete, DeletePlayer, TearDownOld, CoUninitialize, TearDownGraph, Goto, DecoderInv
<1>2. CASE GetCapabilities
  <2>1. pc = "GetCapabilities" /\ UNCHANGED <<itf, filter, call>>
    BY <1>2 DEF GetCapabilities
  <2>2. CASE pc' = "S_OK"
    <3>1. pc \in Making \ (Asked \cup {"CoCreateInstance"})
      BY <2>1 DEF Making, Labels, Asked
    <3>. QED
      BY <2>1, <2>2, <3>1 DEF DecoderInv, InterfaceInv, Answered
  <2>3. CASE UNCHANGED m_state /\ pc' \in {pc, "failed"}
    BY <2>1, <2>3 DEF DecoderInv, InRTSP
  <2>. QED
    BY <1>2, <2>2, <2>3 DEF GetCapabilities, Goto, Crash, session
<1>3. CASE DSShow_Control
  BY <1>3 DEF DSShow_Control, Play, Pause, Stop, Control, Ready, Goto, Crash, DecoderInv
<1>4. ASSUME NEW f \in Roles, AddFilterByCLSID(f) PROVE DecoderInv'
  <2>1. m_state' = "STATE_CLOSED" /\ UNCHANGED <<call, m_selectedDecoder>>
    BY <1>4 DEF AddFilterByCLSID, ClosedInv, Making, Labels, Roles, session
  <2>2. graph # Null
    BY <1>4 DEF AddFilterByCLSID, SessionInv, Building, Labels, Roles
  <2>3. \A g \in Roles : filter'[g] = IF g = f THEN filter'[f] ELSE filter[g]
    BY <1>4 DEF AddFilterByCLSID, TypeOK, PlayerTypeOK
  <2>4. CASE pc' \in {"Load", "pVideoDecoder", "failed"}
    BY <2>1, <2>4 DEF DecoderInv
  <2>5. CASE pc = "pVideoDecoder" /\ filter' = [filter EXCEPT ![f] = graph]
             /\ pc' \in {"pInfTeeFilter", "GetPin"}
    <3>1. filter'["pVideoDecoder"] = graph
      BY <1>4, <2>5 DEF AddFilterByCLSID, TypeOK, PlayerTypeOK
    <3>. QED
      BY <2>1, <2>2, <2>5, <3>1 DEF DecoderInv
  <2>6. CASE pc \in {"pInfTeeFilter", "pSinkFilter"} /\ pc' \in {"pSinkFilter", "SetFileName"}
    <3>1. pc = f
      BY <1>4 DEF AddFilterByCLSID
    <3>2. filter'["pVideoDecoder"] = filter["pVideoDecoder"]
          /\ filter'["pAudioRenderer"] = filter["pAudioRenderer"]
      BY <2>3, <2>6, <3>1 DEF Roles
    <3>. QED
      BY <2>1, <2>6, <3>2 DEF DecoderInv
  <2>7. CASE pc = "pAudioRenderer" /\ filter' = [filter EXCEPT ![f] = Null]
    <3>1. filter'["pAudioRenderer"] = Null /\ call.Audio
      BY <1>4, <2>7 DEF AddFilterByCLSID, TypeOK, PlayerTypeOK, DecoderInv
    <3>2. pc' \notin {"pAudioRenderer", "RenderEx", "GetCapabilities"}
      BY <1>4, AddFilterGoes
    <3>. QED
      BY <2>1, <3>1, <3>2 DEF DecoderInv
  <2>. QED
    BY <1>4, <2>4, <2>5, <2>6, <2>7, AddFilterGoes
<1>5. ASSUME ~(Delete \/ TearDownOld \/ CoUninitialize), ~GetCapabilities, ~DSShow_Control,
             ~\E f \in Roles : AddFilterByCLSID(f)
      PROVE  DecoderInv'
  <2>1. UNCHANGED <<filter, m_state>>
    BY <1>5, Changes
  <2>2. UNCHANGED itf \/ m_state = "STATE_CLOSED"
    BY <1>5, Changes DEF CoCreateInstance, QueryInterface, Interfaces, ClosedInv, Making, Labels
  <2>3. pc' = pc \/ pc' # "pAudioRenderer" \/ (Load /\ call.Audio)
    BY Reached
  <2>4. ASSUME pc' \in {"GetPin", "pInfTeeFilter", "pSinkFilter", "SetFileName"}
        PROVE  \/ pc' = pc
               \/ pc = "SetFileName"
               \/ m_selectedDecoder = "RENDER"
    BY <1>5, <2>4, Reached DEF SkipDecoder, SetSinkFileName
  <2>5. pc \in Making => call'.Audio = call.Audio /\ call'.op = call.op /\ UNCHANGED m_selectedDecoder
    BY CallKeeps
  <2>6. {"RenderEx", "Connect", "GetCapabilities", "FinalizeGraph", "pAudioRenderer", "Load", "GetPin",
         "pInfTeeFilter", "pSinkFilter", "SetFileName", "pVideoDecoder"} \subseteq Making
    BY DEF Making, Labels, Roles
  <2>7. ASSUME InRTSP', pc' \in {"RenderEx", "GetCapabilities"}
        PROVE  filter["pVideoDecoder"] # Null
    <3>1. CASE pc' = pc
      BY <2>5, <2>6, <2>7, <3>1 DEF DecoderInv, InRTSP
    <3>2. CASE ConnectPins /\ pc' = "RenderEx"
      BY <3>2 DEF ConnectPins, Goto, Crash, SessionInv, Building, Labels
    <3>3. CASE FinalizeStreams
      BY <2>5, <2>6, <2>7, <3>3 DEF FinalizeStreams, PlaceInv, OfFile, InRTSP
    <3>4. CASE RenderDecoder
      BY <2>5, <2>6, <2>7, <3>4 DEF RenderDecoder, DecoderInv, InRTSP
    <3>. QED
      BY <2>7, <3>1, <3>2, <3>3, <3>4, Reached
  <2>8. pc' = "pAudioRenderer" => call'.Audio
    BY <2>3, <2>5, <2>6 DEF DecoderInv, Load
  <2>9. ASSUME pc' \in {"GetPin", "pInfTeeFilter", "pSinkFilter", "SetFileName"}
        PROVE  \/ filter["pVideoDecoder"] # Null
               \/ m_selectedDecoder' = "RENDER"
               \/ call'.Audio /\ filter["pAudioRenderer"] = Null
    <3>1. pc \in Making
      BY <1>5, <2>6, <2>9, Reached DEF SkipDecoder, SetSinkFileName
    <3>. QED
      BY <2>4, <2>5, <2>9, <3>1 DEF DecoderInv
  <2>. QED
    BY <2>1, <2>2, <2>7, <2>8, <2>9 DEF DecoderInv, ClosedInv
<1>. QED
  BY <1>1, <1>2, <1>3, <1>4, <1>5

\* DecoderInv holds of every session.
LEMMA DecoderInvariant == Spec => []DecoderInv
<1>1. Init => DecoderInv
  BY DEF Init, Construct, DecoderInv
<1>2. TypeOK /\ SessionInv /\ ClosedInv /\ PlaceInv /\ InterfaceInv /\ DecoderInv /\ [Next]_vars
        => DecoderInv'
  BY DecoderStep
<1>. QED
  BY <1>1, <1>2, TypeCorrect, SessionInvariant, ClosedInvariant, PlaceInvariant,
     InterfaceInvariant, PTL DEF Spec

-----------------------------------------------------------------------------
\* The faults.  Nothing happens after one, and these are the steps with one.
LEMMA Dead == ASSUME [Next]_vars, fault # "none" PROVE UNCHANGED vars
BY DEF Next, Step, Client, Environment, InitializePlayer, InitilizeRSTPSource, Initialize,
       SelectDecoder, SetFileName, DSShow_Control, DSShow_SetWindowHandle, DSShow_ApplyOverlay,
       DSShow_Close, Ready

\* The steps that use a pointer without a test, and when it is NULL or dead.
LEMMA FaultSteps ==
  ASSUME [Next]_vars, fault' # fault
  PROVE  \/ (\E k \in Renderers : CreateVideoRenderer(k)) /\ fault' = "pWC"
         \/ FinalizeStreams \/ CloseRenderer
         \/ GetCapabilities /\ fault' = "m_pSeek" /\ itf["m_pSeek"] = Null
         \/ QueryFilterGraph2 /\ fault' = "m_pGraph" /\ graph = Null
         \/ GetPins /\ (fault' = "pVideoDecoder" => filter["pVideoDecoder"] = Null)
              /\ fault' \in {"pVideoDecoder", "pin"}
         \/ ConnectPins /\ fault' \in {"pin", "pGraph2"}
         \/ RenderDecoder /\ fault' = "pin"
         \/ RemoveFilters /\ fault' = "m_pGraph" /\ graph = Null /\ filter # NoFilters
         \/ DeleteAfterUnload /\ fault' = "released"
         \/ DSShow_Control /\ fault' = "m_pControl" /\ itf["m_pControl"] = Null
              /\ m_state # "STATE_CLOSED"
         \/ (\E w \in Windows : DSShow_SetWindowHandle(w)) /\ fault' = "m_pVideo"
              /\ m_pVideo.kind = "none"
         \/ (\E w \in Windows : DSShow_SetWindowHandle(w)) /\ fault' = "m_pWindowless"
              /\ m_pVideo.kind \in {"EVR", "VMR9"} /\ ~m_pVideo.ctl
         \/ DSShow_ApplyOverlay /\ fault' = "pBmp" /\ m_pVideo.kind # "none" /\ pBmp = Null
<1>. USE DEF player, session, graphVars, Goto, Crash
<1>1. CASE InitializeStep
  BY <1>1, CreateVideoRendererGoes
     DEF InitializeStep, TearDownOld, CoCreateInstance, SetNotifyWindow, QueryInterface, GetCapabilities
<1>2. CASE PlayerStep
  BY <1>2 DEF PlayerStep, AddSourceFilter, RenderStreams, AddDecoder, RenderPins
<1>3. CASE RTSPStep
  BY <1>3 DEF RTSPStep, QueryFilterGraph2, Load, SkipDecoder, SetSinkFileName,
              AddFilterByCLSID, GetPins, ConnectPins, RenderDecoder
<1>4. CASE CloseStep
  <2>1. RemoveFilters /\ fault' # fault => graph = Null /\ filter # NoFilters
    BY DEF RemoveFilters, NoFilters
  <2>. QED
    BY <1>4, <2>1 DEF CloseStep, RemoveFilters, CoUninitialize, DeleteAfterUnload
<1>5. CASE Client
  <2>1. ASSUME NEW w \in Windows, DSShow_SetWindowHandle(w)
        PROVE  \/ fault' = "m_pVideo" /\ m_pVideo.kind = "none"
               \/ fault' = "m_pWindowless" /\ m_pVideo.kind \in {"EVR", "VMR9"} /\ ~m_pVideo.ctl
    BY <2>1 DEF DSShow_SetWindowHandle, SetWindowHandle, SetVideoWindow
  <2>2. CASE DSShow_Control
    BY <2>2 DEF DSShow_Control, Play, Pause, Stop, Control
  <2>3. CASE DSShow_ApplyOverlay
    BY <2>3 DEF DSShow_ApplyOverlay
  <2>. QED
    BY <1>5, <2>1, <2>2, <2>3 DEF Client, InitializePlayer, InitilizeRSTPSource, Initialize,
       SelectDecoder, SetFileName, DSShow_Close
<1>6. CASE Return \/ Delete \/ Environment \/ UNCHANGED vars
  BY <1>6 DEF Return, Delete, Environment, vars
<1>. QED
  BY <1>1, <1>2, <1>3, <1>4, <1>5, <1>6 DEF Next, Step

\* Every step keeps FaultsHaveCauses: the invariants give each fault its cause.
LEMMA FaultStep ==
  ASSUME "FindConnectedPin" \notin MayFail, TypeOK, SessionInv, ControlInv, MixerInv,
         RenderedInv, NoGraphInv, InterfaceInv, DecoderInv, FaultsHaveCauses, [Next]_vars
  PROVE  FaultsHaveCauses'
<1>. USE DEF FaultsHaveCauses, player, session, graphVars, Goto, Crash
<1>1. CASE fault # "none"
  BY <1>1, Dead DEF vars, graph, InRTSP
<1>2. CASE fault' \in {"none", "pWC", "pin", "pGraph2"}
  BY <1>2
<1>3. CASE QueryFilterGraph2 /\ fault' = "m_pGraph" /\ graph = Null
  BY <1>3 DEF QueryFilterGraph2, NoGraphInv
<1>4. CASE RemoveFilters /\ fault' = "m_pGraph" /\ graph = Null /\ filter # NoFilters
  BY <1>4 DEF RemoveFilters, NoGraphInv, NoFilters
<1>5. ASSUME FinalizeStreams \/ CloseRenderer PROVE fault' = fault
  <2>1. ASSUME FinalizeGraph(graph, "fault") PROVE FALSE
    <3>1. m_pVideo.ctl /\ graph = Null
      BY <2>1 DEF FinalizeGraph, RemoveUnconnectedRenderer
    <3>. QED
      BY <3>1 DEF ControlInv, SessionInv, RendererOfThisGraph
  <2>. QED
    BY <1>5, <2>1 DEF FinalizeStreams, CloseRenderer
<1>6. CASE GetCapabilities /\ fault' = "m_pSeek" /\ itf["m_pSeek"] = Null
  <2>1. pc = "GetCapabilities" /\ UNCHANGED call
    BY <1>6 DEF GetCapabilities
  <2>2. pc \in Building /\ pc \notin Asked /\ pc \in Making /\ pc # "CoCreateInstance"
    BY <2>1 DEF Building, Making, Labels, Asked
  <2>. QED
    BY <1>6, <2>1, <2>2 DEF InterfaceInv, Answered, SessionInv, InRTSP
<1>7. CASE GetPins /\ fault' = "pVideoDecoder" /\ filter["pVideoDecoder"] = Null
  BY <1>7 DEF GetPins, DecoderInv
<1>8. CASE DeleteAfterUnload /\ fault' = "released"
  BY <1>8 DEF DeleteAfterUnload
<1>9. CASE DSShow_Control /\ fault' = "m_pControl" /\ itf["m_pControl"] = Null
           /\ m_state # "STATE_CLOSED"
  <2>1. pc = "idle" /\ UNCHANGED filter
    BY <1>9 DEF DSShow_Control, Play, Pause, Stop, Control, Ready
  <2>2. pc \notin Asked
    BY <2>1 DEF Asked
  <2>. QED
    BY <1>9, <2>1, <2>2 DEF InterfaceInv, Answered, SessionInv, DecoderInv
<1>10. ASSUME NEW w \in Windows, DSShow_SetWindowHandle(w),
              \/ fault' = "m_pVideo" /\ m_pVideo.kind = "none"
              \/ fault' = "m_pWindowless" /\ m_pVideo.kind \in {"EVR", "VMR9"} /\ ~m_pVideo.ctl
       PROVE  FaultsHaveCauses'
  <2>1. pc = "idle" /\ UNCHANGED <<m_state, itf, connected>>
    BY <1>10 DEF DSShow_SetWindowHandle, SetWindowHandle, Ready
  <2>2. m_pVideo'.kind = m_pVideo.kind
    BY <1>10, SetWindowKeeps
  <2>3. m_state # "STATE_CLOSED" => connected[graph] # {} /\ Controlled
    BY <2>1 DEF RenderedInv
  <2>. QED
    BY <1>10, <2>1, <2>2, <2>3 DEF Controlled, graph
<1>11. CASE DSShow_ApplyOverlay /\ fault' = "pBmp" /\ m_pVideo.kind # "none" /\ pBmp = Null
  BY <1>11 DEF DSShow_ApplyOverlay, MixerInv, SessionInv, RendererOfThisGraph
<1>12. CASE fault = "none" /\ fault' # fault
  BY <1>2, <1>3, <1>4, <1>5, <1>6, <1>7, <1>8, <1>9, <1>10, <1>11, <1>12, FaultSteps
<1>. QED
  BY <1>1, <1>2, <1>12

\* The pointers the code uses without a test are NULL only in the situations
\* FaultsHaveCauses lists, however sessions fail and follow one another.
THEOREM FaultCauses ==
  ASSUME "FindConnectedPin" \notin MayFail
  PROVE  Spec => []FaultsHaveCauses
<1>1. Init => FaultsHaveCauses
  BY DEF Init, FaultsHaveCauses
<1>2. /\ TypeOK /\ SessionInv /\ ControlInv /\ MixerInv /\ RenderedInv /\ NoGraphInv
      /\ InterfaceInv /\ DecoderInv /\ FaultsHaveCauses /\ [Next]_vars
      => FaultsHaveCauses'
  BY FaultStep
<1>. QED
  BY <1>1, <1>2, TypeCorrect, SessionInvariant, ControlInvariant, MixerInvariant,
     RenderedInvariant, NoGraphInvariant, InterfaceInvariant, DecoderInvariant, PTL DEF Spec

-----------------------------------------------------------------------------
\* A caller that keeps to the protocol, on a thread that keeps COM, while the
\* graph manager gives what it is asked for.
Safe ==
  /\ Careful /\ ComInits > 0
  /\ {"CoCreateInstance", "QueryInterface", "GetPin", "Windowless", "FindConnectedPin"}
       \cap MayFail = {}

\* COM stays initialised, also after the CoUninitialize of a closing under way.
Closing == {"Close", "CloseRenderer", "CoUninitialize"}
ComInv == comInits > 0 /\ (pc \in Closing => comInits > 1)

\* ComInv holds: such a caller closes the player no more often than COM allows.
LEMMA ComInvariant == ASSUME Safe PROVE Spec => []ComInv
<1>1. Init => ComInv
  BY DEF Init, NoGraphs, ComInv, Closing, Safe
<1>2. ASSUME TypeOK, ComInv, [Next]_vars PROVE ComInv'
  <2>1. comInits \in Int
    BY <1>2, ComAssumption DEF TypeOK, GraphTypeOK
  <2>2. CASE CoUninitialize
    BY <1>2, <2>1, <2>2 DEF CoUninitialize, Goto, ComInv, Closing
  <2>3. CASE UNCHANGED comInits
    <3>1. pc' \in Closing => pc \in Closing \/ comInits > 1
      BY <1>2, ClosingReached DEF DSShow_Close, RemoveFilters, CloseRenderer, Closing, Safe
    <3>. QED
      BY <1>2, <2>3, <3>1 DEF ComInv
  <2>. QED
    BY <1>2, <2>2, <2>3, Changes
<1>. QED
  BY <1>1, <1>2, TypeCorrect, PTL DEF Spec

\* No RTSP call is in progress when none should be, and one in progress has a
\* decoder, no audio, and the graph's second interface from the VMR-9 on.
WithGraph2 == {"VMR9", "Load", "SetFileName", "GetPin", "Connect", "RenderEx"} \cup Roles
ProtocolInv ==
  /\ pc \in Closing \cup {"idle", "delete"} => ~InRTSP
  /\ InRTSP => m_selectedDecoder # "RENDER" /\ ~call.Audio
  /\ InRTSP /\ pc \in WithGraph2 => call.pGraph2

\* Every step keeps ProtocolInv.
LEMMA ProtocolStep ==
  ASSUME Safe, TypeOK, PlaceInv, ProtocolInv, [Next]_vars
  PROVE  ProtocolInv'
<1>. USE DEF InRTSP
<1>0. UNCHANGED call \/ Client \/ QueryFilterGraph2 \/ RenderPins \/ Return
  BY Changes
<1>1. CASE Return
  BY <1>1 DEF Return, NoCall, ProtocolInv
<1>2. ASSUME NEW op, NEW w, NEW audio \in BOOLEAN, NEW save, Initialize(op, w, audio, save)
      PROVE  ProtocolInv'
  <2>1. pc' = "TearDownGraph" /\ pc' \notin Closing \cup {"idle", "delete"} \cup WithGraph2
    BY <1>2 DEF Initialize, Goto, Closing, WithGraph2, Roles
  <2>2. call'.op = op /\ (call'.Audio <=> audio)
    BY <1>2, Zenon DEF Initialize, NoCall
  <2>3. ASSUME op = "InitilizeRSTPSource" PROVE ~audio /\ m_selectedDecoder' # "RENDER"
    <3>1. PICK c : c = [NoCall EXCEPT !.op = op, !.Audio = audio, !.SaveToFile = save]
      OBVIOUS
    <3>2. c.op = op /\ (c.Audio <=> audio)
      BY <3>1, Zenon DEF NoCall
    <3>3. Protocol(c)
      BY <1>2, <3>1 DEF Initialize, Safe
    <3>4. EnsurePlayer
      BY <1>2 DEF Initialize
    <3>. QED
      BY <2>3, <3>2, <3>3, <3>4 DEF Protocol, EnsurePlayer
  <2>. QED
    BY <2>1, <2>2, <2>3 DEF ProtocolInv
<1>3. ASSUME Client, UNCHANGED call PROVE ProtocolInv'
  <2>1. ~InRTSP
    BY <1>3, ClientIdle DEF ProtocolInv
  <2>. QED
    BY <1>3, <2>1 DEF ProtocolInv
<1>4. CASE ~Client /\ ~Return
  <2>1. /\ call'.op = call.op /\ (call'.Audio <=> call.Audio)
        /\ call.pGraph2 => call'.pGraph2
    <3>1. CASE UNCHANGED call
      BY <3>1
    <3>2. CASE \E b : call' = [call EXCEPT !.bRenderedAnyPin = b]
      BY <3>2, Zenon DEF TypeOK, Locals
    <3>3. CASE call' = [call EXCEPT !.pGraph2 = TRUE]
      BY <3>3, Zenon DEF TypeOK, Locals
    <3>. QED
      BY <1>0, <1>4, <3>1, <3>2, <3>3 DEF QueryFilterGraph2, RenderPins, Outcome, Safe
  <2>2. UNCHANGED m_selectedDecoder \/ Delete
    BY <1>4, Changes
  <2>3. CASE ~InRTSP
    BY <2>1, <2>3 DEF ProtocolInv
  <2>4. CASE InRTSP
    <3>1. pc \notin Closing \cup {"idle", "delete"}
      BY <2>4 DEF ProtocolInv
    <3>2. ~Delete /\ ~CloseRenderer /\ ~RemoveFilters /\ ~CoUninitialize /\ ~DSShow_Close
      BY <3>1 DEF Delete, CloseRenderer, RemoveFilters, CoUninitialize, DSShow_Close, Ready, Closing
    <3>3. pc' \notin Closing \cup {"idle", "delete"}
      BY <1>4, <3>1, <3>2, ClosingReached DEF Closing
    <3>4. ASSUME pc' \in WithGraph2 PROVE call'.pGraph2
      <4>1. CASE pc \in WithGraph2
        BY <2>1, <2>4, <4>1 DEF ProtocolInv
      <4>2. ASSUME NEW k \in Renderers, CreateVideoRenderer(k) PROVE pc \in WithGraph2
        BY <2>4, <4>2 DEF CreateVideoRenderer, Renderers, PlaceInv, OfFile, WithGraph2
      <4>3. CASE pc' # pc /\ pc' # "VMR9"
        <5>1. pc \in Rendering => pc \in WithGraph2
          BY <2>4 DEF PlaceInv, OfFile, Rendering, WithGraph2
        <5>. QED
          BY <3>4, <4>1, <4>2, <4>3, <5>1, RenderingReached DEF Rendering, WithGraph2
      <4>4. CASE QueryFilterGraph2 /\ pc' # pc
        <5>1. call' = [call EXCEPT !.pGraph2 = TRUE]
          BY <4>4 DEF QueryFilterGraph2, Crash, Outcome, Safe
        <5>. QED
          BY <5>1, Zenon DEF TypeOK, Locals
      <4>. QED
        BY <3>4, <4>1, <4>2, <4>3, <4>4, Reached DEF Renderers
    <3>. QED
      BY <2>1, <2>2, <2>4, <3>2, <3>3, <3>4 DEF ProtocolInv
  <2>. QED
    BY <2>3, <2>4
<1>. QED
  BY <1>1, <1>2, <1>3, <1>4, ClientIdle DEF InitializePlayer, InitilizeRSTPSource

\* ProtocolInv holds of every session of such a caller.
LEMMA ProtocolInvariant == ASSUME Safe PROVE Spec => []ProtocolInv
<1>1. Init => ProtocolInv
  BY DEF Init, NoCall, InRTSP, ProtocolInv, WithGraph2, Roles
<1>2. TypeOK /\ PlaceInv /\ ProtocolInv /\ [Next]_vars => ProtocolInv'
  BY ProtocolStep
<1>. QED
  BY <1>1, <1>2, TypeCorrect, PlaceInvariant, PTL DEF Spec

\* Only the renderers of its graph are connected, and a graph has none until
\* one is made for it; a failed VMR-9 may be left behind under a VMR-7.
Unrendered == Asked \cup {"SetNotifyWindow", "AddSourceFilter", "RenderStreams", "IFilterGraph2",
                          "EVR", "VMR9"}
GraphsInv == \A g \in Graphs : /\ connected[g] \subseteq renderers[g]
                               /\ mode[g] = "absent" => renderers[g] = {}
AloneInv ==
  /\ graph # Null /\ pc \in Unrendered => renderers[graph] = {}
  /\ m_pVideo.kind \in {"EVR", "VMR9"} => renderers[graph] \subseteq {m_pVideo.kind}

\* Every step keeps GraphsInv: a renderer is put into a graph before it is connected.
LEMMA GraphsStep ==
  ASSUME Safe, TypeOK, SessionInv, GraphsInv, [Next]_vars
  PROVE  GraphsInv'
<1>. USE DEF graphVars, player, session
<1>1. ASSUME NEW k \in Renderers, CreateVideoRenderer(k) PROVE GraphsInv'
  <2>1. UNCHANGED <<mode, connected>> /\ graph # Null
    BY <1>1 DEF CreateVideoRenderer, SessionInv, Building, Labels, Renderers, Interfaces, Roles
  <2>2. mode[graph] # "absent"
    BY <2>1 DEF SessionInv, Live
  <2>3. UNCHANGED renderers \/ renderers' = [renderers EXCEPT ![graph] = @ \cup {k}]
    BY <1>1 DEF CreateVideoRenderer, AddToGraph
  <2>. QED
    BY <2>1, <2>2, <2>3 DEF GraphsInv, TypeOK, GraphTypeOK
<1>2. CASE FinalizeStreams \/ CloseRenderer
  <2>1. UNCHANGED <<mode, connected>>
    BY <1>2, FinalizeGraphGoes DEF FinalizeStreams, CloseRenderer, SessionInv, Safe
  <2>2. \/ UNCHANGED renderers
        \/ /\ m_pVideo.kind \notin connected[graph]
           /\ renderers' = [renderers EXCEPT ![graph] = @ \ {m_pVideo.kind}]
    BY <1>2, FinalizeGraphGoes DEF FinalizeStreams, CloseRenderer, SessionInv, Safe
  <2>. QED
    BY <2>1, <2>2 DEF GraphsInv, TypeOK, GraphTypeOK
<1>3. CASE RenderPins \/ RenderDecoder \/ RemoveFilters
  <2>1. UNCHANGED <<mode, renderers>>
    BY <1>3 DEF RenderPins, RenderDecoder, RemoveFilters
  <2>2. \/ UNCHANGED connected
        \/ \E S \in SUBSET renderers[graph] :
             connected' = [connected EXCEPT ![graph] = @ \cup S]
        \/ connected' = [connected EXCEPT ![graph] = {}]
    BY <1>3 DEF RenderPins, RenderDecoder, RemoveFilters
  <2>. QED
    BY <2>1, <2>2 DEF GraphsInv, TypeOK, GraphTypeOK
<1>4. ASSUME UNCHANGED <<renderers, connected>>,
             CoCreateInstance \/ Delete \/ DSShow_Control \/ Environment
      PROVE  GraphsInv'
  <2>1. \A g \in Graphs : mode'[g] = "absent" => mode[g] = "absent"
    BY <1>4 DEF CoCreateInstance, NewGraph, Delete, DeletePlayer, ReleaseInterfaces, Release,
         DSShow_Control, Play, Pause, Stop, Control, Environment, Abort, TypeOK, GraphTypeOK
  <2>. QED
    BY <1>4, <2>1 DEF GraphsInv
<1>5. CASE UNCHANGED <<mode, renderers, connected>>
  BY <1>5 DEF GraphsInv
<1>. QED
  BY <1>1, <1>2, <1>3, <1>4, <1>5, Changes

\* GraphsInv holds of every session of such a caller.
LEMMA GraphsInvariant == ASSUME Safe PROVE Spec => []GraphsInv
<1>1. Init => GraphsInv
  BY DEF Init, NoGraphs, GraphsInv
<1>2. TypeOK /\ SessionInv /\ GraphsInv /\ [Next]_vars => GraphsInv'
  BY GraphsStep
<1>. QED
  BY <1>1, <1>2, TypeCorrect, SessionInvariant, PTL DEF Spec

\* Every step keeps AloneInv, along the renderers CreateVideoRenderer tries.
LEMMA AloneStep ==
  ASSUME Safe, TypeOK, SessionInv, GraphsInv, AloneInv, [Next]_vars
  PROVE  AloneInv'
<1>. USE DEF graphVars, player, session
<1>1. ASSUME NEW k \in Renderers, CreateVideoRenderer(k) PROVE AloneInv'
  <2>1. graph' = graph /\ graph \in Graphs /\ pc = k
    <3>1. pc = k /\ UNCHANGED itf
      BY <1>1 DEF CreateVideoRenderer
    <3>2. graph # Null
      BY <3>1 DEF SessionInv, Building, Labels, Renderers, Interfaces, Roles
    <3>. QED
      BY <3>1, <3>2, GraphType DEF graph, TypeOK, Graphs, Null
  <2>2. k \in {"EVR", "VMR9"} => renderers[graph] = {}
    BY <2>1 DEF AloneInv, Unrendered, Graphs, Null
  <2>3. CASE AddToGraph(k, graph, "ok") /\ m_pVideo' = Renderer(k, graph, m_hwndVideo)
             /\ pc' \in {"AddDecoder", "pLeadToolsRTSPSource"}
    <3>1. pc' \notin Unrendered
      BY <2>3 DEF Unrendered, Asked
    <3>2. m_pVideo'.kind = k
      BY <2>3 DEF Renderer
    <3>3. renderers'[graph] = renderers[graph] \cup {k}
      BY <2>1, <2>3 DEF AddToGraph, TypeOK, GraphTypeOK
    <3>. QED
      BY <2>1, <2>2, <3>1, <3>2, <3>3 DEF AloneInv
  <2>4. CASE AddToGraph(k, graph, "failed") /\ m_pVideo' = NoVideo
             /\ (pc' \in Unrendered => pc = "EVR")
    <3>1. k = "EVR" => UNCHANGED renderers
      BY <2>4 DEF AddToGraph, InitializeEVR, Outcome, Safe
    <3>. QED
      BY <2>1, <2>2, <2>4, <3>1 DEF AloneInv, NoVideo
  <2>5. ~AddToGraph(k, graph, "fault")
    BY DEF AddToGraph, InitializeEVR, InitWindowlessVMR, InitWindowlessVMR9, Outcome, Safe
  <2>6. /\ {"failed", "VMR7"} \cap Unrendered = {}
    BY DEF Unrendered, Asked
  <2>. QED
    BY <1>1, <2>3, <2>4, <2>5, <2>6, CreateVideoRendererGoes
<1>2. CASE FinalizeStreams \/ CloseRenderer
  <2>1. /\ m_pVideo'.kind = m_pVideo.kind
        /\ \/ UNCHANGED renderers
           \/ renderers' = [renderers EXCEPT ![graph] = @ \ {m_pVideo.kind}]
    BY <1>2, FinalizeGraphGoes DEF FinalizeStreams, CloseRenderer, SessionInv, Safe
  <2>2. pc' \notin Unrendered /\ UNCHANGED itf
    BY <1>2 DEF FinalizeStreams, CloseRenderer, Goto, Crash, Unrendered, Asked
  <2>. QED
    BY <2>1, <2>2 DEF AloneInv, TypeOK, GraphTypeOK, graph
<1>3. CASE CoCreateInstance
  <2>1. m_pVideo' = NoVideo /\ UNCHANGED renderers
    BY <1>3 DEF CoCreateInstance, NewGraph, SessionInv
  <2>2. ASSUME NEW g \in Graphs, NewGraph(g), itf' = [itf EXCEPT !["m_pGraph"] = g]
        PROVE  renderers'[graph'] = {}
    BY <2>1, <2>2 DEF NewGraph, GraphsInv, graph, TypeOK, PlayerTypeOK, Interfaces
  <2>3. ASSUME itf' = [itf EXCEPT !["m_pGraph"] = Null] PROVE graph' = Null
    BY <2>3 DEF graph, TypeOK, PlayerTypeOK, Interfaces
  <2>4. graph' = Null \/ renderers'[graph'] = {}
    BY <1>3, <2>2, <2>3, Zenon DEF CoCreateInstance
  <2>. QED
    BY <2>1, <2>4 DEF AloneInv, NoVideo
<1>4. CASE Delete
  BY <1>4 DEF Delete, DeletePlayer, TearDownGraph, NoVideo, AloneInv, graph, Interfaces
<1>5. ASSUME UNCHANGED renderers, ~CoCreateInstance, ~Delete,
             ~\E k \in Renderers : CreateVideoRenderer(k)
      PROVE  AloneInv'
  <2>1. graph' = graph
    BY <1>5, Changes DEF QueryInterface, graph, TypeOK, PlayerTypeOK, Interfaces
  <2>2. ASSUME pc' \in Unrendered, pc' # pc PROVE pc \in Unrendered
    BY <1>5, <2>2, Reached
       DEF Unrendered, Asked, QueryInterface, SetNotifyWindow, AddSourceFilter, RenderStreams,
           QueryFilterGraph2, Renderers, Interfaces
  <2>3. m_pVideo' = NoVideo \/ m_pVideo'.kind = m_pVideo.kind
    BY <1>5, VideoMoves
  <2>. QED
    BY <1>5, <2>1, <2>2, <2>3 DEF AloneInv, NoVideo
<1>. QED
  BY <1>1, <1>2, <1>3, <1>4, <1>5, Changes

\* AloneInv holds of every session of such a caller.
LEMMA AloneInvariant == ASSUME Safe PROVE Spec => []AloneInv
<1>1. Init => AloneInv
  BY DEF Init, Construct, NoVideo, AloneInv, graph, Interfaces
<1>2. TypeOK /\ SessionInv /\ GraphsInv /\ AloneInv /\ [Next]_vars => AloneInv'
  BY AloneStep
<1>. QED
  BY <1>1, <1>2, TypeCorrect, SessionInvariant, GraphsInvariant, PTL DEF Spec

\* No step of such a caller causes a fault, cause by cause.
LEMMA NoFaultStep ==
  ASSUME Safe, TypeOK, SessionInv, PlaceInv, ComInv, ComInv', ProtocolInv, GraphsInv, AloneInv,
         FaultsHaveCauses', NoFault, [Next]_vars
  PROVE  NoFault'
<1>. USE DEF player, session, graphVars, Goto, Crash
<1>. SUFFICES ASSUME fault' # fault PROVE FALSE
  BY DEF NoFault
<1>1. comInits # 0 /\ comInits' # 0
  BY ComAssumption DEF ComInv, TypeOK, GraphTypeOK
<1>2. fault' \notin {"m_pGraph", "m_pSeek", "m_pControl", "released"}
  BY <1>1 DEF FaultsHaveCauses, Safe
<1>3. ASSUME NEW k \in Renderers, CreateVideoRenderer(k), fault' = "pWC" PROVE FALSE
  BY <1>3 DEF NoFault, CreateVideoRenderer, AddToGraph, InitializeEVR, InitWindowlessVMR,
              InitWindowlessVMR9, Outcome, Safe
<1>4. ~(FinalizeStreams \/ CloseRenderer)
  BY <1>2 DEF FinalizeStreams, CloseRenderer
<1>5. ~(GetPins /\ fault' \in {"pVideoDecoder", "pin"})
  <2>1. SUFFICES ASSUME GetPins, fault' = "pVideoDecoder" PROVE FALSE
    BY DEF GetPins, Safe
  <2>2. pc = "GetPin" /\ UNCHANGED <<call, m_selectedDecoder>>
    BY <2>1 DEF GetPins
  <2>3. InRTSP
    BY <2>2 DEF PlaceInv, OfRTSP
  <2>4. m_selectedDecoder # "RENDER" /\ ~call.Audio
    BY <2>3 DEF ProtocolInv
  <2>. QED
    BY <2>1, <2>2, <2>4 DEF FaultsHaveCauses
<1>6. ~(ConnectPins /\ fault' \in {"pin", "pGraph2"})
  <2>1. pc = "Connect" => call.pGraph2
    BY DEF PlaceInv, OfRTSP, ProtocolInv, WithGraph2
  <2>. QED
    BY <2>1 DEF ConnectPins, Safe
<1>7. ~(RenderDecoder /\ fault' = "pin")
  BY DEF RenderDecoder, Safe
<1>8. ASSUME NEW w \in Windows, DSShow_SetWindowHandle(w), fault' \in {"m_pVideo", "m_pWindowless"}
      PROVE  FALSE
  <2>1. m_state # "STATE_CLOSED" /\ UNCHANGED <<m_state, itf, connected>> /\ graph # Null
    BY <1>8 DEF DSShow_SetWindowHandle, SetWindowHandle, Safe, SessionInv
  <2>2. fault' = "m_pWindowless"
    BY <1>8, <2>1 DEF FaultsHaveCauses
  <2>3. m_pVideo'.kind = m_pVideo.kind
    BY <1>8, SetWindowKeeps
  <2>4. connected[graph] \ {m_pVideo.kind} # {}
    BY <2>1, <2>2, <2>3 DEF FaultsHaveCauses, graph
  <2>5. m_pVideo.kind \in {"EVR", "VMR9"}
    BY <1>8, <2>2, FaultSteps
       DEF DSShow_SetWindowHandle, SetWindowHandle, SetVideoWindow, NoFault
  <2>6. connected[graph] \subseteq renderers[graph] /\ renderers[graph] \subseteq {m_pVideo.kind}
    BY <2>1, <2>5, GraphType DEF GraphsInv, AloneInv, TypeOK, Graphs, Null
  <2>. QED
    BY <2>4, <2>6
<1>9. ~(DSShow_ApplyOverlay /\ fault' = "pBmp")
  <2>1. SUFFICES ASSUME DSShow_ApplyOverlay, fault' = "pBmp" PROVE FALSE
    OBVIOUS
  <2>2. m_pVideo.kind = "VMR9" /\ UNCHANGED m_pVideo
    BY <2>1 DEF DSShow_ApplyOverlay, Safe
  <2>. QED
    BY <2>1, <2>2 DEF FaultsHaveCauses
<1>. QED
  BY <1>2, <1>3, <1>4, <1>5, <1>6, <1>7, <1>8, <1>9, FaultSteps

\* A caller that keeps to the protocol never makes the library use a NULL or
\* dead pointer, as long as the calls Safe names do not fail.
THEOREM NoFaultFor ==
  ASSUME Safe
  PROVE  Spec => []NoFault
<1>1. "FindConnectedPin" \notin MayFail
  BY DEF Safe
<1>2. Init => NoFault
  BY DEF Init, NoFault
<1>3. /\ TypeOK /\ SessionInv /\ PlaceInv /\ ComInv /\ ComInv' /\ ProtocolInv /\ GraphsInv
      /\ AloneInv /\ FaultsHaveCauses' /\ NoFault /\ [Next]_vars
      => NoFault'
  BY NoFaultStep
<1>. QED
  BY <1>1, <1>2, <1>3, TypeCorrect, SessionInvariant, PlaceInvariant, ComInvariant,
     ProtocolInvariant, GraphsInvariant, AloneInvariant, FaultCauses, PTL DEF Spec
=============================================================================
