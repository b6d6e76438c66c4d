------------------------------ MODULE Connection ------------------------------
(***************************************************************************)
(* CBasePin, CBaseOutputPin and CBaseInputPin: how an output pin and an    *)
(* input pin agree on a media type and an allocator, give up half way, and *)
(* part again.  One call of the graph manager is under way at a time; each *)
(* pin belongs to a filter of its own.                                     *)
(***************************************************************************)
EXTENDS Integers, Sequences, FiniteSets

CONSTANTS
    Outs, Ins,      \* output and input pins
    Types,          \* media types
    NoPin, NoType, NoAlloc,
    Prefers,        \* the types a pin enumerates, in order
    Accepts,        \* the types CheckMediaType of a pin accepts
    MyTypesFirst,   \* m_bTryMyTypesFirst of the output pins
    Dynamic,        \* pins with m_bCanReconnectWhenActive
    MayFail         \* what may fail: "transport", "receive", "get", "size", "notify"

Pins == Outs \cup Ins

ConnectionAssumption ==
    /\ IsFiniteSet(Pins) /\ Outs \cap Ins = {} /\ Dynamic \subseteq Pins
    /\ NoPin \notin Pins /\ NoType \notin Types /\ NoAlloc \notin Pins
    /\ Prefers \in [Pins -> Seq(Types)] /\ Accepts \in [Pins -> SUBSET Types]
    /\ MyTypesFirst \in BOOLEAN

VARIABLES
    connected,      \* m_Connected of each pin
    mt,             \* m_mt
    memPin,         \* m_pInputPin of the output pins
    alloc,          \* m_pAllocator; an allocator is named after the pin that made it
    allocRefs,      \* the references on each allocator
    committed,      \* the allocators that are committed
    active,         \* pins whose filter is not stopped
    pc,             \* what the call under way does next
    call,           \* its pins, wanted type, type at hand, types left and round
    result          \* of the last Connect

pinVars == <<connected, mt, memPin>>
allocVars == <<alloc, allocRefs, committed>>
vars == <<pinVars, allocVars, active, pc, call, result>>

NoCall == [o |-> NoPin, i |-> NoPin, want |-> NoType, type |-> NoType, left |-> <<>>, round |-> 0]

Init ==
    /\ connected = [p \in Pins |-> NoPin] /\ mt = [p \in Pins |-> NoType]
    /\ memPin = [o \in Outs |-> NoPin]
    /\ alloc = [p \in Pins |-> NoAlloc] /\ allocRefs = [p \in Pins |-> 0] /\ committed = {}
    /\ active = {} /\ pc = "idle" /\ call = NoCall /\ result = "none"

Fail(what) == what \in MayFail
Busy(p) == p \in active /\ p \notin Dynamic

\* What becomes of the references when pin p lets its allocator go for a, or for
\* NoAlloc.
Reref(refs, p, a) ==
    [b \in Pins |-> refs[b] + (IF b = a THEN 1 ELSE 0) - (IF b = alloc[p] THEN 1 ELSE 0)]

\* BreakConnect: decommit, and let go.
BreakConnect(p) ==
    /\ committed' = committed \ {alloc[p]}
    /\ allocRefs' = Reref(allocRefs, p, NoAlloc)
    /\ alloc' = [alloc EXCEPT ![p] = NoAlloc]
    /\ memPin' = IF p \in Outs THEN [memPin EXCEPT ![p] = NoPin] ELSE memPin

-----------------------------------------------------------------------------
\* CBasePin::Connect of o with i; a type t means that it is fully specified.
Refused(o) == connected[o] # NoPin \/ Busy(o)

Connect ==
    \E o \in Outs, i \in Ins, t \in Types \cup {NoType} :
        /\ pc = "idle"
        /\ IF Refused(o)
           THEN result' = "refused" /\ UNCHANGED <<pc, call>>
           ELSE /\ call' = [NoCall EXCEPT !.o = o, !.i = i, !.want = t, !.type = t]
                /\ pc' = IF t = NoType THEN "agree" ELSE "attempt"
                /\ result' = "none"
        /\ UNCHANGED <<pinVars, allocVars, active>>

\* AgreeMediaType and TryMediaTypes: the next type of one list and of the other.
Enumerator(round) == IF (round = 0) = MyTypesFirst THEN call.o ELSE call.i

\* A slip in Enumerate: only the media types of one of the two pins are tried.
Enumerate_One ==
    /\ pc = "agree" /\ call.round = 0
    /\ call' = [call EXCEPT !.left = Prefers[Enumerator(call.round)], !.round = 2]
    /\ pc' = "types"
    /\ UNCHANGED <<pinVars, allocVars, active, result>>

Enumerate ==
    /\ pc = "agree" /\ call.round < 2
    /\ call' = [call EXCEPT !.left = Prefers[Enumerator(call.round)], !.round = @ + 1]
    /\ pc' = "types"
    /\ UNCHANGED <<pinVars, allocVars, active, result>>

NextType ==
    /\ pc = "types"
    /\ IF call.left = <<>> THEN pc' = "agree" /\ UNCHANGED call
       ELSE /\ call' = [call EXCEPT !.left = Tail(@), !.type = Head(call.left)]
            /\ pc' = "attempt"
    /\ UNCHANGED <<pinVars, allocVars, active, result>>

NoneAgreed ==
    /\ pc = "agree" /\ call.round = 2
    /\ BreakConnect(call.o)
    /\ pc' = "idle" /\ call' = NoCall /\ result' = "failed"
    /\ UNCHANGED <<connected, mt, active>>

\* AttemptConnection: the transport, the type, and then the pin looks connected.
Attempt ==
    LET o == call.o IN
    /\ pc = "attempt"
    /\ \/ /\ call.type \in Accepts[o]
          /\ connected' = [connected EXCEPT ![o] = call.i]
          /\ mt' = [mt EXCEPT ![o] = call.type]
          /\ memPin' = [memPin EXCEPT ![o] = call.i]
          /\ pc' = "receive"
       \/ /\ call.type \notin Accepts[o] \/ Fail("transport")
          /\ pc' = "undo"
          /\ \/ Fail("transport") /\ UNCHANGED memPin
             \/ call.type \notin Accepts[o] /\ memPin' = [memPin EXCEPT ![o] = call.i]
          /\ UNCHANGED <<connected, mt>>
    /\ UNCHANGED <<allocVars, active, call, result>>

\* The input pin's ReceiveConnection.
ReceiveConnection ==
    LET i == call.i
        refuses == connected[i] # NoPin \/ Busy(i)
        rejects == call.type \notin Accepts[i]
    IN
    /\ pc = "receive"
    /\ \/ /\ ~refuses /\ ~rejects
          /\ connected' = [connected EXCEPT ![i] = call.o]
          /\ mt' = [mt EXCEPT ![i] = call.type]
          /\ pc' = "decideIn"
          /\ UNCHANGED <<allocVars, memPin>>
       \/ /\ refuses
          /\ pc' = "undo"
          /\ UNCHANGED <<pinVars, allocVars>>
       \/ /\ ~refuses /\ (rejects \/ Fail("receive"))
          /\ mt' = IF rejects THEN mt ELSE [mt EXCEPT ![i] = call.type]
          /\ BreakConnect(i)
          /\ pc' = "undo"
          /\ UNCHANGED connected
    /\ UNCHANGED <<active, call, result>>

\* DecideAllocator.  Both pins hold allocator a, or the next thing is tried and
\* the output pin has let its candidate go.
Agreed(a, refs) ==
    /\ alloc' = [alloc EXCEPT ![call.o] = a, ![call.i] = a]
    /\ allocRefs' = [b \in Pins |-> refs[b] + (IF b = a THEN 2 ELSE 0) - (IF b = alloc[call.i] THEN 1 ELSE 0)]
    /\ pc' = "idle" /\ call' = NoCall /\ result' = "connected"

\* The input pin's own allocator, which it makes when it is first asked.
DecideIn ==
    LET i == call.i
        makes == alloc[i] = NoAlloc
        a == IF makes THEN i ELSE alloc[i]
    IN
    /\ pc = "decideIn"
    /\ \/ Agreed(a, allocRefs)
       \/ /\ MayFail \cap {"get", "size", "notify"} # {}
          /\ pc' = "decideOut"
          /\ \/ Fail("get") /\ makes /\ UNCHANGED <<alloc, allocRefs>>
             \/ /\ Fail("size") \/ Fail("notify")
                /\ alloc' = [alloc EXCEPT ![i] = a]
                /\ allocRefs' = Reref(allocRefs, i, a)
          /\ UNCHANGED <<call, result>>
    /\ UNCHANGED <<pinVars, committed, active>>

\* The output pin's own.
DecideOut ==
    /\ pc = "decideOut"
    /\ \/ Agreed(call.o, allocRefs)
       \/ /\ MayFail \cap {"get", "size", "notify"} # {}
          /\ pc' = "disconnect"
          /\ UNCHANGED <<alloc, allocRefs, call, result>>
    /\ UNCHANGED <<pinVars, committed, active>>

\* The connection was complete at the other end: it is asked to disconnect.
DisconnectOther ==
    /\ pc = "disconnect"
    /\ pc' = "undo"
    /\ IF call.i \in active THEN UNCHANGED <<allocVars, connected, memPin>>
       ELSE BreakConnect(call.i) /\ connected' = [connected EXCEPT ![call.i] = NoPin]
    /\ UNCHANGED <<mt, active, call, result>>

\* A slip in Undo: BreakConnect of the output pin is not called.
Undo_Keeps ==
    /\ pc = "undo"
    /\ connected' = [connected EXCEPT ![call.o] = NoPin]
    /\ IF call.want = NoType THEN pc' = "types" /\ UNCHANGED <<call, result>>
       ELSE pc' = "idle" /\ call' = NoCall /\ result' = "failed"
    /\ UNCHANGED <<mt, memPin, allocVars, active>>

Undo ==
    /\ pc = "undo"
    /\ BreakConnect(call.o)
    /\ connected' = [connected EXCEPT ![call.o] = NoPin]
    /\ IF call.want = NoType THEN pc' = "types" /\ UNCHANGED <<call, result>>
       ELSE pc' = "idle" /\ call' = NoCall /\ result' = "failed"
    /\ UNCHANGED <<mt, active>>

-----------------------------------------------------------------------------
\* The graph manager disconnects both pins of a stopped connection.
Disconnect ==
    \E o \in Outs :
        /\ pc = "idle" /\ connected[o] # NoPin /\ o \notin active /\ connected[o] \notin active
        /\ pc' = "part" /\ call' = [NoCall EXCEPT !.o = o, !.i = connected[o]]
        /\ BreakConnect(o)
        /\ connected' = [connected EXCEPT ![o] = NoPin]
        /\ UNCHANGED <<mt, active, result>>

Part ==
    /\ pc = "part"
    /\ pc' = "idle" /\ call' = NoCall
    /\ BreakConnect(call.i)
    /\ connected' = [connected EXCEPT ![call.i] = NoPin]
    /\ UNCHANGED <<mt, active, result>>

\* Pause of a filter commits its output pin's allocator, Stop decommits.
Pause ==
    \E p \in Pins :
        /\ pc = "idle" /\ p \notin active
        /\ active' = active \cup {p}
        /\ committed' = IF p \in Outs /\ connected[p] # NoPin THEN committed \cup {alloc[p]} ELSE committed
        /\ UNCHANGED <<pinVars, alloc, allocRefs, pc, call, result>>

Stop ==
    \E p \in Pins :
        /\ pc = "idle" /\ p \in active
        /\ active' = active \ {p}
        /\ committed' = IF connected[p] # NoPin THEN committed \ {alloc[p]} ELSE committed
        /\ UNCHANGED <<pinVars, alloc, allocRefs, pc, call, result>>

Connecting ==
    \/ Enumerate \/ NextType \/ NoneAgreed \/ Attempt \/ ReceiveConnection
    \/ DecideIn \/ DecideOut \/ DisconnectOther \/ Undo \/ Part

Next == Connect \/ Connecting \/ Disconnect \/ Pause \/ Stop

Fairness == WF_vars(Connecting)
Spec == Init /\ [][Next]_vars /\ Fairness

-----------------------------------------------------------------------------
\* Every variable has its type.
TypeOK ==
    /\ connected \in [Pins -> Pins \cup {NoPin}] /\ mt \in [Pins -> Types \cup {NoType}]
    /\ alloc \in [Pins -> Pins \cup {NoAlloc}]
    /\ \A p \in Pins : allocRefs[p] \in Nat
    /\ committed \subseteq Pins /\ active \subseteq Pins

AtRest == pc = "idle"

\* "Failing this will also fail the connection and disconnect the other pin as
\* well": whatever failed on the way, both pins or none are connected.
BothOrNone ==
    AtRest => \A o \in Outs, i \in Ins : connected[o] = i <=> connected[i] = o

\* Two connected pins have agreed: one type that both accept, one live allocator.
ConnectedAgree ==
    AtRest => \A o \in Outs : connected[o] # NoPin =>
        LET i == connected[o] IN
        /\ mt[o] = mt[i] /\ mt[o] \in Accepts[o] \cap Accepts[i]
        /\ alloc[o] = alloc[i] /\ alloc[o] # NoAlloc
        /\ memPin[o] = i

\* A pin that is not connected keeps nothing of its attempts.
NothingKept ==
    AtRest => \A p \in Pins : connected[p] = NoPin =>
        alloc[p] = NoAlloc /\ (p \in Outs => memPin[p] = NoPin)

\* Every reference on an allocator has a pin that will release it.
RefsHaveHolders == \A a \in Pins : allocRefs[a] = Cardinality({p \in Pins : alloc[p] = a})

\* Memory is committed only for a connection whose output pin is active.
CommittedInUse ==
    \A a \in committed : \E o \in Outs : alloc[o] = a /\ o \in active /\ connected[o] # NoPin

Suits(o, i, t) == t \in Accepts[o] \cap Accepts[i]
Listed(p) == {Prefers[p][k] : k \in DOMAIN Prefers[p]}
\* A connection that could be made is made: if nothing but types can fail, and
\* the input pin is free, a failed Connect means no listed type suits both.
HasReason ==
    MayFail = {} /\ connected[call.i] = NoPin /\ ~Busy(call.i) =>
        IF call.want # NoType THEN ~Suits(call.o, call.i, call.want)
        ELSE \A t \in Listed(call.o) \cup Listed(call.i) : ~Suits(call.o, call.i, t)
\* Connect fails for such a reason only (AgreeMediaType).
FailsForAReason == [][pc # "idle" /\ result' = "failed" => HasReason]_vars

\* Every call comes to its end.
CallsReturn == pc # "idle" ~> pc = "idle"
=============================================================================
