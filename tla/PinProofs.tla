------------------------------ MODULE PinProofs ------------------------------
(***************************************************************************)
(* Proofs about pins, filters and samples: Connection, for any pins, types *)
(* and failures; BaseFilter, for any number of pins; EnumPins and          *)
(* EnumMediaTypes, for any lists, changes and enumerators; MediaSample and *)
(* AllocSize, for any values; DynamicPin, for any applications.            *)
(***************************************************************************)
EXTENDS Connection, FiniteSetTheorems, SequenceTheorems, TLAPS

CONSTANTS
    NPins, Connected, ActiveMayFail, Clocks, NoClock, MaxSessions,    \* of BaseFilter
    FilterPins, First, Enums, NoEnum, MaxWant, Changes,               \* of EnumPins
    Offers, MaxPosition, MemoryFails,                                 \* of EnumMediaTypes
    Times, MediaTimes, MediaBits, SampleSizes, Prefixes,              \* of MediaSample
    StopFlagAlone, NoTypeMemory,
    Bits, Granularity, Requests,                                      \* of AllocSize
    Apps, NoApp, MaxUsers, ChangeFails                                \* of DynamicPin

VARIABLES
    state, pins, filterPc, at, last, flushing, error, session, receive,
    clock, newClock, clockRefs,
    list, version, changed, changes, enum, owner, next, seen,
    offer, typesVersion, replaced, typesEnum, typesOwner, typesCall, typesSeen,
    s, inUse, given, media, sampleResult,
    req, props, block,
    pinActive, pinFlushing, stopEvent, unblockEvent, blockState, blockCaller,
    notify, users, stream, pinCommitted, app, event

Filter == INSTANCE BaseFilter WITH pc <- filterPc, c <- at

PinList == INSTANCE EnumPins WITH Pins <- FilterPins, call <- next

TypeList == INSTANCE EnumMediaTypes
    WITH version <- typesVersion, enum <- typesEnum, owner <- typesOwner,
    call <- typesCall, seen <- typesSeen

Sample == INSTANCE MediaSample WITH Sizes <- SampleSizes, result <- sampleResult

Size == INSTANCE AllocSize

OutPin == INSTANCE DynamicPin
    WITH active <- pinActive, flushing <- pinFlushing, committed <- pinCommitted

-----------------------------------------------------------------------------
\* Connection.  Between calls an output pin has nothing, or a partner with which
\* it agrees; during a call the pins of the call are somewhere between the two.
Fresh(o) == connected[o] = NoPin /\ alloc[o] = NoAlloc /\ memPin[o] = NoPin

\* The two pins look connected, with one type.
Linked(o, i) ==
    /\ connected[o] = i /\ connected[i] = o /\ memPin[o] = i
    /\ mt[o] = mt[i] /\ mt[o] \in Accepts[o] \cap Accepts[i]

Paired(o) ==
    /\ connected[o] \in Ins /\ Linked(o, connected[o])
    /\ alloc[o] = alloc[connected[o]] /\ alloc[o] # NoAlloc

Labels == {"idle", "agree", "types", "attempt", "receive", "undo", "decideIn", "decideOut",
           "disconnect", "part"}

\* What a call's record is.
Calls == [o : Outs \cup {NoPin}, i : Ins \cup {NoPin}, want : Types \cup {NoType},
          type : Types \cup {NoType}, left : Seq(Types), round : Nat]

\* The types.
Typed ==
    /\ connected \in [Pins -> Pins \cup {NoPin}] /\ mt \in [Pins -> Types \cup {NoType}]
    /\ memPin \in [Outs -> Ins \cup {NoPin}] /\ alloc \in [Pins -> Pins \cup {NoAlloc}]
    /\ allocRefs \in [Pins -> Int] /\ committed \subseteq Pins /\ active \subseteq Pins
    /\ pc \in Labels
    /\ call \in Calls
    /\ pc # "idle" => call.o \in Outs /\ call.i \in Ins

\* The pins that no call is about.
RestInv ==
    /\ \A o \in Outs : pc = "idle" \/ o # call.o => Fresh(o) \/ Paired(o)
    /\ \A i \in Ins : connected[i] = NoPin => alloc[i] = NoAlloc

\* The two pins of the call under way.
CallInv ==
    /\ pc # "idle" => alloc[call.o] = NoAlloc
    /\ pc \in {"agree", "types", "attempt", "part"} => Fresh(call.o)
    /\ pc = "attempt" => call.type \in Types
    /\ pc \in {"receive", "disconnect"} => connected[call.o] = call.i /\ memPin[call.o] = call.i
    /\ pc = "receive" => mt[call.o] = call.type /\ call.type \in Accepts[call.o]
    /\ pc \in {"decideIn", "decideOut"} => Linked(call.o, call.i)
    /\ pc \in {"disconnect", "part"} => connected[call.i] = call.o

ConnInv == Typed /\ RestInv /\ CallInv /\ RefsHaveHolders /\ CommittedInUse

\* With input pins that do not accept a connection while active no connection has
\* one end only, but for what a call is doing.
BothInv ==
    /\ \A j \in Ins : connected[j] # NoPin =>
         \/ connected[j] \in Outs /\ connected[connected[j]] = j
         \/ pc = "part" /\ j = call.i /\ connected[j] = call.o
    /\ pc \in {"receive", "undo"} => \A j \in Ins : connected[j] # call.o
    /\ pc \in {"decideIn", "decideOut", "disconnect"} => call.i \notin active

\* A call's record, written out.
CallOf(o, i, t) == [o |-> o, i |-> i, want |-> t, type |-> t, left |-> <<>>, round |-> 0]

LEMMA CallOfIsCall ==
    ASSUME NEW o \in Outs, NEW i \in Ins, NEW t \in Types \cup {NoType}
    PROVE  /\ CallOf(o, i, t) \in Calls
           /\ CallOf(o, i, t).o = o /\ CallOf(o, i, t).i = i
           /\ CallOf(o, i, t).type = t /\ CallOf(o, i, t).want = t
<1>1. <<>> \in Seq(Types)
    OBVIOUS
<1> QED
    BY <1>1 DEF Calls, CallOf

\* A call that begins.
LEMMA CallBegins ==
    ASSUME NEW o, NEW i, NEW t, NEW c, c = [NoCall EXCEPT !.o = o, !.i = i, !.want = t, !.type = t]
    PROVE  c = CallOf(o, i, t)
<1>1. c = [o |-> o, i |-> i, want |-> t, type |-> t, left |-> <<>>, round |-> 0]
    BY DEF NoCall
<1> QED
    BY <1>1, Zenon DEF CallOf

\* A call that parts two pins.
LEMMA CallParts ==
    ASSUME NEW o, NEW i, NEW c, c = [NoCall EXCEPT !.o = o, !.i = i]
    PROVE  c = CallOf(o, i, NoType)
<1>1. c = [o |-> o, i |-> i, want |-> NoType, type |-> NoType, left |-> <<>>, round |-> 0]
    BY DEF NoCall
<1> QED
    BY <1>1, Zenon DEF CallOf

LEMMA NoCallIsCall == NoCall \in Calls
<1>1. <<>> \in Seq(Types)
    OBVIOUS
<1> QED
    BY <1>1 DEF NoCall, Calls

\* A call goes on with another list, or with the next type of the one it has.
LEMMA CallEnumerates ==
    ASSUME NEW c \in Calls, NEW l \in Seq(Types), NEW d, d = [c EXCEPT !.left = l, !.round = @ + 1]
    PROVE  d \in Calls /\ d.o = c.o /\ d.i = c.i
<1>1. d = [o |-> c.o, i |-> c.i, want |-> c.want, type |-> c.type, left |-> l, round |-> c.round + 1]
    BY DEF Calls
<1>2. c.round + 1 \in Nat
    BY DEF Calls
<1> QED
    BY <1>1, <1>2 DEF Calls

LEMMA CallTries ==
    ASSUME NEW c \in Calls, c.left # <<>>, NEW d,
           d = [c EXCEPT !.left = Tail(@), !.type = Head(c.left)]
    PROVE  d \in Calls /\ d.o = c.o /\ d.i = c.i /\ d.type \in Types
<1>1. d = [o |-> c.o, i |-> c.i, want |-> c.want, type |-> Head(c.left), left |-> Tail(c.left),
           round |-> c.round]
    BY DEF Calls
<1>2. Head(c.left) \in Types /\ Tail(c.left) \in Seq(Types)
    BY DEF Calls
<1> QED
    BY <1>1, <1>2 DEF Calls

-----------------------------------------------------------------------------
\* The references on an allocator.
UsersOf(a) == {p \in Pins : alloc[p] = a}

LEMMA UsersFinite ==
    ASSUME ConnectionAssumption, NEW S \in SUBSET Pins
    PROVE  IsFiniteSet(S) /\ Cardinality(S) \in Nat
BY FS_Subset, FS_CardinalityType DEF ConnectionAssumption

LEMMA OneMore ==
    ASSUME ConnectionAssumption, NEW S \in SUBSET Pins, NEW T, NEW p, p \notin S, T = S \cup {p}
    PROVE  Cardinality(T) = Cardinality(S) + 1
BY UsersFinite, FS_AddElement

LEMMA OneLess ==
    ASSUME ConnectionAssumption, NEW S \in SUBSET Pins, NEW T, NEW p \in S, T = S \ {p}
    PROVE  Cardinality(T) = Cardinality(S) - 1
BY UsersFinite, FS_RemoveElement

\* Reref counts what a pin does that lets one allocator go for another.
LEMMA RerefCounts ==
    ASSUME ConnectionAssumption, Typed, RefsHaveHolders,
           NEW p \in Pins, NEW x \in Pins \cup {NoAlloc},
           alloc' = [alloc EXCEPT ![p] = x], allocRefs' = Reref(allocRefs, p, x)
    PROVE  RefsHaveHolders' /\ allocRefs' \in [Pins -> Int]
<1> SUFFICES ASSUME NEW a \in Pins
             PROVE  allocRefs'[a] = Cardinality(UsersOf(a)') /\ allocRefs'[a] \in Int
  <2>1. allocRefs' = [b \in Pins |-> allocRefs'[b]]
      BY DEF Reref
  <2> QED
      BY <2>1 DEF RefsHaveHolders, UsersOf
<1>1. allocRefs[a] = Cardinality(UsersOf(a)) /\ Cardinality(UsersOf(a)) \in Nat /\ UsersOf(a) \in SUBSET Pins
    BY UsersFinite DEF RefsHaveHolders, UsersOf
<1>2. allocRefs'[a] = allocRefs[a] + (IF a = x THEN 1 ELSE 0) - (IF a = alloc[p] THEN 1 ELSE 0)
    BY DEF Reref
<1>3. CASE a = x /\ a # alloc[p]
  <2>1. UsersOf(a)' = UsersOf(a) \cup {p} /\ p \notin UsersOf(a)
      BY <1>3 DEF UsersOf, Typed
  <2> QED
      BY <1>1, <1>2, <1>3, <2>1, OneMore
<1>4. CASE a # x /\ a = alloc[p]
  <2>1. UsersOf(a)' = UsersOf(a) \ {p} /\ p \in UsersOf(a)
      BY <1>4 DEF UsersOf, Typed
  <2> QED
      BY <1>1, <1>2, <1>4, <2>1, OneLess
<1>5. CASE (a = x) <=> (a = alloc[p])
  <2>1. UsersOf(a)' = UsersOf(a)
      BY <1>5 DEF UsersOf, Typed
  <2> QED
      BY <1>1, <1>2, <1>5, <2>1
<1> QED
    BY <1>3, <1>4, <1>5

\* An agreement counts two pins for one allocator.
LEMMA AgreedCounts ==
    ASSUME ConnectionAssumption, Typed, RefsHaveHolders, NEW o \in Pins, NEW i \in Pins, o # i,
           NEW x \in Pins, alloc[o] = NoAlloc, alloc' = [alloc EXCEPT ![o] = x, ![i] = x],
           allocRefs' = [b \in Pins |-> allocRefs[b] + (IF b = x THEN 2 ELSE 0)
                                                     - (IF b = alloc[i] THEN 1 ELSE 0)]
    PROVE  RefsHaveHolders' /\ allocRefs' \in [Pins -> Int]
<1> SUFFICES ASSUME NEW a \in Pins
             PROVE  allocRefs'[a] = Cardinality(UsersOf(a)') /\ allocRefs'[a] \in Int
    BY DEF RefsHaveHolders, UsersOf
<1>1. allocRefs[a] = Cardinality(UsersOf(a)) /\ Cardinality(UsersOf(a)) \in Nat /\ UsersOf(a) \in SUBSET Pins
    BY UsersFinite DEF RefsHaveHolders, UsersOf
<1>2. allocRefs'[a] = allocRefs[a] + (IF a = x THEN 2 ELSE 0) - (IF a = alloc[i] THEN 1 ELSE 0)
    OBVIOUS
<1>3. a # NoAlloc /\ o \notin UsersOf(a)
    BY DEF ConnectionAssumption, UsersOf
<1>4. CASE a = x /\ a # alloc[i]
  <2> DEFINE S == UsersOf(a) \cup {o}
  <2>1. UsersOf(a)' = S \cup {i} /\ i \notin S /\ S \in SUBSET Pins
      BY <1>4 DEF UsersOf, Typed
  <2>2. Cardinality(S) = Cardinality(UsersOf(a)) + 1
      BY <1>1, <1>3, OneMore
  <2>3. Cardinality(UsersOf(a)') = Cardinality(S) + 1
      BY <2>1, OneMore
  <2> QED
      BY <1>1, <1>2, <1>4, <2>2, <2>3
<1>5. CASE a = x /\ a = alloc[i]
  <2>1. UsersOf(a)' = UsersOf(a) \cup {o}
      BY <1>5 DEF UsersOf, Typed
  <2> QED
      BY <1>1, <1>2, <1>3, <1>5, <2>1, OneMore
<1>6. CASE a # x /\ a = alloc[i]
  <2>1. UsersOf(a)' = UsersOf(a) \ {i} /\ i \in UsersOf(a)
      BY <1>3, <1>6 DEF UsersOf, Typed
  <2> QED
      BY <1>1, <1>2, <1>6, <2>1, OneLess
<1>7. CASE a # x /\ a # alloc[i]
  <2>1. UsersOf(a)' = UsersOf(a)
      BY <1>3, <1>7 DEF UsersOf, Typed
  <2> QED
      BY <1>1, <1>2, <1>7, <2>1
<1> QED
    BY <1>4, <1>5, <1>6, <1>7

-----------------------------------------------------------------------------
\* What steps leave alone.

\* BreakConnect lets go of one allocator and decommits it.
LEMMA Breaks ==
    ASSUME ConnectionAssumption, Typed, RefsHaveHolders, NEW p \in Pins, BreakConnect(p)
    PROVE  /\ alloc' = [alloc EXCEPT ![p] = NoAlloc] /\ alloc' \in [Pins -> Pins \cup {NoAlloc}]
           /\ committed' = committed \ {alloc[p]}
           /\ memPin' \in [Outs -> Ins \cup {NoPin}]
           /\ \A o \in Outs : memPin'[o] = IF o = p THEN NoPin ELSE memPin[o]
           /\ RefsHaveHolders' /\ allocRefs' \in [Pins -> Int]
<1>1. alloc' = [alloc EXCEPT ![p] = NoAlloc] /\ allocRefs' = Reref(allocRefs, p, NoAlloc)
    BY DEF BreakConnect
<1>2. RefsHaveHolders' /\ allocRefs' \in [Pins -> Int]
    BY <1>1, RerefCounts
<1>3. memPin' = IF p \in Outs THEN [memPin EXCEPT ![p] = NoPin] ELSE memPin
    BY DEF BreakConnect
<1> QED
    BY <1>1, <1>2, <1>3 DEF BreakConnect, Typed

LEMMA RefsFrame == RefsHaveHolders /\ UNCHANGED <<alloc, allocRefs>> => RefsHaveHolders'
BY DEF RefsHaveHolders

\* A pair of pins outlives what happens to others.
LEMMA OthersStay ==
    ASSUME ConnectionAssumption, NEW o \in Outs, NEW x \in Outs, NEW y \in Ins, o # x,
           Fresh(o) \/ Paired(o),
           \A p \in Pins \ {x, y} :
               connected'[p] = connected[p] /\ mt'[p] = mt[p] /\ alloc'[p] = alloc[p],
           \A p \in Outs \ {x} : memPin'[p] = memPin[p],
           \/ connected[y] \in {NoPin, x}
           \/ connected'[y] = connected[y] /\ mt'[y] = mt[y] /\ alloc'[y] = alloc[y]
    PROVE  Fresh(o)' \/ Paired(o)'
<1>1. /\ o \in Pins \ {x, y} /\ o # NoPin
      /\ connected'[o] = connected[o] /\ mt'[o] = mt[o] /\ alloc'[o] = alloc[o] /\ memPin'[o] = memPin[o]
    BY DEF ConnectionAssumption, Pins
<1>2. CASE Fresh(o)
    BY <1>1, <1>2 DEF Fresh
<1>3. CASE Paired(o)
  <2> DEFINE j == connected[o]
  <2>1. j \in Ins /\ connected[j] = o /\ j \in Pins \ {x}
      BY <1>3 DEF Paired, Linked, ConnectionAssumption, Pins
  <2>2. connected'[j] = connected[j] /\ mt'[j] = mt[j] /\ alloc'[j] = alloc[j]
      BY <1>1, <2>1
  <2> QED
      BY <1>1, <1>3, <2>1, <2>2 DEF Paired, Linked
<1> QED
    BY <1>2, <1>3

\* Committed memory stays in use by pins that a step leaves alone.
LEMMA StaysInUse ==
    ASSUME CommittedInUse, NEW x \in Outs, committed' \subseteq committed,
           \A o \in Outs \ {x} : alloc'[o] = alloc[o] /\ connected'[o] = connected[o],
           active' = active, alloc[x] \notin committed \/ x \notin active
    PROVE  CommittedInUse'
BY DEF CommittedInUse

\* During a call the output pin has no allocator, and none that is committed.
LEMMA NoneOfCall ==
    ASSUME ConnectionAssumption, ConnInv, pc # "idle"
    PROVE  /\ call.o \in Outs /\ call.i \in Ins /\ call.o \in Pins /\ call.i \in Pins /\ call.o # call.i
           /\ alloc[call.o] = NoAlloc /\ alloc[call.o] \notin committed
BY DEF ConnInv, Typed, CallInv, ConnectionAssumption, Pins

\* Between calls an output pin that is not connected has nothing.
LEMMA FreshAtRest ==
    ASSUME ConnectionAssumption, ConnInv, pc = "idle", NEW o \in Outs
    PROVE  connected[o] = NoPin => Fresh(o)
BY DEF ConnInv, RestInv, Paired, ConnectionAssumption, Pins

-----------------------------------------------------------------------------
\* The steps of a call that change nothing but the call.
LEMMA CallMoves ==
    ASSUME ConnectionAssumption, ConnInv, UNCHANGED <<pinVars, allocVars, active>>,
           pc' \in {"agree", "types", "attempt"}, call' \in Calls,
           call'.o \in Outs, call'.i \in Ins, pc = "idle" \/ call'.o = call.o,
           Fresh(call'.o), pc' = "attempt" => call'.type \in Types
    PROVE  ConnInv'
<1>1. UNCHANGED <<connected, mt, memPin, alloc, allocRefs, committed, active>>
    BY DEF pinVars, allocVars
<1>2. Typed'
    BY <1>1 DEF ConnInv, Typed, Labels
<1>3. RestInv'
  <2>1. \A o \in Outs : (Fresh(o) \/ Paired(o)) => (Fresh(o)' \/ Paired(o)')
      BY <1>1 DEF Fresh, Paired, Linked
  <2> QED
      BY <1>1, <2>1 DEF ConnInv, RestInv
<1>4. CallInv'
    BY <1>1 DEF CallInv, Fresh
<1>5. RefsHaveHolders' /\ CommittedInUse'
    BY <1>1, RefsFrame DEF ConnInv, CommittedInUse
<1> QED
    BY <1>2, <1>3, <1>4, <1>5 DEF ConnInv

\* A step that changes neither pins nor call.
LEMMA ConnFrame ==
    ASSUME ConnInv, UNCHANGED <<pinVars, allocVars, active, pc, call>>
    PROVE  ConnInv'
<1>1. UNCHANGED <<connected, mt, memPin, alloc, allocRefs, committed, active, pc, call>>
    BY DEF pinVars, allocVars
<1>2. Typed' /\ CallInv'
    BY <1>1 DEF ConnInv, Typed, CallInv, Fresh, Linked
<1>3. RestInv'
    BY <1>1 DEF ConnInv, RestInv, Fresh, Paired, Linked
<1> QED
    BY <1>1, <1>2, <1>3, RefsFrame DEF ConnInv, CommittedInUse

\* Connect is refused, or begins a call about a pin that has nothing.
LEMMA ConnectInv == ASSUME ConnectionAssumption, ConnInv, Connect PROVE ConnInv'
<1>1. PICK o \in Outs, i \in Ins, t \in Types \cup {NoType} :
        /\ pc = "idle"
        /\ IF Refused(o)
           THEN result' = "refused" /\ UNCHANGED <<pc, call>>
           ELSE /\ call' = [NoCall EXCEPT !.o = o, !.i = i, !.want = t, !.type = t]
                /\ pc' = IF t = NoType THEN "agree" ELSE "attempt"
                /\ result' = "none"
        /\ UNCHANGED <<pinVars, allocVars, active>>
    BY DEF Connect
<1>2. CASE Refused(o)
  <2>1. UNCHANGED <<pinVars, allocVars, active, pc, call>>
      BY <1>1, <1>2, Zenon
  <2> QED
      BY <2>1, ConnFrame
<1>3. CASE ~Refused(o)
  <2>1. /\ pc = "idle" /\ UNCHANGED <<pinVars, allocVars, active>>
        /\ pc' = IF t = NoType THEN "agree" ELSE "attempt"
        /\ call' = [NoCall EXCEPT !.o = o, !.i = i, !.want = t, !.type = t]
      BY <1>1, <1>3, Zenon
  <2>2. call' = CallOf(o, i, t)
      BY <2>1, CallBegins, Zenon
  <2>3. pc = "idle" /\ pc' = (IF t = NoType THEN "agree" ELSE "attempt")
      BY <2>1, Zenon
  <2>4. UNCHANGED <<pinVars, allocVars, active>>
      BY <2>1, Zenon
  <2>5. call' \in Calls /\ call'.o = o /\ call'.i = i /\ call'.type = t
      BY <2>2, CallOfIsCall
  <2>6. Fresh(o)
      BY <1>3, <2>3, FreshAtRest DEF Refused
  <2> QED
      BY <2>3, <2>4, <2>5, <2>6, CallMoves
<1> QED
    BY <1>2, <1>3

\* A call takes the next of the two lists.
LEMMA EnumerateInv == ASSUME ConnectionAssumption, ConnInv, Enumerate PROVE ConnInv'
<1>1. /\ pc = "agree" /\ pc' = "types"
      /\ UNCHANGED <<pinVars, allocVars, active>>
    BY DEF Enumerate
<1>2. call.o \in Pins /\ call.i \in Pins /\ call \in Calls /\ call.o \in Outs /\ call.i \in Ins
    BY <1>1, NoneOfCall DEF ConnInv, Typed
<1>3. Prefers[Enumerator(call.round)] \in Seq(Types)
    BY <1>2 DEF Enumerator, ConnectionAssumption
<1>4. call' \in Calls /\ call'.o = call.o /\ call'.i = call.i
  <2>1. call' = [call EXCEPT !.left = Prefers[Enumerator(call.round)], !.round = @ + 1]
      BY DEF Enumerate
  <2> QED
      BY <1>2, <1>3, <2>1, CallEnumerates, Zenon
<1>5. Fresh(call.o)
    BY <1>1 DEF ConnInv, CallInv
<1> QED
    BY <1>1, <1>2, <1>4, <1>5, CallMoves

\* A call takes the next type of a list, or comes to its end.
LEMMA NextTypeInv == ASSUME ConnectionAssumption, ConnInv, NextType PROVE ConnInv'
<1>1. pc = "types" /\ UNCHANGED <<pinVars, allocVars, active>>
    BY DEF NextType
<1>2. call \in Calls /\ call.o \in Outs /\ call.i \in Ins
    BY <1>1, NoneOfCall DEF ConnInv, Typed
<1>3. Fresh(call.o)
    BY <1>1 DEF ConnInv, CallInv
<1>4. CASE call.left = <<>>
  <2>1. pc' = "agree" /\ call' = call
      BY <1>4, Zenon DEF NextType
  <2> QED
      BY <1>1, <1>2, <1>3, <2>1, CallMoves
<1>5. CASE call.left # <<>>
  <2>1. pc' = "attempt" /\ call' = [call EXCEPT !.left = Tail(@), !.type = Head(call.left)]
      BY <1>5, Zenon DEF NextType
  <2>2. call' \in Calls /\ call'.o = call.o /\ call'.i = call.i /\ call'.type \in Types
      BY <1>2, <1>5, <2>1, CallTries, Zenon
  <2>3. pc' = "attempt"
      BY <2>1, Zenon
  <2> QED
      BY <1>1, <1>2, <1>3, <2>2, <2>3, CallMoves
<1> QED
    BY <1>4, <1>5

-----------------------------------------------------------------------------
\* The steps of a call that change its two pins, x and y.
OnlyThese(x, y) ==
    /\ \A p \in Pins \ {x, y} : connected'[p] = connected[p] /\ mt'[p] = mt[p] /\ alloc'[p] = alloc[p]
    /\ \A p \in Outs \ {x} : memPin'[p] = memPin[p]
    /\ \/ connected[y] \in {NoPin, x}
       \/ connected'[y] = connected[y] /\ mt'[y] = mt[y] /\ alloc'[y] = alloc[y]

\* The pins keep their types in the next state.
PinTypes ==
    /\ connected' \in [Pins -> Pins \cup {NoPin}] /\ mt' \in [Pins -> Types \cup {NoType}]
    /\ memPin' \in [Outs -> Ins \cup {NoPin}] /\ alloc' \in [Pins -> Pins \cup {NoAlloc}]
    /\ allocRefs' \in [Pins -> Int]

LEMMA PairStep ==
    ASSUME ConnectionAssumption, ConnInv, pc # "idle", NEW x, NEW y, x = call.o, y = call.i,
           OnlyThese(x, y), PinTypes, RefsHaveHolders',
           committed' \subseteq committed, active' = active, pc' \in Labels, call' \in Calls,
           pc' # "idle" => call'.o = x /\ call'.i = y,
           connected'[y] = NoPin => alloc'[y] = NoAlloc,
           pc' = "idle" => Fresh(x)' \/ Paired(x)',
           CallInv'
    PROVE  ConnInv'
<1>1. x \in Outs /\ y \in Ins /\ x \in Pins /\ y \in Pins /\ x # y /\ alloc[x] \notin committed
    BY NoneOfCall
<1>2. Typed'
  <2>1. committed' \subseteq Pins /\ active' \subseteq Pins
      BY DEF ConnInv, Typed
  <2> QED
      BY <1>1, <2>1 DEF PinTypes, Typed
<1>3. \A o \in Outs : o # x => Fresh(o)' \/ Paired(o)'
  <2> SUFFICES ASSUME NEW o \in Outs, o # x PROVE Fresh(o)' \/ Paired(o)'
      OBVIOUS
  <2>1. Fresh(o) \/ Paired(o)
      BY DEF ConnInv, RestInv
  <2> QED
      BY <1>1, <2>1, OthersStay DEF OnlyThese
<1>4. RestInv'
  <2>1. \A o \in Outs : pc' = "idle" \/ o # call'.o => Fresh(o)' \/ Paired(o)'
      BY <1>3
  <2>2. ASSUME NEW i \in Ins, connected'[i] = NoPin PROVE alloc'[i] = NoAlloc
    <3>1. CASE i = y
        BY <2>2, <3>1
    <3>2. CASE i # y
      <4>1. i \in Pins \ {x, y}
          BY <1>1, <3>2 DEF ConnectionAssumption, Pins
      <4> QED
          BY <2>2, <4>1 DEF OnlyThese, ConnInv, RestInv
    <3> QED
        BY <3>1, <3>2
  <2> QED
      BY <2>1, <2>2 DEF RestInv
<1>5. CommittedInUse'
  <2>1. \A o \in Outs \ {x} : alloc'[o] = alloc[o] /\ connected'[o] = connected[o]
      BY <1>1 DEF OnlyThese, ConnectionAssumption, Pins
  <2> QED
      BY <1>1, <2>1, StaysInUse DEF ConnInv
<1> QED
    BY <1>2, <1>4, <1>5 DEF ConnInv

\* BreakConnect of a call's output pin lets go of no allocator.
LEMMA BreaksOut ==
    ASSUME ConnectionAssumption, ConnInv, pc # "idle", NEW x, x = call.o, BreakConnect(x)
    PROVE  /\ alloc' = alloc /\ committed' = committed /\ RefsHaveHolders' /\ allocRefs' \in [Pins -> Int]
           /\ memPin' \in [Outs -> Ins \cup {NoPin}]
           /\ \A o \in Outs : memPin'[o] = IF o = x THEN NoPin ELSE memPin[o]
<1>1. x \in Pins /\ alloc[x] = NoAlloc /\ alloc[x] \notin committed
    BY NoneOfCall
<1>2. Typed /\ RefsHaveHolders
    BY DEF ConnInv
<1>3. [alloc EXCEPT ![x] = NoAlloc] = alloc
    BY <1>1, <1>2 DEF Typed
<1> QED
    BY <1>1, <1>2, <1>3, Breaks

\* BreakConnect of a call's input pin.
LEMMA BreaksIn ==
    ASSUME ConnectionAssumption, ConnInv, pc # "idle", NEW y, y = call.i, BreakConnect(y)
    PROVE  /\ alloc' = [alloc EXCEPT ![y] = NoAlloc] /\ alloc' \in [Pins -> Pins \cup {NoAlloc}]
           /\ committed' \subseteq committed /\ memPin' = memPin
           /\ RefsHaveHolders' /\ allocRefs' \in [Pins -> Int]
<1>1. y \in Pins /\ y \notin Outs
    BY NoneOfCall DEF ConnectionAssumption
<1>2. Typed /\ RefsHaveHolders
    BY DEF ConnInv
<1>3. memPin' = memPin
    BY <1>1 DEF BreakConnect
<1> QED
    BY <1>1, <1>2, <1>3, Breaks

\* No type was agreed.
LEMMA NoneAgreedInv == ASSUME ConnectionAssumption, ConnInv, NoneAgreed PROVE ConnInv'
<1>1. /\ pc = "agree" /\ BreakConnect(call.o) /\ pc' = "idle" /\ call' = NoCall
      /\ UNCHANGED <<connected, mt, active>>
    BY Zenon DEF NoneAgreed
<1>2. PICK x \in Outs : x = call.o
    BY <1>1, NoneOfCall
<1>3. PICK y \in Ins : y = call.i
    BY <1>1, NoneOfCall
<1>4. Fresh(x)
    BY <1>1, <1>2 DEF ConnInv, CallInv
<1>5. /\ alloc' = alloc /\ committed' = committed /\ RefsHaveHolders' /\ allocRefs' \in [Pins -> Int]
      /\ memPin' \in [Outs -> Ins \cup {NoPin}] /\ memPin'[x] = NoPin
      /\ \A o \in Outs \ {x} : memPin'[o] = memPin[o]
  <2>1. pc # "idle" /\ BreakConnect(x)
      BY <1>1, <1>2
  <2> QED
      BY <1>2, <2>1, BreaksOut
<1>6. OnlyThese(x, y)
    BY <1>1, <1>5 DEF OnlyThese
<1>7. PinTypes
    BY <1>1, <1>5 DEF PinTypes, ConnInv, Typed
<1>8. Fresh(x)'
    BY <1>1, <1>4, <1>5 DEF Fresh
<1>9. CallInv'
    BY <1>1 DEF CallInv
<1>10. connected'[y] = NoPin => alloc'[y] = NoAlloc
    BY <1>1, <1>5 DEF ConnInv, RestInv
<1> QED
    BY <1>1, <1>2, <1>3, <1>5, <1>6, <1>7, <1>8, <1>9, <1>10, NoCallIsCall, PairStep DEF Labels

\* AttemptConnection: the output pin looks connected, or the attempt is undone.
LEMMA AttemptInv == ASSUME ConnectionAssumption, ConnInv, Attempt PROVE ConnInv'
<1>1. pc = "attempt" /\ UNCHANGED <<alloc, allocRefs, committed, active, call>>
    BY DEF Attempt, allocVars
<1>2. PICK x \in Outs, y \in Ins : x = call.o /\ y = call.i /\ x \in Pins /\ y \in Pins /\ x # y
    BY <1>1, NoneOfCall
<1>3. /\ connected \in [Pins -> Pins \cup {NoPin}] /\ mt \in [Pins -> Types \cup {NoType}]
      /\ memPin \in [Outs -> Ins \cup {NoPin}] /\ alloc \in [Pins -> Pins \cup {NoAlloc}]
      /\ allocRefs \in [Pins -> Int] /\ call \in Calls /\ call.type \in Types
    BY <1>1 DEF ConnInv, Typed, CallInv
<1>4. RefsHaveHolders'
    BY <1>1, RefsFrame DEF ConnInv
<1>5. alloc'[x] = NoAlloc
    BY <1>1, <1>2, NoneOfCall
<1>6. \/ /\ call.type \in Accepts[x]
         /\ connected' = [connected EXCEPT ![x] = y] /\ mt' = [mt EXCEPT ![x] = call.type]
         /\ memPin' = [memPin EXCEPT ![x] = y] /\ pc' = "receive"
      \/ /\ pc' = "undo" /\ UNCHANGED <<connected, mt>>
         /\ memPin' = memPin \/ memPin' = [memPin EXCEPT ![x] = y]
    BY <1>2 DEF Attempt
<1>7. OnlyThese(x, y)
    BY <1>1, <1>2, <1>3, <1>6 DEF OnlyThese
<1>8. PinTypes
    BY <1>1, <1>2, <1>3, <1>6 DEF PinTypes
<1>9. CallInv'
    BY <1>1, <1>2, <1>3, <1>5, <1>6 DEF CallInv
<1>10. connected'[y] = NoPin => alloc'[y] = NoAlloc
    BY <1>1, <1>2, <1>3, <1>6 DEF ConnInv, RestInv
<1> QED
    BY <1>1, <1>2, <1>3, <1>4, <1>6, <1>7, <1>8, <1>9, <1>10, PairStep DEF Labels

\* The input pin accepts, refuses, or breaks what it had.
LEMMA ReceiveInv == ASSUME ConnectionAssumption, ConnInv, ReceiveConnection PROVE ConnInv'
<1>1. pc = "receive" /\ UNCHANGED <<active, call>>
    BY DEF ReceiveConnection
<1>2. PICK x \in Outs, y \in Ins : x = call.o /\ y = call.i /\ x \in Pins /\ y \in Pins /\ x # y
    BY <1>1, NoneOfCall
<1>3. /\ connected \in [Pins -> Pins \cup {NoPin}] /\ mt \in [Pins -> Types \cup {NoType}]
      /\ memPin \in [Outs -> Ins \cup {NoPin}] /\ alloc \in [Pins -> Pins \cup {NoAlloc}]
      /\ allocRefs \in [Pins -> Int] /\ call \in Calls /\ alloc[x] = NoAlloc
    BY <1>1, <1>2 DEF ConnInv, Typed, CallInv
<1>4. /\ connected[x] = y /\ memPin[x] = y /\ mt[x] = call.type /\ call.type \in Accepts[x]
      /\ call.type \in Types \cup {NoType}
    BY <1>1, <1>2, <1>3 DEF ConnInv, CallInv, Calls
<1>5. CASE /\ connected[y] = NoPin /\ call.type \in Accepts[y]
           /\ connected' = [connected EXCEPT ![y] = x] /\ mt' = [mt EXCEPT ![y] = call.type]
           /\ pc' = "decideIn" /\ UNCHANGED <<allocVars, memPin>>
  <2>1. UNCHANGED <<alloc, allocRefs, committed, memPin>>
      BY <1>5 DEF allocVars
  <2>2. OnlyThese(x, y)
      BY <1>2, <1>3, <1>5, <2>1 DEF OnlyThese
  <2>3. PinTypes
      BY <1>2, <1>3, <1>4, <1>5, <2>1 DEF PinTypes
  <2>4. connected'[x] = y /\ connected'[y] = x /\ memPin'[x] = y /\ mt'[x] = mt'[y]
        /\ mt'[x] \in Accepts[x] \cap Accepts[y] /\ alloc'[x] = NoAlloc
      BY <1>2, <1>3, <1>4, <1>5, <2>1
  <2>5. CallInv'
      BY <1>1, <1>2, <1>5, <2>4 DEF CallInv, Linked
  <2>6. RefsHaveHolders'
      BY <2>1, RefsFrame DEF ConnInv
  <2>7. connected'[y] # NoPin
      BY <1>2, <2>4 DEF ConnectionAssumption
  <2> QED
      BY <1>1, <1>2, <1>3, <1>5, <2>1, <2>2, <2>3, <2>5, <2>6, <2>7, PairStep DEF Labels
<1>6. CASE pc' = "undo" /\ UNCHANGED <<pinVars, allocVars>>
  <2>1. UNCHANGED <<connected, mt, alloc, allocRefs, committed, memPin>>
      BY <1>6 DEF allocVars, pinVars
  <2>2. OnlyThese(x, y) /\ PinTypes
      BY <1>3, <2>1 DEF OnlyThese, PinTypes
  <2>3. CallInv'
      BY <1>1, <1>2, <1>3, <1>6, <2>1 DEF CallInv
  <2>4. RefsHaveHolders'
      BY <2>1, RefsFrame DEF ConnInv
  <2>5. connected'[y] = NoPin => alloc'[y] = NoAlloc
      BY <2>1 DEF ConnInv, RestInv
  <2> QED
      BY <1>1, <1>2, <1>3, <1>6, <2>1, <2>2, <2>3, <2>4, <2>5, PairStep DEF Labels
<1>7. CASE /\ connected[y] = NoPin /\ mt' \in {mt, [mt EXCEPT ![y] = call.type]}
           /\ BreakConnect(y) /\ pc' = "undo" /\ connected' = connected
  <2>1. /\ alloc' = [alloc EXCEPT ![y] = NoAlloc] /\ alloc' \in [Pins -> Pins \cup {NoAlloc}]
        /\ committed' \subseteq committed /\ memPin' = memPin
        /\ RefsHaveHolders' /\ allocRefs' \in [Pins -> Int]
    <3>1. pc # "idle" /\ BreakConnect(y)
        BY <1>1, <1>7
    <3> QED
        BY <1>2, <3>1, BreaksIn
  <2>2. OnlyThese(x, y)
      BY <1>2, <1>3, <1>7, <2>1 DEF OnlyThese
  <2>3. PinTypes
      BY <1>2, <1>3, <1>4, <1>7, <2>1 DEF PinTypes
  <2>4. CallInv'
      BY <1>1, <1>2, <1>3, <1>7, <2>1 DEF CallInv
  <2>5. alloc'[y] = NoAlloc
      BY <1>2, <1>3, <2>1
  <2> QED
      BY <1>1, <1>2, <1>3, <1>7, <2>1, <2>2, <2>3, <2>4, <2>5, PairStep DEF Labels
<1> QED
    BY <1>2, <1>5, <1>6, <1>7 DEF ReceiveConnection

\* Both pins take one allocator.
LEMMA AgreedInv ==
    ASSUME ConnectionAssumption, ConnInv, pc \in {"decideIn", "decideOut"},
           NEW a \in Pins, Agreed(a, allocRefs), UNCHANGED <<pinVars, committed, active>>
    PROVE  ConnInv'
<1>1. PICK x \in Outs, y \in Ins : x = call.o /\ y = call.i /\ x \in Pins /\ y \in Pins /\ x # y
    BY NoneOfCall
<1>2. /\ connected \in [Pins -> Pins \cup {NoPin}] /\ mt \in [Pins -> Types \cup {NoType}]
      /\ memPin \in [Outs -> Ins \cup {NoPin}] /\ alloc \in [Pins -> Pins \cup {NoAlloc}]
      /\ alloc[x] = NoAlloc /\ Linked(x, y)
    BY <1>1 DEF ConnInv, Typed, CallInv
<1>3. /\ alloc' = [alloc EXCEPT ![x] = a, ![y] = a]
      /\ allocRefs' = [b \in Pins |-> allocRefs[b] + (IF b = a THEN 2 ELSE 0)
                                                  - (IF b = alloc[y] THEN 1 ELSE 0)]
      /\ UNCHANGED <<connected, mt, memPin, committed, active>>
    BY <1>1 DEF Agreed, pinVars
<1>4. pc' = "idle" /\ call' = NoCall
    BY Zenon DEF Agreed
<1>5. RefsHaveHolders' /\ allocRefs' \in [Pins -> Int]
  <2>1. Typed /\ RefsHaveHolders /\ alloc[x] = NoAlloc /\ x \in Pins /\ y \in Pins /\ x # y
      BY <1>1, <1>2 DEF ConnInv
  <2> QED
      BY <1>3, <2>1, AgreedCounts, Zenon
<1>6. OnlyThese(x, y) /\ PinTypes
  <2>1. \A p \in Pins \ {x, y} : alloc'[p] = alloc[p]
      BY <1>1, <1>2, <1>3
  <2>2. alloc' \in [Pins -> Pins \cup {NoAlloc}]
      BY <1>1, <1>2, <1>3
  <2> QED
      BY <1>1, <1>2, <1>3, <1>5, <2>1, <2>2 DEF OnlyThese, PinTypes, Linked
<1>7. Paired(x)'
    BY <1>1, <1>2, <1>3 DEF Paired, Linked, ConnectionAssumption
<1>8. connected'[y] # NoPin
    BY <1>1, <1>2, <1>3 DEF Linked, ConnectionAssumption
<1>9. CallInv'
    BY <1>4 DEF CallInv
<1> QED
    BY <1>1, <1>3, <1>4, <1>5, <1>6, <1>7, <1>8, <1>9, NoCallIsCall, PairStep DEF Labels

\* The input pin's allocator is taken, or kept for the input pin alone.
LEMMA DecideInInv == ASSUME ConnectionAssumption, ConnInv, DecideIn PROVE ConnInv'
<1>1. pc = "decideIn" /\ UNCHANGED <<pinVars, committed, active>>
    BY DEF DecideIn
<1>2. PICK x \in Outs, y \in Ins : x = call.o /\ y = call.i /\ x \in Pins /\ y \in Pins /\ x # y
    BY <1>1, NoneOfCall
<1>3. PICK a \in Pins : a = IF alloc[y] = NoAlloc THEN y ELSE alloc[y]
    BY <1>2 DEF ConnInv, Typed
<1>4. /\ connected \in [Pins -> Pins \cup {NoPin}] /\ mt \in [Pins -> Types \cup {NoType}]
      /\ memPin \in [Outs -> Ins \cup {NoPin}] /\ alloc \in [Pins -> Pins \cup {NoAlloc}]
      /\ allocRefs \in [Pins -> Int] /\ call \in Calls /\ alloc[x] = NoAlloc /\ Linked(x, y)
    BY <1>1, <1>2 DEF ConnInv, Typed, CallInv
<1>5. CASE Agreed(a, allocRefs)
    BY <1>1, <1>5, AgreedInv
<1>6. CASE /\ pc' = "decideOut" /\ call' = call
           /\ \/ UNCHANGED <<alloc, allocRefs>>
              \/ alloc' = [alloc EXCEPT ![y] = a] /\ allocRefs' = Reref(allocRefs, y, a)
  <2>1. RefsHaveHolders' /\ allocRefs' \in [Pins -> Int]
    <3>1. CASE UNCHANGED <<alloc, allocRefs>>
        BY <1>4, <3>1, RefsFrame DEF ConnInv
    <3>2. CASE alloc' = [alloc EXCEPT ![y] = a] /\ allocRefs' = Reref(allocRefs, y, a)
        BY <1>2, <3>2, RerefCounts DEF ConnInv
    <3> QED
        BY <1>6, <3>1, <3>2
  <2>2. UNCHANGED <<connected, mt, memPin>> /\ connected[y] = x
      BY <1>1, <1>4 DEF pinVars, Linked
  <2>3. OnlyThese(x, y) /\ PinTypes
      BY <1>2, <1>4, <1>6, <2>1, <2>2 DEF OnlyThese, PinTypes
  <2>4. CallInv'
      BY <1>2, <1>4, <1>6, <2>2 DEF CallInv, Linked
  <2>5. connected'[y] # NoPin
      BY <1>2, <2>2 DEF ConnectionAssumption
  <2> QED
      BY <1>1, <1>2, <1>4, <1>6, <2>1, <2>3, <2>4, <2>5, PairStep DEF Labels
<1> QED
    BY <1>2, <1>3, <1>5, <1>6 DEF DecideIn

\* The output pin's allocator is taken, or the connection is given up.
LEMMA DecideOutInv == ASSUME ConnectionAssumption, ConnInv, DecideOut PROVE ConnInv'
<1>1. pc = "decideOut" /\ UNCHANGED <<pinVars, committed, active>>
    BY DEF DecideOut
<1>2. PICK x \in Outs, y \in Ins : x = call.o /\ y = call.i /\ x \in Pins /\ y \in Pins /\ x # y
    BY <1>1, NoneOfCall
<1>3. CASE Agreed(call.o, allocRefs)
    BY <1>1, <1>2, <1>3, AgreedInv
<1>4. CASE pc' = "disconnect" /\ UNCHANGED <<alloc, allocRefs, call>>
  <2>1. /\ connected \in [Pins -> Pins \cup {NoPin}] /\ mt \in [Pins -> Types \cup {NoType}]
        /\ memPin \in [Outs -> Ins \cup {NoPin}] /\ alloc \in [Pins -> Pins \cup {NoAlloc}]
        /\ allocRefs \in [Pins -> Int] /\ call \in Calls /\ alloc[x] = NoAlloc /\ Linked(x, y)
      BY <1>1, <1>2 DEF ConnInv, Typed, CallInv
  <2>2. UNCHANGED <<connected, mt, memPin>> /\ connected[y] = x
      BY <1>1, <2>1 DEF pinVars, Linked
  <2>3. OnlyThese(x, y) /\ PinTypes
      BY <1>2, <1>4, <2>1, <2>2 DEF OnlyThese, PinTypes
  <2>4. CallInv'
      BY <1>2, <1>4, <2>1, <2>2 DEF CallInv, Linked
  <2>5. connected'[y] # NoPin
      BY <1>2, <2>2 DEF ConnectionAssumption
  <2>6. RefsHaveHolders'
      BY <1>4, RefsFrame DEF ConnInv
  <2> QED
      BY <1>1, <1>2, <1>4, <2>1, <2>3, <2>4, <2>5, <2>6, PairStep DEF Labels
<1> QED
    BY <1>3, <1>4 DEF DecideOut

\* The other end disconnects, unless its filter runs.
LEMMA DisconnectOtherInv == ASSUME ConnectionAssumption, ConnInv, DisconnectOther PROVE ConnInv'
<1>1. pc = "disconnect" /\ pc' = "undo" /\ UNCHANGED <<mt, active, call>>
    BY DEF DisconnectOther
<1>2. PICK x \in Outs, y \in Ins : x = call.o /\ y = call.i /\ x \in Pins /\ y \in Pins /\ x # y
    BY <1>1, NoneOfCall
<1>3. /\ connected \in [Pins -> Pins \cup {NoPin}] /\ mt \in [Pins -> Types \cup {NoType}]
      /\ memPin \in [Outs -> Ins \cup {NoPin}] /\ alloc \in [Pins -> Pins \cup {NoAlloc}]
      /\ allocRefs \in [Pins -> Int] /\ call \in Calls /\ alloc[x] = NoAlloc /\ connected[y] = x
    BY <1>1, <1>2 DEF ConnInv, Typed, CallInv
<1>4. CASE UNCHANGED <<allocVars, connected, memPin>>
  <2>1. UNCHANGED <<connected, alloc, allocRefs, committed, memPin>>
      BY <1>4 DEF allocVars
  <2>2. OnlyThese(x, y) /\ PinTypes
      BY <1>1, <1>3, <2>1 DEF OnlyThese, PinTypes
  <2>3. CallInv'
      BY <1>1, <1>2, <1>3, <2>1 DEF CallInv
  <2>4. RefsHaveHolders'
      BY <2>1, RefsFrame DEF ConnInv
  <2>5. connected'[y] # NoPin
      BY <1>2, <1>3, <2>1 DEF ConnectionAssumption
  <2> QED
      BY <1>1, <1>2, <1>3, <2>1, <2>2, <2>3, <2>4, <2>5, PairStep DEF Labels
<1>5. CASE BreakConnect(y) /\ connected' = [connected EXCEPT ![y] = NoPin]
  <2>1. /\ alloc' = [alloc EXCEPT ![y] = NoAlloc] /\ alloc' \in [Pins -> Pins \cup {NoAlloc}]
        /\ committed' \subseteq committed /\ memPin' = memPin
        /\ RefsHaveHolders' /\ allocRefs' \in [Pins -> Int]
    <3>1. pc # "idle" /\ BreakConnect(y)
        BY <1>1, <1>5
    <3> QED
        BY <1>2, <3>1, BreaksIn
  <2>2. OnlyThese(x, y)
      BY <1>1, <1>2, <1>3, <1>5, <2>1 DEF OnlyThese
  <2>3. PinTypes
      BY <1>1, <1>2, <1>3, <1>5, <2>1 DEF PinTypes
  <2>4. CallInv'
      BY <1>1, <1>2, <1>3, <1>5, <2>1 DEF CallInv
  <2>5. alloc'[y] = NoAlloc
      BY <1>2, <1>3, <2>1
  <2> QED
      BY <1>1, <1>2, <1>3, <2>1, <2>2, <2>3, <2>4, <2>5, PairStep DEF Labels
<1> QED
    BY <1>2, <1>4, <1>5 DEF DisconnectOther

\* The attempt is undone: the output pin has nothing again.
LEMMA UndoInv == ASSUME ConnectionAssumption, ConnInv, Undo PROVE ConnInv'
<1>1. /\ pc = "undo" /\ BreakConnect(call.o) /\ connected' = [connected EXCEPT ![call.o] = NoPin]
      /\ UNCHANGED <<mt, active>>
      /\ \/ pc' = "types" /\ call' = call
         \/ pc' = "idle" /\ call' = NoCall
    BY Zenon DEF Undo
<1>2. PICK x \in Outs, y \in Ins : x = call.o /\ y = call.i /\ x \in Pins /\ y \in Pins /\ x # y
    BY <1>1, NoneOfCall
<1>3. /\ connected \in [Pins -> Pins \cup {NoPin}] /\ mt \in [Pins -> Types \cup {NoType}]
      /\ memPin \in [Outs -> Ins \cup {NoPin}] /\ alloc \in [Pins -> Pins \cup {NoAlloc}]
      /\ call \in Calls /\ alloc[x] = NoAlloc
    BY <1>1, <1>2 DEF ConnInv, Typed, CallInv
<1>4. /\ alloc' = alloc /\ committed' = committed /\ RefsHaveHolders' /\ allocRefs' \in [Pins -> Int]
      /\ memPin' \in [Outs -> Ins \cup {NoPin}] /\ memPin'[x] = NoPin
      /\ \A o \in Outs \ {x} : memPin'[o] = memPin[o]
  <2>1. pc # "idle" /\ BreakConnect(x)
      BY <1>1, <1>2
  <2> QED
      BY <1>2, <2>1, BreaksOut
<1>5. OnlyThese(x, y)
    BY <1>1, <1>2, <1>3, <1>4 DEF OnlyThese
<1>6. PinTypes
    BY <1>1, <1>2, <1>3, <1>4 DEF PinTypes
<1>7. Fresh(x)'
    BY <1>1, <1>2, <1>3, <1>4 DEF Fresh
<1>8. connected'[y] = NoPin => alloc'[y] = NoAlloc
    BY <1>1, <1>2, <1>3, <1>4 DEF ConnInv, RestInv
<1>9. CASE pc' = "types" /\ call' = call
  <2>1. CallInv'
      BY <1>2, <1>7, <1>9 DEF CallInv, Fresh
  <2> QED
      BY <1>1, <1>2, <1>3, <1>4, <1>5, <1>6, <1>7, <1>8, <1>9, <2>1, PairStep DEF Labels
<1>10. CASE pc' = "idle" /\ call' = NoCall
  <2>1. CallInv'
      BY <1>10 DEF CallInv
  <2> QED
      BY <1>1, <1>2, <1>4, <1>5, <1>6, <1>7, <1>8, <1>10, <2>1, NoCallIsCall, PairStep DEF Labels
<1> QED
    BY <1>1, <1>9, <1>10

\* The input pin of a parted connection lets go.
LEMMA PartInv == ASSUME ConnectionAssumption, ConnInv, Part PROVE ConnInv'
<1>1. /\ pc = "part" /\ pc' = "idle" /\ call' = NoCall /\ UNCHANGED <<mt, active>>
      /\ BreakConnect(call.i) /\ connected' = [connected EXCEPT ![call.i] = NoPin]
    BY Zenon DEF Part
<1>2. PICK x \in Outs, y \in Ins : x = call.o /\ y = call.i /\ x \in Pins /\ y \in Pins /\ x # y
    BY <1>1, NoneOfCall
<1>3. /\ connected \in [Pins -> Pins \cup {NoPin}] /\ mt \in [Pins -> Types \cup {NoType}]
      /\ memPin \in [Outs -> Ins \cup {NoPin}] /\ alloc \in [Pins -> Pins \cup {NoAlloc}]
      /\ connected[y] = x /\ Fresh(x)
    BY <1>1, <1>2 DEF ConnInv, Typed, CallInv
<1>4. /\ alloc' = [alloc EXCEPT ![y] = NoAlloc] /\ alloc' \in [Pins -> Pins \cup {NoAlloc}]
      /\ committed' \subseteq committed /\ memPin' = memPin
      /\ RefsHaveHolders' /\ allocRefs' \in [Pins -> Int]
  <2>1. pc # "idle" /\ BreakConnect(y)
      BY <1>1, <1>2
  <2> QED
      BY <1>2, <2>1, BreaksIn
<1>5. OnlyThese(x, y)
    BY <1>1, <1>2, <1>3, <1>4 DEF OnlyThese
<1>6. PinTypes
    BY <1>1, <1>2, <1>3, <1>4 DEF PinTypes
<1>7. Fresh(x)'
    BY <1>1, <1>2, <1>3, <1>4 DEF Fresh
<1>8. alloc'[y] = NoAlloc
    BY <1>2, <1>3, <1>4
<1>9. CallInv'
    BY <1>1 DEF CallInv
<1> QED
    BY <1>1, <1>2, <1>4, <1>5, <1>6, <1>7, <1>8, <1>9, NoCallIsCall, PairStep DEF Labels

-----------------------------------------------------------------------------
\* The steps between calls.

\* A stopped connection is parted: the output pin lets go first.
LEMMA DisconnectInv == ASSUME ConnectionAssumption, ConnInv, Disconnect PROVE ConnInv'
<1>a. PICK x \in Outs :
        /\ pc = "idle" /\ connected[x] # NoPin /\ x \notin active
        /\ pc' = "part" /\ call' = [NoCall EXCEPT !.o = x, !.i = connected[x]]
        /\ BreakConnect(x) /\ connected' = [connected EXCEPT ![x] = NoPin]
        /\ UNCHANGED <<mt, active>>
    BY Zenon DEF Disconnect
<1>0. PICK y : y = connected[x]
    BY Zenon
<1>1. /\ call' = [NoCall EXCEPT !.o = x, !.i = y]
      /\ pc = "idle" /\ y # NoPin /\ x \notin active
      /\ pc' = "part" /\ BreakConnect(x) /\ connected' = [connected EXCEPT ![x] = NoPin]
      /\ UNCHANGED <<mt, active>>
    BY <1>a, <1>0, Zenon
<1>2. call' = CallOf(x, y, NoType)
    BY <1>1, CallParts, Zenon
<1>3. /\ y = connected[x] /\ pc = "idle" /\ pc' = "part" /\ y # NoPin /\ x \notin active /\ BreakConnect(x)
      /\ connected' = [connected EXCEPT ![x] = NoPin] /\ UNCHANGED <<mt, active>>
    BY <1>0, <1>1, Zenon
<1>4. Paired(x)
    BY <1>3 DEF ConnInv, RestInv, Fresh
<1>5. y \in Ins /\ x \in Pins /\ y \in Pins /\ x # y /\ connected[y] = x
    BY <1>3, <1>4 DEF Paired, Linked, ConnectionAssumption, Pins
<1>6. /\ connected \in [Pins -> Pins \cup {NoPin}] /\ mt \in [Pins -> Types \cup {NoType}]
      /\ memPin \in [Outs -> Ins \cup {NoPin}] /\ alloc \in [Pins -> Pins \cup {NoAlloc}]
    BY DEF ConnInv, Typed
<1>7. /\ alloc' = [alloc EXCEPT ![x] = NoAlloc] /\ alloc' \in [Pins -> Pins \cup {NoAlloc}]
      /\ committed' = committed \ {alloc[x]}
      /\ memPin' \in [Outs -> Ins \cup {NoPin}]
      /\ \A o \in Outs : memPin'[o] = IF o = x THEN NoPin ELSE memPin[o]
      /\ RefsHaveHolders' /\ allocRefs' \in [Pins -> Int]
    BY <1>3, <1>5, Breaks DEF ConnInv
<1>8. call' \in Calls /\ call'.o = x /\ call'.i = y
    BY <1>2, <1>5, CallOfIsCall
<1>9. Typed'
  <2>1. committed' \subseteq Pins /\ active' \subseteq Pins
      BY <1>3, <1>7 DEF ConnInv, Typed
  <2>2. connected' \in [Pins -> Pins \cup {NoPin}] /\ mt' \in [Pins -> Types \cup {NoType}]
      BY <1>3, <1>5, <1>6
  <2> QED
      BY <1>3, <1>5, <1>7, <1>8, <2>1, <2>2 DEF Typed, Labels
<1>10. Fresh(x)'
    BY <1>3, <1>5, <1>6, <1>7 DEF Fresh
<1>11. RestInv'
  <2>1. ASSUME NEW o \in Outs, o # x PROVE Fresh(o)' \/ Paired(o)'
    <3>1. Fresh(o) \/ Paired(o)
        BY <1>3 DEF ConnInv, RestInv
    <3>2. \A p \in Pins \ {x, y} : connected'[p] = connected[p] /\ mt'[p] = mt[p] /\ alloc'[p] = alloc[p]
        BY <1>3, <1>6, <1>7
    <3> QED
        BY <1>5, <1>7, <2>1, <3>1, <3>2, OthersStay
  <2>2. ASSUME NEW i \in Ins, connected'[i] = NoPin PROVE alloc'[i] = NoAlloc
    <3>1. i # x /\ i \in Pins
        BY DEF ConnectionAssumption, Pins
    <3> QED
        BY <1>3, <1>6, <1>7, <2>2, <3>1 DEF ConnInv, RestInv
  <2> QED
      BY <1>8, <1>10, <2>1, <2>2 DEF RestInv
<1>12. CallInv'
  <2>1. connected'[y] = x /\ alloc'[x] = NoAlloc
      BY <1>3, <1>5, <1>6, <1>7
  <2> QED
      BY <1>3, <1>8, <1>10, <2>1 DEF CallInv, Fresh
<1>13. CommittedInUse'
  <2>1. \A o \in Outs \ {x} : alloc'[o] = alloc[o] /\ connected'[o] = connected[o]
      BY <1>3, <1>6, <1>7 DEF Pins
  <2> QED
      BY <1>3, <1>7, <2>1, StaysInUse DEF ConnInv
<1> QED
    BY <1>7, <1>9, <1>11, <1>12, <1>13 DEF ConnInv

\* What Pause and Stop leave alone.
LEMMA ActivityInv ==
    ASSUME ConnInv, UNCHANGED <<pinVars, alloc, allocRefs, pc, call>>, pc = "idle",
           active' \subseteq Pins, committed' \subseteq Pins, CommittedInUse'
    PROVE  ConnInv'
<1>1. UNCHANGED <<connected, mt, memPin, alloc, allocRefs, pc, call>>
    BY DEF pinVars
<1>2. Typed'
    BY <1>1 DEF ConnInv, Typed
<1>3. CallInv'
    BY <1>1 DEF CallInv
<1>4. RestInv'
    BY <1>1 DEF ConnInv, RestInv, Fresh, Paired, Linked
<1> QED
    BY <1>1, <1>2, <1>3, <1>4, RefsFrame DEF ConnInv

\* The filter of a pin pauses.
LEMMA PauseInv == ASSUME ConnectionAssumption, ConnInv, Pause PROVE ConnInv'
<1>1. PICK p \in Pins :
        /\ pc = "idle" /\ p \notin active /\ active' = active \cup {p}
        /\ committed' = IF p \in Outs /\ connected[p] # NoPin THEN committed \cup {alloc[p]} ELSE committed
        /\ UNCHANGED <<pinVars, alloc, allocRefs, pc, call>>
    BY Zenon DEF Pause
<1>2. active \subseteq Pins /\ committed \subseteq Pins /\ alloc \in [Pins -> Pins \cup {NoAlloc}]
    BY DEF ConnInv, Typed
<1>3. p \in Outs /\ connected[p] # NoPin => alloc[p] \in Pins
    BY <1>1, <1>2 DEF ConnInv, RestInv, Fresh, Paired
<1>4. connected' = connected /\ alloc' = alloc
    BY <1>1 DEF pinVars
<1>5. CommittedInUse'
  <2> SUFFICES ASSUME NEW a \in committed'
               PROVE  \E o \in Outs : alloc[o] = a /\ o \in active' /\ connected[o] # NoPin
      BY <1>4 DEF CommittedInUse
  <2>1. CASE a \in committed
      BY <1>1, <2>1 DEF ConnInv, CommittedInUse
  <2>2. CASE a \notin committed
      BY <1>1, <2>2
  <2> QED
      BY <2>1, <2>2
<1> QED
    BY <1>1, <1>2, <1>3, <1>5, ActivityInv

\* The filter of a pin stops.
LEMMA StopInv == ASSUME ConnectionAssumption, ConnInv, Stop PROVE ConnInv'
<1>1. PICK p \in Pins :
        /\ pc = "idle" /\ p \in active /\ active' = active \ {p}
        /\ committed' = IF connected[p] # NoPin THEN committed \ {alloc[p]} ELSE committed
        /\ UNCHANGED <<pinVars, alloc, allocRefs, pc, call>>
    BY Zenon DEF Stop
<1>2. active \subseteq Pins /\ committed \subseteq Pins
    BY DEF ConnInv, Typed
<1>3. connected' = connected /\ alloc' = alloc
    BY <1>1 DEF pinVars
<1>4. CommittedInUse'
  <2> SUFFICES ASSUME NEW a \in committed'
               PROVE  \E o \in Outs : alloc[o] = a /\ o \in active' /\ connected[o] # NoPin
      BY <1>3 DEF CommittedInUse
  <2>1. a \in committed
      BY <1>1
  <2>2. PICK o \in Outs : alloc[o] = a /\ o \in active /\ connected[o] # NoPin
      BY <2>1 DEF ConnInv, CommittedInUse
  <2>3. o # p
      BY <1>1, <2>2
  <2> QED
      BY <1>1, <2>2, <2>3
<1> QED
    BY <1>1, <1>2, <1>4, ActivityInv

-----------------------------------------------------------------------------
\* No pin holds anything at first.
LEMMA ConnInitInv == ASSUME ConnectionAssumption, Init PROVE ConnInv
<1>1. pc = "idle" /\ call = NoCall
    BY Zenon DEF Init
<1>2. /\ connected = [p \in Pins |-> NoPin] /\ mt = [p \in Pins |-> NoType]
      /\ memPin = [o \in Outs |-> NoPin] /\ alloc = [p \in Pins |-> NoAlloc]
      /\ allocRefs = [p \in Pins |-> 0] /\ committed = {} /\ active = {}
    BY Zenon DEF Init
<1>3. Typed
    BY <1>1, <1>2, NoCallIsCall DEF Typed, Labels
<1>4. RestInv
    BY <1>2 DEF RestInv, Fresh, Pins
<1>5. CallInv
    BY <1>1 DEF CallInv
<1>6. RefsHaveHolders
  <2> SUFFICES ASSUME NEW a \in Pins PROVE allocRefs[a] = Cardinality({p \in Pins : alloc[p] = a})
      BY DEF RefsHaveHolders
  <2>1. {p \in Pins : alloc[p] = a} = {}
      BY <1>2 DEF ConnectionAssumption
  <2> QED
      BY <1>2, <2>1, FS_EmptySet
<1>7. CommittedInUse
    BY <1>2 DEF CommittedInUse
<1> QED
    BY <1>3, <1>4, <1>5, <1>6, <1>7 DEF ConnInv

LEMMA ConnStepInv == ASSUME ConnectionAssumption, ConnInv, [Next]_vars PROVE ConnInv'
<1>1. CASE UNCHANGED vars
  <2>1. UNCHANGED <<pinVars, allocVars, active, pc, call>>
      BY <1>1, Zenon DEF vars
  <2> QED
      BY <2>1, ConnFrame
<1>2. CASE Next
    BY <1>2, ConnectInv, EnumerateInv, NextTypeInv, NoneAgreedInv, AttemptInv, ReceiveInv, DecideInInv,
       DecideOutInv, DisconnectOtherInv, UndoInv, PartInv, DisconnectInv, PauseInv, StopInv
       DEF Next, Connecting
<1> QED
    BY <1>1, <1>2

LEMMA ConnInvariant == ASSUME ConnectionAssumption PROVE Spec => []ConnInv
<1>1. Init => ConnInv
    BY ConnInitInv
<1>2. ConnInv /\ [Next]_vars => ConnInv'
    BY ConnStepInv
<1> QED
    BY <1>1, <1>2, PTL DEF Spec

\* What is asked of a connection is what the invariant says of it.
LEMMA TypedImplied == ASSUME ConnectionAssumption PROVE ConnInv => TypeOK
<1> SUFFICES ASSUME ConnInv PROVE TypeOK
    OBVIOUS
<1>1. ASSUME NEW a \in Pins PROVE allocRefs[a] \in Nat
    BY <1>1, UsersFinite DEF ConnInv, RefsHaveHolders
<1> QED
    BY <1>1 DEF ConnInv, Typed, TypeOK, Pins

LEMMA AgreeImplied == ASSUME ConnectionAssumption PROVE ConnInv => ConnectedAgree
<1> SUFFICES ASSUME ConnInv, AtRest, NEW o \in Outs, connected[o] # NoPin
             PROVE  /\ mt[o] = mt[connected[o]] /\ mt[o] \in Accepts[o] \cap Accepts[connected[o]]
                    /\ alloc[o] = alloc[connected[o]] /\ alloc[o] # NoAlloc
                    /\ memPin[o] = connected[o]
    BY DEF ConnectedAgree
<1>1. Paired(o)
    BY DEF ConnInv, RestInv, AtRest, Fresh
<1> QED
    BY <1>1 DEF Paired, Linked

LEMMA KeptImplied == ASSUME ConnectionAssumption PROVE ConnInv => NothingKept
<1> SUFFICES ASSUME ConnInv, AtRest, NEW p \in Pins, connected[p] = NoPin
             PROVE  alloc[p] = NoAlloc /\ (p \in Outs => memPin[p] = NoPin)
    BY DEF NothingKept
<1>1. CASE p \in Outs
  <2>1. Fresh(p)
      BY <1>1, FreshAtRest DEF AtRest
  <2> QED
      BY <2>1 DEF Fresh
<1>2. CASE p \in Ins
    BY <1>2 DEF ConnInv, RestInv, ConnectionAssumption
<1> QED
    BY <1>1, <1>2 DEF Pins

\* Connection: every variable has its type, whatever is called in whatever order.
THEOREM PinsTyped == ASSUME ConnectionAssumption PROVE Spec => []TypeOK
<1>1. ConnInv => TypeOK
    BY TypedImplied
<1> QED
    BY <1>1, ConnInvariant, PTL

\* Whatever the types, the failures and the order of connecting, disconnecting,
\* pausing and stopping: between calls a connected output pin and its partner have
\* one type that both accept and one live allocator.
THEOREM PinsHaveAgreed == ASSUME ConnectionAssumption PROVE Spec => []ConnectedAgree
<1>1. ConnInv => ConnectedAgree
    BY AgreeImplied
<1> QED
    BY <1>1, ConnInvariant, PTL

\* Between calls a pin that is not connected has no allocator and no memory input
\* pin left of the attempts that failed.
THEOREM NothingLeft == ASSUME ConnectionAssumption PROVE Spec => []NothingKept
<1>1. ConnInv => NothingKept
    BY KeptImplied
<1> QED
    BY <1>1, ConnInvariant, PTL

\* In every state, also within a call, the references counted on an allocator are
\* the pins that hold it: AddRef and Release balance on every path of failure.
THEOREM RefsBalance == ASSUME ConnectionAssumption PROVE Spec => []RefsHaveHolders
<1>1. ConnInv => RefsHaveHolders
    BY DEF ConnInv
<1> QED
    BY <1>1, ConnInvariant, PTL

\* In every state committed memory belongs to a connection whose output pin is active.
THEOREM MemoryInUse == ASSUME ConnectionAssumption PROVE Spec => []CommittedInUse
<1>1. ConnInv => CommittedInUse
    BY DEF ConnInv
<1> QED
    BY <1>1, ConnInvariant, PTL

-----------------------------------------------------------------------------
\* What has been tried.  While nothing but types can fail and the input pin is
\* free, no type of the lists gone through suits both pins, but for those left of
\* the present list and the one that is being tried.
Going == {"agree", "types", "attempt", "receive", "undo"}
Free == connected[call.i] = NoPin /\ ~Busy(call.i)
None(p) == \A t \in Listed(p) : ~Suits(call.o, call.i, t)
Left == {call.left[k] : k \in DOMAIN call.left}
Open == Left \cup (IF pc \in {"attempt", "receive"} THEN {call.type} ELSE {})

ReasonInv ==
    /\ pc \notin {"idle", "part"} => result = "none"
    /\ MayFail = {} =>
         /\ pc # "disconnect"
         /\ pc \in Going /\ Free =>
              /\ pc = "undo" => ~Suits(call.o, call.i, call.type)
              /\ call.want # NoType => call.type = call.want /\ pc \notin {"agree", "types"}
              /\ call.want = NoType =>
                   /\ call.round \in 0..2
                   /\ pc # "agree" => call.round # 0
                   /\ call.round = 2 => None(Enumerator(0))
                   /\ IF pc = "agree" THEN \A k \in 0..(call.round - 1) : None(Enumerator(k))
                      ELSE \A t \in Listed(Enumerator(call.round - 1)) :
                               ~Suits(call.o, call.i, t) \/ t \in Open

LEMMA ReasonInit == Init => ReasonInv
<1> SUFFICES ASSUME Init PROVE ReasonInv
    OBVIOUS
<1>1. pc = "idle"
    BY DEF Init
<1> QED
    BY <1>1 DEF ReasonInv, Going

\* A new call, and one that enumerates the types of a pin.
LEMMA ReasonConnect == ASSUME ConnectionAssumption, ConnInv, ReasonInv, Connect PROVE ReasonInv'
<1>1. PICK o \in Outs, i \in Ins, t \in Types \cup {NoType} :
        /\ pc = "idle"
        /\ \/ UNCHANGED <<pc, call>>
           \/ /\ call' = [NoCall EXCEPT !.o = o, !.i = i, !.want = t, !.type = t]
              /\ pc' = IF t = NoType THEN "agree" ELSE "attempt"
              /\ result' = "none"
    BY DEF Connect
<1>2. CASE UNCHANGED <<pc, call>>
    BY <1>1, <1>2 DEF ReasonInv, Going
<1>3. CASE ~UNCHANGED <<pc, call>>
  <2>1. call' = CallOf(o, i, t) /\ pc' = (IF t = NoType THEN "agree" ELSE "attempt") /\ result' = "none"
      BY <1>1, <1>3, CallBegins
  <2>2. call'.want = t /\ call'.type = t /\ call'.round = 0
      BY <2>1 DEF CallOf
  <2>3. pc' # "disconnect" /\ pc' # "undo"
      BY <2>1
  <2>4. t # NoType => pc' \notin {"agree", "types"}
      BY <2>1
  <2>5. t = NoType => pc' = "agree"
      BY <2>1
  <2>6. call'.round \in 0..2 /\ call'.round # 2 /\ 0..(call'.round - 1) = {}
      BY <2>2
  <2> QED
      BY <2>1, <2>2, <2>3, <2>4, <2>5, <2>6 DEF ReasonInv
<1> QED
    BY <1>2, <1>3

LEMMA ReasonEnumerate == ASSUME ConnectionAssumption, ConnInv, ReasonInv, Enumerate PROVE ReasonInv'
<1>1. /\ pc = "agree" /\ pc' = "types" /\ call.round < 2
      /\ call' = [call EXCEPT !.left = Prefers[Enumerator(call.round)], !.round = @ + 1]
      /\ UNCHANGED <<connected, active, result>>
    BY DEF Enumerate, pinVars
<1>2. call \in Calls
    BY DEF ConnInv, Typed
<1>3. /\ call'.o = call.o /\ call'.i = call.i /\ call'.want = call.want /\ call'.type = call.type
      /\ call'.left = Prefers[Enumerator(call.round)] /\ call'.round = call.round + 1
    BY <1>1, <1>2 DEF Calls
<1>4. Left' = Listed(Enumerator(call.round))
    BY <1>3 DEF Left, Listed
<1>5. ASSUME MayFail = {}, Free'
      PROVE  /\ call'.want = NoType /\ call'.round \in 0..2 /\ call'.round # 0
             /\ (call.round = 1 => None(Enumerator(0)))
  <2>1. Free
      BY <1>1, <1>3, <1>5 DEF Free, Busy
  <2>2. /\ call.want = NoType /\ call.round \in 0..2
        /\ \A k \in 0..(call.round - 1) : None(Enumerator(k))
      BY <1>1, <1>5, <2>1 DEF ReasonInv, Going
  <2>3. call.round = 1 => 0 \in 0..(call.round - 1)
      OBVIOUS
  <2> QED
      BY <1>1, <1>3, <2>2, <2>3
<1>8. (\A t \in Listed(Enumerator(call.round - 1)) : ~Suits(call.o, call.i, t) \/ t \in Open)'
  <2>1. call'.round - 1 = call.round
      BY <1>2, <1>3 DEF Calls
  <2>2. Listed(Enumerator(call.round - 1))' = Listed(Enumerator(call.round))
      BY <1>3, <2>1 DEF Enumerator, Listed
  <2> QED
      BY <1>4, <2>2 DEF Open
<1>9. call'.round = 2 => call.round = 1
    BY <1>2, <1>3 DEF Calls
<1>10. pc' = "types" /\ result' = "none"
    BY <1>1 DEF ReasonInv
<1>11. call'.round = 2 /\ MayFail = {} /\ Free' => None(Enumerator(0))'
  <2>1. None(Enumerator(0))' <=> None(Enumerator(0))
      BY <1>3 DEF None, Enumerator, Listed, Suits
  <2> QED
      BY <1>5, <1>9, <2>1
<1> QED
    BY <1>5, <1>8, <1>10, <1>11 DEF ReasonInv

\* The next of the types that are left, or the end of this list.
LEMMA ReasonNextType == ASSUME ConnectionAssumption, ConnInv, ReasonInv, NextType PROVE ReasonInv'
<1>1. pc = "types" /\ UNCHANGED <<connected, active, result>>
    BY DEF NextType, pinVars
<1>2. call \in Calls
    BY DEF ConnInv, Typed
<1>3. CASE call.left = <<>>
  <2>1. pc' = "agree" /\ call' = call
      BY <1>3 DEF NextType
  <2>2. Open = {}
      BY <1>1, <1>3 DEF Open, Left
  <2>3. ASSUME MayFail = {}, Free' PROVE (\A k \in 0..(call.round - 1) : None(Enumerator(k)))'
    <3>1. Free
        BY <1>1, <2>1, <2>3 DEF Free, Busy
    <3>2. /\ call.want = NoType /\ call.round \in 1..2
          /\ call.round = 2 => None(Enumerator(0))
          /\ \A t \in Listed(Enumerator(call.round - 1)) : ~Suits(call.o, call.i, t) \/ t \in Open
        BY <1>1, <2>3, <3>1 DEF ReasonInv, Going
    <3>3. None(Enumerator(call.round - 1))
        BY <2>2, <3>2 DEF None
    <3>4. \A k \in 0..(call.round - 1) : k = call.round - 1 \/ (call.round = 2 /\ k = 0)
        BY <3>2
    <3>5. \A k \in 0..(call.round - 1) : None(Enumerator(k))
        BY <3>2, <3>3, <3>4
    <3> QED
        BY <2>1, <3>5 DEF None, Enumerator, Listed, Suits
  <2>4. /\ pc' # "disconnect" /\ pc' # "undo" /\ pc' = "agree" /\ result' = "none"
        /\ (Free' => Free)
      BY <1>1, <2>1 DEF ReasonInv, Free, Busy
  <2>5. ASSUME MayFail = {}, Free'
        PROVE  /\ call'.want = NoType /\ call'.round \in 0..2 /\ (call'.round = 2 => None(Enumerator(0))')
    <3>1. /\ call.want = NoType /\ call.round \in 0..2 /\ (call.round = 2 => None(Enumerator(0)))
        BY <1>1, <2>4, <2>5 DEF ReasonInv, Going
    <3> QED
        BY <2>1, <3>1 DEF None, Enumerator, Listed, Suits
  <2> QED
      BY <2>3, <2>4, <2>5 DEF ReasonInv
<1>4. CASE call.left # <<>>
  <2>1. pc' = "attempt" /\ call' = [call EXCEPT !.left = Tail(@), !.type = Head(call.left)]
      BY <1>4 DEF NextType
  <2>2. /\ call'.o = call.o /\ call'.i = call.i /\ call'.want = call.want /\ call'.round = call.round
        /\ call'.left = Tail(call.left) /\ call'.type = Head(call.left)
      BY <1>2, <2>1 DEF Calls
  <2>3. Left \subseteq Left' \cup {call'.type}
    <3>1. call.left \in Seq(Types) /\ call.left # <<>>
        BY <1>2, <1>4 DEF Calls
    <3>2. Head(call.left) = call.left[1] /\ \A k \in DOMAIN call.left : k = 1 \/ k - 1 \in DOMAIN Tail(call.left)
        BY <3>1
    <3>3. \A k \in DOMAIN Tail(call.left) : Tail(call.left)[k] = call.left[k + 1]
        BY <3>1
    <3>4. \A k \in DOMAIN call.left : k - 1 \in DOMAIN Tail(call.left) => Tail(call.left)[k - 1] = call.left[k]
        BY <3>1, <3>3
    <3> QED
        BY <2>2, <3>2, <3>4 DEF Left
  <2>4. Open \subseteq Open'
      BY <1>1, <2>1, <2>3 DEF Open
  <2>5. /\ pc' # "disconnect" /\ pc' # "undo" /\ pc' \notin {"agree", "types"} /\ result' = "none"
        /\ (Free' => Free)
      BY <1>1, <2>1, <2>2 DEF ReasonInv, Free, Busy
  <2>6. ASSUME MayFail = {}, Free'
        PROVE  /\ call'.want = NoType /\ call'.round \in 0..2 /\ call'.round # 0
               /\ (call'.round = 2 => None(Enumerator(0))')
               /\ (\A t \in Listed(Enumerator(call.round - 1)) : ~Suits(call.o, call.i, t) \/ t \in Open)'
    <3>1. /\ call.want = NoType /\ call.round \in 0..2 /\ call.round # 0
          /\ (call.round = 2 => None(Enumerator(0)))
          /\ \A t \in Listed(Enumerator(call.round - 1)) : ~Suits(call.o, call.i, t) \/ t \in Open
        BY <1>1, <2>5, <2>6 DEF ReasonInv, Going
    <3>2. Enumerator(call.round - 1)' = Enumerator(call.round - 1)
        BY <2>2 DEF Enumerator
    <3>3. None(Enumerator(0))' <=> None(Enumerator(0))
        BY <2>2 DEF None, Enumerator, Listed, Suits
    <3>4. (\A t \in Listed(Enumerator(call.round - 1)) : ~Suits(call.o, call.i, t) \/ t \in Open)'
        BY <2>2, <2>4, <3>1, <3>2 DEF Listed, Suits
    <3> QED
        BY <2>2, <3>1, <3>3, <3>4
  <2> QED
      BY <2>5, <2>6 DEF ReasonInv
<1> QED
    BY <1>3, <1>4

\* A step of the type that is being tried: what it leads to depends on the type.
LEMMA ReasonMoves ==
    ASSUME ConnInv, ReasonInv, pc \in {"attempt", "receive", "undo"},
           pc' \in {"types", "receive", "undo"},
           UNCHANGED <<active, call, result>>, Free' => Free,
           pc' = "types" => pc = "undo" /\ call.want = NoType,
           pc' = "receive" => pc = "attempt",
           pc' = "undo" /\ MayFail = {} /\ Free => ~Suits(call.o, call.i, call.type)
    PROVE  ReasonInv'
<1>1. result' = "none" /\ pc' # "disconnect" /\ pc' # "agree"
    BY DEF ReasonInv
<1>2. ASSUME MayFail = {}, Free' PROVE
        /\ (pc = "undo" => ~Suits(call.o, call.i, call.type))
        /\ (call.want # NoType => call.type = call.want)
        /\ (call.want = NoType =>
             /\ call.round \in 0..2 /\ call.round # 0
             /\ (call.round = 2 => None(Enumerator(0)))
             /\ \A t \in Listed(Enumerator(call.round - 1)) :
                    ~Suits(call.o, call.i, t) \/ t \in Open)
    BY <1>2 DEF ReasonInv, Going
<1>3. ASSUME MayFail = {}, Free', NEW t, t \in Open, Suits(call.o, call.i, t) PROVE t \in Open'
  <2>1. CASE t \in Left
      BY <2>1 DEF Left, Open
  <2>2. CASE t = call.type
    <3>1. pc # "undo"
        BY <1>2, <1>3, <2>2
    <3>2. pc' # "undo"
        BY <1>3, <2>2
    <3>3. pc' = "receive"
        BY <3>1, <3>2
    <3> QED
        BY <2>2, <3>3 DEF Open
  <2> QED
      BY <1>3, <2>1, <2>2 DEF Open
<1>4. /\ None(Enumerator(0))' <=> None(Enumerator(0))
      /\ Listed(Enumerator(call.round - 1))' = Listed(Enumerator(call.round - 1))
    BY DEF None, Enumerator, Listed, Suits
<1>5. ASSUME MayFail = {}, Free' PROVE
        /\ (pc' = "undo" => ~Suits(call.o, call.i, call.type)')
        /\ (call'.want # NoType => call'.type = call'.want /\ pc' \notin {"agree", "types"})
        /\ (call'.want = NoType =>
             /\ call'.round \in 0..2 /\ call'.round # 0
             /\ (call'.round = 2 => None(Enumerator(0))')
             /\ (\A t \in Listed(Enumerator(call.round - 1)) :
                    ~Suits(call.o, call.i, t) \/ t \in Open)')
  <2>1. pc' = "undo" => ~Suits(call.o, call.i, call.type)'
      BY <1>5 DEF Suits
  <2>2. call'.want # NoType => call'.type = call'.want /\ pc' \notin {"agree", "types"}
      BY <1>2, <1>5
  <2>3. ASSUME call'.want = NoType, NEW t \in Listed(Enumerator(call.round - 1))
        PROVE  ~Suits(call.o, call.i, t)' \/ t \in Open'
      BY <1>2, <1>3, <1>5, <2>3 DEF Suits
  <2> QED
      BY <1>2, <1>4, <1>5, <2>1, <2>2, <2>3
<1> QED
    BY <1>1, <1>5 DEF ReasonInv

\* Outside the tries there is nothing to say but for the result.
LEMMA ReasonRest ==
    ASSUME pc' \notin Going, MayFail = {} => pc' # "disconnect",
           pc' \notin {"idle", "part"} => result' = "none"
    PROVE  ReasonInv'
BY DEF ReasonInv

LEMMA ReasonStep == ASSUME ConnectionAssumption, ConnInv, ReasonInv, [Next]_vars PROVE ReasonInv'
<1>1. CASE NoneAgreed
    BY <1>1, ReasonRest DEF NoneAgreed, Going
<1>2. CASE Attempt
  <2>1. pc = "attempt" /\ pc' \in {"receive", "undo"} /\ UNCHANGED <<active, call, result>>
      BY <1>2 DEF Attempt
  <2>2. connected'[call.i] = connected[call.i]
    <3>1. call.o # call.i /\ (connected' = connected \/ connected' = [connected EXCEPT ![call.o] = call.i])
        BY <1>2, <2>1, NoneOfCall DEF Attempt
    <3> QED
        BY <2>1, <3>1, NoneOfCall DEF ConnInv, Typed
  <2>3. pc' = "undo" /\ MayFail = {} => ~Suits(call.o, call.i, call.type)
      BY <1>2, <2>1 DEF Attempt, Fail, Suits
  <2>4. Free' => Free
      BY <2>1, <2>2 DEF Free, Busy
  <2> QED
      BY <2>1, <2>3, <2>4, ReasonMoves
<1>3. CASE ReceiveConnection
  <2>1. pc = "receive" /\ UNCHANGED <<active, call, result>>
      BY <1>3 DEF ReceiveConnection
  <2>2. CASE pc' = "decideIn"
      BY <2>1, <2>2, ReasonRest DEF Going, ReasonInv
  <2>3. CASE pc' # "decideIn"
    <3>1. pc' = "undo" /\ connected' = connected
        BY <1>3, <2>3 DEF ReceiveConnection, pinVars
    <3>2. MayFail = {} /\ Free => ~Suits(call.o, call.i, call.type)
        BY <1>3, <2>3 DEF ReceiveConnection, Fail, Suits, Free
    <3>3. Free' => Free
        BY <2>1, <3>1 DEF Free, Busy
    <3> QED
        BY <2>1, <3>1, <3>2, <3>3, ReasonMoves
  <2> QED
      BY <2>2, <2>3
<1>4. CASE DecideIn \/ DecideOut
  <2>1. \/ pc' = "idle"
        \/ MayFail # {} /\ pc' \in {"decideOut", "disconnect"} /\ result' = result /\ pc \in {"decideIn", "decideOut"}
      BY <1>4 DEF DecideIn, DecideOut, Agreed
  <2>2. pc' \notin {"idle", "part"} => result' = "none"
      BY <2>1 DEF ReasonInv
  <2> QED
      BY <2>1, <2>2, ReasonRest DEF Going
<1>5. CASE DisconnectOther
  <2>1. pc = "disconnect" /\ result' = result
      BY <1>5 DEF DisconnectOther
  <2>2. MayFail # {} /\ result' = "none"
      BY <2>1 DEF ReasonInv
  <2> QED
      BY <2>2 DEF ReasonInv
<1>6. CASE Undo
  <2>1. pc = "undo" /\ active' = active
      BY <1>6 DEF Undo
  <2>2. CASE call.want = NoType
    <3>1. pc' = "types" /\ UNCHANGED <<call, result>>
        BY <1>6, <2>2 DEF Undo
    <3>2. connected'[call.i] = connected[call.i]
      <4>1. connected' = [connected EXCEPT ![call.o] = NoPin]
          BY <1>6 DEF Undo
      <4> QED
          BY <2>1, <4>1, NoneOfCall DEF ConnInv, Typed
    <3>3. Free' => Free
        BY <2>1, <3>1, <3>2 DEF Free, Busy
    <3> QED
        BY <2>1, <2>2, <3>1, <3>3, ReasonMoves
  <2>3. CASE call.want # NoType
    <3>1. pc' = "idle"
        BY <1>6, <2>3 DEF Undo
    <3> QED
        BY <3>1, ReasonRest DEF Going
  <2> QED
      BY <2>2, <2>3
<1>7. CASE Part \/ Disconnect
    BY <1>7, ReasonRest DEF Part, Disconnect, Going
<1>8. CASE Pause \/ Stop
    BY <1>8, ReasonRest DEF Pause, Stop, Going
<1>9. CASE UNCHANGED vars
    BY <1>9 DEF vars, pinVars, ReasonInv, Free, Busy, None, Enumerator, Listed, Suits, Open, Left
<1> QED
    BY <1>1, <1>2, <1>3, <1>4, <1>5, <1>6, <1>7, <1>8, <1>9, ReasonConnect, ReasonEnumerate, ReasonNextType
       DEF Next, Connecting

\* The step that fails.
LEMMA ReasonGiven ==
    ASSUME ConnectionAssumption, ConnInv, ReasonInv, Next, pc # "idle", result' = "failed"
    PROVE  HasReason
<1> SUFFICES ASSUME MayFail = {}, Free
             PROVE  IF call.want # NoType THEN ~Suits(call.o, call.i, call.want)
                    ELSE \A t \in Listed(call.o) \cup Listed(call.i) : ~Suits(call.o, call.i, t)
    BY DEF HasReason, Free
<1>1. pc # "part"
  <2> SUFFICES ASSUME pc = "part" PROVE FALSE
      OBVIOUS
  <2>1. connected[call.i] = call.o /\ call.o \in Outs
      BY DEF ConnInv, CallInv, Typed
  <2> QED
      BY <2>1 DEF Free, ConnectionAssumption, Pins
<1>2. result = "none"
    BY <1>1 DEF ReasonInv
<1>3. \/ NoneAgreed
      \/ Undo /\ call.want # NoType
    BY <1>1, <1>2 DEF Next, Connecting, Connect, Enumerate, NextType, Attempt, ReceiveConnection, DecideIn,
       DecideOut, Agreed, DisconnectOther, Undo, Part, Disconnect, Pause, Stop
<1>4. CASE NoneAgreed
  <2>1. pc = "agree" /\ call.round = 2
      BY <1>4 DEF NoneAgreed
  <2>2. call.want = NoType /\ \A k \in 0..1 : None(Enumerator(k))
      BY <2>1 DEF ReasonInv, Going
  <2>3. None(Enumerator(0)) /\ None(Enumerator(1))
      BY <2>2
  <2>4. {Enumerator(0), Enumerator(1)} = {call.o, call.i}
      BY DEF Enumerator, ConnectionAssumption
  <2>5. None(call.o) /\ None(call.i)
      BY <2>3, <2>4
  <2> QED
      BY <2>2, <2>5 DEF None
<1>5. CASE Undo /\ call.want # NoType
  <2>1. pc = "undo"
      BY <1>5 DEF Undo
  <2> QED
      BY <1>5, <2>1 DEF ReasonInv, Going
<1> QED
    BY <1>3, <1>4, <1>5

\* A connection that could be made is made: when nothing but types can fail and the
\* input pin is free, Connect fails only if no listed type suits both pins, or the
\* one that was asked for does not.
THEOREM FailsOnlyForAReason == ASSUME ConnectionAssumption PROVE Spec => FailsForAReason
<1>1. ConnInv /\ ReasonInv /\ [Next]_vars => [pc # "idle" /\ result' = "failed" => HasReason]_vars
    BY ReasonGiven
<1>2. Init => ConnInv /\ ReasonInv
    BY ConnInitInv, ReasonInit
<1>3. ConnInv /\ ReasonInv /\ [Next]_vars => ConnInv' /\ ReasonInv'
    BY ConnStepInv, ReasonStep
<1> QED
    BY <1>1, <1>2, <1>3, PTL DEF Spec, FailsForAReason

-----------------------------------------------------------------------------
\* Both ends.  BothInv needs input pins that refuse to connect while active.
LEMMA BothFrame ==
    ASSUME BothInv, connected' = connected, pc \notin {"part", "receive", "undo", "decideIn", "decideOut", "disconnect"},
           pc' \notin {"part", "receive", "undo", "decideIn", "decideOut", "disconnect"}
    PROVE  BothInv'
BY DEF BothInv

LEMMA BothStep ==
    ASSUME ConnectionAssumption, Dynamic \cap Ins = {}, ConnInv, BothInv, [Next]_vars
    PROVE  BothInv'
<1> USE DEF BothInv
<1>1. CASE UNCHANGED vars
  <2>1. UNCHANGED <<connected, pc, active>> /\ call' = call
      BY <1>1, Zenon DEF vars, pinVars
  <2> QED
      BY <2>1
<1>2. ASSUME Connect \/ Pause \/ Stop \/ Enumerate \/ NextType \/ NoneAgreed PROVE BothInv'
  <2>1. connected' = connected
      BY <1>2, Zenon DEF Connect, Pause, Stop, Enumerate, NextType, NoneAgreed, pinVars
  <2>2. pc \in {"idle", "agree", "types"} /\ pc' \in {"idle", "agree", "types", "attempt"}
      BY <1>2 DEF Connect, Pause, Stop, Enumerate, NextType, NoneAgreed
  <2> QED
      BY <2>1, <2>2, BothFrame
<1>3. ASSUME pc # "idle" PROVE /\ call.o \in Outs /\ call.i \in Ins /\ call.o \in Pins /\ call.i \in Pins
                               /\ call.o # call.i /\ call.o # NoPin /\ call.i # NoPin /\ call.o \notin Ins
    BY <1>3, NoneOfCall DEF ConnectionAssumption
<1>4. connected \in [Pins -> Pins \cup {NoPin}] /\ Ins \subseteq Pins /\ Outs \subseteq Pins /\ Ins \cap Outs = {} /\ NoPin \notin Pins
    BY DEF ConnInv, Typed, Pins, ConnectionAssumption
<1>5. ASSUME Attempt PROVE BothInv'
  <2>1. pc = "attempt" /\ call' = call /\ active' = active /\ connected[call.o] = NoPin
      BY <1>5 DEF Attempt, ConnInv, CallInv, Fresh
  <2>2. \A j \in Ins : connected'[j] = connected[j] /\ connected[j] # call.o
      BY <1>3, <1>4, <1>5, <2>1 DEF Attempt
  <2>3. \A x \in Outs \ {call.o} : connected'[x] = connected[x]
      BY <1>3, <1>4, <1>5, <2>1 DEF Attempt
  <2>4. pc' \in {"receive", "undo"}
      BY <1>5 DEF Attempt
  <2> QED
      BY <2>1, <2>2, <2>3, <2>4
<1>6. ASSUME ReceiveConnection PROVE BothInv'
  <2>1. pc = "receive" /\ call' = call /\ active' = active /\ connected[call.o] = call.i
      BY <1>6 DEF ReceiveConnection, ConnInv, CallInv
  <2>2. CASE pc' = "undo"
    <3>1. connected' = connected
        BY <1>6, <2>2 DEF ReceiveConnection, pinVars
    <3> QED
        BY <2>1, <2>2, <3>1
  <2>3. CASE pc' = "decideIn"
    <3>1. connected' = [connected EXCEPT ![call.i] = call.o] /\ connected[call.i] = NoPin /\ call.i \notin active
        BY <1>3, <1>6, <2>1, <2>3 DEF ReceiveConnection, Busy
    <3>2. \A j \in Ins \ {call.i} : connected'[j] = connected[j] /\ connected[j] # call.o
        BY <1>3, <1>4, <2>1, <3>1
    <3>3. connected'[call.i] = call.o /\ connected'[call.o] = call.i /\ \A x \in Outs : connected'[x] = connected[x]
        BY <1>3, <1>4, <2>1, <3>1
    <3> QED
        BY <1>3, <2>1, <2>3, <3>1, <3>2, <3>3
  <2> QED
      BY <1>6, <2>2, <2>3 DEF ReceiveConnection
<1>7. ASSUME DecideIn \/ DecideOut PROVE BothInv'
  <2>1. connected' = connected /\ active' = active
      BY <1>7 DEF DecideIn, DecideOut, pinVars
  <2>2. \/ pc' \in {"decideOut", "disconnect"} /\ call' = call /\ pc \in {"decideIn", "decideOut"}
        \/ pc' = "idle" /\ pc \in {"decideIn", "decideOut"}
      BY <1>7, Zenon DEF DecideIn, DecideOut, Agreed
  <2> QED
      BY <2>1, <2>2
<1>8. ASSUME DisconnectOther PROVE BothInv'
  <2>1. pc = "disconnect" /\ pc' = "undo" /\ call' = call /\ call.i \notin active
        /\ connected[call.o] = call.i /\ connected[call.i] = call.o
      BY <1>8 DEF DisconnectOther, ConnInv, CallInv
  <2>2. connected' = [connected EXCEPT ![call.i] = NoPin]
      BY <1>8, <2>1 DEF DisconnectOther
  <2>3. ASSUME NEW j \in Ins, j # call.i
        PROVE  connected'[j] = connected[j] /\ connected[j] # call.o
      BY <1>3, <1>4, <2>1, <2>2, <2>3
  <2>4. connected'[call.i] = NoPin /\ \A x \in Outs : connected'[x] = connected[x]
      BY <1>3, <1>4, <2>1, <2>2
  <2> QED
      BY <1>3, <1>4, <2>1, <2>3, <2>4
<1>9. ASSUME Undo PROVE BothInv'
  <2>1. pc = "undo" /\ connected' = [connected EXCEPT ![call.o] = NoPin] /\ pc' \in {"types", "idle"}
      BY <1>9 DEF Undo
  <2>2. \A j \in Ins : connected'[j] = connected[j] /\ connected[j] # call.o
      BY <1>3, <1>4, <2>1
  <2>3. \A x \in Outs \ {call.o} : connected'[x] = connected[x]
      BY <1>3, <1>4, <2>1
  <2> QED
      BY <2>1, <2>2, <2>3
<1>10. ASSUME Part PROVE BothInv'
  <2>1. pc = "part" /\ connected' = [connected EXCEPT ![call.i] = NoPin] /\ pc' = "idle"
      BY <1>10 DEF Part
  <2>2. connected'[call.i] = NoPin /\ \A x \in Pins \ {call.i} : connected'[x] = connected[x]
      BY <1>3, <1>4, <2>1
  <2> QED
      BY <1>3, <1>4, <2>1, <2>2
<1>11. ASSUME Disconnect PROVE BothInv'
  <2>1. PICK x \in Outs :
          /\ pc = "idle" /\ connected[x] # NoPin
          /\ pc' = "part" /\ call' = [NoCall EXCEPT !.o = x, !.i = connected[x]]
          /\ connected' = [connected EXCEPT ![x] = NoPin]
      BY <1>11, Zenon DEF Disconnect
  <2>2. PICK y : y = connected[x]
      BY Zenon
  <2>3. call' = CallOf(x, y, NoType)
      BY <2>1, <2>2, CallParts, Zenon
  <2>4. pc = "idle" /\ y # NoPin /\ pc' = "part" /\ connected' = [connected EXCEPT ![x] = NoPin]
      BY <2>1, <2>2, Zenon
  <2>5. y \in Ins /\ connected[y] = x
      BY <2>2, <2>4 DEF ConnInv, RestInv, Fresh, Paired, Linked
  <2>6. call'.i = y /\ call'.o = x
      BY <2>3, <2>5, CallOfIsCall
  <2>7. /\ \A j \in Ins : connected'[j] = connected[j]
        /\ \A o \in Outs \ {x} : connected'[o] = connected[o]
      BY <1>4, <2>4
  <2>8. ASSUME NEW j \in Ins, connected[j] = x PROVE j = y
      BY <1>4, <2>2, <2>4, <2>8
  <2> QED
      BY <1>4, <2>4, <2>5, <2>6, <2>7, <2>8
<1> QED
    BY <1>1, <1>2, <1>5, <1>6, <1>7, <1>8, <1>9, <1>10, <1>11 DEF Next, Connecting

LEMMA BothInitInv == Init => BothInv
<1>1. Init => pc = "idle" /\ connected = [p \in Pins |-> NoPin] /\ Ins \subseteq Pins
    BY Zenon DEF Init, Pins
<1> QED
    BY <1>1 DEF BothInv

LEMMA BothInvariant ==
    ASSUME ConnectionAssumption, Dynamic \cap Ins = {} PROVE Spec => []BothInv
<1>1. Init => BothInv
    BY BothInitInv
<1>2. ConnInv /\ BothInv /\ [Next]_vars => BothInv'
    BY BothStep
<1> QED
    BY <1>1, <1>2, ConnInvariant, PTL DEF Spec

\* Between calls nothing is left of the exceptions.
LEMMA BothImplied == ASSUME ConnectionAssumption PROVE ConnInv /\ BothInv => BothOrNone
<1> SUFFICES ASSUME ConnInv, BothInv, pc = "idle", NEW o \in Outs, NEW i \in Ins
             PROVE  connected[o] = i <=> connected[i] = o
    BY DEF BothOrNone, AtRest
<1>1. o # NoPin /\ i # NoPin
    BY DEF ConnectionAssumption, Pins
<1>2. connected[o] = i => connected[i] = o
    BY <1>1 DEF ConnInv, RestInv, Fresh, Paired, Linked
<1>3. connected[i] = o => connected[o] = i
    BY <1>1 DEF BothInv
<1> QED
    BY <1>2, <1>3

\* If no input pin accepts a connection while its filter is active, both pins or
\* none are connected between calls, whatever failed on the way.  (An active input
\* pin that accepts one refuses the Disconnect that takes it back.)
THEOREM BothEnds ==
    ASSUME ConnectionAssumption, Dynamic \cap Ins = {} PROVE Spec => []BothOrNone
<1>1. ConnInv /\ BothInv => BothOrNone
    BY BothImplied
<1> QED
    BY <1>1, ConnInvariant, BothInvariant, PTL

-----------------------------------------------------------------------------
\* BaseFilter.  How far the loop over the pins is, and the clock's references.
Pinned == {p \in 1..NPins : p \in Connected}

FilterTyped ==
    /\ state \in {"stopped", "paused", "running"} /\ at \in 0..(NPins + 1)
    /\ pins \in [1..NPins -> {"inactive", "active", "running"}]
    /\ filterPc \in {"idle", "stop", "pause", "pauseRun", "run", "clock"}
    /\ session \in Nat \ {0} /\ error \in 0..session /\ receive \in 0..session
    /\ clock \in Clocks \cup {NoClock} /\ newClock \in Clocks \cup {NoClock}
    /\ clockRefs \in [Clocks -> Int]

LoopInv ==
    /\ \A p \in (1..NPins) \ Connected : pins[p] = "inactive"
    /\ filterPc \in {"idle", "clock", "run"} /\ state # "stopped" =>
           \A p \in Pinned : pins[p] # "inactive"
    /\ filterPc \in {"idle", "clock"} /\ state = "running" => \A p \in Pinned : pins[p] = "running"
    /\ filterPc \in {"pause", "pauseRun"} =>
           state = "stopped" /\ \A p \in Pinned : p < at => pins[p] # "inactive"
    /\ filterPc = "run" => state = "paused" /\ \A p \in Pinned : p < at => pins[p] = "running"
    /\ filterPc = "stop" => \A p \in Pinned : p < at => pins[p] = "inactive"
    /\ filterPc \in {"stop", "pause", "pauseRun", "run"} => at >= 1

\* A stopped filter, if activating cannot fail.
StoppedInv ==
    filterPc \in {"idle", "clock"} /\ state = "stopped" => \A p \in Pinned : pins[p] = "inactive"

LastInv ==
    /\ filterPc \in {"idle", "clock"} /\ last = "stop" => state = "stopped"
    /\ filterPc \in {"pause", "pauseRun", "run"} => last # "stop"

SessionInv ==
    /\ error # 0 => error = session
    /\ receive # 0 => receive = session

ClockInv ==
    /\ \A k \in Clocks :
           clockRefs[k] >= (IF clock = k THEN 1 ELSE 0) + (IF newClock = k THEN 1 ELSE 0)
    /\ filterPc # "clock" => newClock = NoClock

FilterInv == FilterTyped /\ LoopInv /\ SessionInv /\ ClockInv

LEMMA FilterInitInv == ASSUME Filter!BaseFilterAssumption, Filter!Init PROVE FilterInv /\ StoppedInv /\ LastInv
<1> USE DEF Filter!BaseFilterAssumption, Filter!Init, Filter!Stopped, Filter!NoError
<1>1. FilterTyped
    BY DEF FilterTyped
<1>2. LoopInv /\ SessionInv /\ StoppedInv /\ LastInv
    BY DEF LoopInv, SessionInv, StoppedInv, LastInv, Pinned
<1>3. ClockInv
    BY DEF ClockInv
<1> QED
    BY <1>1, <1>2, <1>3 DEF FilterInv

\* The calls of the application change the pins, those of the streams the errors,
\* those about the clock its references.
Drives == Filter!Stop \/ Filter!Pause \/ Filter!Run \/ Filter!InactivePin \/ Filter!StopReturns
          \/ Filter!ActivePin \/ Filter!PauseReturns \/ Filter!RunPin \/ Filter!RunReturns
Streams == Filter!BeginFlush \/ Filter!EndFlush \/ Filter!Receive \/ Filter!ReceiveReturns
Clocking == Filter!SetSyncSource \/ Filter!SwapClock \/ Filter!ReleaseClock

LEMMA FilterActs == Filter!Next => Drives \/ Streams \/ Clocking
BY DEF Filter!Next, Filter!InCall, Drives, Streams, Clocking

LEMMA StreamsInv ==
    ASSUME Filter!BaseFilterAssumption, FilterInv, Streams PROVE FilterInv' /\ UNCHANGED <<state, pins, filterPc, at, last>>
<1>1. UNCHANGED <<state, pins, filterPc, at, last, clock, newClock, clockRefs>>
    BY DEF Streams, Filter!BeginFlush, Filter!EndFlush, Filter!Receive, Filter!ReceiveReturns,
       Filter!appVars, Filter!clockVars
<1>2. LoopInv' /\ ClockInv'
    BY <1>1 DEF FilterInv, LoopInv, ClockInv
<1>3. FilterTyped' /\ SessionInv'
  <2>1. CASE Filter!BeginFlush
      BY <1>1, <2>1 DEF Filter!BeginFlush, FilterInv, FilterTyped, SessionInv
  <2>2. CASE Filter!EndFlush
    <3>1. session' = session + 1 /\ session \in Nat \ {0} /\ error' = 0 /\ receive' = 0
        BY <2>2 DEF Filter!EndFlush, Filter!NoError, FilterInv, FilterTyped
    <3>2. session' \in Nat \ {0} /\ error' \in 0..session' /\ receive' \in 0..session'
        BY <3>1
    <3> QED
        BY <1>1, <3>1, <3>2 DEF FilterInv, FilterTyped, SessionInv
  <2>3. CASE Filter!Receive
      BY <1>1, <2>3 DEF Filter!Receive, Filter!pinVars, FilterInv, FilterTyped, SessionInv
  <2>4. CASE Filter!ReceiveReturns
      BY <1>1, <2>4 DEF Filter!ReceiveReturns, FilterInv, FilterTyped, SessionInv
  <2> QED
      BY <2>1, <2>2, <2>3, <2>4 DEF Streams
<1> QED
    BY <1>1, <1>2, <1>3 DEF FilterInv

LEMMA ClockingInv ==
    ASSUME Filter!BaseFilterAssumption, FilterInv, StoppedInv \/ ActiveMayFail, LastInv, Clocking
    PROVE  FilterInv' /\ LastInv' /\ (StoppedInv' \/ ActiveMayFail)
<1>1. UNCHANGED <<state, pins, at, last, flushing, error, session, receive>>
    BY DEF Clocking, Filter!SetSyncSource, Filter!SwapClock, Filter!ReleaseClock, Filter!appVars, Filter!pinVars
<1>2. (filterPc \in {"idle", "clock"} <=> filterPc' \in {"idle", "clock"}) /\ (filterPc' \notin {"idle", "clock"} => filterPc' = filterPc)
    BY DEF Clocking, Filter!SetSyncSource, Filter!SwapClock, Filter!ReleaseClock, Filter!appVars
<1>3. LoopInv' /\ SessionInv' /\ LastInv' /\ (StoppedInv' \/ ActiveMayFail)
    BY <1>1, <1>2 DEF FilterInv, LoopInv, SessionInv, LastInv, StoppedInv
<1>4. FilterTyped' /\ ClockInv'
  <2>1. CASE Filter!SetSyncSource
      BY <1>1, <2>1 DEF Filter!SetSyncSource, Filter!BaseFilterAssumption, FilterInv, FilterTyped, ClockInv
  <2>2. CASE Filter!SwapClock
      BY <1>1, <2>2 DEF Filter!SwapClock, Filter!BaseFilterAssumption, FilterInv, FilterTyped, ClockInv
  <2>3. CASE Filter!ReleaseClock
      BY <1>1, <2>3 DEF Filter!ReleaseClock, Filter!appVars, FilterInv, FilterTyped, ClockInv
  <2> QED
      BY <2>1, <2>2, <2>3 DEF Clocking
<1> QED
    BY <1>3, <1>4 DEF FilterInv

LEMMA DrivesInv ==
    ASSUME Filter!BaseFilterAssumption, FilterInv, StoppedInv \/ ActiveMayFail, LastInv, Drives
    PROVE  FilterInv' /\ LastInv' /\ (StoppedInv' \/ ActiveMayFail)
<1> USE DEF Filter!Stopped, Filter!Paused, Filter!Running, Filter!Call, Filter!Return
<1>1. UNCHANGED <<clock, newClock, clockRefs, session, receive>>
    BY DEF Drives, Filter!Stop, Filter!Pause, Filter!Run, Filter!InactivePin, Filter!StopReturns, Filter!ActivePin,
       Filter!PauseReturns, Filter!RunPin, Filter!RunReturns, Filter!pinVars, Filter!clockVars
<1>2. error' = error \/ error' = 0
    BY DEF Drives, Filter!Stop, Filter!Pause, Filter!Run, Filter!InactivePin, Filter!StopReturns, Filter!ActivePin,
       Filter!PauseReturns, Filter!RunPin, Filter!RunReturns, Filter!pinVars, Filter!NoError
<1>3. filterPc # "clock" /\ filterPc' # "clock"
    BY DEF Drives, Filter!Stop, Filter!Pause, Filter!Run, Filter!InactivePin, Filter!StopReturns, Filter!ActivePin,
       Filter!PauseReturns, Filter!RunPin, Filter!RunReturns
<1>4. SessionInv' /\ ClockInv'
    BY <1>1, <1>2, <1>3 DEF FilterInv, SessionInv, ClockInv
<1>5. NPins \in Nat \ {0} /\ Connected \subseteq 1..NPins
    BY DEF Filter!BaseFilterAssumption
<1>6. (state' \in {"stopped", "paused", "running"} /\ at' \in 0..(NPins + 1)
       /\ pins' \in [1..NPins -> {"inactive", "active", "running"}]
       /\ filterPc' \in {"idle", "stop", "pause", "pauseRun", "run", "clock"})
      /\ LoopInv' /\ LastInv' /\ (StoppedInv' \/ ActiveMayFail)
  <2> USE DEF FilterInv, FilterTyped, LoopInv, LastInv, StoppedInv, Pinned
  <2>1. CASE Filter!Stop
      BY <1>5, <2>1 DEF Filter!Stop
  <2>2. CASE Filter!Pause
      BY <1>5, <2>2 DEF Filter!Pause
  <2>3. CASE Filter!Run
      BY <1>5, <2>3 DEF Filter!Run
  <2>4. CASE Filter!InactivePin
      BY <1>5, <2>4 DEF Filter!InactivePin
  <2>5. CASE Filter!StopReturns
      BY <1>5, <2>5 DEF Filter!StopReturns
  <2>6. CASE Filter!ActivePin
      BY <1>5, <2>6 DEF Filter!ActivePin
  <2>7. CASE Filter!PauseReturns
    <3>1. filterPc \in {"pause", "pauseRun"} /\ at > NPins /\ UNCHANGED <<pins, last>> /\ state' = "paused"
          /\ ((filterPc' = "idle" /\ at' = 0) \/ (filterPc' = "run" /\ at' = 1))
        BY <2>7 DEF Filter!PauseReturns
    <3>2. \A p \in 1..NPins : p < at
        BY <1>5, <3>1
    <3>3. \A p \in 1..NPins : p \in Connected => pins[p] # "inactive"
        BY <3>1, <3>2
    <3>4. pins' = pins /\ (\A p \in (1..NPins) \ Connected : pins'[p] = "inactive") /\ at' \in 0..(NPins + 1)
        BY <1>5, <3>1
    <3>5. LoopInv'
        BY <1>5, <3>1, <3>3, <3>4
    <3>6. LastInv' /\ (StoppedInv' \/ ActiveMayFail)
        BY <3>1
    <3> QED
        BY <3>1, <3>4, <3>5, <3>6
  <2>8. CASE Filter!RunPin
    <3>1. filterPc = "run" /\ at <= NPins /\ last' = last /\ state = "paused" /\ at \in 1..NPins
        BY <1>5, <2>8 DEF Filter!RunPin
    <3>2. CASE /\ pins' = IF at \in Connected THEN [pins EXCEPT ![at] = "running"] ELSE pins
               /\ at' = at + 1 /\ UNCHANGED <<state, filterPc>>
      <4>1. pins' \in [1..NPins -> {"inactive", "active", "running"}] /\ at' \in 1..(NPins + 1)
          BY <1>5, <3>1, <3>2
      <4>2. \A p \in 1..NPins : pins'[p] = IF p = at /\ p \in Connected THEN "running" ELSE pins[p]
          BY <1>5, <3>1, <3>2
      <4>3. \A p \in 1..NPins : p < at' => p < at \/ p = at
          BY <1>5, <3>1, <3>2
      <4>4. \A p \in 1..NPins : p \in Connected /\ p < at' => pins'[p] = "running"
          BY <3>1, <4>2, <4>3
      <4>5. \A p \in 1..NPins : p \in Connected => pins'[p] # "inactive"
          BY <3>1, <4>2
      <4>6. \A p \in (1..NPins) \ Connected : pins'[p] = "inactive"
          BY <4>2
      <4>7. LoopInv'
          BY <3>1, <3>2, <4>1, <4>4, <4>5, <4>6
      <4>8. LastInv' /\ (StoppedInv' \/ ActiveMayFail)
          BY <3>1, <3>2
      <4> QED
          BY <1>5, <3>1, <3>2, <4>1, <4>7, <4>8
    <3>3. CASE filterPc' = "idle" /\ at' = 0 /\ state' = state /\ pins' = pins
        BY <1>5, <3>1, <3>3
    <3> QED
        BY <2>8, <3>2, <3>3 DEF Filter!RunPin
  <2>9. CASE Filter!RunReturns
    <3>1. filterPc = "run" /\ at > NPins /\ UNCHANGED <<pins, last>> /\ state' = "running"
          /\ filterPc' = "idle" /\ at' = 0
        BY <2>9 DEF Filter!RunReturns
    <3>2. \A p \in 1..NPins : p < at
        BY <1>5, <3>1
    <3>3. \A p \in 1..NPins : p \in Connected => pins[p] = "running"
        BY <3>1, <3>2
    <3>4. pins' = pins /\ (\A p \in (1..NPins) \ Connected : pins'[p] = "inactive") /\ at' \in 0..(NPins + 1)
        BY <1>5, <3>1
    <3>5. LoopInv'
        BY <1>5, <3>1, <3>3, <3>4
    <3>6. LastInv' /\ (StoppedInv' \/ ActiveMayFail)
        BY <3>1
    <3> QED
        BY <3>1, <3>4, <3>5, <3>6
  <2> QED
      BY <2>1, <2>2, <2>3, <2>4, <2>5, <2>6, <2>7, <2>8, <2>9 DEF Drives
<1>7. FilterTyped'
  <2>1. error' \in 0..session'
      BY <1>1, <1>2 DEF FilterInv, FilterTyped
  <2> QED
      BY <1>1, <1>6, <2>1 DEF FilterInv, FilterTyped
<1> QED
    BY <1>4, <1>6, <1>7 DEF FilterInv

StoppedOrFails == StoppedInv \/ ActiveMayFail

LEMMA FilterStepInv ==
    ASSUME Filter!BaseFilterAssumption, FilterInv, LastInv, StoppedOrFails, [Filter!Next]_(Filter!vars)
    PROVE  FilterInv' /\ LastInv' /\ StoppedOrFails'
<1>1. CASE Drives
    BY <1>1, DrivesInv DEF StoppedOrFails
<1>2. CASE Streams
  <2>1. FilterInv' /\ UNCHANGED <<state, pins, filterPc, at, last>>
      BY <1>2, StreamsInv
  <2> QED
      BY <2>1 DEF LastInv, StoppedInv, StoppedOrFails
<1>3. CASE Clocking
    BY <1>3, ClockingInv DEF StoppedOrFails
<1>4. CASE UNCHANGED Filter!vars
  <2>1. UNCHANGED <<state, pins, filterPc, at, last, error, session, receive, clock, newClock, clockRefs>>
      BY <1>4 DEF Filter!vars, Filter!appVars, Filter!pinVars, Filter!clockVars
  <2> QED
      BY <2>1 DEF FilterInv, FilterTyped, LoopInv, SessionInv, ClockInv, LastInv, StoppedInv, StoppedOrFails
<1> QED
    BY <1>1, <1>2, <1>3, <1>4, FilterActs

\* What is asked of a filter is what the invariants say of it.
LEMMA FilterImplied ==
    ASSUME Filter!BaseFilterAssumption, FilterInv, LastInv, StoppedOrFails
    PROVE  /\ Filter!ActiveWhenStarted /\ Filter!NoStaleError /\ Filter!ClockIsAlive
           /\ ~ActiveMayFail => Filter!StoppedIsInactive
<1>1. Pinned = Connected
    BY DEF Pinned, Filter!BaseFilterAssumption
<1>2. Filter!ActiveWhenStarted
    BY <1>1 DEF FilterInv, FilterTyped, LoopInv, Filter!ActiveWhenStarted, Filter!BaseFilterAssumption,
       Filter!Stopped, Filter!Running
<1>3. Filter!NoStaleError
    BY DEF FilterInv, SessionInv, Filter!NoStaleError, Filter!NoError
<1>4. ASSUME clock # NoClock PROVE clockRefs[clock] > 0
  <2>1. clock \in Clocks /\ clockRefs[clock] \in Int
      BY <1>4 DEF FilterInv, FilterTyped
  <2> QED
      BY <1>4, <2>1 DEF FilterInv, ClockInv
<1>5. ~ActiveMayFail => Filter!StoppedIsInactive
    BY <1>1 DEF LastInv, StoppedInv, StoppedOrFails, Filter!StoppedIsInactive
<1> QED
    BY <1>2, <1>3, <1>4, <1>5 DEF Filter!ClockIsAlive

\* The types, with that of the flag that no other part of the invariant reads.
LEMMA FilterTypes ==
    /\ Filter!Init => flushing \in BOOLEAN
    /\ flushing \in BOOLEAN /\ [Filter!Next]_(Filter!vars) => flushing' \in BOOLEAN
    /\ FilterInv /\ flushing \in BOOLEAN => Filter!TypeOK
<1>1. Filter!Init => flushing \in BOOLEAN
    BY DEF Filter!Init
<1>2. ASSUME flushing \in BOOLEAN, [Filter!Next]_(Filter!vars) PROVE flushing' \in BOOLEAN
    BY <1>2 DEF Filter!Next, Filter!InCall, Filter!vars, Filter!appVars, Filter!pinVars, Filter!clockVars,
       Filter!Stop, Filter!Pause, Filter!Run, Filter!InactivePin, Filter!StopReturns, Filter!ActivePin,
       Filter!PauseReturns, Filter!RunPin, Filter!RunReturns, Filter!BeginFlush, Filter!EndFlush,
       Filter!Receive, Filter!ReceiveReturns, Filter!SetSyncSource, Filter!SwapClock, Filter!ReleaseClock
<1>3. FilterInv /\ flushing \in BOOLEAN => Filter!TypeOK
    BY DEF FilterInv, FilterTyped, Filter!TypeOK, Filter!Stopped, Filter!Paused, Filter!Running
<1> QED
    BY <1>1, <1>2, <1>3

LEMMA FilterInvariant ==
    ASSUME Filter!BaseFilterAssumption
    PROVE  Filter!Spec => []FilterInv /\ []LastInv /\ []StoppedOrFails
<1>1. Filter!Init => FilterInv /\ LastInv /\ StoppedOrFails
    BY FilterInitInv DEF StoppedOrFails
<1>2. FilterInv /\ LastInv /\ StoppedOrFails /\ [Filter!Next]_(Filter!vars)
        => FilterInv' /\ LastInv' /\ StoppedOrFails'
    BY FilterStepInv
<1> QED
    BY <1>1, <1>2, PTL DEF Filter!Spec

\* BaseFilter: between calls the connected pins of a paused or running filter are
\* active, those of a running one run, and the others never are, although Active
\* and Run of a pin may fail half way.
THEOREM StartedIsActive ==
    ASSUME Filter!BaseFilterAssumption PROVE Filter!Spec => []Filter!ActiveWhenStarted
<1>1. FilterInv /\ LastInv /\ StoppedOrFails => Filter!ActiveWhenStarted
    BY FilterImplied
<1> QED
    BY <1>1, FilterInvariant, PTL

\* If no pin can fail to become active, none is active after Stop.  (Stop of a filter
\* whose Pause failed half way returns at once: its state never left Stopped.)
THEOREM StopDeactivates ==
    ASSUME Filter!BaseFilterAssumption, ~ActiveMayFail PROVE Filter!Spec => []Filter!StoppedIsInactive
<1>1. FilterInv /\ LastInv /\ StoppedOrFails => Filter!StoppedIsInactive
    BY FilterImplied
<1> QED
    BY <1>1, FilterInvariant, PTL

\* A run-time error that the input pin remembers was raised since the last flush,
\* although Receive runs without the filter's lock.
THEOREM ErrorsAreFresh ==
    ASSUME Filter!BaseFilterAssumption PROVE Filter!Spec => []Filter!NoStaleError
<1>1. FilterInv /\ LastInv /\ StoppedOrFails => Filter!NoStaleError
    BY FilterImplied
<1> QED
    BY <1>1, FilterInvariant, PTL

\* The filter's clock is alive, whenever the application gives up its references and
\* whichever clock is set, the same again included.
THEOREM ClockLives ==
    ASSUME Filter!BaseFilterAssumption PROVE Filter!Spec => []Filter!ClockIsAlive
<1>1. FilterInv /\ LastInv /\ StoppedOrFails => Filter!ClockIsAlive
    BY FilterImplied
<1> QED
    BY <1>1, FilterInvariant, PTL

-----------------------------------------------------------------------------
\* EnumPins.  What an enumerator has returned is in its cache, its position is
\* within the count it read, and that count is the filter's while the versions
\* agree, but for the moment between reading the one and the other.
EnumRecords == [pos : Nat, count : Nat, version : Nat, cache : SUBSET FilterPins]

NextRecords ==
    [e : Enums \cup {NoEnum}, at : {"idle", "version", "count", "pins", "done"}, want : Nat,
     fetched : Seq(FilterPins), result : {"none", "outOfSync", "ok", "fewer"}]

EnumTyped ==
    /\ list \in Seq(FilterPins) /\ version \in Nat /\ owner \subseteq Enums
    /\ enum \in [Enums -> EnumRecords] /\ seen \in [Enums -> Seq(FilterPins)]
    /\ next \in NextRecords
    /\ next.at # "idle" => next.e \in Enums

Distinct(q) == \A j, k \in DOMAIN q : j # k => q[j] # q[k]

SeenInv == \A e \in Enums : PinList!InSeq(seen[e]) \subseteq enum[e].cache /\ Distinct(seen[e])

CountInv ==
    \A e \in Enums :
        /\ enum[e].pos <= enum[e].count /\ enum[e].version <= version
        /\ enum[e].version = version /\ ~changed /\ ~(next.at = "count" /\ next.e = e) =>
               enum[e].count = Len(list)

DoneInv == next.at = "done" /\ next.result = "fewer" => enum[next.e].pos = enum[next.e].count

EnumInv == EnumTyped /\ SeenInv /\ CountInv /\ DoneInv

\* Another pin is returned.
LEMMA OneMoreSeen ==
    ASSUME NEW q \in Seq(FilterPins), NEW x \in FilterPins, x \notin PinList!InSeq(q), Distinct(q)
    PROVE  /\ Append(q, x) \in Seq(FilterPins) /\ Distinct(Append(q, x))
           /\ PinList!InSeq(Append(q, x)) = PinList!InSeq(q) \cup {x}
<1>1. /\ Append(q, x) \in Seq(FilterPins) /\ DOMAIN Append(q, x) = 1..(Len(q) + 1)
      /\ DOMAIN q = 1..Len(q) /\ Len(q) \in Nat
      /\ Append(q, x)[Len(q) + 1] = x /\ \A k \in 1..Len(q) : Append(q, x)[k] = q[k]
    OBVIOUS
<1>2. Distinct(Append(q, x))
    BY <1>1 DEF Distinct, PinList!InSeq
<1>3. PinList!InSeq(Append(q, x)) = PinList!InSeq(q) \cup {x}
    BY <1>1 DEF PinList!InSeq
<1> QED
    BY <1>1, <1>2, <1>3

LEMMA ChangeInv == ASSUME PinList!EnumPinsAssumption, EnumInv, PinList!Change PROVE EnumInv'
<1>1. changed' = TRUE /\ UNCHANGED <<version, enum, owner, next, seen>>
    BY DEF PinList!Change
<1>2. list' \in Seq(FilterPins)
  <2>0. list \in Seq(FilterPins)
      BY DEF EnumInv, EnumTyped
  <2>1. ASSUME NEW p \in FilterPins PROVE Append(list, p) \in Seq(FilterPins)
      BY <2>0
  <2>2. ASSUME NEW k \in DOMAIN list
        PROVE  SubSeq(list, 1, k - 1) \o SubSeq(list, k + 1, Len(list)) \in Seq(FilterPins)
    <3>1. k \in 1..Len(list) /\ Len(list) \in Nat
        BY <2>0
    <3>2. SubSeq(list, 1, k - 1) \in Seq(FilterPins) /\ SubSeq(list, k + 1, Len(list)) \in Seq(FilterPins)
        BY <2>0, <3>1
    <3> QED
        BY <3>2
  <2> QED
      BY <2>1, <2>2 DEF PinList!Change
<1> QED
    BY <1>1, <1>2 DEF EnumInv, EnumTyped, SeenInv, CountInv, DoneInv, PinList!InSeq

LEMMA IncrementInv == ASSUME EnumInv, PinList!IncrementPinVersion PROVE EnumInv'
<1>1. version' = version + 1 /\ UNCHANGED <<list, enum, owner, next, seen>>
    BY DEF PinList!IncrementPinVersion
<1> QED
    BY <1>1 DEF EnumInv, EnumTyped, SeenInv, CountInv, DoneInv, EnumRecords, PinList!InSeq

LEMMA NextCallInv == ASSUME EnumInv, NEW e \in Enums, PinList!Next_(e) PROVE EnumInv'
<1>1. UNCHANGED <<list, version, changed, enum, owner, seen>>
    BY DEF PinList!Next_, PinList!filterVars
<1>2. PICK n \in 1..MaxWant :
        next' = [e |-> e, at |-> IF PinList!OutOfSync(e) THEN "version" ELSE "pins",
                 want |-> n, fetched |-> <<>>, result |-> "none"]
    BY Zenon DEF PinList!Next_
<1>3. <<>> \in Seq(FilterPins) /\ n \in Nat
    OBVIOUS
<1>4. next' \in NextRecords /\ next'.e = e /\ next'.at \in {"version", "pins"}
    BY <1>2, <1>3 DEF NextRecords
<1>5. next.at \notin {"version", "count", "pins"}
    BY DEF PinList!Next_, PinList!Idle
<1> QED
    BY <1>1, <1>4, <1>5 DEF EnumInv, EnumTyped, SeenInv, CountInv, DoneInv, PinList!InSeq

\* A change of one enumerator, e, and of the call.
LEMMA EnumChanges ==
    ASSUME EnumInv, UNCHANGED <<list, version, changed>>, NEW e \in Enums,
           owner' \subseteq Enums, enum' \in [Enums -> EnumRecords], seen' \in [Enums -> Seq(FilterPins)],
           next' \in NextRecords, next'.at # "idle" => next'.e = e,
           next.at = "count" => next.e = e,
           \A d \in Enums \ {e} : enum'[d] = enum[d] /\ seen'[d] = seen[d],
           PinList!InSeq(seen'[e]) \subseteq enum'[e].cache, Distinct(seen'[e]),
           enum'[e].pos <= enum'[e].count, enum'[e].version <= version,
           enum'[e].version = version /\ ~changed /\ next'.at # "count" => enum'[e].count = Len(list),
           next'.at = "done" /\ next'.result = "fewer" => enum'[e].pos = enum'[e].count
    PROVE  EnumInv'
<1>1. EnumTyped'
    BY DEF EnumInv, EnumTyped
<1>2. SeenInv'
  <2> SUFFICES ASSUME NEW d \in Enums PROVE PinList!InSeq(seen'[d]) \subseteq enum'[d].cache /\ Distinct(seen'[d])
      BY DEF SeenInv, PinList!InSeq, Distinct
  <2>1. CASE d = e
      BY <2>1
  <2>2. CASE d # e
      BY <2>2 DEF EnumInv, SeenInv
  <2> QED
      BY <2>1, <2>2
<1>3. CountInv'
  <2> SUFFICES ASSUME NEW d \in Enums
               PROVE  /\ enum'[d].pos <= enum'[d].count /\ enum'[d].version <= version
                      /\ enum'[d].version = version /\ ~changed /\ ~(next'.at = "count" /\ next'.e = d) =>
                             enum'[d].count = Len(list)
      BY DEF CountInv
  <2>1. CASE d = e
      BY <2>1
  <2>2. CASE d # e
      BY <2>2 DEF EnumInv, CountInv
  <2> QED
      BY <2>1, <2>2
<1>4. DoneInv'
    BY DEF DoneInv
<1> QED
    BY <1>1, <1>2, <1>3, <1>4 DEF EnumInv

LEMMA EnumFacts ==
    ASSUME EnumInv, NEW e \in Enums
    PROVE  /\ enum[e] \in EnumRecords /\ seen[e] \in Seq(FilterPins)
           /\ PinList!InSeq(seen[e]) \subseteq enum[e].cache /\ Distinct(seen[e])
           /\ enum[e].pos <= enum[e].count /\ enum[e].version <= version
           /\ enum[e].version = version /\ ~changed /\ ~(next.at = "count" /\ next.e = e) =>
                  enum[e].count = Len(list)
           /\ list \in Seq(FilterPins) /\ version \in Nat /\ next \in NextRecords /\ owner \subseteq Enums
           /\ enum \in [Enums -> EnumRecords] /\ seen \in [Enums -> Seq(FilterPins)]
BY DEF EnumInv, EnumTyped, SeenInv, CountInv

\* Reset forgets what was returned, and reads version and count again.
LEMMA ResetInv == ASSUME PinList!EnumPinsAssumption, EnumInv, NEW e \in Enums, PinList!Reset(e) PROVE EnumInv'
<1>1. /\ UNCHANGED <<list, version, changed, owner>> /\ next.at \notin {"version", "count", "pins"}
      /\ enum' = [enum EXCEPT ![e].cache = {}] /\ seen' = [seen EXCEPT ![e] = <<>>]
      /\ next' = [PinList!NoCall EXCEPT !.e = e, !.at = "version"]
    BY DEF PinList!Reset, PinList!Idle, PinList!filterVars
<1>2. next' = [e |-> e, at |-> "version", want |-> 0, fetched |-> <<>>, result |-> "none"]
    BY <1>1 DEF PinList!NoCall
<1>3. <<>> \in Seq(FilterPins) /\ PinList!InSeq(<<>>) = {} /\ Distinct(<<>>)
    BY DEF PinList!InSeq, Distinct
<1>4. next' \in NextRecords /\ next'.e = e /\ next'.at = "version"
    BY <1>2, <1>3 DEF NextRecords
<1>5. /\ enum' \in [Enums -> EnumRecords] /\ enum'[e].cache = {}
      /\ enum'[e].pos = enum[e].pos /\ enum'[e].count = enum[e].count /\ enum'[e].version = enum[e].version
      /\ \A d \in Enums \ {e} : enum'[d] = enum[d]
    BY <1>1, EnumFacts DEF EnumRecords
<1>6. seen' \in [Enums -> Seq(FilterPins)] /\ seen'[e] = <<>> /\ \A d \in Enums \ {e} : seen'[d] = seen[d]
    BY <1>1, <1>3, EnumFacts
<1> QED
    BY <1>1, <1>3, <1>4, <1>5, <1>6, EnumFacts, EnumChanges

\* The version is read first.
LEMMA VersionInv == ASSUME EnumInv, PinList!Version PROVE EnumInv'
<1>0. UNCHANGED <<list, version, changed, owner, seen>> /\ next.at = "version"
    BY DEF PinList!Version, PinList!filterVars
<1>1. next.at = "version" /\ enum' = [enum EXCEPT ![next.e].version = version] /\ next' = [next EXCEPT !.at = "count"]
    BY DEF PinList!Version
<1>2. PICK e \in Enums : e = next.e
    BY <1>1 DEF EnumInv, EnumTyped
<1>3. next' \in NextRecords /\ next'.e = e /\ next'.at = "count"
  <2>1. next \in NextRecords
      BY DEF EnumInv, EnumTyped
  <2> QED
      BY <1>1, <1>2, <2>1 DEF NextRecords
<1>4. /\ enum' \in [Enums -> EnumRecords] /\ enum'[e].cache = enum[e].cache
      /\ enum'[e].pos = enum[e].pos /\ enum'[e].count = enum[e].count /\ enum'[e].version = version
      /\ \A d \in Enums \ {e} : enum'[d] = enum[d]
    BY <1>1, <1>2, EnumFacts DEF EnumRecords
<1>5. version \in Nat
    BY DEF EnumInv, EnumTyped
<1> QED
    BY <1>0, <1>2, <1>3, <1>4, <1>5, EnumFacts, EnumChanges

\* Then the count, and the position begins at 0.
LEMMA CountsInv == ASSUME EnumInv, PinList!Count PROVE EnumInv'
<1>0. UNCHANGED <<list, version, changed, owner, seen>> /\ next.at = "count"
    BY DEF PinList!Count, PinList!filterVars
<1>1. /\ next.at = "count" /\ enum' = [enum EXCEPT ![next.e].count = Len(list), ![next.e].pos = 0]
      /\ next' = IF next.want = 0 THEN PinList!NoCall ELSE [next EXCEPT !.at = "pins"]
    BY DEF PinList!Count
<1>2. PICK e \in Enums : e = next.e
    BY <1>1 DEF EnumInv, EnumTyped
<1>3. next' \in NextRecords /\ (next'.at # "idle" => next'.e = e) /\ next'.at \in {"idle", "pins"}
  <2>1. next \in NextRecords /\ <<>> \in Seq(FilterPins)
      BY DEF EnumInv, EnumTyped
  <2> QED
      BY <1>1, <1>2, <2>1 DEF NextRecords, PinList!NoCall
<1>4. Len(list) \in Nat
    BY DEF EnumInv, EnumTyped
<1>5. /\ enum' \in [Enums -> EnumRecords] /\ enum'[e].cache = enum[e].cache
      /\ enum'[e].pos = 0 /\ enum'[e].count = Len(list) /\ enum'[e].version = enum[e].version
      /\ \A d \in Enums \ {e} : enum'[d] = enum[d]
    BY <1>1, <1>2, <1>4, EnumFacts DEF EnumRecords
<1> QED
    BY <1>0, <1>2, <1>3, <1>4, <1>5, EnumFacts, EnumChanges

\* The next pin of the list is returned, unless it has been; or there is none.
LEMMA NextPinInv == ASSUME EnumInv, PinList!NextPin PROVE EnumInv'
<1>1. next.at = "pins" /\ UNCHANGED <<list, version, changed, owner>>
    BY DEF PinList!NextPin, PinList!filterVars
<1>2. PICK e \in Enums : e = next.e
    BY <1>1 DEF EnumInv, EnumTyped
<1>3. PICK k \in Nat : k = enum[e].pos + 1 /\ enum[e].count >= k /\ k >= 1
  <2>1. enum[e] \in EnumRecords /\ enum[e].count > enum[e].pos
      BY <1>2, EnumFacts DEF PinList!NextPin
  <2> QED
      BY <2>1 DEF EnumRecords
<1>4. CASE k > Len(list)
  <2>1. /\ next' = [next EXCEPT !.at = "done", !.result = "outOfSync"]
        /\ enum' = [enum EXCEPT ![e].pos = k] /\ seen' = seen
      BY <1>2, <1>3, <1>4 DEF PinList!NextPin
  <2>0. seen' = seen
      BY <2>1
  <2>2. next' \in NextRecords /\ next'.e = e /\ next'.at = "done" /\ next'.result = "outOfSync"
    <3>1. next \in NextRecords
        BY DEF EnumInv, EnumTyped
    <3> QED
        BY <1>2, <2>1, <3>1 DEF NextRecords
  <2>3. /\ enum' \in [Enums -> EnumRecords] /\ enum'[e].cache = enum[e].cache
        /\ enum'[e].pos = k /\ enum'[e].count = enum[e].count /\ enum'[e].version = enum[e].version
        /\ \A d \in Enums \ {e} : enum'[d] = enum[d]
      BY <1>3, <2>1, EnumFacts DEF EnumRecords
  <2> QED
      BY <1>1, <1>2, <1>3, <2>0, <2>2, <2>3, EnumFacts, EnumChanges
<1>5. CASE k <= Len(list)
  <2>1. PICK x \in FilterPins : x = list[k]
    <3>1. list \in Seq(FilterPins) /\ k \in 1..Len(list)
        BY <1>3, <1>5, EnumFacts
    <3> QED
        BY <3>1
  <2>2. ~(k > Len(list))
    <3>1. Len(list) \in Nat
        BY EnumFacts
    <3> QED
        BY <1>5, <3>1
  <2>3. /\ enum' = [enum EXCEPT ![e].pos = k, ![e].cache = @ \cup {x}]
        /\ next' = IF x \notin enum[e].cache THEN [next EXCEPT !.fetched = Append(@, x)] ELSE next
        /\ seen' = IF x \notin enum[e].cache THEN [seen EXCEPT ![e] = Append(@, x)] ELSE seen
      BY <1>2, <1>3, <2>1, <2>2 DEF PinList!NextPin
  <2>4. next' \in NextRecords /\ next'.e = e /\ next'.at = "pins"
    <3>1. next \in NextRecords
        BY DEF EnumInv, EnumTyped
    <3>2. Append(next.fetched, x) \in Seq(FilterPins)
        BY <3>1 DEF NextRecords
    <3> QED
        BY <1>1, <1>2, <2>3, <3>1, <3>2 DEF NextRecords
  <2>5. /\ enum' \in [Enums -> EnumRecords] /\ enum'[e].cache = enum[e].cache \cup {x}
        /\ enum'[e].pos = k /\ enum'[e].count = enum[e].count /\ enum'[e].version = enum[e].version
        /\ \A d \in Enums \ {e} : enum'[d] = enum[d]
      BY <1>3, <2>3, EnumFacts DEF EnumRecords
  <2>6. /\ seen' \in [Enums -> Seq(FilterPins)] /\ \A d \in Enums \ {e} : seen'[d] = seen[d]
        /\ PinList!InSeq(seen'[e]) \subseteq enum'[e].cache /\ Distinct(seen'[e])
    <3>1. CASE x \notin enum[e].cache
      <4>1. seen' = [seen EXCEPT ![e] = Append(@, x)] /\ x \notin PinList!InSeq(seen[e])
          BY <2>3, <3>1, EnumFacts
      <4>2. /\ Append(seen[e], x) \in Seq(FilterPins) /\ Distinct(Append(seen[e], x))
            /\ PinList!InSeq(Append(seen[e], x)) = PinList!InSeq(seen[e]) \cup {x}
          BY <4>1, OneMoreSeen, EnumFacts
      <4>3. seen'[e] = Append(seen[e], x) /\ seen' \in [Enums -> Seq(FilterPins)]
            /\ \A d \in Enums \ {e} : seen'[d] = seen[d]
          BY <4>1, <4>2, EnumFacts
      <4> QED
          BY <2>5, <4>2, <4>3, EnumFacts
    <3>2. CASE x \in enum[e].cache
      <4>1. seen' = seen
          BY <2>3, <3>2
      <4> QED
          BY <2>5, <4>1, EnumFacts
    <3> QED
        BY <3>1, <3>2
  <2> QED
      BY <1>1, <1>2, <1>3, <2>4, <2>5, <2>6, EnumFacts, EnumChanges
<1> QED
  <2>1. Len(list) \in Nat
      BY EnumFacts
  <2> QED
      BY <1>4, <1>5, <2>1

\* Next returns; with fewer pins than were wanted at the end of the list only.
LEMMA NextReturnsInv == ASSUME EnumInv, PinList!NextReturns PROVE EnumInv'
<1>1. /\ UNCHANGED <<list, version, changed, enum, owner, seen>> /\ next.at = "pins"
      /\ Len(next.fetched) = next.want \/ enum[next.e].count <= enum[next.e].pos
      /\ next' = [next EXCEPT !.at = "done",
                             !.result = IF Len(next.fetched) = next.want THEN "ok" ELSE "fewer"]
    BY DEF PinList!NextReturns, PinList!filterVars
<1>2. PICK e \in Enums : e = next.e
    BY <1>1 DEF EnumInv, EnumTyped
<1>3. /\ next' \in NextRecords /\ next'.e = e /\ next'.at = "done"
      /\ next'.result = "fewer" => enum[e].count <= enum[e].pos
  <2>1. next \in NextRecords
      BY DEF EnumInv, EnumTyped
  <2> QED
      BY <1>1, <1>2, <2>1 DEF NextRecords
<1>4. enum[e].pos \in Nat /\ enum[e].count \in Nat
    BY EnumFacts DEF EnumRecords
<1> QED
    BY <1>1, <1>2, <1>3, <1>4, EnumFacts, EnumChanges

LEMMA IdleRecord == PinList!NoCall \in NextRecords /\ PinList!NoCall.at = "idle"
<1>1. <<>> \in Seq(FilterPins)
    OBVIOUS
<1> QED
    BY <1>1 DEF PinList!NoCall, NextRecords

\* Skip stays within the count.
LEMMA SkipInv == ASSUME PinList!EnumPinsAssumption, EnumInv, NEW e \in Enums, PinList!Skip(e) PROVE EnumInv'
<1>1. PICK n \in 1..MaxWant :
        /\ n <= enum[e].count - enum[e].pos /\ enum' = [enum EXCEPT ![e].pos = @ + n]
    BY DEF PinList!Skip
<1>a. n \in Nat /\ enum[e].pos + n \in Nat /\ enum[e].pos + n <= enum[e].count
    BY <1>1, EnumFacts DEF EnumRecords, PinList!EnumPinsAssumption
<1>2. /\ UNCHANGED <<list, version, changed, owner, seen>> /\ next' = PinList!NoCall
      /\ next.at \notin {"version", "count", "pins"}
    BY Zenon DEF PinList!Skip, PinList!Idle, PinList!filterVars
<1>3. /\ enum' \in [Enums -> EnumRecords] /\ enum'[e].cache = enum[e].cache
      /\ enum'[e].pos <= enum[e].count /\ enum'[e].count = enum[e].count /\ enum'[e].version = enum[e].version
      /\ \A d \in Enums \ {e} : enum'[d] = enum[d]
    BY <1>1, <1>a, EnumFacts DEF EnumRecords
<1> QED
    BY <1>2, <1>3, IdleRecord, EnumFacts, EnumChanges

\* A clone has the position, the cache and the past of its original.
LEMMA CloneInv == ASSUME EnumInv, NEW e \in Enums, PinList!Clone(e) PROVE EnumInv'
<1>1. PICK f \in Enums \ owner :
        /\ owner' = owner \cup {f} /\ enum' = [enum EXCEPT ![f] = enum[e]] /\ seen' = [seen EXCEPT ![f] = seen[e]]
    BY Zenon DEF PinList!Clone
<1>2. /\ UNCHANGED <<list, version, changed>> /\ next' = PinList!NoCall
      /\ next.at \notin {"version", "count", "pins"}
    BY Zenon DEF PinList!Clone, PinList!Idle, PinList!filterVars
<1>3. /\ enum' \in [Enums -> EnumRecords] /\ enum'[f] = enum[e] /\ \A d \in Enums \ {f} : enum'[d] = enum[d]
      /\ seen' \in [Enums -> Seq(FilterPins)] /\ seen'[f] = seen[e] /\ \A d \in Enums \ {f} : seen'[d] = seen[d]
      /\ owner' \subseteq Enums
    BY <1>1, EnumFacts
<1> QED
    BY <1>1, <1>2, <1>3, IdleRecord, EnumFacts, EnumChanges

LEMMA EnumInitInv == ASSUME PinList!EnumPinsAssumption, PinList!Init PROVE EnumInv
<1>1. /\ list = First /\ version = 1 /\ next = PinList!NoCall /\ First \in Seq(FilterPins)
      /\ owner \subseteq Enums /\ seen = [e \in Enums |-> <<>>]
  <2>1. /\ list = First /\ version = 1 /\ next = PinList!NoCall /\ seen = [e \in Enums |-> <<>>]
        /\ \E e \in Enums : owner = {e}
      BY Zenon DEF PinList!Init
  <2> QED
      BY <2>1 DEF PinList!EnumPinsAssumption
<1>2. enum = [e \in Enums |-> [pos |-> 0, count |-> Len(First), version |-> 1, cache |-> {}]]
  <2>1. ASSUME NEW n, NEW b, b = [PinList!Blank EXCEPT !.version = 1, !.count = n]
        PROVE  b = [pos |-> 0, count |-> n, version |-> 1, cache |-> {}]
      BY <2>1 DEF PinList!Blank
  <2>2. [PinList!Blank EXCEPT !.version = 1, !.count = Len(First)]
            = [pos |-> 0, count |-> Len(First), version |-> 1, cache |-> {}]
      BY <2>1, Zenon
  <2> QED
      BY <2>2, Zenon DEF PinList!Init
<1>3. <<>> \in Seq(FilterPins) /\ PinList!InSeq(<<>>) = {} /\ Distinct(<<>>)
    BY DEF PinList!InSeq, Distinct
<1>4. EnumTyped
  <2>1. Len(First) \in Nat
      BY <1>1
  <2> QED
      BY <1>1, <1>2, <1>3, <2>1, IdleRecord DEF EnumTyped, EnumRecords
<1>5. SeenInv
    BY <1>1, <1>2, <1>3 DEF SeenInv
<1>7. CountInv
  <2>1. Len(First) \in Nat /\ list = First /\ version = 1
      BY <1>1
  <2> QED
      BY <1>2, <2>1 DEF CountInv
<1>6. DoneInv
    BY <1>1, IdleRecord DEF DoneInv
<1> QED
    BY <1>4, <1>5, <1>6, <1>7 DEF EnumInv

LEMMA EnumStepInv ==
    ASSUME PinList!EnumPinsAssumption, EnumInv, [PinList!Next]_(PinList!vars) PROVE EnumInv'
<1>1. CASE UNCHANGED PinList!vars
  <2>1. UNCHANGED <<list, version, changed, enum, owner, next, seen>>
      BY <1>1 DEF PinList!vars, PinList!filterVars
  <2> QED
      BY <2>1 DEF EnumInv, EnumTyped, SeenInv, CountInv, DoneInv, PinList!InSeq, Distinct
<1>2. CASE PinList!Next
    BY <1>2, ChangeInv, IncrementInv, NextCallInv, ResetInv, VersionInv, CountsInv, NextPinInv,
       NextReturnsInv, SkipInv, CloneInv DEF PinList!Next, PinList!InNext
<1> QED
    BY <1>1, <1>2

LEMMA EnumInvariant == ASSUME PinList!EnumPinsAssumption PROVE PinList!Spec => []EnumInv
<1>1. PinList!Init => EnumInv
    BY EnumInitInv
<1>2. EnumInv /\ [PinList!Next]_(PinList!vars) => EnumInv'
    BY EnumStepInv
<1> QED
    BY <1>1, <1>2, PTL DEF PinList!Spec

LEMMA EndImplied == EnumInv => PinList!EndIsTheEnd
<1> SUFFICES ASSUME EnumInv, next.at = "done", next.result = "fewer", ~changed, ~PinList!OutOfSync(next.e)
             PROVE  enum[next.e].pos = Len(list)
    BY DEF PinList!EndIsTheEnd
<1>1. next.e \in Enums /\ enum[next.e].version = version
    BY DEF EnumInv, EnumTyped, PinList!OutOfSync
<1> QED
    BY <1>1 DEF EnumInv, CountInv, DoneInv

\* The bounds of an enumerator's numbers: the list has every pin once, the version
\* follows the changes, and Next fetches no more than it is asked for.
EnumBounds ==
    /\ changes \in 0..Changes /\ changed \in BOOLEAN
    /\ version + (IF changed THEN 1 ELSE 0) = changes + 1 /\ version # 0
    /\ Distinct(list)
    /\ \A e \in Enums : enum[e].count <= Cardinality(FilterPins)
    /\ Len(next.fetched) <= next.want

LEMMA DistinctLength ==
    ASSUME IsFiniteSet(FilterPins), NEW q \in Seq(FilterPins), Distinct(q)
    PROVE  Len(q) <= Cardinality(FilterPins) /\ Cardinality(FilterPins) \in Nat
<1>0. Len(q) \in Nat /\ DOMAIN q = 1..Len(q) /\ q \in [1..Len(q) -> FilterPins]
    OBVIOUS
<1>1. q \in Injection(1..Len(q), FilterPins)
    BY <1>0 DEF Distinct, Injection, IsInjective
<1>2. Cardinality(1..Len(q)) <= Cardinality(FilterPins)
    BY <1>1, FS_Injection
<1>3. Cardinality(1..Len(q)) = Len(q)
  <2>1. Cardinality(1..Len(q)) = IF 1 > Len(q) THEN 0 ELSE Len(q) - 1 + 1
      BY <1>0, FS_Interval
  <2> QED
      BY <1>0, <2>1
<1>4. Cardinality(FilterPins) \in Nat
    BY FS_CardinalityType
<1> QED
    BY <1>2, <1>3, <1>4

\* A pin comes or goes: the list still has every pin once.
LEMMA DistinctChange ==
    ASSUME NEW q \in Seq(FilterPins), Distinct(q)
    PROVE  /\ \A x \in FilterPins \ PinList!InSeq(q) : Distinct(Append(q, x))
           /\ \A k \in DOMAIN q : Distinct(SubSeq(q, 1, k - 1) \o SubSeq(q, k + 1, Len(q)))
<1>1. ASSUME NEW x \in FilterPins \ PinList!InSeq(q) PROVE Distinct(Append(q, x))
    BY OneMoreSeen
<1>2. ASSUME NEW k \in DOMAIN q
      PROVE  Distinct(SubSeq(q, 1, k - 1) \o SubSeq(q, k + 1, Len(q)))
  <2> DEFINE a == SubSeq(q, 1, k - 1)
             b == SubSeq(q, k + 1, Len(q))
             At(j) == IF j <= k - 1 THEN j ELSE j + 1
  <2>1. k \in 1..Len(q) /\ Len(q) \in Nat
      OBVIOUS
  <2>2. /\ a \in Seq(FilterPins) /\ Len(a) = k - 1 /\ \A j \in 1..(k - 1) : a[j] = q[j]
        /\ b \in Seq(FilterPins) /\ Len(b) = Len(q) - k /\ \A j \in 1..(Len(q) - k) : b[j] = q[j + k]
      BY <2>1, SubSeqProperties
  <2> HIDE DEF a, b
  <2>3. /\ Len(a \o b) = Len(q) - 1 /\ DOMAIN (a \o b) = 1..(Len(q) - 1)
        /\ \A j \in 1..(Len(q) - 1) : (a \o b)[j] = q[At(j)] /\ At(j) \in DOMAIN q
    <3>1. /\ Len(a \o b) = Len(a) + Len(b) /\ a \o b \in Seq(FilterPins)
          /\ \A j \in 1..(Len(a) + Len(b)) : (a \o b)[j] = IF j <= Len(a) THEN a[j] ELSE b[j - Len(a)]
        BY <2>2, ConcatProperties
    <3>2. Len(a) + Len(b) = Len(q) - 1 /\ DOMAIN (a \o b) = 1..(Len(q) - 1)
        BY <2>1, <2>2, <3>1
    <3>3. ASSUME NEW j \in 1..(Len(q) - 1) PROVE (a \o b)[j] = q[At(j)] /\ At(j) \in DOMAIN q
      <4>1. CASE j <= k - 1
        <5>1. (a \o b)[j] = a[j] /\ a[j] = q[j] /\ At(j) = j
            BY <2>1, <2>2, <3>1, <3>2, <4>1
        <5> QED
            BY <2>1, <5>1
      <4>2. CASE j > k - 1
        <5>1. j - (k - 1) \in 1..(Len(q) - k) /\ j - (k - 1) + k = j + 1 /\ At(j) = j + 1
            BY <2>1, <4>2
        <5>2. b[j - (k - 1)] = q[j - (k - 1) + k]
            BY <2>2, <5>1
        <5>3. (a \o b)[j] = b[j - (k - 1)]
          <6>1. (a \o b)[j] = IF j <= Len(a) THEN a[j] ELSE b[j - Len(a)]
              BY <3>1, <3>2
          <6>2. ~(j <= k - 1)
              BY <2>1, <4>2
          <6> QED
              BY <2>2, <6>1, <6>2
        <5>4. j + 1 \in DOMAIN q
            BY <2>1
        <5> QED
            BY <5>1, <5>2, <5>3, <5>4
      <4>3. j <= k - 1 \/ j > k - 1
          BY <2>1
      <4> QED
          BY <4>1, <4>2, <4>3 DEF At
    <3> QED
        BY <3>1, <3>2, <3>3
  <2>4. \A i, j \in 1..(Len(q) - 1) : i # j => At(i) # At(j)
      BY <2>1
  <2>5. ASSUME NEW i \in 1..(Len(q) - 1), NEW j \in 1..(Len(q) - 1), i # j PROVE (a \o b)[i] # (a \o b)[j]
    <3>1. At(i) # At(j) /\ At(i) \in DOMAIN q /\ At(j) \in DOMAIN q
        BY <2>3, <2>4, <2>5
    <3>2. q[At(i)] # q[At(j)]
        BY <3>1 DEF Distinct
    <3> QED
        BY <2>3, <3>2
  <2>6. Distinct(a \o b)
      BY <2>3, <2>5 DEF Distinct
  <2> QED
      BY <2>6 DEF a, b
<1> QED
    BY <1>1, <1>2

\* What the bounds read of an enumerator and of a call.
LEMMA EnumIs ==
    ASSUME PinList!EnumPinsAssumption, EnumInv
    PROVE  /\ list \in Seq(FilterPins) /\ Len(list) \in Nat /\ version \in Nat
           /\ enum \in [Enums -> EnumRecords] /\ next \in NextRecords
           /\ next.fetched \in Seq(FilterPins) /\ Len(next.fetched) \in Nat /\ next.want \in Nat
           /\ IsFiniteSet(FilterPins) /\ Cardinality(FilterPins) \in Nat /\ Changes \in Nat
           /\ First \in Seq(FilterPins) /\ Len(First) \in Nat /\ Distinct(First)
<1>1. list \in Seq(FilterPins) /\ version \in Nat /\ enum \in [Enums -> EnumRecords] /\ next \in NextRecords
    BY DEF EnumInv, EnumTyped
<1>2. next.fetched \in Seq(FilterPins) /\ next.want \in Nat
    BY <1>1 DEF NextRecords
<1>3. IsFiniteSet(FilterPins) /\ Changes \in Nat /\ First \in Seq(FilterPins)
  <2>1. IsFiniteSet(FilterPins)
      BY Zenon DEF PinList!EnumPinsAssumption, PinList!IsFiniteSet, IsFiniteSet
  <2>2. Changes \in Nat
      BY Zenon DEF PinList!EnumPinsAssumption
  <2>3. First \in Seq(FilterPins)
      BY Zenon DEF PinList!EnumPinsAssumption
  <2> QED
      BY <2>1, <2>2, <2>3
<1>4. Distinct(First)
    BY DEF PinList!EnumPinsAssumption, Distinct
<1>5. Cardinality(FilterPins) \in Nat
    BY <1>3, FS_CardinalityType
<1>6. \A q \in Seq(FilterPins) : Len(q) \in Nat
    OBVIOUS
<1> QED
    BY <1>1, <1>2, <1>3, <1>4, <1>5, <1>6

LEMMA BoundsInit == ASSUME PinList!EnumPinsAssumption, PinList!Init PROVE EnumBounds
<1>0. First \in Seq(FilterPins) /\ Len(First) \in Nat /\ Distinct(First) /\ IsFiniteSet(FilterPins) /\ Changes \in Nat
    BY EnumIs, EnumInitInv
<1>1. /\ list = First /\ version = 1 /\ next = PinList!NoCall /\ changes = 0 /\ changed = FALSE
      /\ enum = [e \in Enums |-> [PinList!Blank EXCEPT !.version = 1, !.count = Len(First)]]
    BY Zenon DEF PinList!Init
<1>3. Len(First) <= Cardinality(FilterPins)
    BY <1>0, DistinctLength
<1>4. \A e \in Enums : enum[e].count = Len(First)
    BY <1>1 DEF PinList!Blank
<1>5. next.want = 0 /\ Len(next.fetched) = 0
    BY <1>1 DEF PinList!NoCall
<1>6. /\ changes \in 0..Changes /\ changed \in BOOLEAN
      /\ version + (IF changed THEN 1 ELSE 0) = changes + 1
  <2>1. changes = 0 /\ changed = FALSE /\ version = 1 /\ Changes \in Nat
      BY <1>0, <1>1
  <2>2. 0 \in 0..Changes
      BY <2>1
  <2>3. (IF changed THEN 1 ELSE 0) = 0
      BY <2>1
  <2>4. 1 + 0 = 0 + 1
      OBVIOUS
  <2> QED
      BY <2>1, <2>2, <2>3, <2>4
<1>7. Distinct(list) /\ version # 0
    BY <1>0, <1>1
<1> QED
    BY <1>3, <1>4, <1>5, <1>6, <1>7 DEF EnumBounds

\* What a step that leaves the list alone must not do.
LEMMA BoundsFrame ==
    ASSUME EnumBounds, UNCHANGED <<list, version, changed, changes>>,
           \A e \in Enums : enum'[e].count <= Cardinality(FilterPins),
           Len(next'.fetched) <= next'.want
    PROVE  EnumBounds'
BY DEF EnumBounds, Distinct

LEMMA BoundsStep ==
    ASSUME PinList!EnumPinsAssumption, EnumInv, EnumBounds, [PinList!Next]_(PinList!vars)
    PROVE  EnumBounds'
<1>0. Distinct(list) /\ \A e \in Enums : enum[e].count <= Cardinality(FilterPins)
    BY DEF EnumBounds
<1>1. Len(list) <= Cardinality(FilterPins)
    BY <1>0, EnumIs, DistinctLength
<1>2. CASE PinList!Change
  <2>1. /\ changed = FALSE /\ changed' = TRUE /\ changes < Changes /\ changes' = changes + 1
        /\ UNCHANGED <<version, enum, next>>
      BY <1>2 DEF PinList!Change, EnumBounds
  <2>2. Distinct(list')
      BY <1>0, <1>2, EnumIs, DistinctChange DEF PinList!Change
  <2>3. changes' \in 0..Changes /\ version' + (IF changed' THEN 1 ELSE 0) = changes' + 1 /\ version' # 0
      BY <2>1, EnumIs DEF EnumBounds
  <2> QED
      BY <2>1, <2>2, <2>3 DEF EnumBounds
<1>3. CASE PinList!IncrementPinVersion
  <2>1. /\ changed = TRUE /\ changed' = FALSE /\ version' = version + 1
        /\ UNCHANGED <<list, changes, enum, next>>
      BY <1>3 DEF PinList!IncrementPinVersion, EnumBounds
  <2>2. version' + (IF changed' THEN 1 ELSE 0) = changes' + 1 /\ version' # 0
      BY <2>1, EnumIs DEF EnumBounds
  <2> QED
      BY <2>1, <2>2 DEF EnumBounds, Distinct
<1>4. CASE PinList!Version
  <2>1. enum' = [enum EXCEPT ![next.e].version = version] /\ next' = [next EXCEPT !.at = "count"]
      BY <1>4 DEF PinList!Version
  <2>2. \A e \in Enums : enum'[e].count = enum[e].count
      BY <2>1, EnumIs DEF EnumRecords
  <2>3. next'.fetched = next.fetched /\ next'.want = next.want
      BY <2>1, EnumIs DEF NextRecords
  <2> QED
      BY <1>0, <1>4, <2>2, <2>3, BoundsFrame DEF PinList!Version, PinList!filterVars, EnumBounds
<1>5. CASE PinList!Count
  <2>1. /\ enum' = [enum EXCEPT ![next.e].count = Len(list), ![next.e].pos = 0]
        /\ next' = PinList!NoCall \/ next' = [next EXCEPT !.at = "pins"]
      BY <1>5 DEF PinList!Count
  <2>2. \A e \in Enums : enum'[e].count = enum[e].count \/ enum'[e].count = Len(list)
      BY <2>1, EnumIs DEF EnumRecords
  <2>3. \/ next'.fetched = next.fetched /\ next'.want = next.want
        \/ next' = PinList!NoCall
      BY <2>1, EnumIs DEF NextRecords
  <2>4. Len(next'.fetched) <= next'.want
      BY <2>3 DEF PinList!NoCall, EnumBounds
  <2>5. \A e \in Enums : enum'[e].count <= Cardinality(FilterPins)
      BY <1>0, <1>1, <2>2
  <2> QED
      BY <1>5, <2>4, <2>5, BoundsFrame DEF PinList!Count, PinList!filterVars
<1>6. CASE PinList!NextPin
  <2>1. Len(next.fetched) < next.want
      BY <1>6 DEF PinList!NextPin
  <2>2. \A e \in Enums : enum'[e].count = enum[e].count
    <3>1. \/ enum' = enum
          \/ \E k : enum' = [enum EXCEPT ![next.e].pos = k]
          \/ \E k, c : enum' = [enum EXCEPT ![next.e].pos = k, ![next.e].cache = c]
        BY <1>6 DEF PinList!NextPin
    <3>2. ASSUME NEW k, enum' = [enum EXCEPT ![next.e].pos = k]
          PROVE  \A e \in Enums : enum'[e].count = enum[e].count
        BY <3>2, EnumIs DEF EnumRecords
    <3>3. ASSUME NEW k, NEW c, enum' = [enum EXCEPT ![next.e].pos = k, ![next.e].cache = c]
          PROVE  \A e \in Enums : enum'[e].count = enum[e].count
        BY <3>3, EnumIs DEF EnumRecords
    <3>4. CASE enum' = enum
        BY <3>4
    <3> QED
        BY <3>1, <3>2, <3>3, <3>4
  <2>3. \/ next' = next \/ next' = [next EXCEPT !.at = "done", !.result = "outOfSync"]
        \/ \E x : next' = [next EXCEPT !.fetched = Append(next.fetched, x)]
      BY <1>6 DEF PinList!NextPin
  <2>4. Len(next'.fetched) <= next'.want
    <3>1. CASE \E x : next' = [next EXCEPT !.fetched = Append(next.fetched, x)]
      <4>1. PICK x : next' = [next EXCEPT !.fetched = Append(next.fetched, x)]
          BY <3>1
      <4>2. next'.fetched = Append(next.fetched, x) /\ next'.want = next.want
          BY <4>1, EnumIs DEF NextRecords
      <4>3. \A q \in Seq(FilterPins) : Len(Append(q, x)) = Len(q) + 1
          OBVIOUS
      <4> QED
          BY <2>1, <4>2, <4>3, EnumIs
    <3>2. CASE ~\E x : next' = [next EXCEPT !.fetched = Append(next.fetched, x)]
      <4>1. next'.fetched = next.fetched /\ next'.want = next.want
          BY <2>3, <3>2, EnumIs DEF NextRecords
      <4> QED
          BY <4>1 DEF EnumBounds
    <3> QED
        BY <3>1, <3>2
  <2> QED
      BY <1>0, <1>6, <2>2, <2>4, BoundsFrame DEF PinList!NextPin, PinList!filterVars
<1>7. CASE PinList!NextReturns
  <2>1. /\ UNCHANGED <<list, version, changed, changes, enum>>
        /\ \E r : next' = [next EXCEPT !.at = "done", !.result = r]
      BY <1>7 DEF PinList!NextReturns, PinList!filterVars
  <2>2. next'.fetched = next.fetched /\ next'.want = next.want
      BY <2>1, EnumIs DEF NextRecords
  <2> QED
      BY <1>0, <2>1, <2>2, BoundsFrame DEF EnumBounds
<1>8. ASSUME NEW e \in Enums, PinList!Next_(e) \/ PinList!Reset(e) \/ PinList!Skip(e) PROVE EnumBounds'
  <2>1. UNCHANGED <<list, version, changed, changes>>
      BY <1>8 DEF PinList!Next_, PinList!Reset, PinList!Skip, PinList!filterVars
  <2>2. enum' = enum \/ \E c : enum' = [enum EXCEPT ![e].cache = c] \/ enum' = [enum EXCEPT ![e].pos = c]
      BY <1>8 DEF PinList!Next_, PinList!Reset, PinList!Skip
  <2>3. \A f \in Enums : enum'[f].count = enum[f].count
      BY <2>2, EnumIs DEF EnumRecords
  <2>4. next'.fetched = <<>> /\ next'.want \in Nat
    <3>1. CASE PinList!Next_(e)
        BY <3>1 DEF PinList!Next_
    <3>2. CASE PinList!Reset(e)
      <4>1. next' = [PinList!NoCall EXCEPT !.e = e, !.at = "version"]
          BY <3>2 DEF PinList!Reset
      <4> QED
          BY <4>1 DEF PinList!NoCall
    <3>3. CASE PinList!Skip(e)
        BY <3>3 DEF PinList!Skip, PinList!NoCall
    <3> QED
        BY <1>8, <3>1, <3>2, <3>3
  <2>5. Len(next'.fetched) <= next'.want
      BY <2>4
  <2> QED
      BY <1>0, <2>1, <2>3, <2>5, BoundsFrame
<1>9. ASSUME NEW e \in Enums, PinList!Clone(e) PROVE EnumBounds'
  <2>1. UNCHANGED <<list, version, changed, changes>> /\ next' = PinList!NoCall
      BY <1>9 DEF PinList!Clone, PinList!filterVars
  <2>2. \A f \in Enums : enum'[f].count <= Cardinality(FilterPins)
    <3>1. PICK g \in Enums : enum' = [enum EXCEPT ![g] = enum[e]]
        BY <1>9 DEF PinList!Clone
    <3> QED
        BY <1>0, <3>1, EnumIs
  <2>3. Len(next'.fetched) <= next'.want
      BY <2>1 DEF PinList!NoCall
  <2> QED
      BY <2>1, <2>2, <2>3, BoundsFrame
<1>10. CASE UNCHANGED PinList!vars
    BY <1>10 DEF PinList!vars, PinList!filterVars, EnumBounds, Distinct
<1> QED
    BY <1>2, <1>3, <1>4, <1>5, <1>6, <1>7, <1>8, <1>9, <1>10 DEF PinList!Next, PinList!InNext

LEMMA BoundsTyped == ASSUME PinList!EnumPinsAssumption, EnumInv, EnumBounds PROVE PinList!TypeOK
<1>1. PinList!InSeq(list) \subseteq FilterPins
    BY EnumIs DEF PinList!InSeq
<1>2. version \in 1..(Changes + 1)
  <2>1. /\ changes \in 0..Changes /\ changed \in BOOLEAN
        /\ version + (IF changed THEN 1 ELSE 0) = changes + 1 /\ version # 0
      BY DEF EnumBounds
  <2>2. version \in Nat /\ Changes \in Nat
      BY EnumIs
  <2>3. CASE changed
    <3>1. version + 1 = changes + 1
        BY <2>1, <2>3
    <3> QED
        BY <2>1, <2>2, <3>1
  <2>4. CASE ~changed
    <3>1. version + 0 = changes + 1
        BY <2>1, <2>4
    <3> QED
        BY <2>1, <2>2, <3>1
  <2> QED
      BY <2>3, <2>4
<1>3. \A e \in Enums : enum[e].pos \in 0..(Cardinality(FilterPins) + 1) /\ enum[e].cache \subseteq FilterPins
  <2> TAKE e \in Enums
  <2>1. enum[e] \in EnumRecords /\ enum[e].pos <= enum[e].count /\ enum[e].count <= Cardinality(FilterPins)
      BY EnumFacts DEF EnumBounds
  <2> QED
      BY <2>1, EnumIs DEF EnumRecords
<1>4. next.e \in Enums \cup {NoEnum} /\ Len(next.fetched) <= next.want
    BY EnumIs DEF EnumBounds, NextRecords
<1>5. PinList!Cardinality(FilterPins) = Cardinality(FilterPins)
    BY Zenon DEF PinList!Cardinality, Cardinality, PinList!IsFiniteSet, IsFiniteSet
<1> QED
    BY <1>1, <1>2, <1>3, <1>4, <1>5 DEF PinList!TypeOK

\* EnumPins: however the filter's pins change, whenever an enumerator is reset,
\* cloned or finds itself out of step, it returns no pin twice before Reset, and a
\* clone none that its original had returned.
THEOREM NoPinTwice == ASSUME PinList!EnumPinsAssumption PROVE PinList!Spec => []PinList!ReturnedOnce
<1>1. EnumInv => PinList!ReturnedOnce
    BY DEF EnumInv, SeenInv, Distinct, PinList!ReturnedOnce
<1> QED
    BY <1>1, EnumInvariant, PTL

\* A Next that returned fewer pins than it was asked for has reached the end of the
\* list, or the version tells the enumerator so: although version and count are read
\* without the filter's lock, an enumerator in step with its filter has the count of
\* the present list.
THEOREM EndReached == ASSUME PinList!EnumPinsAssumption PROVE PinList!Spec => []PinList!EndIsTheEnd
<1>1. EnumInv => PinList!EndIsTheEnd
    BY EndImplied
<1> QED
    BY <1>1, EnumInvariant, PTL

-----------------------------------------------------------------------------
\* EnumMediaTypes.  What an enumerator may have had at a position.
Had == TypeList!Missed \cup UNION {{o[i] : i \in DOMAIN o} : o \in Offers}

\* The types; an enumerator has had something at every position it went through,
\* and knows no version that the pin has not reached.
TypesTyped ==
    /\ offer \in Offers /\ typesVersion \in 0..Changes /\ replaced \in BOOLEAN
    /\ replaced => typesVersion < Changes
    /\ typesOwner \subseteq Enums
    /\ typesEnum \in [Enums -> [pos : 0..MaxPosition, version : 0..typesVersion]]
    /\ typesSeen \in [Enums -> Seq(Had)]
    /\ \A e \in Enums : Len(typesSeen[e]) = typesEnum[e].pos
    /\ typesCall \in [e : Enums \cup {NoEnum}, want : 0..MaxWant]
    /\ typesCall.want > 0 => typesCall.e \in Enums

TypesInv == TypesTyped /\ TypeList!InOrder

LEMMA HadOffer ==
    ASSUME TypeList!EnumMediaTypesAssumption, NEW o \in Offers
    PROVE  o \in Seq(Had) /\ Len(o) \in Nat /\ \A k \in 1..Len(o) : o[k] \in Had
<1>1. o \in Seq({o[i] : i \in DOMAIN o}) /\ {o[i] : i \in DOMAIN o} \subseteq Had
    BY DEF TypeList!EnumMediaTypesAssumption, Had
<1> QED
    BY <1>1

\* What passing k positions does to an enumerator, and that it keeps the order
\* if what was had there agrees with the offer.
LEMMA Passed ==
    ASSUME TypesTyped, NEW e \in Enums, NEW k \in Nat, NEW what \in Had, TypeList!Pass(e, k, what),
           typesEnum[e].pos + k <= MaxPosition, MaxPosition \in Nat
    PROVE  /\ typesEnum' \in [Enums -> [pos : 0..MaxPosition, version : 0..typesVersion]]
           /\ typesSeen' \in [Enums -> Seq(Had)]
           /\ \A f \in Enums :
                /\ Len(typesSeen'[f]) = typesEnum'[f].pos
                /\ typesEnum'[f].version = typesEnum[f].version
                /\ f # e => typesSeen'[f] = typesSeen[f]
           /\ \A j \in DOMAIN typesSeen'[e] :
                IF j <= typesEnum[e].pos THEN j \in DOMAIN typesSeen[e] /\ typesSeen'[e][j] = typesSeen[e][j]
                ELSE j <= typesEnum[e].pos + k /\ typesSeen'[e][j] = what
<1> DEFINE more == [i \in 1..k |-> what]
<1>1. more \in Seq(Had) /\ Len(more) = k
    OBVIOUS
<1>2. /\ typesSeen' = [typesSeen EXCEPT ![e] = typesSeen[e] \o more]
      /\ typesEnum' = [typesEnum EXCEPT ![e].pos = typesEnum[e].pos + k]
    BY DEF TypeList!Pass, TypesTyped
<1>3. typesSeen[e] \in Seq(Had) /\ Len(typesSeen[e]) = typesEnum[e].pos
    BY DEF TypesTyped
<1>4. /\ typesSeen[e] \o more \in Seq(Had)
      /\ Len(typesSeen[e] \o more) = typesEnum[e].pos + k
    BY <1>1, <1>3, ConcatProperties
<1>5. \A j \in DOMAIN (typesSeen[e] \o more) :
        IF j <= typesEnum[e].pos THEN j \in DOMAIN typesSeen[e] /\ (typesSeen[e] \o more)[j] = typesSeen[e][j]
        ELSE j <= typesEnum[e].pos + k /\ (typesSeen[e] \o more)[j] = what
    BY <1>1, <1>3, <1>4, ConcatProperties
<1>6. /\ typesEnum[e] \in [pos : 0..MaxPosition, version : 0..typesVersion]
      /\ typesEnum[e].pos + k \in 0..MaxPosition
    BY DEF TypesTyped
<1>7. /\ typesEnum' \in [Enums -> [pos : 0..MaxPosition, version : 0..typesVersion]]
      /\ typesEnum'[e].pos = typesEnum[e].pos + k
      /\ \A f \in Enums : typesEnum'[f].version = typesEnum[f].version /\ (f # e => typesEnum'[f] = typesEnum[f])
    BY <1>2, <1>6 DEF TypesTyped
<1>8. /\ typesSeen' \in [Enums -> Seq(Had)]
      /\ typesSeen'[e] = typesSeen[e] \o more
      /\ \A f \in Enums : f # e => typesSeen'[f] = typesSeen[f]
    BY <1>2, <1>4 DEF TypesTyped
<1>9. \A f \in Enums : Len(typesSeen'[f]) = typesEnum'[f].pos
    BY <1>4, <1>7, <1>8 DEF TypesTyped
<1> HIDE DEF more
<1> QED
    BY <1>5, <1>7, <1>8, <1>9

\* The list is replaced and then the version says so: whoever is in step with the
\* new version has not begun.
LEMMA OfferInv ==
    ASSUME TypeList!EnumMediaTypesAssumption, TypesInv, TypeList!Replace \/ TypeList!IncrementTypeVersion
    PROVE  TypesInv'
<1> USE DEF TypesInv, TypesTyped, TypeList!InOrder, TypeList!OutOfSync
<1>1. CASE TypeList!Replace
    BY <1>1 DEF TypeList!Replace
<1>2. CASE TypeList!IncrementTypeVersion
    <2>1. typesVersion' = typesVersion + 1 /\ typesVersion' \in 0..Changes
        BY <1>2 DEF TypeList!IncrementTypeVersion, TypeList!EnumMediaTypesAssumption
    <2>2. typesEnum \in [Enums -> [pos : 0..MaxPosition, version : 0..typesVersion']]
        BY <2>1
    <2>3. \A e \in Enums : typesEnum[e].version # typesVersion'
        BY <2>1
    <2> QED
        BY <1>2, <2>1, <2>2, <2>3 DEF TypeList!IncrementTypeVersion
<1> QED
    BY <1>1, <1>2

LEMMA NextTypesInv ==
    ASSUME TypeList!EnumMediaTypesAssumption, TypesInv, TypeList!NextType
    PROVE  TypesInv'
<1> DEFINE e == typesCall.e
           k == typesEnum[e].pos + 1
<1>1. /\ e \in Enums /\ k \in 1..MaxPosition /\ MaxPosition \in Nat
      /\ UNCHANGED <<offer, typesVersion, replaced, typesOwner>>
    BY DEF TypeList!NextType, TypesInv, TypesTyped, TypeList!EnumMediaTypesAssumption
<1>2. PICK what \in Had :
        /\ TypeList!Pass(e, 1, what)
        /\ what \in TypeList!Missed \/ (k <= Len(offer) /\ what = offer[k])
    <2>1. "lost" \in Had /\ "lost" \in TypeList!Missed
        BY DEF Had, TypeList!Missed
    <2>2. Len(offer) \in Nat /\ \A j \in 1..Len(offer) : offer[j] \in Had
        BY HadOffer DEF TypesInv, TypesTyped
    <2> QED
        BY <1>1, <2>1, <2>2 DEF TypeList!NextType
<1>3. /\ typesEnum' \in [Enums -> [pos : 0..MaxPosition, version : 0..typesVersion]]
      /\ typesSeen' \in [Enums -> Seq(Had)]
      /\ \A f \in Enums :
           /\ Len(typesSeen'[f]) = typesEnum'[f].pos
           /\ typesEnum'[f].version = typesEnum[f].version
           /\ f # e => typesSeen'[f] = typesSeen[f]
      /\ \A j \in DOMAIN typesSeen'[e] :
           IF j <= typesEnum[e].pos THEN j \in DOMAIN typesSeen[e] /\ typesSeen'[e][j] = typesSeen[e][j]
           ELSE j <= typesEnum[e].pos + 1 /\ typesSeen'[e][j] = what
    <2> HIDE DEF e
    <2> QED
        BY <1>1, <1>2, Passed DEF TypesInv
<1>4. typesCall' \in [e : Enums \cup {NoEnum}, want : 0..MaxWant] /\ (typesCall'.want > 0 => typesCall'.e \in Enums)
    <2>1. TypeList!NoCall \in [e : Enums \cup {NoEnum}, want : 0..MaxWant] /\ TypeList!NoCall.want = 0
        BY DEF TypeList!NoCall, TypeList!EnumMediaTypesAssumption
    <2>2. CASE typesCall' = TypeList!NoCall
        BY <2>1, <2>2
    <2>3. CASE typesCall' = [typesCall EXCEPT !.want = @ - 1]
        <3>1. typesCall' = [e |-> typesCall.e, want |-> typesCall.want - 1]
            BY <2>3 DEF TypesInv, TypesTyped
        <3>2. typesCall.want - 1 \in 0..MaxWant
            BY DEF TypeList!NextType, TypesInv, TypesTyped, TypeList!EnumMediaTypesAssumption
        <3> QED
            BY <1>1, <3>1, <3>2
    <2> QED
        BY <2>2, <2>3 DEF TypeList!NextType
<1>5. TypesTyped'
    BY <1>1, <1>3, <1>4 DEF TypesInv, TypesTyped
<1>6. \A j \in DOMAIN typesSeen'[e] : j > typesEnum[e].pos => j = k
    BY <1>1, <1>3 DEF TypesInv, TypesTyped
<1>7. TypeList!InOrder'
    <2> HIDE DEF e, k
    <2> SUFFICES ASSUME ~replaced, NEW f \in typesOwner, typesEnum[f].version = typesVersion,
                        NEW j \in DOMAIN typesSeen'[f]
                 PROVE  typesSeen'[f][j] \in TypeList!Missed \/ (j <= Len(offer) /\ typesSeen'[f][j] = offer[j])
        BY <1>1, <1>3 DEF TypeList!InOrder, TypeList!OutOfSync, TypesInv, TypesTyped
    <2>0. f \in Enums
        BY DEF TypesInv, TypesTyped
    <2>1. CASE f # e \/ j <= typesEnum[e].pos
        <3>1. j \in DOMAIN typesSeen[f] /\ typesSeen'[f][j] = typesSeen[f][j]
            BY <1>3, <2>0, <2>1
        <3> QED
            BY <3>1 DEF TypeList!InOrder, TypeList!OutOfSync, TypesInv
    <2>2. CASE f = e /\ ~(j <= typesEnum[e].pos)
        <3>1. typesSeen'[f][j] = what
            BY <1>3, <2>2
        <3>2. j = k
            <4>1. j \in Nat /\ typesEnum[e].pos \in Nat
                BY <1>1, <1>3, <2>0, <2>2 DEF TypesInv, TypesTyped
            <4> QED
                BY <1>6, <2>2, <4>1
        <3> QED
            BY <1>2, <3>1, <3>2
    <2> QED
        BY <2>1, <2>2
<1> QED
    BY <1>5, <1>7 DEF TypesInv

\* The client's calls on one enumerator.
LEMMA ClientInv ==
    ASSUME TypeList!EnumMediaTypesAssumption, TypesInv, NEW e \in Enums,
           TypeList!Next_(e) \/ TypeList!Skip(e) \/ TypeList!Reset(e) \/ TypeList!Clone(e)
    PROVE  TypesInv'
<1>1. CASE TypeList!Next_(e)
    <2>1. PICK n \in 1..MaxWant : typesCall' = [e |-> e, want |-> n]
        BY <1>1 DEF TypeList!Next_
    <2>2. typesCall' \in [e : Enums \cup {NoEnum}, want : 0..MaxWant] /\ typesCall'.e \in Enums
        BY <2>1 DEF TypeList!EnumMediaTypesAssumption
    <2> QED
        BY <1>1, <2>2 DEF TypeList!Next_, TypesInv, TypesTyped, TypeList!InOrder, TypeList!OutOfSync
<1>2. CASE TypeList!Skip(e)
    <2>1. PICK n \in 1..MaxWant : typesEnum[e].pos + n <= MaxPosition /\ TypeList!Pass(e, n, "skipped")
        BY <1>2 DEF TypeList!Skip
    <2>2. "skipped" \in Had /\ "skipped" \in TypeList!Missed /\ n \in Nat /\ MaxPosition \in Nat
        BY DEF Had, TypeList!Missed, TypeList!EnumMediaTypesAssumption
    <2>3. /\ typesEnum' \in [Enums -> [pos : 0..MaxPosition, version : 0..typesVersion]]
          /\ typesSeen' \in [Enums -> Seq(Had)]
          /\ \A f \in Enums :
               /\ Len(typesSeen'[f]) = typesEnum'[f].pos
               /\ typesEnum'[f].version = typesEnum[f].version
               /\ f # e => typesSeen'[f] = typesSeen[f]
          /\ \A j \in DOMAIN typesSeen'[e] :
               IF j <= typesEnum[e].pos THEN j \in DOMAIN typesSeen[e] /\ typesSeen'[e][j] = typesSeen[e][j]
               ELSE j <= typesEnum[e].pos + n /\ typesSeen'[e][j] = "skipped"
        BY <2>1, <2>2, Passed DEF TypesInv
    <2>4. UNCHANGED <<offer, typesVersion, replaced, typesOwner, typesCall>>
        BY <1>2 DEF TypeList!Skip
    <2>5. TypesTyped'
        BY <2>3, <2>4 DEF TypesInv, TypesTyped
    <2>6. TypeList!InOrder'
        <3> SUFFICES ASSUME ~replaced, NEW f \in typesOwner, typesEnum[f].version = typesVersion,
                            NEW j \in DOMAIN typesSeen'[f]
                     PROVE  typesSeen'[f][j] \in TypeList!Missed \/ (j <= Len(offer) /\ typesSeen'[f][j] = offer[j])
            BY <2>3, <2>4 DEF TypeList!InOrder, TypeList!OutOfSync, TypesInv, TypesTyped
        <3>1. f \in Enums
            BY DEF TypesInv, TypesTyped
        <3>2. CASE f # e \/ j <= typesEnum[e].pos
            <4>1. j \in DOMAIN typesSeen[f] /\ typesSeen'[f][j] = typesSeen[f][j]
                BY <2>3, <3>1, <3>2
            <4> QED
                BY <4>1 DEF TypeList!InOrder, TypeList!OutOfSync, TypesInv
        <3>3. CASE f = e /\ ~(j <= typesEnum[e].pos)
            BY <2>2, <2>3, <3>3
        <3> QED
            BY <3>2, <3>3
    <2> QED
        BY <2>5, <2>6 DEF TypesInv
<1>3. CASE TypeList!Reset(e)
    <2>1. <<>> \in Seq(Had) /\ Len(<<>>) = 0 /\ DOMAIN <<>> = {}
        OBVIOUS
    <2>2. [pos |-> 0, version |-> typesVersion] \in [pos : 0..MaxPosition, version : 0..typesVersion]
        BY DEF TypesInv, TypesTyped, TypeList!EnumMediaTypesAssumption
    <2>3. TypesTyped'
        BY <1>3, <2>1, <2>2 DEF TypeList!Reset, TypesInv, TypesTyped
    <2>4. TypeList!InOrder'
        BY <1>3, <2>1 DEF TypeList!Reset, TypesInv, TypesTyped, TypeList!InOrder, TypeList!OutOfSync
    <2> QED
        BY <2>3, <2>4 DEF TypesInv
<1>4. CASE TypeList!Clone(e)
    <2>1. PICK f \in Enums \ typesOwner :
            /\ e \in typesOwner /\ ~TypeList!OutOfSync(e)
            /\ typesOwner' = typesOwner \cup {f}
            /\ typesEnum' = [typesEnum EXCEPT ![f] = typesEnum[e]]
            /\ typesSeen' = [typesSeen EXCEPT ![f] = typesSeen[e]]
            /\ UNCHANGED <<offer, typesVersion, replaced, typesCall>>
        BY <1>4 DEF TypeList!Clone, TypeList!Idle
    <2>2. TypesTyped'
        BY <2>1 DEF TypesInv, TypesTyped
    <2>3. TypeList!InOrder'
        BY <2>1 DEF TypesInv, TypesTyped, TypeList!InOrder, TypeList!OutOfSync
    <2> QED
        BY <2>2, <2>3 DEF TypesInv
<1> QED
    BY <1>1, <1>2, <1>3, <1>4

LEMMA TypesInitInv == ASSUME TypeList!EnumMediaTypesAssumption, TypeList!Init PROVE TypesInv
<1> USE DEF TypeList!Init, TypeList!EnumMediaTypesAssumption
<1>1. <<>> \in Seq(Had) /\ Len(<<>>) = 0 /\ DOMAIN <<>> = {}
    OBVIOUS
<1>2. replaced \in BOOLEAN /\ typesCall \in [e : Enums \cup {NoEnum}, want : 0..MaxWant] /\ typesCall.want = 0
    <2>1. replaced \in BOOLEAN
        BY Zenon
    <2>2. typesCall = [e |-> NoEnum, want |-> 0] /\ 0 \in 0..MaxWant
        BY DEF TypeList!NoCall
    <2> QED
        BY <2>1, <2>2
<1>3. typesEnum \in [Enums -> [pos : 0..MaxPosition, version : 0..typesVersion]]
    OBVIOUS
<1>4. TypesTyped
    BY <1>1, <1>2, <1>3 DEF TypesTyped
<1>5. TypeList!InOrder
    BY <1>1, <1>4 DEF TypeList!InOrder, TypesTyped
<1> QED
    BY <1>4, <1>5 DEF TypesInv

LEMMA TypesStepInv ==
    ASSUME TypeList!EnumMediaTypesAssumption, TypesInv, [TypeList!Next]_(TypeList!vars)
    PROVE  TypesInv'
<1>1. CASE UNCHANGED TypeList!vars
    BY <1>1 DEF TypeList!vars, TypesInv, TypesTyped, TypeList!InOrder, TypeList!OutOfSync
<1> QED
    BY <1>1, OfferInv, NextTypesInv, ClientInv DEF TypeList!Next

LEMMA TypesInvImplies == TypesInv => TypeList!TypeOK /\ TypeList!InOrder
BY DEF TypesInv, TypesTyped, TypeList!TypeOK

\* An enumerator in step with its pin returns the types of one list, in its
\* order, however often the list is replaced meanwhile.
THEOREM TypesOfOneList ==
    ASSUME TypeList!EnumMediaTypesAssumption
    PROVE  TypeList!Spec => []TypeList!InOrder
<1>1. TypeList!Init => TypesInv
    BY TypesInitInv
<1>2. TypesInv /\ [TypeList!Next]_(TypeList!vars) => TypesInv'
    BY TypesStepInv
<1>3. TypesInv => TypeList!InOrder
    BY TypesInvImplies
<1> QED
    BY <1>1, <1>2, <1>3, PTL DEF TypeList!Spec

-----------------------------------------------------------------------------
\* MediaSample.  The types of its members.
Lengths == {Sample!ToLong(x) : x \in Int} \cup {0}
SampleRecord ==
    [flags : SUBSET Sample!Flags, start : Times \cup {0}, stop : Times \cup {0},
     mediaStart : MediaTimes \cup {0}, mediaEnd : Lengths, type : {Sample!NoMediaType, "t1", "t2"},
     actual : SampleSizes \cup {0}, size : SampleSizes]

\* The properties of a sample in the form SetProperties gets them.
PropertyRecord ==
    [flags : SUBSET Sample!Settable, start : Times, stop : Times, type : {"t1"},
     actual : SampleSizes, size : SampleSizes \cup {0}]

\* The type is there exactly if its flag is, and nothing flagged outlives a use.
SampleInv ==
    /\ s \in SampleRecord /\ inUse \in BOOLEAN /\ given \subseteq {"start", "stop"}
    /\ Sample!TypeHasFlag /\ Sample!RecycledIsClean /\ Sample!StartIsOfThisUse

\* Typed sets the type and its flag together.
LEMMA TypedSets ==
    ASSUME NEW r \in SampleRecord, NEW t \in {Sample!NoMediaType, "t1", "t2"}
    PROVE  /\ Sample!Typed(r, t) \in SampleRecord
           /\ Sample!Typed(r, t).type = t
           /\ ("type" \in Sample!Typed(r, t).flags) <=> t # Sample!NoMediaType
           /\ \A f \in Sample!Flags \ {"type"} : f \in Sample!Typed(r, t).flags <=> f \in r.flags
           /\ Sample!Typed(r, t).size = r.size /\ Sample!Typed(r, t).actual = r.actual
           /\ Sample!Typed(r, t).mediaStart = r.mediaStart /\ Sample!Typed(r, t).mediaEnd = r.mediaEnd
<1> DEFINE fl == IF t = Sample!NoMediaType THEN r.flags \ {"type"} ELSE r.flags \cup {"type"}
<1>1. Sample!Typed(r, t) = [r EXCEPT !.type = t, !.flags = fl]
    BY DEF Sample!Typed, SampleRecord
<1>2. fl \in SUBSET Sample!Flags /\ ("type" \in fl <=> t # Sample!NoMediaType)
      /\ \A f \in Sample!Flags \ {"type"} : f \in fl <=> f \in r.flags
    BY DEF Sample!Flags, SampleRecord
<1> HIDE DEF fl
<1> QED
    BY <1>1, <1>2 DEF SampleRecord

\* What SetProperties assigns of a prefix of n fields.
LEMMA AssignedSets ==
    ASSUME SampleInv, NEW n, NEW p \in PropertyRecord
    PROVE  /\ Sample!Assigned(n, p) \in SampleRecord
           /\ Sample!TypeHasFlag => (("type" \in Sample!Assigned(n, p).flags) <=> Sample!Assigned(n, p).type # Sample!NoMediaType)
           /\ "time" \in Sample!Assigned(n, p).flags <=>
                IF Sample!HasFlags(n) THEN "time" \in p.flags ELSE "time" \in s.flags
           /\ "media" \in Sample!Assigned(n, p).flags <=> "media" \in s.flags
           /\ Sample!Assigned(n, p).size = s.size
           /\ Sample!Assigned(n, p).actual = IF Sample!HasActual(n) THEN p.actual ELSE s.actual
           /\ Sample!Assigned(n, p).mediaStart = s.mediaStart /\ Sample!Assigned(n, p).mediaEnd = s.mediaEnd
<1> DEFINE fl == IF Sample!HasFlags(n) THEN p.flags \cup (s.flags \cap {"media"}) ELSE s.flags
           ac == IF Sample!HasActual(n) THEN p.actual ELSE s.actual
           so == IF Sample!HasStop(n) THEN p.stop ELSE s.stop
           sa == IF Sample!HasStart(n) THEN p.start ELSE s.start
           r == [s EXCEPT !.flags = fl, !.actual = ac, !.stop = so, !.start = sa]
           t == IF Sample!HasType(n) /\ "type" \in p.flags THEN p.type ELSE s.type
<1>1. Sample!Assigned(n, p) = Sample!Typed(r, t)
    BY DEF Sample!Assigned, SampleInv, SampleRecord
<1>2. fl \in SUBSET Sample!Flags /\ ("media" \in fl <=> "media" \in s.flags)
      /\ ("time" \in fl <=> IF Sample!HasFlags(n) THEN "time" \in p.flags ELSE "time" \in s.flags)
    BY DEF Sample!Flags, Sample!Settable, SampleInv, SampleRecord, PropertyRecord
<1>3. ac \in SampleSizes \cup {0} /\ so \in Times \cup {0} /\ sa \in Times \cup {0}
    BY DEF SampleInv, SampleRecord, PropertyRecord
<1>4. t \in {Sample!NoMediaType, "t1", "t2"}
    BY DEF SampleInv, SampleRecord, PropertyRecord
<1> HIDE DEF fl, ac, so, sa
<1>5. r \in SampleRecord /\ r.flags = fl /\ r.size = s.size /\ r.actual = ac /\ r.mediaStart = s.mediaStart
      /\ r.mediaEnd = s.mediaEnd
    BY <1>2, <1>3 DEF SampleInv, SampleRecord
<1> HIDE DEF r, t
<1>6. {"time", "media"} \subseteq Sample!Flags \ {"type"}
    BY DEF Sample!Flags
<1> QED
    BY <1>1, <1>2, <1>4, <1>5, <1>6, TypedSets DEF ac

\* What a step does to the sample while somebody has it.
LEMMA UseKeeps ==
    ASSUME Sample!MediaSampleAssumption, SampleInv,
           \/ Sample!SetTime \/ Sample!SetMediaTime \/ Sample!SetMark \/ Sample!SetActualDataLength
           \/ Sample!SetMediaType
    PROVE  SampleInv'
<1> USE DEF SampleInv, Sample!RecycledIsClean, Sample!TypeHasFlag, Sample!StartIsOfThisUse
<1>1. CASE Sample!SetTime
    <2>1. PICK w \in {{}, {"start"}, {"start", "stop"}}, a, b \in Times :
            s' = [s EXCEPT !.flags = (@ \ {"time", "stop"})
                                      \cup (IF "start" \in w THEN {"time"} ELSE {})
                                      \cup (IF "stop" \in w THEN {"stop"} ELSE {}),
                          !.start = IF "start" \in w THEN a ELSE @,
                          !.stop = IF "stop" \in w THEN b ELSE @]
            /\ given' = given \cup w
        BY <1>1 DEF Sample!SetTime
    <2>2. s' = [s EXCEPT !.flags = (s.flags \ {"time", "stop"})
                                      \cup (IF "start" \in w THEN {"time"} ELSE {})
                                      \cup (IF "stop" \in w THEN {"stop"} ELSE {}),
                          !.start = IF "start" \in w THEN a ELSE s.start,
                          !.stop = IF "stop" \in w THEN b ELSE s.stop]
        BY <2>1 DEF SampleRecord
    <2>3. s' \in SampleRecord
        BY <2>2 DEF SampleRecord, Sample!Flags
    <2>4. ("type" \in s'.flags <=> "type" \in s.flags) /\ s'.type = s.type /\ ("time" \in s'.flags <=> "start" \in w)
        BY <2>2 DEF SampleRecord
    <2>5. inUse /\ UNCHANGED inUse
        BY <1>1 DEF Sample!SetTime
    <2> QED
        BY <2>1, <2>3, <2>4, <2>5
<1>2. CASE Sample!SetMediaTime
    <2>1. PICK a, b \in MediaTimes, reset \in BOOLEAN :
            s' = IF reset THEN [s EXCEPT !.flags = s.flags \ {"media"}]
                 ELSE [s EXCEPT !.flags = s.flags \cup {"media"}, !.mediaStart = a, !.mediaEnd = Sample!ToLong(b - a)]
        BY <1>2 DEF Sample!SetMediaTime, SampleRecord
    <2>2. Sample!ToLong(b - a) \in Lengths
        BY DEF Lengths, Sample!MediaSampleAssumption
    <2>3. s' \in SampleRecord
        BY <2>1, <2>2 DEF SampleRecord, Sample!Flags
    <2>4. ("type" \in s'.flags <=> "type" \in s.flags) /\ s'.type = s.type /\ ("time" \in s'.flags <=> "time" \in s.flags)
        BY <2>1 DEF SampleRecord
    <2>5. inUse /\ UNCHANGED <<inUse, given>>
        BY <1>2 DEF Sample!SetMediaTime
    <2> QED
        BY <2>3, <2>4, <2>5
<1>3. CASE Sample!SetMark
    <2>1. PICK b \in BOOLEAN : s' = [s EXCEPT !.flags = IF b THEN s.flags \cup {"sync"} ELSE s.flags \ {"sync"}]
        BY <1>3 DEF Sample!SetMark, SampleRecord
    <2>2. s' \in SampleRecord
        BY <2>1 DEF SampleRecord, Sample!Flags
    <2>3. ("type" \in s'.flags <=> "type" \in s.flags) /\ s'.type = s.type /\ ("time" \in s'.flags <=> "time" \in s.flags)
        BY <2>1 DEF SampleRecord
    <2>4. inUse /\ UNCHANGED <<inUse, given>>
        BY <1>3 DEF Sample!SetMark
    <2> QED
        BY <2>2, <2>3, <2>4
<1>4. CASE Sample!SetActualDataLength
    <2>1. PICK n \in SampleSizes \cup {0} : s' = s \/ s' = [s EXCEPT !.actual = n]
        BY <1>4 DEF Sample!SetActualDataLength
    <2>2. s' \in SampleRecord /\ s'.flags = s.flags /\ s'.type = s.type
        BY <2>1 DEF SampleRecord
    <2>3. inUse /\ UNCHANGED <<inUse, given>>
        BY <1>4 DEF Sample!SetActualDataLength
    <2> QED
        BY <2>2, <2>3
<1>5. CASE Sample!SetMediaType
    <2>1. PICK t \in {Sample!NoMediaType, "t1", "t2"} : s' = Sample!Typed(s, t)
        BY <1>5 DEF Sample!SetMediaType
    <2>2. inUse /\ UNCHANGED <<inUse, given>>
        BY <1>5 DEF Sample!SetMediaType
    <2>3. "time" \in Sample!Flags \ {"type"}
        BY DEF Sample!Flags
    <2> QED
        BY <2>1, <2>2, <2>3, TypedSets
<1> QED
    BY <1>1, <1>2, <1>3, <1>4, <1>5

\* SetProperties changes nothing, or it assigns what it has checked.
LEMMA TakenIs ==
    ASSUME NEW n, NEW p, Sample!TakeProperties(n, p)
    PROVE  /\ inUse /\ UNCHANGED <<inUse, media>>
           /\ sampleResult' = "invalid" => s' = s
           /\ \/ UNCHANGED <<s, given>>
              \/ /\ ~Sample!Rejected(n, p) /\ s' = Sample!Assigned(n, p)
                 /\ given' = given \cup (IF Sample!HasStart(n) THEN {"start"} ELSE {})
                                   \cup (IF Sample!HasStop(n) THEN {"stop"} ELSE {})
BY DEF Sample!TakeProperties

LEMMA SetPropertiesIs ==
    ASSUME Sample!SetProperties
    PROVE  /\ inUse /\ UNCHANGED <<inUse, media>>
           /\ sampleResult' = "invalid" => s' = s
           /\ \/ UNCHANGED <<s, given>>
              \/ \E n \in Prefixes, p \in PropertyRecord :
                   /\ ~Sample!Rejected(n, p) /\ s' = Sample!Assigned(n, p)
                   /\ given' = given \cup (IF Sample!HasStart(n) THEN {"start"} ELSE {})
                                     \cup (IF Sample!HasStop(n) THEN {"stop"} ELSE {})
<1>1. PICK n \in Prefixes, f \in SUBSET Sample!Settable, a, b \in Times, z \in SampleSizes \cup {0}, l \in SampleSizes :
        Sample!TakeProperties(n, [flags |-> f, start |-> a, stop |-> b, type |-> "t1", actual |-> l, size |-> z])
    BY DEF Sample!SetProperties
<1>2. PICK p \in PropertyRecord : Sample!TakeProperties(n, p)
    BY <1>1 DEF PropertyRecord
<1> QED
    BY <1>2, TakenIs

\* SetProperties vouches for a start time only if one was given.
LEMMA PropertiesKeep ==
    ASSUME Sample!MediaSampleAssumption, SampleInv, Sample!SetProperties
    PROVE  SampleInv'
<1> USE DEF SampleInv, Sample!RecycledIsClean, Sample!TypeHasFlag, Sample!StartIsOfThisUse
<1>1. inUse /\ UNCHANGED inUse
    BY SetPropertiesIs
<1>2. CASE UNCHANGED <<s, given>>
    BY <1>1, <1>2
<1>3. CASE ~UNCHANGED <<s, given>>
    <2>1. PICK n \in Prefixes, p \in PropertyRecord :
            /\ ~Sample!Rejected(n, p) /\ s' = Sample!Assigned(n, p)
            /\ given' = given \cup (IF Sample!HasStart(n) THEN {"start"} ELSE {})
                              \cup (IF Sample!HasStop(n) THEN {"stop"} ELSE {})
        BY <1>3, SetPropertiesIs
    <2>2. s' \in SampleRecord /\ Sample!TypeHasFlag'
        BY <2>1, AssignedSets
    <2>3. "time" \in s'.flags => "start" \in given'
        <3>1. n \in Nat
            BY DEF Sample!MediaSampleAssumption
        <3>2. Sample!HasStop(n) => Sample!HasStart(n)
            BY <3>1 DEF Sample!HasStop, Sample!HasStart
        <3>3. Sample!HasFlags(n) => ~Sample!StartIsMissing(n, p)
            BY <2>1 DEF Sample!Rejected
        <3>4. "time" \in s'.flags <=> IF Sample!HasFlags(n) THEN "time" \in p.flags ELSE "time" \in s.flags
            BY <2>1, AssignedSets
        <3> QED
            BY <2>1, <3>2, <3>3, <3>4 DEF Sample!StartIsMissing
    <2>4. given' \subseteq {"start", "stop"}
        BY <2>1
    <2> QED
        BY <1>1, <2>2, <2>3, <2>4
<1> QED
    BY <1>2, <1>3

\* The allocator's steps: a sample is given out, sized and emptied.
LEMMA AllocatorKeeps ==
    ASSUME SampleInv, Sample!GetBuffer \/ Sample!SetPointer \/ Sample!Release
    PROVE  SampleInv'
<1> USE DEF SampleInv, Sample!RecycledIsClean, Sample!TypeHasFlag, Sample!StartIsOfThisUse
<1>1. CASE Sample!GetBuffer
    BY <1>1 DEF Sample!GetBuffer
<1>2. CASE Sample!SetPointer
    <2>1. PICK z \in SampleSizes : s' = [s EXCEPT !.size = z, !.actual = z]
        BY <1>2 DEF Sample!SetPointer
    <2>2. s' \in SampleRecord /\ s'.flags = s.flags /\ s'.type = s.type
        BY <2>1 DEF SampleRecord
    <2> QED
        BY <1>2, <2>2 DEF Sample!SetPointer
<1>3. CASE Sample!Release
    <2>1. s' = [s EXCEPT !.type = IF "type" \in s.flags THEN Sample!NoMediaType ELSE s.type, !.flags = {}]
        BY <1>3 DEF Sample!Release, SampleRecord
    <2>2. s' \in SampleRecord /\ s'.flags = {} /\ s'.type = Sample!NoMediaType
        BY <2>1 DEF SampleRecord
    <2> QED
        BY <1>3, <2>2 DEF Sample!Release
<1> QED
    BY <1>1, <1>2, <1>3

LEMMA SampleInitInv == Sample!Init => SampleInv
<1> SUFFICES ASSUME Sample!Init PROVE SampleInv
    OBVIOUS
<1>1. s \in SampleRecord /\ s.flags = {} /\ s.type = Sample!NoMediaType
    BY DEF Sample!Init, SampleRecord, Lengths
<1>2. inUse \in BOOLEAN /\ given = {}
    BY Zenon DEF Sample!Init
<1> QED
    BY <1>1, <1>2 DEF SampleInv, Sample!RecycledIsClean, Sample!TypeHasFlag, Sample!StartIsOfThisUse

LEMMA SampleStepInv ==
    ASSUME Sample!MediaSampleAssumption, SampleInv, [Sample!Next]_(Sample!vars)
    PROVE  SampleInv'
<1>1. CASE UNCHANGED Sample!vars
    BY <1>1 DEF Sample!vars, SampleInv, Sample!RecycledIsClean, Sample!TypeHasFlag, Sample!StartIsOfThisUse
<1> QED
    BY <1>1, UseKeeps, PropertiesKeep, AllocatorKeeps DEF Sample!Next

LEMMA SampleTyped == SampleInv => Sample!TypeOK
BY DEF SampleInv, SampleRecord, Sample!TypeOK

\* Only SetProperties calls a use invalid, and then it has assigned nothing.
LEMMA InvalidKeeps ==
    ASSUME [Sample!Next]_(Sample!vars), inUse, sampleResult' = "invalid" PROVE s' = s
<1>1. CASE Sample!SetProperties
    BY <1>1, SetPropertiesIs
<1>2. CASE UNCHANGED Sample!vars
    BY <1>2 DEF Sample!vars
<1> QED
    BY <1>1, <1>2 DEF Sample!Next, Sample!GetBuffer, Sample!SetPointer, Sample!Release, Sample!SetTime,
       Sample!SetMediaTime, Sample!SetMark, Sample!SetActualDataLength, Sample!SetMediaType

\* "Do checks first, the assignments (for backout)": SetProperties that fails its
\* checks leaves the sample as it was.
THEOREM InvalidFailsWhole == Sample!Spec => Sample!FailsWhole
<1>1. [Sample!Next]_(Sample!vars) => [inUse /\ sampleResult' = "invalid" => s' = s]_(Sample!vars)
    BY InvalidKeeps
<1> QED
    BY <1>1, PTL DEF Sample!Spec, Sample!FailsWhole

\* A sample carries nothing of its last use: a start time it vouches for was given
\* in this one, and between two uses no property is flagged.
THEOREM NothingOfLastUse ==
    ASSUME Sample!MediaSampleAssumption
    PROVE  Sample!Spec => [](Sample!TypeHasFlag /\ Sample!RecycledIsClean /\ Sample!StartIsOfThisUse)
<1>1. Sample!Init => SampleInv
    BY SampleInitInv
<1>2. SampleInv /\ [Sample!Next]_(Sample!vars) => SampleInv'
    BY SampleStepInv
<1>3. SampleInv => Sample!TypeHasFlag /\ Sample!RecycledIsClean /\ Sample!StartIsOfThisUse
    BY DEF SampleInv
<1> QED
    BY <1>1, <1>2, <1>3, PTL DEF Sample!Spec

-----------------------------------------------------------------------------
\* The differences of media times fit a LONG.
MediaTimesFit == \A a, b \in MediaTimes : a <= b => Sample!ToLong(b - a) = b - a

LEMMA MediaStepInv ==
    ASSUME Sample!MediaSampleAssumption, MediaTimesFit, SampleInv, Sample!MediaTimeReadsBack,
           [Sample!Next]_(Sample!vars)
    PROVE  Sample!MediaTimeReadsBack'
<1> USE DEF Sample!MediaTimeReadsBack, Sample!GetMediaTime
<1>1. CASE Sample!SetMediaTime
    <2>1. PICK a, b \in MediaTimes, reset \in BOOLEAN :
            /\ a <= b
            /\ s' = IF reset THEN [s EXCEPT !.flags = s.flags \ {"media"}]
                    ELSE [s EXCEPT !.flags = s.flags \cup {"media"}, !.mediaStart = a, !.mediaEnd = Sample!ToLong(b - a)]
            /\ media' = IF reset THEN <<>> ELSE <<a, b>>
        BY <1>1 DEF Sample!SetMediaTime, SampleInv, SampleRecord
    <2>2. CASE reset
        BY <2>1, <2>2 DEF SampleInv, SampleRecord
    <2>3. CASE ~reset
        <3>1. "media" \in s'.flags /\ s'.mediaStart = a /\ s'.mediaEnd = b - a
            BY <2>1, <2>3 DEF SampleInv, SampleRecord, MediaTimesFit
        <3>2. a + (b - a) = b
            BY DEF Sample!MediaSampleAssumption
        <3> QED
            BY <2>1, <2>3, <3>1, <3>2
    <2> QED
        BY <2>2, <2>3
<1>2. CASE Sample!GetBuffer
    BY <1>2 DEF Sample!GetBuffer, SampleInv, Sample!RecycledIsClean
<1>3. CASE Sample!SetPointer \/ Sample!Release
    BY <1>3 DEF Sample!SetPointer, Sample!Release, SampleInv
<1>4. CASE Sample!SetProperties
    <2>1. CASE UNCHANGED s
        BY <1>4, <2>1, SetPropertiesIs
    <2>2. CASE ~UNCHANGED s
        <3>1. PICK n \in Prefixes, p \in PropertyRecord : s' = Sample!Assigned(n, p)
            BY <1>4, <2>2, SetPropertiesIs
        <3>2. /\ "media" \in s'.flags <=> "media" \in s.flags
              /\ s'.mediaStart = s.mediaStart /\ s'.mediaEnd = s.mediaEnd
            BY <3>1, AssignedSets
        <3>3. UNCHANGED <<inUse, media>>
            BY <1>4, SetPropertiesIs
        <3> QED
            BY <3>2, <3>3
    <2> QED
        BY <2>1, <2>2
<1>5. CASE Sample!SetTime \/ Sample!SetMark \/ Sample!SetActualDataLength
    <2>1. /\ "media" \in s'.flags <=> "media" \in s.flags
          /\ s'.mediaStart = s.mediaStart /\ s'.mediaEnd = s.mediaEnd
        <3>1. CASE Sample!SetTime
            BY <3>1 DEF Sample!SetTime, SampleInv, SampleRecord
        <3>2. CASE Sample!SetMark
            BY <3>2 DEF Sample!SetMark, SampleInv, SampleRecord
        <3>3. CASE Sample!SetActualDataLength
            BY <3>3 DEF Sample!SetActualDataLength, SampleInv, SampleRecord
        <3> QED
            BY <1>5, <3>1, <3>2, <3>3
    <2>2. UNCHANGED <<inUse, media>>
        BY <1>5 DEF Sample!SetTime, Sample!SetMark, Sample!SetActualDataLength
    <2> QED
        BY <2>1, <2>2
<1>6. CASE Sample!SetMediaType
    <2>1. PICK t \in {Sample!NoMediaType, "t1", "t2"} : s' = Sample!Typed(s, t)
        BY <1>6 DEF Sample!SetMediaType
    <2>2. "media" \in Sample!Flags \ {"type"}
        BY DEF Sample!Flags
    <2>3. /\ "media" \in s'.flags <=> "media" \in s.flags
          /\ s'.mediaStart = s.mediaStart /\ s'.mediaEnd = s.mediaEnd
        BY <2>1, <2>2, TypedSets DEF SampleInv
    <2>4. UNCHANGED <<inUse, media>>
        BY <1>6 DEF Sample!SetMediaType
    <2> QED
        BY <2>3, <2>4
<1>7. CASE UNCHANGED Sample!vars
    BY <1>7 DEF Sample!vars
<1> QED
    BY <1>1, <1>2, <1>3, <1>4, <1>5, <1>6, <1>7 DEF Sample!Next

\* GetMediaTime returns what this user gave to SetMediaTime, whatever SetProperties
\* was called with between the two, if the differences of media times fit a LONG.
THEOREM MediaTimeKept ==
    ASSUME Sample!MediaSampleAssumption, MediaTimesFit
    PROVE  Sample!Spec => []Sample!MediaTimeReadsBack
<1>1. Sample!Init => SampleInv /\ Sample!MediaTimeReadsBack
    BY SampleInitInv DEF Sample!Init, Sample!MediaTimeReadsBack
<1>2. SampleInv /\ Sample!MediaTimeReadsBack /\ [Sample!Next]_(Sample!vars) => (SampleInv /\ Sample!MediaTimeReadsBack)'
    BY SampleStepInv, MediaStepInv
<1> QED
    BY <1>1, <1>2, PTL DEF Sample!Spec

-----------------------------------------------------------------------------
\* Callers give the length of the data only together with the size of the buffer.
LengthWithSize == \A n \in Prefixes : Sample!HasActual(n) => Sample!HasSize(n)

LEMMA FitsStepInv ==
    ASSUME Sample!MediaSampleAssumption, LengthWithSize, SampleInv, Sample!DataFits, [Sample!Next]_(Sample!vars)
    PROVE  Sample!DataFits'
<1> USE DEF Sample!DataFits
<1>0. s.size \in Nat /\ s.actual \in Nat
    BY DEF SampleInv, SampleRecord, Sample!MediaSampleAssumption
<1>1. CASE Sample!SetPointer
    <2>1. PICK z \in SampleSizes : s' = [s EXCEPT !.size = z, !.actual = z]
        BY <1>1 DEF Sample!SetPointer
    <2>2. s'.size = z /\ s'.actual = z /\ z \in Nat
        BY <2>1 DEF SampleInv, SampleRecord, Sample!MediaSampleAssumption
    <2> QED
        BY <2>2
<1>2. CASE Sample!SetActualDataLength
    <2>1. PICK n \in SampleSizes \cup {0} : IF n > s.size THEN s' = s ELSE s' = [s EXCEPT !.actual = n]
        BY <1>2 DEF Sample!SetActualDataLength
    <2>2. n \in Nat
        BY DEF Sample!MediaSampleAssumption
    <2> QED
        BY <1>0, <2>1, <2>2 DEF SampleInv, SampleRecord
<1>3. CASE Sample!SetProperties
    <2>1. CASE UNCHANGED s
        BY <2>1
    <2>2. CASE ~UNCHANGED s
        <3>1. PICK n \in Prefixes, p \in PropertyRecord : ~Sample!Rejected(n, p) /\ s' = Sample!Assigned(n, p)
            BY <1>3, <2>2, SetPropertiesIs
        <3>2. s'.size = s.size /\ s'.actual = IF Sample!HasActual(n) THEN p.actual ELSE s.actual
            BY <3>1, AssignedSets
        <3>3. Sample!HasSize(n) => p.size \in {0, s.size} /\ p.size >= p.actual
            <4>1. p.size \in Nat /\ p.actual \in Nat
                BY DEF PropertyRecord, Sample!MediaSampleAssumption
            <4> QED
                BY <3>1, <4>1 DEF Sample!Rejected
        <3>4. p.actual \in Nat
            BY DEF PropertyRecord, Sample!MediaSampleAssumption
        <3> QED
            BY <1>0, <3>2, <3>3, <3>4 DEF LengthWithSize
    <2> QED
        BY <2>1, <2>2
<1>4. CASE Sample!SetTime \/ Sample!SetMark \/ Sample!SetMediaTime \/ Sample!GetBuffer \/ Sample!Release
    <2>1. s'.size = s.size /\ s'.actual = s.actual
        BY <1>4 DEF Sample!SetTime, Sample!SetMark, Sample!SetMediaTime, Sample!GetBuffer, Sample!Release, SampleInv, SampleRecord
    <2> QED
        BY <2>1
<1>5. CASE Sample!SetMediaType
    <2>1. PICK t \in {Sample!NoMediaType, "t1", "t2"} : s' = Sample!Typed(s, t)
        BY <1>5 DEF Sample!SetMediaType
    <2>2. s'.size = s.size /\ s'.actual = s.actual
        BY <2>1, TypedSets DEF SampleInv
    <2> QED
        BY <2>2
<1>6. CASE UNCHANGED Sample!vars
    BY <1>6 DEF Sample!vars
<1> QED
    BY <1>1, <1>2, <1>3, <1>4, <1>5, <1>6 DEF Sample!Next

\* A sample never claims more data than its buffer holds, if callers that give
\* the length of the data give the size of the buffer with it.
THEOREM DataFitsBuffer ==
    ASSUME Sample!MediaSampleAssumption, LengthWithSize
    PROVE  Sample!Spec => []Sample!DataFits
<1>1. Sample!Init => SampleInv /\ Sample!DataFits
    <2> SUFFICES ASSUME Sample!Init PROVE SampleInv /\ Sample!DataFits
        OBVIOUS
    <2>1. PICK z \in SampleSizes : s.actual = z /\ s.size = z
        BY DEF Sample!Init
    <2> QED
        BY <2>1, SampleInitInv DEF Sample!DataFits, Sample!MediaSampleAssumption
<1>2. SampleInv /\ Sample!DataFits /\ [Sample!Next]_(Sample!vars) => (SampleInv /\ Sample!DataFits)'
    BY SampleStepInv, FitsStepInv
<1> QED
    BY <1>1, <1>2, PTL DEF Sample!Spec

-----------------------------------------------------------------------------
\* AllocSize.  Facts about remainders.
LEMMA RestRange == ASSUME NEW w \in Nat \ {0}, NEW y \in Int PROVE y % w \in 0..(w - 1)
OBVIOUS

LEMMA Multiple ==
    ASSUME NEW w \in Nat \ {0}, NEW y \in Int, NEW r \in Int, r = y % w
    PROVE  \E k \in Int : y - r = k * w
BY SMTT(60)

LEMMA MultipleOf ==
    ASSUME NEW w \in Nat \ {0}, NEW y \in Int, y % w = 0
    PROVE  \E k \in Int : y = k * w
BY SMTT(60)

LEMMA NoRest == ASSUME NEW w \in Nat \ {0}, NEW k \in Int PROVE (k * w) % w = 0
OBVIOUS

Multiples(a) == {k * a : k \in Int}

LEMMA Negative == ASSUME NEW k \in Int, NEW a \in Int, NEW q \in Int, q = k * a PROVE -q = (-k) * a
OBVIOUS

LEMMA NextMultiple == ASSUME NEW k \in Int, NEW a \in Int, NEW q \in Int, q = k * a PROVE q + a = (k + 1) * a
OBVIOUS

LEMMA SumOfMultiples ==
    ASSUME NEW w \in Nat \ {0}, NEW y \in Int, NEW z \in Int, NEW i \in Int, y % w = 0, z % w = 0
    PROVE  (y + i * z) % w = 0
<1>1. PICK k \in Int : y = k * w
    BY MultipleOf
<1>2. PICK m \in Int : z = m * w
    BY MultipleOf
<1>3. i * (m * w) = (i * m) * w
    OBVIOUS
<1>4. y + i * z = (k + i * m) * w
    BY <1>1, <1>2, <1>3
<1> QED
    BY <1>4, NoRest

\* A LONG has one bit for its sign: what every width satisfies.
Width == Size!MAXLONG \in Nat /\ 2 ^ Bits = 2 * (Size!MAXLONG + 1)
Longs == (-Size!MAXLONG - 1)..Size!MAXLONG

\* What a value becomes that is at most once around.
Turned(m, x) ==
    IF x > m THEN x - (2 * m + 2) ELSE IF x < -m - 1 THEN x + (2 * m + 2) ELSE x

LEMMA LongIs ==
    ASSUME Width, NEW x \in Int
    PROVE  /\ Size!ToLong(x) \in Longs /\ Size!ToLong(x) \in Int
           /\ x \in Longs => Size!ToLong(x) = x
           /\ x <= 3 * Size!MAXLONG + 2 /\ x >= -3 * Size!MAXLONG - 3
                => Size!ToLong(x) = Turned(Size!MAXLONG, x)
<1> DEFINE M == Size!MAXLONG
           w == 2 ^ Bits
           y == x + M + 1
<1>1. M \in Nat /\ w = 2 * (M + 1) /\ w \in Nat \ {0} /\ y \in Int
    BY DEF Width
<1>2. Size!ToLong(x) = (y % w) - M - 1
    BY DEF Size!ToLong
<1> HIDE DEF w, M
<1>3. y % w \in 0..(w - 1)
    BY <1>1, RestRange
<1>4. y \in 0..(w - 1) => y % w = y
    BY <1>1
<1>5. y \in w..(2 * w - 1) => y % w = y - w
    BY <1>1
<1>6. y \in (-w)..(-1) => y % w = y + w
    BY <1>1
<1>7. /\ (y % w) - M - 1 \in (-M - 1)..M
      /\ x \in (-M - 1)..M => (y % w) - M - 1 = x
      /\ x > M /\ x <= 3 * M + 2 => (y % w) - M - 1 = x - w
      /\ x < -M - 1 /\ x >= -3 * M - 3 => (y % w) - M - 1 = x + w
    BY <1>1, <1>3, <1>4, <1>5, <1>6
<1>8. x <= 3 * M + 2 /\ x >= -3 * M - 3 => (y % w) - M - 1 = Turned(M, x)
    BY <1>1, <1>7 DEF Turned
<1> QED
    BY <1>1, <1>2, <1>7, <1>8 DEF Longs, M, w

\* The remainder of a division by a positive alignment.
LEMMA RemIs ==
    ASSUME NEW x \in Int, NEW a \in Nat \ {0}
    PROVE  /\ Size!Rem(x, a) \in Int
           /\ x >= 0 => Size!Rem(x, a) \in 0..(a - 1) /\ Size!Rem(x, a) <= x
           /\ x < 0 => Size!Rem(x, a) \in (-(a - 1))..0 /\ Size!Rem(x, a) >= x
<1>1. Size!Magnitude(a) = a
    BY DEF Size!Magnitude
<1>2. CASE x >= 0
    <2>1. PICK r \in Int : r = x % a
        OBVIOUS
    <2>2. r \in 0..(a - 1) /\ r <= x
        BY <1>2, <2>1
    <2>3. Size!Rem(x, a) = r
        BY <1>1, <1>2, <2>1 DEF Size!Rem
    <2> QED
        BY <1>2, <2>2, <2>3
<1>3. CASE x < 0
    <2>1. PICK n \in Nat : n = -x
        BY <1>3
    <2>2. PICK r \in Int : r = n % a
        OBVIOUS
    <2>3. r \in 0..(a - 1) /\ r <= n
        BY <2>2
    <2>4. Size!Rem(x, a) = -r
        BY <1>1, <1>3, <2>1, <2>2 DEF Size!Rem
    <2> QED
        BY <1>3, <2>1, <2>3, <2>4
<1> QED
    BY <1>2, <1>3

LEMMA RemMultiple ==
    ASSUME NEW x \in Int, NEW a \in Nat \ {0}, NEW r \in Int, r = Size!Rem(x, a)
    PROVE  x - r \in Multiples(a)
<1>1. Size!Magnitude(a) = a
    BY DEF Size!Magnitude
<1>2. CASE x >= 0
    <2>1. r = x % a
        BY <1>1, <1>2 DEF Size!Rem
    <2> QED
        BY <2>1, Multiple DEF Multiples
<1>3. CASE x < 0
    <2>1. PICK n \in Int : n = -x
        OBVIOUS
    <2>2. PICK m \in Int : m = n % a
        OBVIOUS
    <2>3. PICK k \in Int : n - m = k * a
        BY <2>2, Multiple
    <2>4. PICK q \in Int : q = k * a
        OBVIOUS
    <2>5. r = -m
        BY <1>1, <1>3, <2>1, <2>2 DEF Size!Rem
    <2>6. x - r = -q
        BY <2>1, <2>3, <2>4, <2>5
    <2>7. PICK l \in Int : l = -k
        OBVIOUS
    <2>8. -q = l * a
        BY <2>4, <2>7, Negative
    <2>9. x - r = l * a
        BY <2>6, <2>8
    <2> QED
        BY <2>9 DEF Multiples
<1> QED
    BY <1>2, <1>3

\* Multiples of an alignment that lie between it and its negative are 0.
LEMMA NoneBetween ==
    ASSUME NEW a \in Nat \ {0}, NEW q \in Int, q \in Multiples(a), q < a, q > -a
    PROVE  q = 0
<1>0. PICK k \in Int : q = k * a
    BY DEF Multiples
<1>1. k < 1
    BY <1>0
<1>2. k > -1
    BY <1>0
<1> QED
    BY <1>0, <1>1, <1>2

-----------------------------------------------------------------------------
\* The rounded size of a request that SetProperties takes either stays below a
\* whole turn of a LONG, or its prefix is as long as the alignment it is rounded to.
RoundingFits ==
    \A r \in Requests :
        \/ Size!BadAlign(r.align)
        \/ r.buffer + r.prefix + r.align <= 2 ^ Bits
        \/ r.align <= r.prefix

\* What SetProperties takes, and what Alloc makes of it.
SizeInv ==
    /\ req \in Requests
    /\ props # Size!NoProps =>
         /\ ~Size!BadAlign(req.align)
         /\ props = [size |-> Size!Rounded(req), count |-> req.count, align |-> req.align, prefix |-> req.prefix]
    /\ props = Size!NoProps => block = Size!None
    /\ block # Size!None =>
         Size!Reasonable(props) /\ block = <<Size!Aligned(props), props.count * Size!Aligned(props)>>

LEMMA SizeInitInv == Size!Init => SizeInv
BY DEF Size!Init, SizeInv

LEMMA SizeStepInv == SizeInv /\ [Size!Next]_(Size!vars) => SizeInv'
<1> SUFFICES ASSUME SizeInv, [Size!Next]_(Size!vars) PROVE SizeInv'
    OBVIOUS
<1> USE DEF SizeInv
<1>1. CASE Size!SetProperties
    BY <1>1 DEF Size!SetProperties
<1>2. CASE Size!Alloc
    BY <1>2 DEF Size!Alloc
<1>3. CASE UNCHANGED Size!vars
    BY <1>3 DEF Size!vars
<1> QED
    BY <1>1, <1>2, <1>3 DEF Size!Next

\* A remainder is a number whatever the sign of the alignment.
LEMMA RemIsInt ==
    ASSUME NEW x \in Int, NEW a \in Int, a # 0
    PROVE  Size!Rem(x, a) \in Int
<1>1. Size!Magnitude(a) \in Nat \ {0}
    BY DEF Size!Magnitude
<1>2. \A y \in Int : y % Size!Magnitude(a) \in Int
    BY <1>1, RestRange
<1> QED
    BY <1>2 DEF Size!Rem

\* What a request is, and that a size that SetProperties stores is a LONG.
LEMMA RequestIs ==
    ASSUME Size!AllocSizeAssumption, Width, NEW r \in Requests
    PROVE  /\ r.buffer \in Longs /\ r.count \in Longs /\ r.align \in Longs /\ r.prefix \in Longs
           /\ r.buffer > 0
           /\ Longs \subseteq Int
BY DEF Size!AllocSizeAssumption, Width, Longs

LEMMA RoundedIsLong ==
    ASSUME Size!AllocSizeAssumption, Width, NEW r \in Requests, ~Size!BadAlign(r.align)
    PROVE  Size!Rounded(r) \in Longs
<1>1. r.buffer \in Int /\ r.prefix \in Int /\ r.align \in Int /\ r.align # 0 /\ Longs \subseteq Int
    BY RequestIs DEF Size!BadAlign
<1>2. PICK size \in Int : size = Size!ToLong(r.buffer + r.prefix)
    BY <1>1, LongIs
<1>3. PICK rem \in Int : rem = Size!Rem(size, r.align)
    BY <1>1, RemIsInt
<1>4. PICK all \in Int : all = IF rem # 0 THEN Size!ToLong(size - rem + r.align) ELSE size
    BY <1>1, LongIs
<1>5. Size!Rounded(r) = Size!ToLong(all - r.prefix)
    BY <1>2, <1>3, <1>4 DEF Size!Rounded
<1> QED
    BY <1>1, <1>5, LongIs

LEMMA SizeTyped ==
    ASSUME Size!AllocSizeAssumption, Width, SizeInv
    PROVE  Size!TypeOK
<1>1. CASE props = Size!NoProps
    <2>1. 0 \in Longs
        BY DEF Width, Longs
    <2> QED
        BY <1>1, <2>1 DEF Size!NoProps, Size!TypeOK, Longs
<1>2. CASE props # Size!NoProps
    <2>1. /\ req \in Requests /\ ~Size!BadAlign(req.align)
          /\ props = [size |-> Size!Rounded(req), count |-> req.count, align |-> req.align, prefix |-> req.prefix]
        BY <1>2 DEF SizeInv
    <2>2. /\ Size!Rounded(req) \in Longs /\ req.count \in Longs /\ req.align \in Longs /\ req.prefix \in Longs
        BY <2>1, RoundedIsLong, RequestIs
    <2> QED
        BY <2>1, <2>2 DEF Size!TypeOK, Longs
<1> QED
    BY <1>1, <1>2

\* What Alloc accepts did not wrap: a sample is a whole number of alignments and
\* holds its prefix and the size.
LEMMA AlignedHolds ==
    ASSUME Width, NEW p, p.size \in Longs, p.count \in Longs, p.align \in Longs, p.prefix \in Longs,
           Size!Reasonable(p)
    PROVE  /\ Size!Aligned(p) \in Nat
           /\ p.align \in Nat \ {0}
           /\ p.size + p.prefix <= Size!MAXLONG
           /\ Size!Aligned(p) >= p.size + p.prefix
           /\ Size!Aligned(p) % p.align = 0
<1>1. PICK m \in Nat : m = Size!MAXLONG
    BY DEF Width
<1>2. PICK a \in 1..m, b \in 1..m, f \in 0..m : a = p.align /\ b = p.size /\ f = p.prefix
    BY <1>1 DEF Width, Longs, Size!Reasonable
<1>3. a \in Nat \ {0}
    OBVIOUS
<1>4. PICK size \in Int : size = Size!ToLong(b + f) /\ size = Turned(m, b + f)
    <2>1. b + f <= 3 * m + 2 /\ b + f >= -3 * m - 3
        OBVIOUS
    <2> QED
        BY <1>1, <2>1, LongIs
<1>5. PICK rem \in Int : rem = Size!Rem(size, a)
    BY <1>3, RemIs
<1>6. size >= 0 => rem \in 0..(a - 1) /\ rem <= size
    BY <1>3, <1>5, RemIs
<1>7. size >= b
    BY <1>2, <1>4 DEF Size!Reasonable
<1>8. Size!ToLong(size + a - rem) = Turned(m, size + a - rem)
    <2>1. size \in Int /\ size <= m
        BY <1>4 DEF Turned
    <2>2. size + a - rem <= 3 * m + 2 /\ size + a - rem >= -3 * m - 3
        BY <1>6, <1>7, <2>1
    <2> QED
        BY <1>1, <2>2, LongIs
<1>9. PICK all \in Int :
          /\ all = Size!Aligned(p) /\ all >= size
          /\ all = IF rem = 0 THEN size ELSE Turned(m, size + a - rem)
    <2>1. Size!Aligned(p) = IF rem = 0 THEN size ELSE Size!ToLong(size + a - rem)
        BY <1>2, <1>4, <1>5 DEF Size!Aligned
    <2>2. Size!Aligned(p) >= size
        BY <1>2, <1>4 DEF Size!Reasonable
    <2>3. Size!ToLong(size + a - rem) \in Int
        BY LongIs
    <2> QED
        BY <1>8, <2>1, <2>2, <2>3
<1>10. /\ b + f <= m /\ size = b + f /\ all >= b + f
       /\ rem # 0 => all = size - rem + a
    BY <1>4, <1>6, <1>7, <1>9 DEF Turned
<1>11. PICK q \in Int : q = size - rem /\ q \in Multiples(a)
    BY <1>3, <1>5, RemMultiple
<1>12. PICK k \in Int : q = k * a
    BY <1>11 DEF Multiples
<1>13. all % a = 0
    <2>1. CASE rem = 0
        <3>1. all = k * a
            BY <1>9, <1>11, <1>12, <2>1
        <3> QED
            BY <1>3, <3>1, NoRest
    <2>2. CASE rem # 0
        <3>1. all = q + a
            BY <1>10, <1>11, <2>2
        <3>2. q + a = (k + 1) * a
            BY <1>12, NextMultiple
        <3>3. all = (k + 1) * a
            BY <3>1, <3>2
        <3> QED
            BY <1>3, <3>3, NoRest
    <2> QED
        BY <2>1, <2>2
<1>14. all \in Nat
    BY <1>10
<1> QED
    BY <1>1, <1>2, <1>3, <1>9, <1>10, <1>13, <1>14

\* Rounded up and taken again by Alloc: nothing of the request was lost.
Rounding(m, a, b, f, size, rem, all, got) ==
    /\ b + f + a <= 2 * m + 2 \/ a <= f
    /\ size = Turned(m, b + f)
    /\ size >= 0 => rem \in 0..(a - 1) /\ rem <= size
    /\ size < 0 => rem \in (-(a - 1))..0 /\ rem >= size
    /\ size - rem < a /\ size - rem > -a => size = rem
    /\ all = IF rem # 0 THEN Turned(m, size - rem + a) ELSE size
    /\ got = Turned(m, all - f) /\ got > 0 /\ got + f <= m

LEMMA RoundArithmetic ==
    ASSUME NEW m \in Nat, NEW a \in 1..m, NEW b \in 1..m, NEW f \in 0..m,
           NEW size \in Int, NEW rem \in Int, NEW all \in Int, NEW got \in Int,
           Rounding(m, a, b, f, size, rem, all, got)
    PROVE  got >= b
BY DEF Rounding, Turned

\* Rounding up never gives less than was asked for, if Alloc accepts the result.
LEMMA RoundedHolds ==
    ASSUME Size!AllocSizeAssumption, Width, RoundingFits, NEW r \in Requests, ~Size!BadAlign(r.align),
           r.align > 0, r.prefix >= 0, Size!Rounded(r) > 0, Size!Rounded(r) + r.prefix <= Size!MAXLONG
    PROVE  Size!Rounded(r) >= r.buffer
<1>1. PICK m \in Nat : m = Size!MAXLONG
    BY DEF Width
<1>2. PICK a \in 1..m, b \in 1..m, f \in 0..m :
          /\ a = r.align /\ b = r.buffer /\ f = r.prefix
          /\ b + f + a <= 2 * m + 2 \/ a <= f
    BY <1>1, RequestIs DEF Width, Longs, RoundingFits
<1>3. a \in Nat \ {0}
    OBVIOUS
<1>4. PICK size \in Int : size = Size!ToLong(b + f) /\ size = Turned(m, b + f)
    <2>1. b + f <= 3 * m + 2 /\ b + f >= -3 * m - 3
        OBVIOUS
    <2> QED
        BY <1>1, <2>1, LongIs
<1>5. PICK rem \in Int : rem = Size!Rem(size, a)
    BY <1>3, RemIs
<1>6. /\ size >= 0 => rem \in 0..(a - 1) /\ rem <= size
      /\ size < 0 => rem \in (-(a - 1))..0 /\ rem >= size
    BY <1>3, <1>5, RemIs
<1>7. size <= m /\ size >= -m - 1
    BY <1>4 DEF Turned
<1>8. PICK all \in Int :
          /\ all = IF rem # 0 THEN Size!ToLong(size - rem + a) ELSE size
          /\ all = IF rem # 0 THEN Turned(m, size - rem + a) ELSE size
    <2>1. size - rem + a <= 3 * m + 2 /\ size - rem + a >= -3 * m - 3
        BY <1>6, <1>7
    <2> QED
        BY <1>1, <2>1, LongIs
<1>9. all <= m /\ all >= -m - 1
    BY <1>6, <1>7, <1>8 DEF Turned
<1>10. PICK got \in Int : got = Size!ToLong(all - f) /\ got = Turned(m, all - f)
    <2>1. all - f <= 3 * m + 2 /\ all - f >= -3 * m - 3
        BY <1>9
    <2> QED
        BY <1>1, <2>1, LongIs
<1>11. Size!Rounded(r) = got
    BY <1>2, <1>4, <1>5, <1>8, <1>10 DEF Size!Rounded
<1>12. got > 0 /\ got + f <= m
    BY <1>1, <1>2, <1>11
<1>13. PICK q \in Int : q = size - rem /\ q \in Multiples(a)
    BY <1>3, <1>5, RemMultiple
<1>14. q < a /\ q > -a => q = 0
    BY <1>3, <1>13, NoneBetween
<1>15. got >= b
    <2>1. size - rem < a /\ size - rem > -a => size = rem
        BY <1>13, <1>14
    <2>2. Rounding(m, a, b, f, size, rem, all, got)
        BY <1>2, <1>4, <1>6, <1>8, <1>10, <1>12, <2>1 DEF Rounding
    <2> QED
        BY <2>2, RoundArithmetic
<1> QED
    BY <1>2, <1>11, <1>15

LEMMA BlockHolds ==
    ASSUME Size!AllocSizeAssumption, Width, RoundingFits, SizeInv
    PROVE  Size!BlockHoldsRequest
<1> SUFFICES ASSUME block # Size!None
             PROVE  /\ props.size >= req.buffer
                    /\ block[1] >= req.prefix + props.size
                    /\ block[1] * req.count <= block[2] /\ block[2] \in 0..Size!MAXLONG
    BY DEF Size!BlockHoldsRequest
<1>1. /\ req \in Requests /\ ~Size!BadAlign(req.align)
      /\ props = [size |-> Size!Rounded(req), count |-> req.count, align |-> req.align, prefix |-> req.prefix]
      /\ Size!Reasonable(props)
      /\ block[1] = Size!Aligned(props) /\ block[2] = props.count * Size!Aligned(props)
    BY DEF SizeInv
<1>2. /\ props.size = Size!Rounded(req) /\ props.count = req.count /\ props.align = req.align
      /\ props.prefix = req.prefix
    BY <1>1
<1>3. props.size \in Longs /\ props.count \in Longs /\ props.align \in Longs /\ props.prefix \in Longs
    BY <1>1, <1>2, RoundedIsLong, RequestIs
<1>4. /\ Size!Aligned(props) \in Nat
      /\ props.size + props.prefix <= Size!MAXLONG
      /\ Size!Aligned(props) >= props.size + props.prefix
    BY <1>1, <1>3, AlignedHolds
<1>5. /\ props.count > 0 /\ props.size > 0 /\ props.align > 0 /\ props.prefix >= 0
      /\ props.count * Size!Aligned(props) <= Size!MAXLONG
    BY <1>1 DEF Size!Reasonable
<1>6. props.size >= req.buffer
    BY <1>1, <1>2, <1>4, <1>5, RoundedHolds
<1>7. props.count * Size!Aligned(props) \in Nat /\ Size!Aligned(props) * props.count = props.count * Size!Aligned(props)
    BY <1>3, <1>4, <1>5 DEF Longs, Width
<1>8. Size!MAXLONG \in Nat
    BY DEF Width
<1> QED
    BY <1>1, <1>2, <1>3, <1>4, <1>5, <1>6, <1>7, <1>8 DEF Longs

\* What a power of two is: positive, and a divisor of the granularity unless the
\* check of the alignment finds it to be above that.
PowersDivide ==
    \A a \in Size!PowersOfTwo : a \in Nat \ {0} /\ (~Size!BadAlign(a) => Granularity % a = 0)

LEMMA StartsAlign ==
    ASSUME Size!AllocSizeAssumption, Width, PowersDivide, SizeInv
    PROVE  Size!StartsAreAligned
<1> SUFFICES ASSUME block # Size!None, props.align \in Size!PowersOfTwo,
                    NEW i \in 0..(props.count - 1)
             PROVE  (Granularity + i * block[1]) % props.align = 0
    BY DEF Size!StartsAreAligned, Size!SampleStarts
<1>1. /\ req \in Requests /\ ~Size!BadAlign(req.align)
      /\ props = [size |-> Size!Rounded(req), count |-> req.count, align |-> req.align, prefix |-> req.prefix]
      /\ Size!Reasonable(props)
      /\ block[1] = Size!Aligned(props)
    BY DEF SizeInv
<1>2. props.size \in Longs /\ props.count \in Longs /\ props.align \in Longs /\ props.prefix \in Longs
    BY <1>1, RoundedIsLong, RequestIs
<1>3. Size!Aligned(props) \in Nat /\ Size!Aligned(props) % props.align = 0
    BY <1>1, <1>2, AlignedHolds
<1>4. props.align \in Nat \ {0} /\ Granularity % props.align = 0
    BY <1>1 DEF PowersDivide
<1>5. PICK w \in Nat \ {0} : w = props.align
    BY <1>4
<1>6. PICK z \in Int : z = block[1]
    BY <1>1, <1>3
<1>7. PICK g \in Int : g = Granularity
    BY DEF Size!AllocSizeAssumption
<1>8. g % w = 0 /\ z % w = 0 /\ i \in Int
    BY <1>1, <1>3, <1>4, <1>5, <1>6, <1>7
<1>9. (g + i * z) % w = 0
    BY <1>8, SumOfMultiples
<1> QED
    BY <1>5, <1>6, <1>7, <1>9

\* The block that Alloc gets holds what was asked for, however the sizes wrapped
\* on the way, unless prefix and alignment together are a good part of the
\* address space.
THEOREM BlockIsLargeEnough ==
    ASSUME Size!AllocSizeAssumption, Width, RoundingFits
    PROVE  Size!Spec => []Size!BlockHoldsRequest
<1>1. Size!Init => SizeInv
    BY SizeInitInv
<1>2. SizeInv /\ [Size!Next]_(Size!vars) => SizeInv'
    BY SizeStepInv
<1>3. SizeInv => Size!BlockHoldsRequest
    BY BlockHolds
<1> QED
    BY <1>1, <1>2, <1>3, PTL DEF Size!Spec

\* Every sample begins at a multiple of an alignment that is a power of two.
THEOREM SamplesAreAligned ==
    ASSUME Size!AllocSizeAssumption, Width, PowersDivide
    PROVE  Size!Spec => []Size!StartsAreAligned
<1>1. Size!Init => SizeInv
    BY SizeInitInv
<1>2. SizeInv /\ [Size!Next]_(Size!vars) => SizeInv'
    BY SizeStepInv
<1>3. SizeInv => Size!StartsAreAligned
    BY StartsAlign
<1> QED
    BY <1>1, <1>2, <1>3, PTL DEF Size!Spec

-----------------------------------------------------------------------------
\* DynamicPin.  What AssertValid asks of a block for every set of application
\* threads, and the exclusion a block is for with one of them.

\* The types, with those of the application's threads and their events.
BlockTyped ==
    /\ OutPin!TypeOK
    /\ app \in [DOMAIN app -> {"idle", "waiting", "holds"}] /\ event \in [DOMAIN app -> BOOLEAN]
    /\ Apps \subseteq DOMAIN app

\* The use count is that of a streaming thread inside the pin: without it a
\* thread that comes out of its wait might find a pending block complete.
CountIsOfStream == users # 0 <=> stream \in {"in", "changing"}

\* The inductive invariant: the block is consistent because the count is that of
\* the streaming thread and the events follow the state.
BlockInv == BlockTyped /\ CountIsOfStream /\ OutPin!BlockStateIsConsistent /\ OutPin!EventFollowsState

\* The steps of the graph and of a thread in its wait leave the block alone.
LEMMA BlockGraphStep ==
    ASSUME OutPin!DynamicPinAssumption, BlockInv, OutPin!Graph \/ OutPin!StreamReturns
    PROVE  BlockInv'
<1>. USE DEF BlockInv, BlockTyped, OutPin!TypeOK, CountIsOfStream, OutPin!BlockStateIsConsistent,
    OutPin!EventFollowsState
<1>1. CASE OutPin!Active
    BY <1>1 DEF OutPin!Active, OutPin!StreamIdle, OutPin!blockVars
<1>2. CASE OutPin!Inactive
    BY <1>2 DEF OutPin!Inactive, OutPin!Woken, OutPin!blockVars
<1>3. CASE OutPin!DeliverBeginFlush
    BY <1>3 DEF OutPin!DeliverBeginFlush, OutPin!Woken, OutPin!blockVars
<1>4. CASE OutPin!DeliverEndFlush
    BY <1>4 DEF OutPin!DeliverEndFlush, OutPin!StreamIdle, OutPin!blockVars
<1>5. CASE OutPin!Wait
    BY <1>5 DEF OutPin!Wait, OutPin!graphVars, OutPin!blockVars
<1>6. CASE OutPin!Unblocked
    BY <1>6 DEF OutPin!DynamicPinAssumption, OutPin!Unblocked, OutPin!graphVars, OutPin!blockVars
<1>7. CASE OutPin!StateChanged
    BY <1>7 DEF OutPin!StateChanged, OutPin!graphVars, OutPin!blockVars
<1>8. CASE OutPin!ChangeReturns
    BY <1>8 DEF OutPin!ChangeReturns, OutPin!graphVars, OutPin!blockVars
<1>. QED
    BY <1>1, <1>2, <1>3, <1>4, <1>5, <1>6, <1>7, <1>8 DEF OutPin!Graph, OutPin!StreamReturns

\* A use begins only on a pin that is not blocked; the last one completes the
\* block that is pending.
LEMMA UseStep ==
    ASSUME OutPin!DynamicPinAssumption, BlockInv,
        OutPin!StartUsing \/ OutPin!ChangeMediaType \/ OutPin!StopUsing
    PROVE  BlockInv'
<1>. USE DEF BlockInv, BlockTyped, OutPin!TypeOK, CountIsOfStream, OutPin!BlockStateIsConsistent,
    OutPin!EventFollowsState
<1>1. CASE OutPin!StartUsing
    BY <1>1 DEF OutPin!DynamicPinAssumption, OutPin!StartUsing, OutPin!graphVars, OutPin!blockVars
<1>2. CASE OutPin!ChangeMediaType
    BY <1>2 DEF OutPin!ChangeMediaType, OutPin!graphVars, OutPin!blockVars
<1>3. CASE OutPin!StopUsing
    <2>. USE <1>3 DEF OutPin!StopUsing, OutPin!BlockOutputPin, OutPin!Signal, OutPin!graphVars,
        OutPin!blockVars
    <2>1. CASE users = 1 /\ blockState # "not_blocked"
        <3>1. users' = 0 /\ stream' = "out" /\ blockState' = "blocked" /\ notify' = NoApp /\ unblockEvent' = FALSE
            BY <2>1
        <3>2. event' \in [DOMAIN app -> BOOLEAN]
            BY <2>1
        <3>3. {pinActive', pinFlushing', stopEvent', unblockEvent', pinCommitted'} \subseteq BOOLEAN
            BY <3>1
        <3>4. UNCHANGED <<OutPin!graphVars, pinCommitted, app, blockCaller>>
            BY <2>1
        <3>5. BlockTyped'
            BY <3>1, <3>2, <3>3, <3>4 DEF OutPin!DynamicPinAssumption
        <3>. QED
            BY <3>1, <3>4, <3>5
    <2>2. CASE ~(users = 1 /\ blockState # "not_blocked")
        <3>1. UNCHANGED OutPin!blockVars
            BY <2>2
        <3>2. users' \in 0..MaxUsers /\ (users' # 0 <=> stream' \in {"in",
            "changing"}) /\ stream' \in {"in", "out"}
            BY DEF OutPin!DynamicPinAssumption
        <3>3. blockState # "blocked" /\ (users' = 0 => blockState = "not_blocked")
            BY <2>2 DEF OutPin!DynamicPinAssumption
        <3>. QED
            BY <3>1, <3>2, <3>3
    <2>. QED
        BY <2>1, <2>2
<1>. QED
    BY <1>1, <1>2, <1>3

\* An application thread blocks, gets the pin, or unblocks it.
LEMMA AppStep ==
    ASSUME OutPin!DynamicPinAssumption, BlockInv, NEW a \in Apps, OutPin!AppNext(a)
    PROVE  BlockInv'
<1>. USE DEF OutPin!DynamicPinAssumption, BlockInv, BlockTyped, OutPin!TypeOK, CountIsOfStream, OutPin!BlockStateIsConsistent,
         OutPin!EventFollowsState
<1>1. CASE OutPin!BlockPin(a)
    BY <1>1 DEF OutPin!BlockPin, OutPin!BlockOutputPin, OutPin!Signal, OutPin!graphVars
<1>2. CASE OutPin!BlockReturns(a)
    BY <1>2 DEF OutPin!BlockReturns, OutPin!graphVars
<1>3. CASE OutPin!Unblock(a)
    BY <1>3 DEF OutPin!Unblock, OutPin!Signal, OutPin!Woken, OutPin!graphVars
<1>4. CASE OutPin!UnblockNothing(a)
    BY <1>4 DEF OutPin!UnblockNothing, OutPin!graphVars, OutPin!blockVars
<1>. QED
    BY <1>1, <1>2, <1>3, <1>4 DEF OutPin!AppNext

\* At the start nobody blocks the pin and nobody uses it.
LEMMA InitBlock == ASSUME OutPin!DynamicPinAssumption PROVE OutPin!Init => BlockInv
<1>. SUFFICES ASSUME OutPin!Init PROVE BlockInv
    OBVIOUS
<1>. USE DEF OutPin!DynamicPinAssumption, OutPin!Init
<1>1. {pinActive, pinFlushing, stopEvent, unblockEvent, pinCommitted} \subseteq BOOLEAN
    BY Zenon
<1>2. BlockTyped
    BY <1>1 DEF BlockTyped, OutPin!TypeOK
<1>3. CountIsOfStream /\ OutPin!BlockStateIsConsistent
    BY DEF CountIsOfStream, OutPin!BlockStateIsConsistent
<1>4. OutPin!EventFollowsState
    BY DEF OutPin!EventFollowsState
<1>. QED
    BY <1>2, <1>3, <1>4 DEF BlockInv

\* Every step keeps the invariant.
LEMMA NextBlock ==
    ASSUME OutPin!DynamicPinAssumption
    PROVE  BlockInv /\ [OutPin!Next]_(OutPin!vars) => BlockInv'
<1>1. CASE UNCHANGED OutPin!vars
    BY <1>1 DEF OutPin!vars, OutPin!graphVars, OutPin!blockVars, BlockInv, BlockTyped,
        OutPin!TypeOK, CountIsOfStream,
       OutPin!BlockStateIsConsistent, OutPin!EventFollowsState
<1>. QED
    BY <1>1, BlockGraphStep, UseStep, AppStep DEF OutPin!Next

\* However many threads block and cancel, the state of a block agrees with
\* its event, its caller and the use count, as AssertValid asks, and the
\* streaming thread's event is set exactly while the pin is not blocked.
THEOREM BlockIsValid ==
    ASSUME OutPin!DynamicPinAssumption
    PROVE  OutPin!Spec => [](OutPin!BlockStateIsConsistent /\ OutPin!EventFollowsState)
<1>1. BlockInv => OutPin!BlockStateIsConsistent /\ OutPin!EventFollowsState
    BY DEF BlockInv
<1>. QED
    BY <1>1, InitBlock, NextBlock, PTL DEF OutPin!Spec

-----------------------------------------------------------------------------
(* One application thread *)

\* Nobody else unblocks the pin: the thread's step of the protocol is the
\* state of the block.
OwnerInv(a) ==
    /\ app[a] = "idle" => blockState = "not_blocked"
    /\ app[a] = "waiting" => blockState # "not_blocked" /\ (event[a] => blockState = "blocked")
    /\ app[a] = "holds" => blockState = "blocked"

\* At the start the thread is idle and the pin not blocked.
LEMMA InitOwner == ASSUME NEW a, Apps = {a} PROVE OutPin!Init => OwnerInv(a)
BY DEF OutPin!Init, OwnerInv

LEMMA NextOwner ==
    ASSUME OutPin!DynamicPinAssumption, NEW a, Apps = {a}
    PROVE  BlockInv /\ OwnerInv(a) /\ [OutPin!Next]_(OutPin!vars) => OwnerInv(a)'
<1>. SUFFICES ASSUME BlockInv, OwnerInv(a), [OutPin!Next]_(OutPin!vars) PROVE OwnerInv(a)'
    OBVIOUS
<1>. USE DEF BlockInv, BlockTyped, OutPin!BlockStateIsConsistent, OwnerInv
<1>1. CASE OutPin!Graph \/ OutPin!StreamReturns \/ OutPin!StartUsing \/ OutPin!ChangeMediaType 
    \/ UNCHANGED OutPin!vars
    BY <1>1 DEF OutPin!Graph, OutPin!Active, OutPin!Inactive, OutPin!DeliverBeginFlush,
        OutPin!DeliverEndFlush, OutPin!StreamReturns, OutPin!Wait,
       OutPin!Unblocked, OutPin!StateChanged, OutPin!ChangeReturns, OutPin!StartUsing,
           OutPin!ChangeMediaType, OutPin!blockVars, OutPin!vars
<1>2. CASE OutPin!StopUsing
    BY <1>2 DEF OutPin!DynamicPinAssumption, OutPin!TypeOK, OutPin!StopUsing,
        OutPin!BlockOutputPin, OutPin!Signal, OutPin!blockVars
<1>3. CASE OutPin!BlockPin(a)
    BY <1>3 DEF OutPin!BlockPin, OutPin!BlockOutputPin, OutPin!Signal
<1>4. CASE OutPin!BlockReturns(a)
    BY <1>4 DEF OutPin!BlockReturns
<1>5. CASE OutPin!Unblock(a)
    BY <1>5 DEF OutPin!Unblock
<1>6. CASE OutPin!UnblockNothing(a)
    BY <1>6 DEF OutPin!UnblockNothing
<1>. QED
    BY <1>1, <1>2, <1>3, <1>4, <1>5, <1>6 DEF OutPin!Next, OutPin!AppNext

\* Who holds the pin blocked it, and a blocked pin is not in use.
LEMMA OwnerExcludes == ASSUME NEW a, Apps = {a} PROVE BlockInv /\ OwnerInv(a) => OutPin!Exclusive
BY DEF BlockInv, OwnerInv, OutPin!Exclusive, CountIsOfStream, OutPin!BlockStateIsConsistent

\* While the one thread there is holds the blocked pin, the streaming thread
\* is not in it: the pin can be reconnected.
THEOREM BlockExcludes ==
    ASSUME OutPin!DynamicPinAssumption, NEW a, Apps = {a}
    PROVE  OutPin!Spec => []OutPin!Exclusive
<1>1. OutPin!Init => BlockInv /\ OwnerInv(a)
    BY InitBlock, InitOwner
<1>2. BlockInv /\ OwnerInv(a) /\ [OutPin!Next]_(OutPin!vars) => BlockInv' /\ OwnerInv(a)'
    BY NextBlock, NextOwner
<1>3. BlockInv /\ OwnerInv(a) => OutPin!Exclusive
    BY OwnerExcludes
<1>. QED
    BY <1>1, <1>2, <1>3, PTL DEF OutPin!Spec
=============================================================================
