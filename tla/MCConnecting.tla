---------------------------- MODULE MCConnecting ----------------------------
(***************************************************************************)
(* The base classes of pins, filters, allocators and samples side by side: *)
(* each execution is about one of them, named by part, and the others stay *)
(* as they are initially.  What holds of each holds side by side, for      *)
(* every value of the constants.                                           *)
(***************************************************************************)
EXTENDS PinProofs

CONSTANTS
    Parts,                                                       \* the components a run is about
    Clients, MaxCount, NoWait, AllocMayFail, MaxCommits, MaxWaiting    \* of Allocator

VARIABLES
    part,
    count, allocChanged, allocated, free, allocCommitted, decommitting,
    waiting, sem, cRef, refs, allocOwner, allocPc, hold, commits

memoryVars == <<count, allocChanged, allocated, free, allocCommitted, decommitting,
    waiting, sem, cRef, refs, allocOwner, allocPc, hold, commits>>
sampleVars == <<s, inUse, given, media, sampleResult>>
sizeVars == <<req, props, block>>
filterVars == <<state, pins, filterPc, at, last, flushing, error, session, receive,
    clock, newClock, clockRefs>>
listVars == <<list, version, changed, changes, enum, owner, next, seen>>
typesVars == <<offer, typesVersion, replaced, typesEnum, typesOwner, typesCall, typesSeen>>
outPinVars == <<pinActive, pinFlushing, stopEvent, unblockEvent, blockState, blockCaller,
    notify, users, stream, pinCommitted, app, event>>

Alloc == INSTANCE Allocator
    WITH Users <- Clients, changed <- allocChanged, committed <- allocCommitted,
    owner <- allocOwner, pc <- allocPc

\* The same components of another program: one thread blocks the pin, changes of
\* format and any step of a connection may fail, and every sample has a media type
\* and gives its length with its size.
OneApp == {CHOOSE a \in Apps : TRUE}
Other == INSTANCE PinProofs
    WITH Apps <- OneApp, MaxUsers <- MaxUsers + 1, ChangeFails <- TRUE,
    Prefixes <- {n \in Prefixes : Sample!HasActual(n) => Sample!HasSize(n)}, NoTypeMemory <- FALSE,
    MyTypesFirst <- TRUE, MayFail <- {"transport", "receive", "get", "size", "notify"}

\* A LONG has one bit for its sign, and rounding and media times stay within one.
NumbersFit == Width /\ RoundingFits /\ PowersDivide /\ MediaTimesFit

ASSUME ConnectingAssumption ==
    /\ Alloc!AllocatorAssumption
    /\ Sample!MediaSampleAssumption /\ Other!Sample!MediaSampleAssumption
    /\ Size!AllocSizeAssumption /\ NumbersFit
    /\ ConnectionAssumption /\ Other!ConnectionAssumption
    /\ Filter!BaseFilterAssumption
    /\ PinList!EnumPinsAssumption
    /\ TypeList!EnumMediaTypesAssumption
    /\ OutPin!DynamicPinAssumption /\ Other!OutPin!DynamicPinAssumption /\ Apps # {}

\* Values of the constants for TLC.  Requests to a LONG of five bits.
SomeRequests ==
    [buffer : 1..15, count : 0..3, align : {-16, -7, -1, 0, 1, 2, 3, 4, 8, 12},
     prefix : {-1, 0, 1, 7, 15}]

\* o1 offers first what i1 rejects; o2 offers nothing that i1 accepts.
PinPrefers ==
    [p \in {"o1", "o2", "i1", "i2"} |->
       CASE p = "o1" -> <<"t1", "t2">> [] p = "o2" -> <<"t1">>
         [] p = "i1" -> <<"t3", "t2">> [] OTHER -> <<>>]
PinAccepts ==
    [p \in {"o1", "o2", "i1", "i2"} |->
       CASE p = "o1" -> {"t1", "t2"} [] p = "o2" -> {"t1", "t3"}
         [] p = "i1" -> {"t2", "t3"} [] OTHER -> {"t1"}]

\* A pin that offers two types, or no longer the first of them.
FirstPins == <<"p1", "p2">>
SomeOffers == {<<"t1", "t2">>, <<"t2">>}

ConnectingInit ==
    /\ part \in Parts
    /\ part \notin {"DynamicPin", "OneApp"} => stopEvent = FALSE
    /\ part # "AllocSize" => req = CHOOSE r \in Requests : TRUE
    /\ part # "EnumPins" => owner = {CHOOSE e \in Enums : TRUE}
    /\ part # "EnumMediaTypes" => typesOwner = {CHOOSE e \in Enums : TRUE} /\ offer = CHOOSE o \in Offers : TRUE
    /\ OutPin!Init
    /\ Alloc!Init
    /\ CASE part = "WholeSample" -> Other!Sample!Init
         [] OTHER -> Sample!Init
    /\ Size!Init
    /\ CASE part = "FailingConnection" -> Other!Init
         [] OTHER -> Init
    /\ Filter!Init
    /\ PinList!Init
    /\ TypeList!Init
    /\ part \notin {"MediaSample", "WholeSample"} => s.size = CHOOSE z \in SampleSizes : TRUE

ConnectingNext ==
    /\ part' = part
    /\ CASE part = "DynamicPin" -> OutPin!Next
         [] part = "OneApp" -> Other!OutPin!Next
         [] OTHER -> UNCHANGED outPinVars
    /\ IF part = "Allocator" THEN Alloc!Next ELSE UNCHANGED memoryVars
    /\ CASE part = "MediaSample" -> Sample!Next
         [] part = "WholeSample" -> Other!Sample!Next
         [] OTHER -> UNCHANGED sampleVars
    /\ IF part = "AllocSize" THEN Size!Next ELSE UNCHANGED sizeVars
    /\ CASE part = "Connection" -> Next
         [] part = "FailingConnection" -> Other!Next
         [] OTHER -> UNCHANGED vars
    /\ IF part = "BaseFilter" THEN Filter!Next ELSE UNCHANGED filterVars
    /\ IF part = "EnumPins" THEN PinList!Next ELSE UNCHANGED listVars
    /\ IF part = "EnumMediaTypes" THEN TypeList!Next ELSE UNCHANGED typesVars

allVars == <<part, outPinVars, memoryVars, sampleVars, sizeVars, vars,
    filterVars, listVars, typesVars>>
ConnectingSpec == ConnectingInit /\ [][ConnectingNext]_allVars

-----------------------------------------------------------------------------
\* CDynamicOutputPin: AssertValid, the state of a block agrees with its event, its
\* caller and the use count.
BlockStateIsConsistent ==
    IF part = "OneApp" THEN Other!OutPin!BlockStateIsConsistent ELSE OutPin!BlockStateIsConsistent

\* CDynamicOutputPin: a pin is blocked for one application and the event follows
\* its state; with one application thread nothing is delivered, and no format
\* changed, while that holds the blocked pin.
BlockedPinIsLeftAlone ==
    /\ part = "DynamicPin" => OutPin!TypeOK /\ OutPin!EventFollowsState
    /\ part = "OneApp" => Other!OutPin!TypeOK /\ Other!OutPin!Exclusive

\* CBaseAllocator and CMediaSample: samples are counted, and freed memory is
\* never in use; a waiting thread is woken; a sample handed out again carries
\* nothing of its last use, and the memory of each holds what was asked for.
MemoryIsAccounted ==
    /\ part = "Allocator" =>
         /\ Alloc!TypeOK /\ Alloc!SamplesAreCounted /\ Alloc!NoLostWakeup
         /\ Alloc!SettledWhileInUse /\ Alloc!OneOwnReference /\ Alloc!AliveWhileInUse
    /\ part = "MediaSample" =>
         /\ Sample!TypeOK /\ Sample!TypeHasFlag /\ Sample!RecycledIsClean
         /\ Sample!StartIsOfThisUse /\ Sample!MediaTimeReadsBack
    /\ part = "WholeSample" => Other!Sample!TypeOK /\ Other!Sample!DataFits
    /\ part = "AllocSize" => Size!TypeOK /\ Size!BlockHoldsRequest /\ Size!StartsAreAligned

\* CBasePin, CBaseOutputPin and CBaseFilter: connected pins agree on each other, a
\* type and a live allocator, and whatever failed nothing is kept of it; a filter
\* that was started has active pins and one that was stopped has none; an
\* enumerator returns every pin once, however the filter changes, and one in step
\* with its pin returns the types of one list.
PinsAgree ==
    /\ part = "Connection" => TypeOK /\ ConnectedAgree /\ CommittedInUse
    /\ part = "FailingConnection" =>
         /\ Other!BothOrNone /\ Other!ConnectedAgree
         /\ Other!NothingKept /\ Other!RefsHaveHolders
    /\ part = "BaseFilter" =>
         /\ Filter!TypeOK /\ Filter!StoppedIsInactive /\ Filter!ActiveWhenStarted
         /\ Filter!NoStaleError /\ Filter!ClockIsAlive
    /\ part = "EnumPins" =>
         PinList!TypeOK /\ PinList!ReturnedOnce /\ PinList!EndIsTheEnd
    /\ part = "EnumMediaTypes" => TypeList!TypeOK /\ TypeList!InOrder

\* A call that fails has a reason and leaves the sample as it was: Connect fails
\* only if no type suits both pins, SetProperties only before it assigns.
FailsWithReason ==
    /\ Sample!FailsWhole
    /\ [][part = "Connection" /\ pc # "idle" /\ result' = "failed"
            => HasReason]_<<part, vars>>

\* Under the fairness of each component its calls come back: a decommit wakes who
\* waits for a buffer and is completed, connections and changes of state end,
\* Next returns, and a block is granted, cancelled or ended by a stop.
CallsComeBack ==
    /\ part = "Allocator" => (Alloc!Fairness => Alloc!DecommitWakes /\ Alloc!DecommitCompletes)
    /\ part = "Connection" => (Fairness => CallsReturn)
    /\ part = "BaseFilter" => (Filter!Fairness => Filter!CallsReturn)
    /\ part = "EnumPins" => (PinList!Fairness => PinList!NextComesBack)
    /\ part = "DynamicPin" => (OutPin!Fairness => OutPin!BlockComesBack)
    /\ part = "OneApp" => (Other!OutPin!Fairness => Other!OutPin!StopFreesStream)

-----------------------------------------------------------------------------
\* A step of the whole is a step of each component, or leaves it alone.
LEMMA StepIs ==
    ASSUME [ConnectingNext]_allVars
    PROVE  /\ part' = part
           /\ part # "OneApp" => [OutPin!Next]_(OutPin!vars)
           /\ part = "OneApp" => [Other!OutPin!Next]_(Other!OutPin!vars)
           /\ part = "Allocator" => [Alloc!Next]_(Alloc!vars)
           /\ part = "MediaSample" => [Sample!Next]_(Sample!vars)
           /\ part = "WholeSample" => [Other!Sample!Next]_(Other!Sample!vars)
           /\ part = "AllocSize" => [Size!Next]_(Size!vars)
           /\ part = "Connection" => [Next]_vars
           /\ part = "FailingConnection" => [Other!Next]_(Other!vars)
           /\ part = "BaseFilter" => [Filter!Next]_(Filter!vars)
           /\ part = "EnumPins" => [PinList!Next]_(PinList!vars)
           /\ part = "EnumMediaTypes" => [TypeList!Next]_(TypeList!vars)
<1>1. CASE ConnectingNext
  <2>1. part' = part
      BY <1>1 DEF ConnectingNext
  <2>2. /\ part = "DynamicPin" => OutPin!Next
        /\ part = "OneApp" => Other!OutPin!Next
        /\ part \notin {"DynamicPin", "OneApp"} => UNCHANGED outPinVars
      BY <1>1 DEF ConnectingNext
  <2>3. part = "Allocator" => Alloc!Next
      BY <1>1 DEF ConnectingNext
  <2>4. part = "MediaSample" => Sample!Next
      BY <1>1 DEF ConnectingNext
  <2>5. part = "WholeSample" => Other!Sample!Next
      BY <1>1 DEF ConnectingNext
  <2>6. part = "AllocSize" => Size!Next
      BY <1>1 DEF ConnectingNext
  <2>7. part = "Connection" => Next
      BY <1>1 DEF ConnectingNext
  <2>8. part = "FailingConnection" => Other!Next
      BY <1>1 DEF ConnectingNext
  <2>9. part = "BaseFilter" => Filter!Next
      BY <1>1 DEF ConnectingNext
  <2>10. part = "EnumPins" => PinList!Next
      BY <1>1 DEF ConnectingNext
  <2>11. part = "EnumMediaTypes" => TypeList!Next
      BY <1>1 DEF ConnectingNext
  <2>12. UNCHANGED outPinVars => UNCHANGED OutPin!vars
      BY DEF outPinVars, OutPin!vars, OutPin!graphVars, OutPin!blockVars
  <2> QED
      BY <2>1, <2>2, <2>3, <2>4, <2>5, <2>6, <2>7, <2>8, <2>9, <2>10, <2>11, <2>12
<1>2. CASE UNCHANGED allVars
  <2>1. part' = part /\ UNCHANGED <<outPinVars, memoryVars, sampleVars, sizeVars>>
        /\ UNCHANGED <<vars, filterVars, listVars, typesVars>>
      BY <1>2 DEF allVars
  <2>2. UNCHANGED <<OutPin!vars, Other!OutPin!vars>>
      BY <2>1 DEF outPinVars, OutPin!vars, OutPin!graphVars, OutPin!blockVars,
         Other!OutPin!vars, Other!OutPin!graphVars, Other!OutPin!blockVars
  <2>3. UNCHANGED Alloc!vars
      BY <2>1 DEF memoryVars, Alloc!vars, Alloc!propVars, Alloc!semVars, Alloc!stateVars
  <2>4. UNCHANGED <<Sample!vars, Other!Sample!vars, Size!vars>>
      BY <2>1 DEF sampleVars, sizeVars, Sample!vars, Other!Sample!vars, Size!vars
  <2>5. UNCHANGED <<vars, Other!vars>>
      BY <2>1 DEF vars, pinVars, allocVars, Other!vars, Other!pinVars, Other!allocVars
  <2>6. UNCHANGED Filter!vars
      BY <2>1 DEF filterVars, Filter!vars, Filter!appVars, Filter!pinVars, Filter!clockVars
  <2>7. UNCHANGED <<PinList!vars, TypeList!vars>>
      BY <2>1 DEF listVars, typesVars, PinList!vars, PinList!filterVars, TypeList!vars
  <2> QED
      BY <2>1, <2>2, <2>3, <2>4, <2>5, <2>6, <2>7
<1> QED
    BY <1>1, <1>2

\* The dynamic output pin, whoever blocks it.
PinInv ==
    /\ part # "OneApp" => BlockInv
    /\ part = "OneApp" => Other!BlockInv /\ \A a \in OneApp : Other!OwnerInv(a)

LEMMA PinInit == ConnectingInit => PinInv
<1> SUFFICES ASSUME ConnectingInit PROVE PinInv
    OBVIOUS
<1>1. OutPin!Init
    BY DEF ConnectingInit
<1>2. BlockInv
    BY <1>1, ConnectingAssumption, InitBlock
<1>3. OneApp \subseteq Apps
    BY ConnectingAssumption DEF OneApp
<1>4. Other!BlockInv
  <2> USE <1>1 DEF OutPin!Init
  <2>1. {pinActive, pinFlushing, stopEvent, unblockEvent, pinCommitted} \subseteq BOOLEAN
      BY Zenon
  <2>2. MaxUsers + 1 \in Nat
      BY ConnectingAssumption DEF OutPin!DynamicPinAssumption
  <2>3. Other!BlockTyped
      BY <1>3, <2>1, <2>2 DEF Other!BlockTyped, Other!OutPin!TypeOK
  <2>4. Other!CountIsOfStream /\ Other!OutPin!BlockStateIsConsistent
      BY DEF Other!CountIsOfStream, Other!OutPin!BlockStateIsConsistent
  <2>5. Other!OutPin!EventFollowsState
      BY DEF Other!OutPin!EventFollowsState
  <2> QED
      BY <2>3, <2>4, <2>5 DEF Other!BlockInv
<1>5. ASSUME NEW a \in OneApp PROVE Other!OwnerInv(a)
    BY <1>1, <1>3 DEF OutPin!Init, Other!OwnerInv
<1> QED
    BY <1>2, <1>4, <1>5 DEF PinInv

LEMMA PinStep == PinInv /\ [ConnectingNext]_allVars => PinInv'
<1> SUFFICES ASSUME PinInv, [ConnectingNext]_allVars PROVE PinInv'
    OBVIOUS
<1>1. CASE part # "OneApp"
    BY <1>1, StepIs, NextBlock, ConnectingAssumption DEF PinInv
<1>2. CASE part = "OneApp"
  <2>1. Other!BlockInv'
      BY <1>2, StepIs, Other!NextBlock, ConnectingAssumption DEF PinInv
  <2>2. ASSUME NEW a \in OneApp PROVE Other!OwnerInv(a)'
    <3>1. OneApp = {a}
        BY DEF OneApp
    <3> QED
        BY <1>2, <3>1, StepIs, Other!NextOwner, ConnectingAssumption DEF PinInv
  <2> QED
      BY <1>2, <2>1, <2>2, StepIs DEF PinInv
<1> QED
    BY <1>1, <1>2

\* The block of CDynamicOutputPin is consistent, whoever blocks the pin and whatever
\* fails.
THEOREM PinIsConsistent == ConnectingSpec => []BlockStateIsConsistent
<1>1. PinInv => BlockStateIsConsistent
    BY DEF PinInv, BlockInv, Other!BlockInv, BlockStateIsConsistent
<1> QED
    BY <1>1, PinInit, PinStep, PTL DEF ConnectingSpec

\* A block is valid, and with one application thread the pin is left alone while
\* that holds it.
THEOREM PinIsLeftAlone == ConnectingSpec => []BlockedPinIsLeftAlone
<1>1. PinInv => BlockedPinIsLeftAlone
  <2> SUFFICES ASSUME PinInv PROVE BlockedPinIsLeftAlone
      OBVIOUS
  <2>1. part = "DynamicPin" => OutPin!TypeOK /\ OutPin!EventFollowsState
      BY DEF PinInv, BlockInv, BlockTyped
  <2>2. ASSUME part = "OneApp" PROVE Other!OutPin!TypeOK /\ Other!OutPin!Exclusive
    <3>1. Other!BlockInv /\ \A a \in OneApp : Other!OwnerInv(a)
        BY <2>2 DEF PinInv
    <3>2. PICK a : OneApp = {a}
        BY DEF OneApp
    <3> QED
        BY <3>1, <3>2, Other!OwnerExcludes DEF Other!BlockInv, Other!BlockTyped
  <2> QED
      BY <2>1, <2>2 DEF BlockedPinIsLeftAlone
<1> QED
    BY <1>1, PinInit, PinStep, PTL DEF ConnectingSpec

\* Memory: the allocator, a sample whose program may leave out its type, one that
\* is given its length with its size, and the sizes of samples.
MemoryInv ==
    /\ part = "Allocator" => Alloc!AllocInv /\ Alloc!NotTooMany
    /\ part = "MediaSample" => SampleInv /\ Sample!MediaTimeReadsBack
    /\ part = "WholeSample" => Other!SampleInv /\ Other!Sample!DataFits
    /\ part = "AllocSize" => SizeInv

LEMMA MemoryInit == ConnectingInit => MemoryInv
<1> SUFFICES ASSUME ConnectingInit PROVE MemoryInv
    OBVIOUS
<1>1. part = "Allocator" => Alloc!AllocInv /\ Alloc!NotTooMany
    BY ConnectingAssumption, Alloc!InitInv, Alloc!FewInit DEF ConnectingInit
<1>2. ASSUME part = "MediaSample" PROVE SampleInv /\ Sample!MediaTimeReadsBack
  <2>1. Sample!Init
      BY <1>2 DEF ConnectingInit
  <2> QED
      BY <2>1, SampleInitInv DEF Sample!Init, Sample!MediaTimeReadsBack
<1>3. ASSUME part = "WholeSample" PROVE Other!SampleInv /\ Other!Sample!DataFits
  <2>1. Other!Sample!Init
      BY <1>3 DEF ConnectingInit
  <2>2. PICK z \in SampleSizes : s.actual = z /\ s.size = z
      BY <2>1 DEF Other!Sample!Init
  <2>3. Other!Sample!DataFits
      BY <2>2, ConnectingAssumption DEF Other!Sample!DataFits, Sample!MediaSampleAssumption
  <2> QED
      BY <2>1, <2>3, Other!SampleInitInv
<1>4. SizeInv
    BY SizeInitInv DEF ConnectingInit
<1> QED
    BY <1>1, <1>2, <1>3, <1>4 DEF MemoryInv

LEMMA MemoryStep == MemoryInv /\ [ConnectingNext]_allVars => MemoryInv'
<1> SUFFICES ASSUME MemoryInv, [ConnectingNext]_allVars PROVE MemoryInv'
    OBVIOUS
<1>1. part = "Allocator" => (Alloc!AllocInv /\ Alloc!NotTooMany)'
    BY ConnectingAssumption, StepIs, Alloc!StepInv, Alloc!FewStep DEF MemoryInv
<1>2. part = "MediaSample" => (SampleInv /\ Sample!MediaTimeReadsBack)'
    BY ConnectingAssumption, StepIs, SampleStepInv, MediaStepInv DEF MemoryInv, NumbersFit
<1>3. part = "WholeSample" => (Other!SampleInv /\ Other!Sample!DataFits)'
  <2>1. Other!LengthWithSize
      BY DEF Other!LengthWithSize, Other!Sample!HasActual, Other!Sample!HasSize, Sample!HasActual, Sample!HasSize
  <2> QED
      BY <2>1, ConnectingAssumption, StepIs, Other!SampleStepInv, Other!FitsStepInv DEF MemoryInv
<1>4. part = "AllocSize" => SizeInv'
    BY StepIs, SizeStepInv DEF MemoryInv
<1> QED
    BY <1>1, <1>2, <1>3, <1>4, StepIs DEF MemoryInv

\* Samples are counted and no wakeup is lost, a sample carries nothing of its last
\* use, and every block holds what was asked for.
THEOREM MemoryAccounted == ConnectingSpec => []MemoryIsAccounted
<1>1. MemoryInv => MemoryIsAccounted
  <2> SUFFICES ASSUME MemoryInv PROVE MemoryIsAccounted
      OBVIOUS
  <2>1. ASSUME part = "Allocator"
        PROVE  /\ Alloc!TypeOK /\ Alloc!SamplesAreCounted /\ Alloc!NoLostWakeup
               /\ Alloc!SettledWhileInUse /\ Alloc!OneOwnReference /\ Alloc!AliveWhileInUse
      BY <2>1, ConnectingAssumption, Alloc!TypedImplied, Alloc!AllocImplied DEF MemoryInv
  <2>2. ASSUME part = "MediaSample"
        PROVE  /\ Sample!TypeOK /\ Sample!TypeHasFlag /\ Sample!RecycledIsClean
               /\ Sample!StartIsOfThisUse /\ Sample!MediaTimeReadsBack
      BY <2>2, SampleTyped DEF MemoryInv, SampleInv
  <2>3. part = "WholeSample" => Other!Sample!TypeOK /\ Other!Sample!DataFits
      BY Other!SampleTyped DEF MemoryInv
  <2>4. part = "AllocSize" => Size!TypeOK /\ Size!BlockHoldsRequest /\ Size!StartsAreAligned
      BY ConnectingAssumption, SizeTyped, BlockHolds, StartsAlign DEF MemoryInv, NumbersFit
  <2> QED
      BY <2>1, <2>2, <2>3, <2>4 DEF MemoryIsAccounted
<1> QED
    BY <1>1, MemoryInit, MemoryStep, PTL DEF ConnectingSpec

\* Agreement: pins with each other, with steps that fail and without, a filter with
\* its pins, and enumerators with what they enumerate.
AgreeInv ==
    /\ part = "Connection" => ConnInv /\ ReasonInv
    /\ part = "FailingConnection" => Other!ConnInv /\ Other!BothInv
    /\ part = "BaseFilter" => FilterInv /\ LastInv /\ StoppedOrFails /\ flushing \in BOOLEAN
    /\ part = "EnumPins" => EnumInv /\ EnumBounds
    /\ part = "EnumMediaTypes" => TypesInv

LEMMA AgreeInit == ConnectingInit => AgreeInv
<1> SUFFICES ASSUME ConnectingInit PROVE AgreeInv
    OBVIOUS
<1>1. part = "Connection" => ConnInv /\ ReasonInv
    BY ConnectingAssumption, ConnInitInv, ReasonInit DEF ConnectingInit
<1>2. part = "FailingConnection" => Other!ConnInv /\ Other!BothInv
    BY ConnectingAssumption, Other!ConnInitInv, Other!BothInitInv DEF ConnectingInit
<1>3. FilterInv /\ LastInv /\ StoppedOrFails /\ flushing \in BOOLEAN
    BY ConnectingAssumption, FilterInitInv, FilterTypes DEF ConnectingInit, StoppedOrFails
<1>4. EnumInv /\ EnumBounds
    BY ConnectingAssumption, EnumInitInv, BoundsInit DEF ConnectingInit
<1>5. TypesInv
    BY ConnectingAssumption, TypesInitInv DEF ConnectingInit
<1> QED
    BY <1>1, <1>2, <1>3, <1>4, <1>5 DEF AgreeInv

LEMMA AgreeStep ==
    ASSUME Dynamic \cap Ins = {} PROVE AgreeInv /\ [ConnectingNext]_allVars => AgreeInv'
<1> SUFFICES ASSUME AgreeInv, [ConnectingNext]_allVars PROVE AgreeInv'
    OBVIOUS
<1>1. part = "Connection" => (ConnInv /\ ReasonInv)'
    BY ConnectingAssumption, StepIs, ConnStepInv, ReasonStep DEF AgreeInv
<1>2. part = "FailingConnection" => (Other!ConnInv /\ Other!BothInv)'
    BY ConnectingAssumption, StepIs, Other!ConnStepInv, Other!BothStep DEF AgreeInv
<1>3. part = "BaseFilter" => (FilterInv /\ LastInv /\ StoppedOrFails /\ flushing \in BOOLEAN)'
    BY ConnectingAssumption, StepIs, FilterStepInv, FilterTypes DEF AgreeInv
<1>4. part = "EnumPins" => (EnumInv /\ EnumBounds)'
    BY ConnectingAssumption, StepIs, EnumStepInv, BoundsStep DEF AgreeInv
<1>5. part = "EnumMediaTypes" => TypesInv'
    BY ConnectingAssumption, StepIs, TypesStepInv DEF AgreeInv
<1> QED
    BY <1>1, <1>2, <1>3, <1>4, <1>5, StepIs DEF AgreeInv

\* With input pins that do not accept a connection while active, and Active calls of
\* pins that do not fail: connected pins agree, a filter with its pins, and an
\* enumerator with its list.
THEOREM EveryoneAgrees ==
    ASSUME Dynamic \cap Ins = {}, ~ActiveMayFail PROVE ConnectingSpec => []PinsAgree
<1>1. AgreeInv => PinsAgree
  <2> SUFFICES ASSUME AgreeInv PROVE PinsAgree
      OBVIOUS
  <2>1. part = "Connection" => TypeOK /\ ConnectedAgree /\ CommittedInUse
      BY ConnectingAssumption, TypedImplied, AgreeImplied DEF AgreeInv, ConnInv
  <2>2. part = "FailingConnection" =>
            /\ Other!BothOrNone /\ Other!ConnectedAgree
            /\ Other!NothingKept /\ Other!RefsHaveHolders
      BY ConnectingAssumption, Other!BothImplied, Other!AgreeImplied, Other!KeptImplied
         DEF AgreeInv, Other!ConnInv
  <2>3. part = "BaseFilter" =>
            /\ Filter!TypeOK /\ Filter!StoppedIsInactive /\ Filter!ActiveWhenStarted
            /\ Filter!NoStaleError /\ Filter!ClockIsAlive
      BY ConnectingAssumption, FilterTypes, FilterImplied DEF AgreeInv
  <2>4. ASSUME part = "EnumPins" PROVE PinList!TypeOK /\ PinList!ReturnedOnce /\ PinList!EndIsTheEnd
    <3>1. EnumInv /\ EnumBounds
        BY <2>4 DEF AgreeInv
    <3>2. PinList!ReturnedOnce
        BY <3>1 DEF EnumInv, SeenInv, Distinct, PinList!ReturnedOnce
    <3> QED
        BY <3>1, <3>2, BoundsTyped, EndImplied, ConnectingAssumption
  <2>5. part = "EnumMediaTypes" => TypeList!TypeOK /\ TypeList!InOrder
      BY TypesInvImplies DEF AgreeInv
  <2> QED
      BY <2>1, <2>2, <2>3, <2>4, <2>5 DEF PinsAgree
<1> QED
    BY <1>1, AgreeInit, AgreeStep, PTL DEF ConnectingSpec

\* SetProperties fails whole, and Connect only for a reason: what is tried and
\* fails does not suit.
TriedInv == part = "Connection" => ConnInv /\ ReasonInv

THEOREM FailuresHaveReasons == ConnectingSpec => FailsWithReason
<1>1. ConnectingInit => TriedInv
    BY AgreeInit DEF AgreeInv, TriedInv
<1>2. TriedInv /\ [ConnectingNext]_allVars => TriedInv'
    BY ConnectingAssumption, StepIs, ConnStepInv, ReasonStep DEF TriedInv
<1>3. [ConnectingNext]_allVars => [inUse /\ sampleResult' = "invalid" => s' = s]_(Sample!vars)
  <2> SUFFICES ASSUME [ConnectingNext]_allVars, inUse, sampleResult' = "invalid"
               PROVE  s' = s \/ UNCHANGED Sample!vars
      OBVIOUS
  <2>1. CASE part = "MediaSample"
      BY <2>1, StepIs, InvalidKeeps
  <2>2. CASE part = "WholeSample"
      BY <2>2, StepIs, Other!InvalidKeeps
  <2>3. CASE part \notin {"MediaSample", "WholeSample"}
    <3>1. UNCHANGED sampleVars
        BY <2>3 DEF ConnectingNext, allVars
    <3> QED
        BY <3>1 DEF sampleVars
  <2> QED
      BY <2>1, <2>2, <2>3
<1>4. TriedInv /\ [ConnectingNext]_allVars
        => [part = "Connection" /\ pc # "idle" /\ result' = "failed" => HasReason]_<<part, vars>>
  <2> SUFFICES ASSUME TriedInv, [ConnectingNext]_allVars, part = "Connection", pc # "idle", result' = "failed"
               PROVE  HasReason \/ UNCHANGED <<part, vars>>
      OBVIOUS
  <2> QED
      BY StepIs, ReasonGiven, ConnectingAssumption DEF TriedInv
<1> QED
    BY <1>1, <1>2, <1>3, <1>4, PTL DEF ConnectingSpec, FailsWithReason, Sample!FailsWhole
=============================================================================
