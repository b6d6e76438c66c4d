-------------------------- MODULE RenderingProofs --------------------------
(***************************************************************************)
(* Proofs about ImageAllocator, ControlWindow, VideoQuality, ControlVideo  *)
(* and Seeking, beside the other components of MCRendering: for all        *)
(* formats, sizes and numbers of samples, all places, rectangles and       *)
(* positions, and all times of the frames.                                 *)
(***************************************************************************)
EXTENDS MCRendering, FiniteSetTheorems, SequenceTheorems, TLAPS

Sample == [size : Sizes \cup {0}, version : Int, colours : Colours \cup {NoPalette}]

\* What a sample is, and what the format is compared with.
Typed ==
  /\ format \in Formats /\ version \in Int
  /\ agreed \in [size : Sizes \cup {0}, count : 0 .. MaxSamples]
  /\ samples \in [DOMAIN samples -> Sample]
  /\ {negotiated, committed, decommitting} \subseteq BOOLEAN

\* Only samples in use keep an allocator from the state without any.
Phases ==
  /\ decommitting => ~committed /\ free # DOMAIN samples
  /\ ~committed /\ ~decommitting => held = {}

\* The inductive invariant: what is in use exists, since a decommit that finds
\* samples in use waits for them.
UseInv == Typed /\ InUseExists /\ Phases

\* Alloc adds new samples to those there are, and all of them are free.
LEMMA AllocAdds ==
  ASSUME UseInv, NEW n \in Nat, Alloc(n)
  PROVE  /\ samples' \in [DOMAIN samples \cup 1 .. n -> Sample]
         /\ DOMAIN samples' \ free' = DOMAIN samples \ free
         /\ free \subseteq free' /\ free' \subseteq free \cup (DOMAIN samples' \ DOMAIN samples)
<1>1. NewSample \in Sample
  BY DEF NewSample, Sample, UseInv, Typed, Formats, PALETTE_VERSION
<1>2. DOMAIN samples \cup {s \in 1 .. n : s \notin DOMAIN samples} = DOMAIN samples \cup 1 .. n
  OBVIOUS
<1>. QED
  BY <1>1, <1>2 DEF Alloc, UseInv, Typed

\* PreparePalette sets a format and keeps the version a number.
LEMMA Prepared ==
  ASSUME Typed, NEW new \in Formats, PreparePalette(new)
  PROVE  format' = new /\ version' \in {version, version + 1}
BY DEF PreparePalette

\* Failing to make the bitmaps of a Commit is the one step that may be missing.
LEMMA FailingIs ==
  /\ [Next]_vars => [Failing!Next]_vars
  /\ Failing!Next =>
       \/ NewPalette \/ Reconnect \/ SetProperties \/ Commit \/ Failing!CommitFails \/ CommitAgain
       \/ Decommit \/ GetBuffer \/ ReleaseBuffer \/ FastRender
<1>. USE DEF Failing!ContainsPalette, ContainsPalette
<1>1. \A new, old : Failing!ShouldUpdate(new, old) = ShouldUpdate(new, old)
  BY DEF Failing!ShouldUpdate, ShouldUpdate
<1>2. \A new : Failing!PreparePalette(new) = PreparePalette(new)
  BY <1>1 DEF Failing!PreparePalette, PreparePalette, Failing!NotDrawn, NotDrawn, Failing!None, None
<1>3. \A n : Failing!Alloc(n) = Alloc(n)
  BY DEF Failing!Alloc, Alloc, Failing!NewSample, NewSample, Failing!PALETTE_VERSION, PALETTE_VERSION
<1>4. Failing!NewPalette = NewPalette /\ Failing!Reconnect = Reconnect
  BY <1>2 DEF Failing!NewPalette, NewPalette, Failing!Reconnect, Reconnect, Failing!Formats, Formats
<1>5. Failing!SetProperties = SetProperties
  BY DEF Failing!SetProperties, SetProperties, Failing!AgreedSize, AgreedSize
<1>6. /\ Failing!Commit = Commit /\ Failing!CommitAgain = CommitAgain
      /\ CommitFails => Failing!CommitFails
  BY <1>3 DEF Failing!Commit, Commit, Failing!CommitAgain, CommitAgain, Failing!CommitFails, CommitFails,
     Failing!Cardinality, Cardinality, Failing!IsFiniteSet, IsFiniteSet
<1>7. /\ Failing!Decommit = Decommit /\ Failing!ReleaseBuffer = ReleaseBuffer
      /\ Failing!GetBuffer = GetBuffer
  BY DEF Failing!Decommit, Decommit, Failing!ReleaseBuffer, ReleaseBuffer, Failing!Outstanding, Outstanding,
     Failing!NoSamples, NoSamples, Failing!NotDrawn, NotDrawn, Failing!None, None, Failing!GetBuffer, GetBuffer
<1>8. \A s : Failing!UpToDate(s) = UpToDate(s)
  BY DEF Failing!UpToDate, UpToDate, Failing!UpdateColourTable, UpdateColourTable
<1>9. Failing!FastRender = FastRender
  BY <1>8 DEF Failing!FastRender, FastRender
<1>. QED
  BY <1>4, <1>5, <1>6, <1>7, <1>9 DEF Next, Failing!Next

\* It makes fewer than were agreed, and changes nothing else.
LEMMA FailingAllocates ==
  ASSUME Failing!CommitFails
  PROVE  /\ ~committed /\ ~decommitting /\ negotiated
         /\ \E n \in 0 .. agreed.count - 1 : Alloc(n)
         /\ UNCHANGED <<format, negotiated, agreed, committed, decommitting, held, version, drawn>>
BY DEF Failing!CommitFails, Failing!Alloc, Alloc, Failing!NewSample, NewSample, Failing!PALETTE_VERSION, PALETTE_VERSION

\* Every step keeps what is in use, whether or not bitmaps run out.
LEMMA UseStep ==
  ASSUME UseInv, [Failing!Next]_vars
  PROVE  UseInv'
<1>. USE DEF UseInv, InUseExists, Phases
<1>1. CASE NewPalette
  <2>1. PICK new \in Formats : PreparePalette(new)
    BY <1>1 DEF NewPalette
  <2>. QED
    BY <1>1, <2>1, Prepared DEF NewPalette, Typed
<1>2. CASE Reconnect
  <2>1. PICK new \in Formats : PreparePalette(new)
    BY <1>2 DEF Reconnect
  <2>2. format' \in Formats /\ version' \in Int
    BY <2>1, Prepared DEF Typed
  <2>3. negotiated' = FALSE /\ UNCHANGED <<agreed, committed, decommitting, samples, free, held>>
    BY <1>2 DEF Reconnect
  <2>. QED
    BY <2>2, <2>3 DEF Typed
<1>3. CASE SetProperties
  <2>1. PICK count \in 1 .. MaxSamples : agreed' = [size |-> format.size, count |-> count]
    BY <1>3 DEF SetProperties, AgreedSize
  <2>2. agreed' \in [size : Sizes \cup {0}, count : 0 .. MaxSamples]
    BY <2>1, SamplesAssumption DEF Typed, Formats
  <2>. QED
    BY <1>3, <2>2 DEF SetProperties, Typed
<1>4. CASE Commit
  <2>1. agreed.count \in Nat
    BY SamplesAssumption DEF Typed
  <2>2. Alloc(agreed.count)
    BY <1>4 DEF Commit
  <2>3. /\ samples' \in [DOMAIN samples \cup 1 .. agreed.count -> Sample]
        /\ DOMAIN samples' \ free' = DOMAIN samples \ free
        /\ free \subseteq free' /\ free' \subseteq free \cup (DOMAIN samples' \ DOMAIN samples)
    BY <2>1, <2>2, AllocAdds
  <2>4. UNCHANGED <<format, negotiated, agreed, decommitting, held, version>> /\ committed' = TRUE
    BY <1>4 DEF Commit
  <2>5. Typed'
    BY <2>3, <2>4 DEF Typed
  <2>6. Phases' /\ InUseExists'
    BY <1>4, <2>3, <2>4 DEF Commit
  <2>. QED
    BY <2>5, <2>6
<1>5. CASE Failing!CommitFails
  <2>1. PICK n \in 0 .. agreed.count - 1 : Alloc(n)
    BY <1>5, FailingAllocates
  <2>2. n \in Nat
    BY SamplesAssumption DEF Typed
  <2>3. ~committed /\ ~decommitting
        /\ UNCHANGED <<format, negotiated, agreed, committed, decommitting, held, version>>
    BY <1>5, FailingAllocates
  <2>4. /\ samples' \in [DOMAIN samples \cup 1 .. n -> Sample]
        /\ DOMAIN samples' \ free' = DOMAIN samples \ free
        /\ free \subseteq free' /\ free' \subseteq free \cup (DOMAIN samples' \ DOMAIN samples)
    BY <2>1, <2>2, AllocAdds
  <2>. QED
    BY <2>3, <2>4 DEF Typed
<1>6. CASE CommitAgain
  BY <1>6 DEF CommitAgain, Typed
<1>7. CASE Decommit
  BY <1>7 DEF Decommit, Outstanding, NoSamples, Typed
<1>8. CASE GetBuffer
  BY <1>8 DEF GetBuffer, Typed
<1>9. CASE ReleaseBuffer
  BY <1>9 DEF ReleaseBuffer, Outstanding, NoSamples, Typed
<1>10. CASE FastRender
  <2>1. PICK s \in held : samples' = [samples EXCEPT ![s] = UpToDate(samples[s])]
    BY <1>10 DEF FastRender
  <2>2. UpToDate(samples[s]) \in Sample
    BY <2>1 DEF UpToDate, UpdateColourTable, Sample, Typed, Formats
  <2>. QED
    BY <1>10, <2>1, <2>2 DEF FastRender, Typed
<1>11. CASE UNCHANGED vars
  BY <1>11 DEF vars, Typed
<1>. QED
  BY <1>1, <1>2, <1>3, <1>4, <1>5, <1>6, <1>7, <1>8, <1>9, <1>10, <1>11, FailingIs

\* At the start there are no samples.
LEMMA InitUse == Init => UseInv
<1>. SUFFICES ASSUME Init PROVE UseInv
  OBVIOUS
<1>. USE DEF Init, NoSamples
<1>1. {negotiated, committed, decommitting} \subseteq BOOLEAN
  BY Zenon
<1>2. version \in Int
  BY DEF PALETTE_VERSION
<1>3. agreed \in [size : Sizes \cup {0}, count : 0 .. MaxSamples]
  BY SamplesAssumption
<1>. QED
  BY <1>1, <1>2, <1>3 DEF UseInv, Typed, InUseExists, Phases

\* A sample that is held exists until it is given back, and none is lost:
\* Free waits for the last of them, also after a Commit that failed.
THEOREM SamplesAreSafe == Spec => []InUseExists
<1>1. UseInv => InUseExists
  BY DEF UseInv
<1>2. UseInv /\ [Next]_vars => UseInv'
  BY UseStep, FailingIs
<1>. QED
  BY <1>1, <1>2, InitUse, PTL DEF Spec

----------------------------------------------------------------------------
(* Bitmaps never run out *)

\* An allocator in use has the samples that were agreed, of the size of the
\* format, and one that is not in use has none.
Allocated ==
  /\ negotiated \/ committed \/ decommitting => agreed.size = format.size
  /\ committed \/ decommitting => DOMAIN samples = 1 .. agreed.count
  /\ ~committed /\ ~decommitting => DOMAIN samples = {}
  /\ \A s \in DOMAIN samples : samples[s].size = agreed.size

\* Every step keeps that, if the system has bitmaps enough.
LEMMA AllocatedStep ==
  ASSUME Fails = FALSE, UseInv, Allocated, [Next]_vars
  PROVE  Allocated'
<1>. USE DEF Allocated
<1>1. CASE NewPalette
  <2>1. format'.size = format.size
    BY <1>1 DEF NewPalette, PreparePalette
  <2>. QED
    BY <1>1, <2>1 DEF NewPalette
<1>2. CASE Reconnect
  BY <1>2 DEF Reconnect
<1>3. CASE SetProperties
  <2>1. PICK count \in 1 .. MaxSamples : agreed' = [size |-> format.size, count |-> count]
    BY <1>3 DEF SetProperties, AgreedSize
  <2>2. ~committed /\ ~decommitting
    BY <1>3 DEF SetProperties, UseInv, Phases
  <2>. QED
    BY <1>3, <2>1, <2>2 DEF SetProperties
<1>4. CASE Commit
  <2>1. samples' = [s \in 1 .. agreed.count |-> NewSample]
    BY <1>4 DEF Commit, Alloc
  <2>. QED
    BY <1>4, <2>1 DEF Commit, NewSample
<1>5. CASE CommitFails
  BY <1>5 DEF CommitFails
<1>6. CASE CommitAgain
  BY <1>6 DEF CommitAgain
<1>7. CASE Decommit
  BY <1>7 DEF Decommit, NoSamples
<1>8. CASE GetBuffer
  BY <1>8 DEF GetBuffer
<1>9. CASE ReleaseBuffer
  BY <1>9 DEF ReleaseBuffer, NoSamples, UseInv, Phases
<1>10. CASE FastRender
  <2>1. PICK s \in held : samples' = [samples EXCEPT ![s] = UpToDate(samples[s])]
    BY <1>10 DEF FastRender
  <2>2. s \in DOMAIN samples /\ samples[s] \in Sample
    BY <2>1 DEF UseInv, InUseExists, Typed
  <2>3. UpToDate(samples[s]).size = samples[s].size
    BY <2>2 DEF UpToDate, UpdateColourTable, Sample
  <2>. QED
    BY <1>10, <2>1, <2>2, <2>3 DEF FastRender
<1>11. CASE UNCHANGED vars
  BY <1>11 DEF vars
<1>. QED
  BY <1>1, <1>2, <1>3, <1>4, <1>5, <1>6, <1>7, <1>8, <1>9, <1>10, <1>11 DEF Next

\* While the allocator is committed its samples are as many and as large as
\* agreed, whatever formats come and go, and Alloc begins with nothing.
THEOREM SamplesMatchFormat ==
  ASSUME Fails = FALSE
  PROVE  Spec => [](SamplesAsAgreed) /\ AllocBeginsWithNothing
<1>1. Init => Allocated
  BY DEF Init, Allocated, NoSamples
<1>2. Allocated => SamplesAsAgreed
  BY DEF Allocated, SamplesAsAgreed
<1>3. UseInv /\ Allocated /\ [Next]_vars => [Commit => samples = NoSamples]_vars
  BY DEF UseInv, Typed, Allocated, Commit, NoSamples
<1>4. UseInv /\ [Next]_vars => UseInv'
  BY UseStep, FailingIs
<1>. QED
  BY <1>1, <1>2, <1>3, <1>4, InitUse, AllocatedStep, PTL DEF Spec, AllocBeginsWithNothing

----------------------------------------------------------------------------
(* Formats that count their colours *)

\* A sample whose version is the present one is in the present colours, and
\* one that has just been made never is: the first palette has version 2.
Coloured ==
  /\ version >= PALETTE_VERSION
  /\ ContainsPalette(format) => version > PALETTE_VERSION
  /\ \A s \in DOMAIN samples :
       /\ samples[s].version <= version
       /\ ContainsPalette(format) /\ samples[s].version = version => samples[s].colours = format.colours
  /\ DrawnInItsColours

\* A format says how many colours it uses.
LEMMA CountsColours ==
  ASSUME Used \subseteq Nat \ {0}, NEW f \in Formats
  PROVE  f.used \in Nat /\ f.used > 0
<1>1. f.used \in Nat \ {0}
  BY DEF Formats
<1>2. \A n \in Nat \ {0} : n > 0
  OBVIOUS
<1>. QED
  BY <1>1, <1>2

\* Every step keeps that, with or without bitmaps enough.
LEMMA ColouredStep ==
  ASSUME Used \subseteq Nat \ {0}, UseInv, Coloured, [Failing!Next]_vars
  PROVE  Coloured'
<1>. USE DEF Coloured, ContainsPalette, DrawnInItsColours, PALETTE_VERSION, UseInv
<1>0. /\ format.used \in Nat /\ format.used > 0
      /\ \A s \in DOMAIN samples : samples[s] \in Sample
  BY DEF Typed, Formats
<1>1. ASSUME NEW new \in Formats, PreparePalette(new), UNCHANGED samples PROVE Coloured'
  <2>0. format' = new /\ drawn' = NotDrawn
    BY <1>1 DEF PreparePalette
  <2>1. format' = new /\ drawn' = NotDrawn /\ new.used \in Nat /\ new.used > 0
    BY <2>0, CountsColours
  <2>2. CASE ShouldUpdate(new, format) /\ ContainsPalette(new)
    BY <1>0, <1>1, <2>1, <2>2 DEF PreparePalette, Sample, Typed
  <2>3. CASE ~ContainsPalette(new)
    BY <1>1, <2>1, <2>3 DEF PreparePalette, Typed
  <2>4. CASE ~ShouldUpdate(new, format) /\ ContainsPalette(new)
    BY <1>1, <2>1, <2>4 DEF PreparePalette, ShouldUpdate, Typed
  <2>. QED
    BY <2>2, <2>3, <2>4
<1>2. CASE NewPalette \/ Reconnect
  BY <1>1, <1>2 DEF NewPalette, Reconnect
<1>3. CASE SetProperties \/ CommitAgain \/ GetBuffer \/ UNCHANGED vars
  BY <1>3 DEF SetProperties, CommitAgain, GetBuffer, vars
<1>4. ASSUME NEW n, Alloc(n), UNCHANGED <<format, version, drawn>> PROVE Coloured'
  BY <1>4 DEF Alloc, NewSample
<1>5. CASE Commit \/ Failing!CommitFails
  BY <1>4, <1>5, FailingAllocates DEF Commit
<1>6. CASE Decommit
  BY <1>6 DEF Decommit, NoSamples
<1>7. CASE ReleaseBuffer
  BY <1>7 DEF ReleaseBuffer, NoSamples
<1>8. CASE FastRender
  <2>1. PICK s \in held : /\ samples' = [samples EXCEPT ![s] = UpToDate(samples[s])]
                          /\ drawn' = [sample |-> s, colours |-> samples'[s].colours]
    BY <1>8 DEF FastRender
  <2>2. s \in DOMAIN samples
    BY <2>1 DEF InUseExists
  <2>3. /\ UpToDate(samples[s]).version = version
        /\ ContainsPalette(format) => UpToDate(samples[s]).colours = format.colours
    BY <1>0, <2>2 DEF UpToDate, UpdateColourTable, Sample, Typed
  <2>. QED
    BY <1>8, <2>1, <2>2, <2>3 DEF FastRender, Typed
<1>. QED
  BY <1>2, <1>3, <1>5, <1>6, <1>7, <1>8, FailingIs

\* A palettised picture is drawn in the colours of its format, however often
\* palettes and connections change, if formats say how many colours they use.
THEOREM DrawnRight ==
  ASSUME Used \subseteq Nat \ {0}
  PROVE  Spec => []DrawnInItsColours
<1>1. Init => Coloured
  BY DEF Init, Coloured, NoSamples, ContainsPalette, PALETTE_VERSION, DrawnInItsColours
<1>2. Coloured => DrawnInItsColours
  BY DEF Coloured
<1>3. UseInv /\ [Next]_vars => UseInv'
  BY UseStep, FailingIs
<1>4. UseInv /\ Coloured /\ [Next]_vars => Coloured'
  BY ColouredStep, FailingIs
<1>. QED
  BY <1>1, <1>2, <1>3, <1>4, InitUse, PTL DEF Spec

----------------------------------------------------------------------------
(* Beside the other components *)

\* The samples and versions are within their bounds, and what was drawn is there.
Bounded ==
  /\ version \in 1 .. MaxVersion + 1
  /\ DOMAIN samples \subseteq 1 .. MaxSamples
  /\ drawn # NotDrawn => drawn.sample \in DOMAIN samples

LEMMA BoundedTypes == UseInv /\ Bounded => TypeOK
BY DEF UseInv, Typed, InUseExists, Bounded, TypeOK

\* Every step keeps the bounds.
LEMMA BoundedStep ==
  ASSUME UseInv, Bounded, [Failing!Next]_vars
  PROVE  Bounded'
<1>. USE DEF Bounded
<1>0. agreed.count \in 0 .. MaxSamples
  BY DEF UseInv, Typed
<1>1. ASSUME NEW new \in Formats, PreparePalette(new), UNCHANGED samples, version < MaxVersion PROVE Bounded'
  <2>1. version' \in {version, version + 1} /\ drawn' = NotDrawn
    BY <1>1 DEF PreparePalette
  <2>. QED
    BY <1>1, <2>1, SamplesAssumption
<1>2. CASE NewPalette \/ Reconnect
  BY <1>1, <1>2 DEF NewPalette, Reconnect
<1>3. CASE SetProperties \/ CommitAgain \/ GetBuffer \/ UNCHANGED vars
  BY <1>3 DEF SetProperties, CommitAgain, GetBuffer, vars
<1>4. ASSUME NEW n \in 0 .. MaxSamples, Alloc(n), UNCHANGED <<version, drawn>> PROVE Bounded'
  <2>1. DOMAIN samples' = DOMAIN samples \cup {s \in 1 .. n : s \notin DOMAIN samples}
    BY <1>4 DEF Alloc
  <2>. QED
    BY <1>4, <2>1, SamplesAssumption
<1>5. CASE Commit
  BY <1>0, <1>4, <1>5 DEF Commit
<1>6. CASE Failing!CommitFails
  <2>1. PICK n \in 0 .. agreed.count - 1 : Alloc(n)
    BY <1>6, FailingAllocates
  <2>2. n \in 0 .. MaxSamples
    BY <1>0, <2>1, SamplesAssumption
  <2>. QED
    BY <1>4, <1>6, <2>1, <2>2, FailingAllocates
<1>7. CASE Decommit
  BY <1>7 DEF Decommit, NoSamples
<1>8. CASE ReleaseBuffer
  BY <1>8 DEF ReleaseBuffer, NoSamples
<1>9. CASE FastRender
  BY <1>9 DEF FastRender, UseInv, InUseExists
<1>. QED
  BY <1>2, <1>3, <1>5, <1>6, <1>7, <1>8, <1>9, FailingIs

renderingVars == <<part, vars, qualityVars, decoderVars, imageVars, controlVars, seekVars>>

\* A step of the whole is one of a failing allocator or leaves it alone, and one
\* of an allocator that does not fail if the execution is not about a failing one.
LEMMA SamplesStepIs ==
  ASSUME [RenderingNext]_renderingVars
  PROVE  part' = part /\ [Failing!Next]_vars /\ (part # "FailingAllocator" => [Next]_vars)
<1>1. [Next]_vars => [Failing!Next]_vars
  BY FailingIs
<1>. QED
  BY <1>1 DEF RenderingNext, renderingVars

\* What holds of the allocator beside the others.
SamplesInv == UseInv /\ Bounded /\ (part # "FailingAllocator" => Allocated)

\* Samples that are held exist, also where bitmaps run out; where they do not, a
\* committed allocator has the samples that were agreed.
THEOREM SamplesAlwaysExist ==
  ASSUME Fails = FALSE
  PROVE  RenderingSpec => []SamplesExist
<1>1. RenderingInit => SamplesInv
  <2>1. Init => Allocated
    BY DEF Init, Allocated, NoSamples
  <2>2. Init => Bounded
    BY SamplesAssumption DEF Init, Bounded, NoSamples, PALETTE_VERSION
  <2>. QED
    BY <2>1, <2>2, InitUse DEF RenderingInit, SamplesInv
<1>2. SamplesInv /\ [RenderingNext]_renderingVars => SamplesInv'
  BY SamplesStepIs, UseStep, BoundedStep, AllocatedStep DEF SamplesInv
<1>3. SamplesInv => SamplesExist
  <2>1. Allocated => SamplesAsAgreed
    BY DEF Allocated, SamplesAsAgreed
  <2>2. UseInv => InUseExists
    BY DEF UseInv
  <2>. QED
    BY <2>1, <2>2, BoundedTypes DEF SamplesInv, SamplesExist
<1>. QED
  BY <1>1, <1>2, <1>3, PTL DEF RenderingSpec, renderingVars

\* Pictures are drawn in their colours beside the other components too, if formats
\* say how many colours they use.
THEOREM ColoursAreRight ==
  ASSUME Used \subseteq Nat \ {0}
  PROVE  RenderingSpec => []DrawnInItsColours
<1>1. RenderingInit => UseInv /\ Coloured
  BY InitUse DEF RenderingInit, Init, Coloured, NoSamples, ContainsPalette, PALETTE_VERSION, DrawnInItsColours
<1>2. UseInv /\ Coloured /\ [RenderingNext]_renderingVars => (UseInv /\ Coloured)'
  BY SamplesStepIs, UseStep, ColouredStep
<1>3. Coloured => DrawnInItsColours
  BY DEF Coloured
<1>. QED
  BY <1>1, <1>2, <1>3, PTL DEF RenderingSpec, renderingVars
-----------------------------------------------------------------------------
(* The window of a renderer (ControlWindow) *)

Windowed ==
  [rect : Control!Rects, child : BOOLEAN, visible : BOOLEAN, topmost : BOOLEAN, tool : BOOLEAN, caption : BOOLEAN]

\* The inductive invariant: types, and a window is a child while it has an owner.
ControlInv ==
  /\ w \in Windowed /\ w.child = owner
  /\ {controlConnected, activated, autoShow} \subseteq BOOLEAN

\* A window is put where it is told, counted from its parent.
LEMMA PutPlaces ==
  ASSUME Control!ControlWindowAssumption, NEW v \in Windowed, NEW q \in Control!Rects
  PROVE  /\ Control!Put(v, q) \in Windowed
         /\ Control!Put(v, q).child = v.child /\ Control!Put(v, q).visible = v.visible
         /\ Control!Put(v, q).rect.left = q.left + Control!Base(v)[1]
         /\ Control!Put(v, q).rect.top = q.top + Control!Base(v)[2]
         /\ Control!Put(v, q).rect.width = q.width /\ Control!Put(v, q).rect.height = q.height
<1>1. Control!Base(v)[1] \in Int /\ Control!Base(v)[2] \in Int
  BY DEF Control!ControlWindowAssumption, Control!Base
<1>2. [left |-> q.left + Control!Base(v)[1], top |-> q.top + Control!Base(v)[2], width |-> q.width, height |-> q.height]
        \in Control!Rects
  BY <1>1 DEF Control!Rects
<1>. QED
  BY <1>2 DEF Control!Put, Control!Rect, Windowed

\* Inside says where it is, counted from its parent: putting it there moves nothing.
LEMMA InsideIs ==
  ASSUME Control!ControlWindowAssumption, NEW v \in Windowed
  PROVE  /\ Control!Inside(v) \in Control!Rects
         /\ v.rect.left = Control!Inside(v).left + Control!Base(v)[1]
         /\ v.rect.top = Control!Inside(v).top + Control!Base(v)[2]
         /\ v.rect.width = Control!Inside(v).width /\ v.rect.height = Control!Inside(v).height
<1>1. v.rect \in Control!Rects /\ v.child \in BOOLEAN /\ Origin[1] \in Int /\ Origin[2] \in Int
  BY DEF Windowed, Control!ControlWindowAssumption
<1>2. CASE v.child
  <2>1. Control!Inside(v) =
          [left |-> v.rect.left - Origin[1], top |-> v.rect.top - Origin[2], width |-> v.rect.width, height |-> v.rect.height]
    BY <1>2 DEF Control!Inside, Control!GetParent, Control!Rect
  <2>2. Control!Base(v)[1] = Origin[1] /\ Control!Base(v)[2] = Origin[2]
    BY <1>2 DEF Control!Base
  <2>. QED
    BY <1>1, <2>1, <2>2 DEF Control!Rects
<1>3. CASE ~v.child
  <2>1. Control!Inside(v) = v.rect /\ Control!Base(v)[1] = 0 /\ Control!Base(v)[2] = 0
    BY <1>3 DEF Control!Inside, Control!GetParent, Control!Base
  <2>. QED
    BY <1>1, <2>1 DEF Control!Rects
<1>. QED
  BY <1>1, <1>2, <1>3

LEMMA SameRect ==
  ASSUME NEW a \in Control!Rects, NEW b \in Control!Rects,
         a.left = b.left, a.top = b.top, a.width = b.width, a.height = b.height
  PROVE  a = b
BY DEF Control!Rects

LEMMA PutBack ==
  ASSUME Control!ControlWindowAssumption, NEW v \in Windowed, NEW u \in Windowed, u.child = v.child
  PROVE  Control!Put(u, Control!Inside(v)).rect = v.rect
<1>1. Control!Base(u) = Control!Base(v)
  BY DEF Control!Base
<1>2. PICK q \in Control!Rects : q = Control!Inside(v)
  BY InsideIs
<1>3. PICK p \in Windowed : p = Control!Put(u, q)
  BY PutPlaces
<1>4. p.rect \in Control!Rects /\ v.rect \in Control!Rects
  BY <1>3 DEF Windowed
<1>5. /\ p.rect.left = q.left + Control!Base(v)[1] /\ p.rect.top = q.top + Control!Base(v)[2]
      /\ p.rect.width = q.width /\ p.rect.height = q.height
  BY <1>1, <1>3, PutPlaces
<1>6. /\ v.rect.left = q.left + Control!Base(v)[1] /\ v.rect.top = q.top + Control!Base(v)[2]
      /\ v.rect.width = q.width /\ v.rect.height = q.height
  BY <1>2, InsideIs
<1>7. p.rect = v.rect
  BY <1>4, <1>5, <1>6, SameRect
<1>. QED
  BY <1>2, <1>3, <1>7

\* A change of style keeps the place, the parent and what is to be seen.
LEMMA RestyleKeeps ==
  ASSUME Control!ControlWindowAssumption, NEW old \in Windowed, NEW v \in Windowed
  PROVE  /\ Control!Restyle(old, v) \in Windowed
         /\ Control!Restyle(old, v).child = v.child /\ Control!Restyle(old, v).rect = v.rect
         /\ Control!Restyle(old, v).visible = old.visible
<1>1. CASE old.visible
  BY <1>1 DEF Control!Restyle, Control!Shown, Windowed
<1>2. CASE ~old.visible
  <2>. DEFINE off == [left |-> Offscreen[1], top |-> Offscreen[2], width |-> v.rect.width, height |-> v.rect.height]
              u == [Control!Put(v, off) EXCEPT !.visible = FALSE]
  <2>1. off \in Control!Rects
    BY DEF Windowed, Control!Rects, Control!ControlWindowAssumption
  <2>2. Control!Put(v, off) \in Windowed /\ Control!Put(v, off).child = v.child
    BY <2>1, PutPlaces
  <2>. HIDE DEF off
  <2>3. u \in Windowed /\ u.child = v.child /\ u.visible = FALSE
    BY <2>2, Zenon DEF Windowed
  <2>4. Control!Restyle(old, v) = Control!Put(u, Control!Inside(v))
    BY <1>2 DEF Control!Restyle, Control!Shown, Control!Rect, off
  <2>5. old.visible = FALSE
    BY <1>2 DEF Windowed
  <2>. HIDE DEF u
  <2>6. Control!Inside(v) \in Control!Rects
    BY InsideIs
  <2>7. Control!Put(u, Control!Inside(v)).rect = v.rect
    BY <2>3, PutBack
  <2>8. /\ Control!Put(u, Control!Inside(v)) \in Windowed
        /\ Control!Put(u, Control!Inside(v)).child = u.child /\ Control!Put(u, Control!Inside(v)).visible = u.visible
    BY <2>3, <2>6, PutPlaces
  <2>. QED
    BY <2>3, <2>4, <2>5, <2>7, <2>8
<1>. QED
  BY <1>1, <1>2 DEF Windowed

\* A call that moves one side changes that side alone.
LEMMA SidesMove ==
  ASSUME Control!ControlWindowAssumption, ControlInv, Control!MoveSide
  PROVE  /\ w' \in Windowed /\ w'.child = w.child
         /\ \A f \in Control!Differences(w.rect, w'.rect) : Control!Differences(w.rect, w'.rect) = {f}
<1>1. PICK n \in Places : Control!put_Left(n) \/ Control!put_Top(n) \/ Control!put_Width(n) \/ Control!put_Height(n)
  BY DEF Control!MoveSide
<1>2. PICK q \in Control!Rects : q = Control!Inside(w)
  BY InsideIs DEF ControlInv
<1>3. n \in Int
  BY DEF Control!ControlWindowAssumption
<1>4. PICK f \in {"left", "top", "width", "height"} : w' = Control!Put(w, [q EXCEPT ![f] = n])
  BY <1>1, <1>2 DEF Control!put_Left, Control!put_Top, Control!put_Width, Control!put_Height, Control!Method, Control!Rects
<1>5. PICK p \in Control!Rects : p = [q EXCEPT ![f] = n] /\ \A g \in {"left", "top", "width", "height"} \ {f} : p[g] = q[g]
  BY <1>3 DEF Control!Rects
<1>6. w' \in Windowed /\ w'.child = w.child
  BY <1>4, <1>5, PutPlaces DEF ControlInv
<1>7. /\ w'.rect.left = p.left + Control!Base(w)[1] /\ w'.rect.top = p.top + Control!Base(w)[2]
      /\ w'.rect.width = p.width /\ w'.rect.height = p.height
  BY <1>4, <1>5, PutPlaces DEF ControlInv
<1>8. /\ w.rect.left = q.left + Control!Base(w)[1] /\ w.rect.top = q.top + Control!Base(w)[2]
      /\ w.rect.width = q.width /\ w.rect.height = q.height
  BY <1>2, InsideIs DEF ControlInv
<1>9. \A g \in {"left", "top", "width", "height"} \ {f} : w'.rect[g] = w.rect[g]
  BY <1>5, <1>7, <1>8
<1>. QED
  BY <1>6, <1>9 DEF Control!Differences

\* What a step may do to the window, and who moves it.
WindowMoves(moves) ==
  /\ w' \in Windowed /\ w'.child = owner'
  /\ {controlConnected', activated', autoShow'} \subseteq BOOLEAN
  /\ owner /\ owner' /\ w'.rect # w.rect => moves

LEMMA StylesStay ==
  ASSUME Control!ControlWindowAssumption, ControlInv, Control!put_WindowStyle
  PROVE  w'.rect = w.rect /\ w'.visible = w.visible /\ WindowMoves(FALSE)
<1>1. PICK caption \in BOOLEAN, bit \in BOOLEAN :
        Control!Method(Control!Restyle(w, [w EXCEPT !.caption = caption, !.visible = bit]))
  BY DEF Control!put_WindowStyle
<1>. DEFINE v == [w EXCEPT !.caption = caption, !.visible = bit]
<1>2. v \in Windowed /\ v.child = w.child /\ v.rect = w.rect
  BY Zenon DEF ControlInv, Windowed
<1>3. w' = Control!Restyle(w, v) /\ UNCHANGED <<controlConnected, activated, owner, autoShow>>
  BY <1>1 DEF Control!Method, Control!settings
<1>. HIDE DEF v
<1>4. w' \in Windowed /\ w'.child = w.child /\ w'.rect = w.rect /\ w'.visible = w.visible
  BY <1>2, <1>3, RestyleKeeps DEF ControlInv
<1>. QED
  BY <1>3, <1>4 DEF ControlInv, WindowMoves

LEMMA ExtendedStay ==
  ASSUME Control!ControlWindowAssumption, ControlInv, Control!put_WindowStyleEx
  PROVE  WindowMoves(FALSE)
<1>1. PICK top \in BOOLEAN, tool \in BOOLEAN :
        LET win == IF w.topmost /\ ~top THEN Control!ShowStageTop(w, FALSE)
                   ELSE IF top THEN Control!ShowStageTop(w, TRUE) ELSE w
        IN  Control!Method(IF top /\ ~tool THEN win ELSE Control!Restyle(win, [win EXCEPT !.tool = tool]))
  BY DEF Control!put_WindowStyleEx
<1>. DEFINE win == IF w.topmost /\ ~top THEN Control!ShowStageTop(w, FALSE)
                   ELSE IF top THEN Control!ShowStageTop(w, TRUE) ELSE w
<1>2. \A on \in BOOLEAN : (on \/ w.visible) \in BOOLEAN
  BY Zenon
<1>3. \A on \in BOOLEAN : /\ Control!ShowStageTop(w, on) \in Windowed
                         /\ Control!ShowStageTop(w, on).child = w.child /\ Control!ShowStageTop(w, on).rect = w.rect
  BY <1>2 DEF Control!ShowStageTop, ControlInv, Windowed
<1>4. win \in Windowed /\ win.child = w.child /\ win.rect = w.rect
  BY <1>3 DEF ControlInv
<1>5. w' = IF top /\ ~tool THEN win ELSE Control!Restyle(win, [win EXCEPT !.tool = tool])
  BY <1>1 DEF Control!Method
<1>. HIDE DEF win
<1>. DEFINE v == [win EXCEPT !.tool = tool]
<1>6. v \in Windowed /\ v.child = win.child /\ v.rect = win.rect
  BY <1>4, Zenon DEF Windowed
<1>. HIDE DEF v
<1>7. w' = win \/ w' = Control!Restyle(win, v)
  BY <1>5 DEF v
<1>9. w' \in Windowed /\ w'.child = w.child /\ w'.rect = w.rect
  BY <1>4, <1>6, <1>7, RestyleKeeps
<1>8. UNCHANGED <<controlConnected, activated, owner, autoShow>>
  BY <1>1 DEF Control!Method, Control!settings
<1>. QED
  BY <1>8, <1>9 DEF ControlInv, WindowMoves

\* A new owner takes a window with the place it has in the old one.
LEMMA OwnerStays ==
  ASSUME Control!ControlWindowAssumption, ControlInv, Control!Own
  PROVE  WindowMoves(FALSE)
<1>1. PICK on \in BOOLEAN : Control!put_Owner(on)
  BY DEF Control!Own
<1>. DEFINE v == [w EXCEPT !.child = on]
<1>2. v \in Windowed /\ v.child = on
  BY Zenon DEF ControlInv, Windowed
<1>3. PICK q \in Control!Rects :
        q = Control!Rect(w.rect.left - Control!Base(w)[1], w.rect.top - Control!Base(w)[2], w.rect.width, w.rect.height)
  <2>1. Control!Base(w)[1] \in Int /\ Control!Base(w)[2] \in Int
    BY DEF Control!ControlWindowAssumption, Control!Base
  <2>2. w.rect \in Control!Rects
    BY DEF ControlInv, Windowed
  <2>3. w.rect.left - Control!Base(w)[1] \in Int /\ w.rect.top - Control!Base(w)[2] \in Int
    BY <2>1, <2>2 DEF Control!Rects
  <2>4. w.rect.width \in Int /\ w.rect.height \in Int
    BY <2>2 DEF Control!Rects
  <2>. QED
    BY <2>3, <2>4 DEF Control!Rect, Control!Rects
<1>4. w' = Control!Put(v, q) /\ owner' = on /\ UNCHANGED <<controlConnected, activated, autoShow>>
  BY <1>1, <1>3 DEF Control!put_Owner, Control!SetParent, Control!settings
<1>. HIDE DEF v
<1>5. w' \in Windowed /\ w'.child = on
  BY <1>2, <1>4, PutPlaces
<1>6. ASSUME owner, owner' PROVE w'.rect = w.rect
  <2>1. v.child = w.child /\ w \in Windowed /\ w.child
    BY <1>2, <1>4, <1>6 DEF ControlInv
  <2>2. q = Control!Inside(w)
    BY <1>3, <2>1 DEF Control!Inside, Control!GetParent, Control!Base
  <2>3. Control!Put(v, Control!Inside(w)).rect = w.rect
    BY <1>2, <2>1, PutBack
  <2>. QED
    BY <1>4, <2>2, <2>3
<1>. QED
  BY <1>4, <1>5, <1>6 DEF ControlInv, WindowMoves

LEMMA OthersStay ==
  ASSUME Control!ControlWindowAssumption, ControlInv,
         \/ Control!put_Visible \/ Control!SetWindowForeground \/ Control!put_AutoShow \/ Control!HideCursor
         \/ Control!put_MessageDrain \/ Control!Connect \/ Control!Disconnect \/ Control!ActivateWindow
         \/ Control!InactivateWindow \/ Control!OnClose \/ UNCHANGED Control!vars
  PROVE  WindowMoves(FALSE)
<1>. USE DEF ControlInv, WindowMoves, Control!settings
<1>1. \A on \in BOOLEAN : /\ Control!Shown(w, on) \in Windowed /\ Control!Shown(w, on).child = w.child
                         /\ Control!Shown(w, on).rect = w.rect
  BY DEF Control!Shown, Windowed
<1>2. TRUE \in BOOLEAN /\ FALSE \in BOOLEAN
  BY Zenon
<1>3. CASE Control!put_Visible
  <2>1. PICK on \in BOOLEAN : w' = Control!Shown(w, on) /\ UNCHANGED <<controlConnected, activated, owner, autoShow>>
    BY <1>3 DEF Control!put_Visible, Control!Method
  <2>. QED
    BY <1>1, <2>1
<1>4. CASE Control!SetWindowForeground
  BY <1>1, <1>2, <1>4 DEF Control!SetWindowForeground, Control!Method
<1>5. CASE Control!put_AutoShow
  BY <1>5 DEF Control!put_AutoShow
<1>6. CASE Control!HideCursor \/ Control!put_MessageDrain \/ UNCHANGED Control!vars
  BY <1>6 DEF Control!HideCursor, Control!put_MessageDrain, Control!vars
<1>7. CASE Control!Connect \/ Control!Disconnect
  BY <1>2, <1>7 DEF Control!Connect, Control!Disconnect
<1>8. CASE Control!InactivateWindow \/ Control!OnClose
  BY <1>1, <1>2, <1>8 DEF Control!InactivateWindow, Control!OnClose
<1>9. CASE Control!ActivateWindow
  <2>1. UNCHANGED <<controlConnected, owner, autoShow>> /\ activated' = TRUE
    BY <1>9 DEF Control!ActivateWindow
  <2>2. CASE w' = w
    BY <1>2, <2>1, <2>2
  <2>3. CASE w' # w
    <3>1. ~w.child
      BY <1>9, <2>3 DEF Control!ActivateWindow, Control!Placed, Control!GetParent
    <3>2. PICK q \in Control!Rects :
            q = Control!Rect(w.rect.left - (w.rect.left % 4), w.rect.top - (w.rect.top % 4), DefaultSize[1], DefaultSize[2])
      <4>1. w.rect.left \in Int /\ w.rect.top \in Int /\ DefaultSize[1] \in Int /\ DefaultSize[2] \in Int
        BY DEF Windowed, Control!Rects, Control!ControlWindowAssumption
      <4>2. w.rect.left - (w.rect.left % 4) \in Int /\ w.rect.top - (w.rect.top % 4) \in Int
        BY <4>1
      <4>. QED
        BY <4>1, <4>2 DEF Control!Rect, Control!Rects
    <3>3. w' = Control!Put(w, q)
      BY <1>9, <2>3, <3>2 DEF Control!ActivateWindow
    <3>4. w' \in Windowed /\ w'.child = w.child
      BY <3>2, <3>3, PutPlaces
    <3>. QED
      BY <1>2, <2>1, <3>1, <3>4
  <2>. QED
    BY <2>2, <2>3
<1>. QED
  BY <1>3, <1>4, <1>5, <1>6, <1>7, <1>8, <1>9

\* Every step keeps the types, and only the program moves a window that has an owner.
LEMMA ControlStep ==
  ASSUME Control!ControlWindowAssumption, ControlInv, [Control!Next]_(Control!vars)
  PROVE  WindowMoves(Control!MoveSide \/ Control!MoveAll)
<1>1. CASE Control!MoveSide
  <2>1. UNCHANGED <<controlConnected, activated, owner, autoShow>>
    BY <1>1 DEF Control!MoveSide, Control!put_Left, Control!put_Top, Control!put_Width, Control!put_Height,
       Control!Method, Control!settings
  <2>. QED
    BY <1>1, <2>1, SidesMove DEF ControlInv, WindowMoves
<1>2. CASE Control!MoveAll
  <2>1. PICK l \in Places, n \in Places : Control!SetWindowPosition(Control!Rect(l, l, n, n))
    BY <1>2 DEF Control!MoveAll
  <2>2. Control!Rect(l, l, n, n) \in Control!Rects
    BY DEF Control!Rect, Control!Rects, Control!ControlWindowAssumption
  <2>3. w' = Control!Put(w, Control!Rect(l, l, n, n)) /\ UNCHANGED <<controlConnected, activated, owner, autoShow>>
    BY <2>1 DEF Control!SetWindowPosition, Control!Method, Control!settings
  <2>. QED
    BY <1>2, <2>2, <2>3, PutPlaces DEF ControlInv, WindowMoves
<1>. QED
  BY <1>1, <1>2, StylesStay, ExtendedStay, OwnerStays, OthersStay DEF Control!Next, WindowMoves

-----------------------------------------------------------------------------
(* Quality control (VideoQuality): frames that are in time and late ones in one. *)

Any == INSTANCE VideoQuality
    WITH Leads <- QualityLeads \cup LateLeads, Durations <- QualityDurations \cup LateDurations,
    DrawTimes <- QualityDrawTimes \cup LateDrawTimes, Gaps <- QualityGaps \cup LateGaps,
    MaxFrames <- QualityFrames, m <- qualityM, shown <- qualityShown

Names ==
  {"lastDraw", "renderAvg", "frameAvg", "duration", "renderLast", "waitAvg", "drawn", "dropped", "totAcc",
   "sumSqAcc", "frame", "late", "sumFrameTime", "sumSqFrameTime", "normal", "earliness", "throttle"}
Members == [Names -> Int]

\* The inductive invariant: what is on the screen was drawn after the time the last
\* decision took for that of its drawing, and a frame was dropped last exactly if the
\* counter of frames since then says so.
QualityInv ==
  /\ qualityM \in Members /\ qualityM.dropped >= 0
  /\ now \in Int /\ qualityShown \in Int /\ frame.start \in Int
  /\ frame.at \in {"none", "here", "waiting", "due", "drawing"}
  /\ frame.at = "waiting" => qualityM.lastDraw = frame.start
  /\ frame.at = "due" => qualityM.lastDraw <= now
  /\ frame.at \in {"none", "here", "drawing"} /\ qualityShown >= 0 => qualityM.lastDraw <= qualityShown
  /\ last.dropped => qualityM.normal = -1 /\ frame.at \in {"none", "here"}

LEMMA DivIsInt == ASSUME NEW a \in Int, NEW b \in Nat \ {0} PROVE Any!Div(a, b) \in Int
BY DEF Any!Div

LEMMA AverageIsInt == ASSUME NEW a \in Int, NEW b \in Int PROVE Any!Average(a, b) \in Int
<1>1. b + a * 3 \in Int
  OBVIOUS
<1>. QED
  BY <1>1, DivIsInt DEF Any!Average, Any!AVGPERIOD

LEMMA ClipIsInt == ASSUME NEW a \in Int, NEW b \in Int, NEW c \in Int PROVE Any!Clip(a, b, c) \in Int
BY DEF Any!Clip

LEMMA SinceIsInt == ASSUME now \in Int, NEW t \in Int PROVE Any!Since(t) \in Int
<1>1. now - t \in Int
  OBVIOUS
<1>. QED
  BY <1>1, ClipIsInt DEF Any!Since, Any!UNITS

\* The members by which a frame is judged: only the averages of its rate differ.
LEMMA Observes ==
  ASSUME qualityM \in Members, NEW late \in Int, NEW dur \in Nat, NEW after \in BOOLEAN
  PROVE  LET x == [Any!Observed(dur) EXCEPT !.earliness = Any!Earliness(late, after)] IN
         /\ x \in Members /\ x.lastDraw = qualityM.lastDraw /\ x.dropped = qualityM.dropped
         /\ x.normal = qualityM.normal
<1>1. Any!Earliness(late, after) \in Int
  <2>1. Any!Div(qualityM.earliness, 8) \in Int /\ qualityM.earliness \in Int
    BY DivIsInt DEF Members, Names
  <2>. QED
    BY <2>1 DEF Any!Earliness
<1>2. Any!Observed(dur) = qualityM \/ Any!Observed(dur) = [qualityM EXCEPT !.frameAvg = dur, !.duration = dur]
  BY DEF Any!Observed
<1>. DEFINE o == Any!Observed(dur)
<1>. HIDE DEF o
<1>3. /\ o \in Members /\ o.lastDraw = qualityM.lastDraw
      /\ o.dropped = qualityM.dropped /\ o.normal = qualityM.normal
  <2>1. CASE o = qualityM
    BY <2>1
  <2>2. CASE o = [qualityM EXCEPT !.frameAvg = dur, !.duration = dur]
    <3>0. dur \in Int
      OBVIOUS
    <3>1. o \in Members
      BY <2>2, <3>0 DEF Members, Names
    <3>2. o.lastDraw = qualityM.lastDraw
      BY <2>2 DEF Members, Names
    <3>3. o.dropped = qualityM.dropped
      BY <2>2 DEF Members, Names
    <3>4. o.normal = qualityM.normal
      BY <2>2 DEF Members, Names
    <3>. QED
      BY <3>1, <3>2, <3>3, <3>4
  <2>. QED
    BY <1>2, <2>1, <2>2 DEF o
<1>. QED
  BY <1>1, <1>3 DEF Members, Names, o

\* What a decision does: drop the frame, draw it now or at its time.
Dropped ==
  /\ frame' = Any!NoFrame /\ last'.dropped = TRUE /\ last'.late >= 0
  /\ now - qualityM.lastDraw <= 1000
  /\ qualityM'.lastDraw = qualityM.lastDraw /\ qualityM'.normal = -1
  /\ qualityM'.dropped = qualityM.dropped + 1
Drawn ==
  /\ last'.dropped = FALSE /\ qualityM'.dropped = qualityM.dropped
  /\ frame'.start \in Int /\ frame'.at \in {"waiting", "due"} /\ qualityM'.lastDraw = frame'.start
  /\ frame'.at = "due" => frame'.start = now
  /\ frame'.at = "waiting" /\ qualityM.normal = -1 => last'.late < -900

LEMMA DecisionIs ==
  ASSUME qualityM \in Members, now \in Int, NEW time \in Nat, NEW dur \in Nat,
         NEW handling \in BOOLEAN, NEW gap \in BOOLEAN, Any!Decide(time, dur, handling, gap)
  PROVE  qualityM' \in Members /\ last'.late \in Int /\ (Dropped \/ Drawn)
<1>. DEFINE stamp == Any!Bias(time)
            late == now - stamp
            after == Any!JustDropped(handling, gap)
            x == [Any!Observed(dur) EXCEPT !.earliness = Any!Earliness(late, after)]
            start == Any!Planned(x, stamp, dur)
<1>1. stamp \in Int /\ late \in Int /\ after \in BOOLEAN
  BY DEF Any!Bias, Any!JustDropped
<1>2. /\ x \in Members /\ x.lastDraw = qualityM.lastDraw /\ x.dropped = qualityM.dropped
  BY <1>1, Observes
<1>3. start \in Int
  <2>1. x.earliness \in Int /\ -dur \in Int
    BY <1>2 DEF Members, Names
  <2>2. Any!Clip(x.earliness, -dur, 0) \in Int
    BY <2>1, ClipIsInt
  <2>. QED
    BY <1>1, <2>2 DEF Any!Planned
<1>4. /\ last'.late = late
      /\ Any!DrawIt(x, late, dur, handling) => last'.dropped = FALSE
      /\ ~Any!DrawIt(x, late, dur, handling) => last'.dropped = TRUE
      /\ ~Any!DrawIt(x, late, dur, handling) => qualityM' = Any!Drop(x, late) /\ frame' = Any!NoFrame
      /\ Any!DrawIt(x, late, dur, handling) /\ Any!PlayASAP(x, late, dur, after) =>
           /\ qualityM' = Any!DrawNow(x, late)
           /\ frame' = [at |-> "due", start |-> now, stamp |-> stamp, early |-> late < 0]
      /\ Any!DrawIt(x, late, dur, handling) /\ ~Any!PlayASAP(x, late, dur, after) =>
           /\ qualityM' = Any!DrawLater(x, late, start, stamp, dur)
           /\ frame' = [at |-> IF late < 0 THEN "waiting" ELSE "due",
                        start |-> IF late < 0 THEN start ELSE now,
                        stamp |-> stamp, early |-> FALSE]
  BY DEF Any!Decide
<1>5. qualityM.normal = -1 => after
  BY DEF Any!JustDropped
<1>6. late < 0 => Any!DrawIt(x, late, dur, handling)
  <2>1. late \in Int /\ dur \in Nat /\ late < 0 => late <= dur * 4 /\ late + late < dur
    OBVIOUS
  <2>. QED
    BY <1>1, <2>1 DEF Any!DrawIt
<1>7. ~Any!DrawIt(x, late, dur, handling) => now - x.lastDraw <= 1000
  BY <1>2 DEF Any!DrawIt, Any!UNITS, Members, Names
<1>8. after /\ ~Any!PlayASAP(x, late, dur, after) => late < -900
  BY <1>1 DEF Any!PlayASAP
<1>9. \A t \in Int : Any!Since(t) \in Int
  BY SinceIsInt
<1>. HIDE DEF stamp, late, after, x, start
<1>10. qualityM.lastDraw \in Int /\ qualityM.normal \in Int /\ qualityM.dropped \in Int
  BY DEF Members, Names
<1>14. x.waitAvg \in Int /\ x.frameAvg \in Int /\ x.earliness \in Int /\ x.normal \in Int /\ x.dropped \in Int /\ dur \in Int
  BY <1>2 DEF Members, Names
<1>. DEFINE n == Any!Average(x.waitAvg, IF late < 0 THEN -late ELSE 0)
            z == Any!Since(qualityM.lastDraw)
<1>15. n \in Int
  <2>1. (IF late < 0 THEN -late ELSE 0) \in Int
    BY <1>1
  <2>. QED
    BY <2>1, <1>14, AverageIsInt
<1>16. z \in Int
  BY <1>9, <1>10
<1>. HIDE DEF n, z
<1>11. CASE ~Any!DrawIt(x, late, dur, handling)
  <2>1. Any!Drop(x, late) = [x EXCEPT !.waitAvg = n, !.normal = -1, !.dropped = @ + 1]
    BY DEF Any!Drop, n
  <2>. DEFINE d == x.dropped + 1
              y == [x EXCEPT !.waitAvg = n, !.normal = -1, !.dropped = d]
  <2>5. d \in Int /\ -1 \in Int
    BY <1>14
  <2>6. Any!Drop(x, late) = y
    BY <2>1
  <2>. HIDE DEF d
  <2>7. y \in Members
    BY <1>2, <1>15, <2>5 DEF Members, Names
  <2>8. y.lastDraw = x.lastDraw
    BY <1>2 DEF Members, Names
  <2>9. y.normal = -1
    BY <1>2 DEF Members, Names
  <2>10. y.dropped = x.dropped + 1
    BY <1>2 DEF Members, Names, d
  <2>2. /\ Any!Drop(x, late) \in Members /\ Any!Drop(x, late).lastDraw = x.lastDraw
        /\ Any!Drop(x, late).normal = -1 /\ Any!Drop(x, late).dropped = x.dropped + 1
    BY <2>6, <2>7, <2>8, <2>9, <2>10
  <2>3. frame' = Any!NoFrame /\ qualityM' = Any!Drop(x, late) /\ last'.dropped = TRUE
    BY <1>4, <1>11
  <2>4. late >= 0 /\ now - x.lastDraw <= 1000
    BY <1>1, <1>6, <1>7, <1>11
  <2>. QED
    BY <1>1, <1>2, <1>4, <2>2, <2>3, <2>4 DEF Dropped
<1>12. CASE Any!DrawIt(x, late, dur, handling) /\ Any!PlayASAP(x, late, dur, after)
  <2>1. Any!Div(x.waitAvg * (Any!AVGPERIOD - 1), Any!AVGPERIOD) \in Int
    BY <1>14, DivIsInt DEF Any!AVGPERIOD
  <2>. DEFINE k == Any!Average(x.frameAvg, z)
              j == Any!Div(x.waitAvg * (Any!AVGPERIOD - 1), Any!AVGPERIOD)
              e == IF x.earliness > late THEN late ELSE x.earliness
  <2>2. k \in Int
    BY <1>14, <1>16, AverageIsInt
  <2>4. j \in Int
    BY <2>1
  <2>5. e \in Int
    BY <1>1, <1>14
  <2>6. Any!DrawNow(x, late) =
          [x EXCEPT !.normal = 0, !.waitAvg = j, !.frameAvg = k, !.late = late, !.frame = z,
                    !.lastDraw = now, !.earliness = e]
    BY DEF Any!DrawNow, z
  <2>. HIDE DEF k, j, e
  <2>. DEFINE y == [x EXCEPT !.normal = 0, !.waitAvg = j, !.frameAvg = k, !.late = late, !.frame = z,
                             !.lastDraw = now, !.earliness = e]
  <2>9. y \in Members
    <3>. DEFINE u == [x EXCEPT !.normal = 0, !.waitAvg = j, !.frameAvg = k]
    <3>0. 0 \in Int
      OBVIOUS
    <3>1. u \in Members
      BY <1>2, <2>2, <2>4, <3>0 DEF Members, Names
    <3>2. y = [u EXCEPT !.late = late, !.frame = z, !.lastDraw = now, !.earliness = e]
      OBVIOUS
    <3>. HIDE DEF u
    <3>3. [u EXCEPT !.late = late, !.frame = z, !.lastDraw = now, !.earliness = e] \in Members
      BY <1>1, <1>16, <2>5, <3>1 DEF Members, Names
    <3>. QED
      BY <3>2, <3>3
  <2>10. y.lastDraw = now
    BY <1>2 DEF Members, Names
  <2>11. y.dropped = x.dropped
    BY <1>2 DEF Members, Names
  <2>3. Any!DrawNow(x, late) \in Members /\ Any!DrawNow(x, late).lastDraw = now /\ Any!DrawNow(x, late).dropped = x.dropped
    BY <2>6, <2>9, <2>10, <2>11
  <2>7. frame' = [at |-> "due", start |-> now, stamp |-> stamp, early |-> late < 0] /\ last'.dropped = FALSE
        /\ qualityM' = Any!DrawNow(x, late)
    BY <1>4, <1>12
  <2>8. frame'.at = "due" /\ frame'.start = now
    BY <2>7
  <2>. QED
    BY <1>1, <1>2, <1>4, <2>3, <2>7, <2>8 DEF Drawn
<1>13. CASE Any!DrawIt(x, late, dur, handling) /\ ~Any!PlayASAP(x, late, dur, after)
  <2>. DEFINE j == IF late < 0 THEN start ELSE now
              k == IF late < 0 THEN start - qualityM.lastDraw ELSE z
              e == IF late < 0 THEN start - stamp ELSE late
              i == x.normal + 1
  <2>1. j \in Int
    BY <1>3
  <2>3. k \in Int
    BY <1>3, <1>10, <1>16
  <2>4. e \in Int
    BY <1>1, <1>3
  <2>5. Any!DrawLater(x, late, start, stamp, dur) =
          [x EXCEPT !.normal = i, !.frameAvg = dur, !.waitAvg = n, !.lastDraw = j, !.frame = k, !.late = e]
    BY DEF Any!DrawLater, n, z
  <2>6. i \in Int
    BY <1>14
  <2>. HIDE DEF i, j, k, e
  <2>. DEFINE y == [x EXCEPT !.normal = i, !.frameAvg = dur, !.waitAvg = n, !.lastDraw = j, !.frame = k, !.late = e]
  <2>10. y \in Members
    BY <1>2, <1>14, <1>15, <2>1, <2>3, <2>4, <2>6 DEF Members, Names
  <2>11. y.lastDraw = j
    BY <1>2 DEF Members, Names
  <2>12. y.dropped = x.dropped
    BY <1>2 DEF Members, Names
  <2>2. /\ Any!DrawLater(x, late, start, stamp, dur) \in Members
        /\ Any!DrawLater(x, late, start, stamp, dur).lastDraw = j
        /\ Any!DrawLater(x, late, start, stamp, dur).dropped = x.dropped
    BY <2>5, <2>10, <2>11, <2>12
  <2>7. /\ frame' = [at |-> IF late < 0 THEN "waiting" ELSE "due", start |-> j, stamp |-> stamp, early |-> FALSE]
        /\ last'.dropped = FALSE /\ qualityM' = Any!DrawLater(x, late, start, stamp, dur)
    BY <1>4, <1>13 DEF j
  <2>8. frame'.start = j /\ frame'.at \in {"waiting", "due"} /\ (frame'.at = "due" => j = now)
    BY <2>1, <2>7 DEF j
  <2>9. qualityM.normal = -1 => late < -900
    BY <1>5, <1>8, <1>13
  <2>. QED
    BY <1>1, <1>2, <1>4, <2>1, <2>2, <2>7, <2>8, <2>9 DEF Drawn
<1>. QED
  BY <1>11, <1>12, <1>13

\* The statistics leave the times of the decisions alone.
LEMMA RecordKeeps ==
  ASSUME NEW x \in Members
  PROVE  /\ Any!RecordFrameLateness(x) \in Members
         /\ Any!RecordFrameLateness(x).lastDraw = x.lastDraw
         /\ Any!RecordFrameLateness(x).dropped = x.dropped
         /\ Any!RecordFrameLateness(x).normal = x.normal
<1>. DEFINE late == IF x.late \in -1000 .. 1000 THEN x.late
                    ELSE IF x.drawn <= 1 THEN 0 ELSE Any!Clip(x.late, -1000, 1000)
            interval == IF x.frame > 1000 \/ x.frame < 0 THEN 1000 ELSE x.frame
            acc == IF x.drawn > 1 THEN 1 ELSE 0
            int == IF x.drawn > 2 THEN 1 ELSE 0
            a == x.totAcc + acc * late
            b == x.sumSqAcc + acc * late * late
            c == x.sumFrameTime + int * interval
            d == x.sumSqFrameTime + int * interval * interval
            e == x.drawn + 1
            y == [x EXCEPT !.totAcc = a, !.sumSqAcc = b, !.sumFrameTime = c, !.sumSqFrameTime = d, !.drawn = e]
<1>1. /\ x.late \in Int /\ x.drawn \in Int /\ x.frame \in Int /\ x.totAcc \in Int /\ x.sumSqAcc \in Int
      /\ x.sumFrameTime \in Int /\ x.sumSqFrameTime \in Int
  BY DEF Members, Names
<1>2. late \in Int
  <2>0. -1000 \in Int /\ 1000 \in Int
    OBVIOUS
  <2>1. Any!Clip(x.late, -1000, 1000) \in Int
    BY <1>1, <2>0 DEF Any!Clip
  <2>. QED
    BY <1>1, <2>1
<1>3. interval \in Int /\ acc \in Int /\ int \in Int /\ e \in Int
  BY <1>1
<1>4. Any!RecordFrameLateness(x) = y
  BY DEF Any!RecordFrameLateness
<1>. HIDE DEF late, interval, acc, int
<1>5. acc * late \in Int /\ int * interval \in Int
  BY <1>2, <1>3
<1>6. acc * late * late \in Int /\ int * interval * interval \in Int
  BY <1>2, <1>3, <1>5
<1>7. a \in Int /\ b \in Int /\ c \in Int /\ d \in Int
  BY <1>1, <1>5, <1>6
<1>. HIDE DEF a, b, c, d, e
<1>8. y \in Members
  BY <1>3, <1>7 DEF Members, Names
<1>9. y.lastDraw = x.lastDraw
  BY DEF Members, Names
<1>10. y.dropped = x.dropped
  BY DEF Members, Names
<1>11. y.normal = x.normal
  BY DEF Members, Names
<1>. QED
  BY <1>4, <1>8, <1>9, <1>10, <1>11

LEMMA ResetIs ==
  /\ Any!ResetStreamingTimes \in Members /\ Any!ResetStreamingTimes.lastDraw = 0
  /\ Any!ResetStreamingTimes.dropped = 0
<1>1. 0 \in Int /\ -1 \in Int
  OBVIOUS
<1>2. DOMAIN Any!ResetStreamingTimes = Names
  BY DEF Any!ResetStreamingTimes, Names
<1>3. \A n \in Names : Any!ResetStreamingTimes[n] \in Int
  BY <1>1 DEF Any!ResetStreamingTimes, Names
<1>4. Any!ResetStreamingTimes = [n \in Names |-> Any!ResetStreamingTimes[n]]
  BY <1>2 DEF Any!ResetStreamingTimes
<1>5. Any!ResetStreamingTimes \in Members
  BY <1>3, <1>4 DEF Members
<1>. QED
  BY <1>5 DEF Any!ResetStreamingTimes

\* A frame of either stream that arrives is judged; nothing else drops one or plans it.
LEMMA FrameIs ==
  ASSUME Any!VideoQualityAssumption, QualityInv, Any!Frame
  PROVE  /\ frame.at = "here" /\ UNCHANGED <<now, qualityShown>>
         /\ qualityM' \in Members /\ last'.late \in Int /\ (Dropped \/ Drawn)
<1>1. PICK lead \in QualityLeads \cup LateLeads, dur \in QualityDurations \cup LateDurations,
           handling \in BOOLEAN, gap \in BOOLEAN :
        /\ frame.at = "here" /\ now + lead >= 0 /\ Any!Decide(now + lead, dur, handling, gap)
        /\ UNCHANGED <<now, qualityShown>>
  BY DEF Any!Frame
<1>2. lead \in Int /\ dur \in Nat /\ now \in Int
  BY DEF Any!VideoQualityAssumption, QualityInv
<1>3. now + lead \in Nat
  BY <1>1, <1>2
<1>. QED
  BY <1>1, <1>2, <1>3, DecisionIs DEF QualityInv

\* What any step may do to what was drawn and dropped.
QualityMoves ==
  /\ QualityInv'
  /\ qualityM'.dropped > qualityM.dropped =>
       /\ last'.late >= 0
       /\ qualityShown >= 0 => now - qualityShown <= 1000
  /\ last.dropped /\ frame' # frame /\ frame'.at = "waiting" => last'.late < -900

LEMMA FramesMove ==
  ASSUME Any!VideoQualityAssumption, QualityInv, Any!Frame
  PROVE  QualityMoves
<1>0. /\ frame.at = "here" /\ qualityM.lastDraw \in Int /\ qualityM.dropped \in Int /\ now \in Int /\ qualityShown \in Int
      /\ qualityM.dropped >= 0 /\ qualityShown >= 0 => qualityM.lastDraw <= qualityShown
  BY FrameIs DEF QualityInv, Members, Names
<1>1. CASE Dropped
  <2>1. qualityShown >= 0 => now - qualityShown <= 1000
    BY <1>0, <1>1 DEF Dropped, QualityInv
  <2>2. frame'.at = "none" /\ frame'.start = 0
    BY <1>1 DEF Dropped, Any!NoFrame
  <2>3. /\ UNCHANGED <<now, qualityShown>> /\ qualityM' \in Members
        /\ last'.late >= 0 /\ qualityM'.lastDraw = qualityM.lastDraw /\ qualityM'.normal = -1
        /\ qualityM'.dropped = qualityM.dropped + 1
    BY <1>1, FrameIs DEF Dropped
  <2>4. QualityInv'
    BY <1>0, <2>2, <2>3 DEF QualityInv
  <2>. QED
    BY <2>1, <2>2, <2>3, <2>4 DEF QualityMoves
<1>2. CASE Drawn
  <2>1. last.dropped => qualityM.normal = -1
    BY DEF QualityInv
  <2>2. ~(qualityM'.dropped > qualityM.dropped)
    BY <1>0, <1>2 DEF Drawn
  <2>3. /\ UNCHANGED <<now, qualityShown>> /\ qualityM' \in Members
        /\ last'.dropped = FALSE /\ qualityM'.dropped = qualityM.dropped
        /\ frame'.start \in Int /\ frame'.at \in {"waiting", "due"} /\ qualityM'.lastDraw = frame'.start
        /\ frame'.at = "due" => frame'.start = now
    BY <1>2, FrameIs DEF Drawn
  <2>4. QualityInv'
    BY <1>0, <2>3 DEF QualityInv
  <2>5. last.dropped /\ frame' # frame /\ frame'.at = "waiting" => last'.late < -900
    BY <1>2, <2>1 DEF Drawn
  <2>. QED
    BY <2>2, <2>4, <2>5 DEF QualityMoves
<1>. QED
  BY <1>1, <1>2, FrameIs

LEMMA QualityStep ==
  ASSUME Any!VideoQualityAssumption, QualityInv, [Any!Next]_(Any!vars)
  PROVE  QualityMoves
<1>0. /\ qualityM \in Members /\ qualityM.lastDraw \in Int /\ qualityM.dropped \in Int /\ qualityM.dropped >= 0
      /\ now \in Int /\ qualityShown \in Int /\ frame.start \in Int
  BY DEF QualityInv, Members, Names
<1>1. CASE Any!OnStartStreaming
  <2>1. frame.at = "none" /\ frame' = frame /\ qualityShown' = -1 /\ now' = 0
    BY <1>1 DEF Any!OnStartStreaming, Any!NoFrame
  <2>2. last'.dropped = FALSE
    BY <1>1 DEF Any!OnStartStreaming, Any!Quiet
  <2>3. qualityM' \in Members /\ qualityM'.lastDraw = 0 /\ qualityM'.dropped = 0
    BY <1>1, ResetIs DEF Any!OnStartStreaming
  <2>. QED
    BY <1>0, <2>1, <2>2, <2>3 DEF QualityInv, QualityMoves
<1>2. CASE Any!Arrive
  <2>1. PICK gap \in QualityGaps \cup LateGaps : now' = now + gap
    BY <1>2 DEF Any!Arrive
  <2>2. now' \in Int
    BY <1>0, <2>1 DEF Any!VideoQualityAssumption
  <2>3. frame.at = "none" /\ frame'.at = "here" /\ frame'.start = 0
    BY <1>2 DEF Any!Arrive, Any!NoFrame
  <2>. QED
    BY <1>0, <1>2, <2>2, <2>3 DEF QualityInv, QualityMoves, Any!Arrive
<1>3. CASE Any!Frame
  BY <1>3, FramesMove
<1>4. CASE Any!Due
  <2>1. /\ frame.at = "waiting" /\ UNCHANGED <<qualityM, last, qualityShown>>
        /\ now' = IF frame.start > now THEN frame.start ELSE now
    BY <1>4 DEF Any!Due
  <2>2. frame'.at = "due" /\ frame'.start = frame.start
    BY <1>4 DEF Any!Due, QualityInv
  <2>. QED
    BY <1>0, <2>1, <2>2 DEF QualityInv, QualityMoves
<1>5. CASE Any!OnRenderStart
  <2>1. frame.at = "due" /\ qualityM' = Any!RecordFrameLateness(qualityM) /\ qualityShown' = now /\ UNCHANGED <<now, last>>
    BY <1>5 DEF Any!OnRenderStart
  <2>2. frame'.at = "drawing" /\ frame'.start = frame.start
    BY <1>5 DEF Any!OnRenderStart, QualityInv
  <2>3. /\ qualityM' \in Members /\ qualityM'.lastDraw = qualityM.lastDraw /\ qualityM'.dropped = qualityM.dropped
        /\ qualityM'.normal = qualityM.normal
    BY <1>0, <2>1, RecordKeeps
  <2>. QED
    BY <1>0, <2>1, <2>2, <2>3 DEF QualityInv, QualityMoves
<1>6. CASE Any!OnRenderEnd
  <2>1. PICK tr \in QualityDrawTimes \cup LateDrawTimes :
          /\ frame.at = "drawing"
          /\ qualityM' = [qualityM EXCEPT
                  !.renderAvg = IF tr < @ * 2 \/ tr < 2 * qualityM.renderLast THEN Any!Average(@, tr) ELSE @,
                  !.renderLast = tr]
          /\ now' = now + tr + qualityM.throttle /\ frame' = Any!NoFrame /\ UNCHANGED <<last, qualityShown>>
    BY <1>6 DEF Any!OnRenderEnd
  <2>. DEFINE a == IF tr < qualityM.renderAvg * 2 \/ tr < 2 * qualityM.renderLast
                   THEN Any!Average(qualityM.renderAvg, tr) ELSE qualityM.renderAvg
  <2>2. tr \in Int /\ qualityM.throttle \in Int /\ qualityM.renderAvg \in Int
    BY <1>0 DEF Any!VideoQualityAssumption, Members, Names
  <2>3. a \in Int
    BY <2>2, AverageIsInt
  <2>4. qualityM' = [qualityM EXCEPT !.renderAvg = a, !.renderLast = tr]
    BY <2>1
  <2>. HIDE DEF a
  <2>5. qualityM' \in Members
    BY <1>0, <2>2, <2>3, <2>4 DEF Members, Names
  <2>6. qualityM'.lastDraw = qualityM.lastDraw /\ qualityM'.dropped = qualityM.dropped
    BY <1>0, <2>4 DEF Members, Names
  <2>7. now' \in Int /\ frame'.at = "none" /\ frame'.start = 0
    BY <1>0, <2>1, <2>2 DEF Any!NoFrame
  <2>. QED
    BY <1>0, <2>1, <2>5, <2>6, <2>7 DEF QualityInv, QualityMoves
<1>7. CASE Any!OnDirectRender
  <2>. DEFINE y == [qualityM EXCEPT !.renderAvg = 0, !.renderLast = 500]
  <2>1. /\ frame.at = "due" /\ qualityM' = Any!RecordFrameLateness(y) /\ qualityShown' = now
        /\ now' = now + qualityM.throttle /\ frame' = Any!NoFrame /\ UNCHANGED last
    BY <1>7 DEF Any!OnDirectRender
  <2>2. 0 \in Int /\ 500 \in Int
    OBVIOUS
  <2>3. y \in Members
    BY <1>0, <2>2 DEF Members, Names
  <2>4. y.lastDraw = qualityM.lastDraw /\ y.dropped = qualityM.dropped
    BY <1>0 DEF Members, Names
  <2>. HIDE DEF y
  <2>5. qualityM' \in Members /\ qualityM'.lastDraw = qualityM.lastDraw /\ qualityM'.dropped = qualityM.dropped
    BY <2>1, <2>3, <2>4, RecordKeeps
  <2>6. qualityM.throttle \in Int
    BY <1>0 DEF Members, Names
  <2>7. now' \in Int /\ frame'.at = "none" /\ frame'.start = 0
    BY <1>0, <2>1, <2>6 DEF Any!NoFrame
  <2>. QED
    BY <1>0, <2>1, <2>5, <2>7 DEF QualityInv, QualityMoves
<1>8. CASE Any!Notify
  <2>1. PICK proportion \in {500, 1000} : qualityM' = [qualityM EXCEPT !.throttle = Any!Throttle(proportion)]
    BY <1>8 DEF Any!Notify
  <2>2. Any!Throttle(proportion) \in Int
    BY DEF Any!Throttle
  <2>3. qualityM' \in Members
    BY <1>0, <2>1, <2>2 DEF Members, Names
  <2>4. qualityM'.lastDraw = qualityM.lastDraw /\ qualityM'.dropped = qualityM.dropped
    BY <1>0, <2>1 DEF Members, Names
  <2>5. qualityM'.normal = qualityM.normal
    BY <1>0, <2>1 DEF Members, Names
  <2>6. UNCHANGED <<frame, now, last, qualityShown>>
    BY <1>8 DEF Any!Notify
  <2>. QED
    BY <1>0, <2>3, <2>4, <2>5, <2>6 DEF QualityInv, QualityMoves
<1>9. CASE UNCHANGED Any!vars
  BY <1>0, <1>9 DEF Any!vars, QualityInv, QualityMoves
<1>. QED
  BY <1>1, <1>2, <1>3, <1>4, <1>5, <1>6, <1>7, <1>8, <1>9 DEF Any!Next

\* A step of either instance is one of both together.
LEMMA InTimeIsAny == Quality!Next => Any!Next
<1>1. Quality!NoFrame = Any!NoFrame
  BY DEF Quality!NoFrame, Any!NoFrame
<1>2. \A a, b : Quality!Div(a, b) = Any!Div(a, b)
  BY DEF Quality!Div, Any!Div
<1>3. \A a, b : Quality!Average(a, b) = Any!Average(a, b)
  BY <1>2 DEF Quality!Average, Any!Average, Quality!AVGPERIOD, Any!AVGPERIOD
<1>4. \A a, b, c : Quality!Clip(a, b, c) = Any!Clip(a, b, c)
  BY DEF Quality!Clip, Any!Clip
<1>5. Quality!Quiet = Any!Quiet
  BY DEF Quality!Quiet, Any!Quiet
<1>6. Quality!ResetStreamingTimes = Any!ResetStreamingTimes
  BY DEF Quality!ResetStreamingTimes, Any!ResetStreamingTimes
<1>7. \A a : Quality!Proportion(a) = Any!Proportion(a)
  BY <1>4 DEF Quality!Proportion, Any!Proportion
<1>8. \A a : Quality!Bias(a) = Any!Bias(a)
  BY DEF Quality!Bias, Any!Bias
<1>9. \A a, b : Quality!JustDropped(a, b) = Any!JustDropped(a, b)
  BY DEF Quality!JustDropped, Any!JustDropped
<1>10. \A a : Quality!Observed(a) = Any!Observed(a)
  BY <1>2 DEF Quality!Observed, Any!Observed
<1>11. \A a, b : Quality!Earliness(a, b) = Any!Earliness(a, b)
  BY <1>2 DEF Quality!Earliness, Any!Earliness
<1>12. \A a : Quality!Since(a) = Any!Since(a)
  BY <1>4 DEF Quality!Since, Any!Since, Quality!UNITS, Any!UNITS
<1>13. \A a, b, c, d : Quality!DrawIt(a, b, c, d) = Any!DrawIt(a, b, c, d)
  BY DEF Quality!DrawIt, Any!DrawIt, Quality!UNITS, Any!UNITS
<1>14. \A a, b, c, d : Quality!PlayASAP(a, b, c, d) = Any!PlayASAP(a, b, c, d)
  BY <1>2 DEF Quality!PlayASAP, Any!PlayASAP
<1>15. \A a, b : Quality!DrawNow(a, b) = Any!DrawNow(a, b)
  BY <1>2, <1>3, <1>12 DEF Quality!DrawNow, Any!DrawNow, Quality!AVGPERIOD, Any!AVGPERIOD
<1>16. \A a, b, c : Quality!Planned(a, b, c) = Any!Planned(a, b, c)
  BY <1>4 DEF Quality!Planned, Any!Planned
<1>17. \A a, b, c, d, e : Quality!DrawLater(a, b, c, d, e) = Any!DrawLater(a, b, c, d, e)
  <2>. TAKE a, b, c, d, e
  <2>. DEFINE z == IF b < 0 THEN -b ELSE 0
  <2>1. Quality!Average(a.waitAvg, z) = Any!Average(a.waitAvg, z) /\ Quality!Since(qualityM.lastDraw) = Any!Since(qualityM.lastDraw)
    BY <1>3, <1>12
  <2>2. Quality!DrawLater(a, b, c, d, e) =
          [a EXCEPT !.normal = @ + 1, !.frameAvg = e, !.waitAvg = Quality!Average(a.waitAvg, z),
                    !.lastDraw = IF b < 0 THEN c ELSE now,
                    !.frame = IF b < 0 THEN c - qualityM.lastDraw ELSE Quality!Since(qualityM.lastDraw),
                    !.late = IF b < 0 THEN c - d ELSE b]
    BY DEF Quality!DrawLater
  <2>3. Any!DrawLater(a, b, c, d, e) =
          [a EXCEPT !.normal = @ + 1, !.frameAvg = e, !.waitAvg = Any!Average(a.waitAvg, z),
                    !.lastDraw = IF b < 0 THEN c ELSE now,
                    !.frame = IF b < 0 THEN c - qualityM.lastDraw ELSE Any!Since(qualityM.lastDraw),
                    !.late = IF b < 0 THEN c - d ELSE b]
    BY DEF Any!DrawLater
  <2>. QED
    BY <2>1, <2>2, <2>3
<1>18. \A a, b : Quality!Drop(a, b) = Any!Drop(a, b)
  BY <1>3 DEF Quality!Drop, Any!Drop
<1>19. \A a : Quality!RecordFrameLateness(a) = Any!RecordFrameLateness(a)
  <2>. TAKE a
  <2>1. Quality!Clip(a.late, -1000, 1000) = Any!Clip(a.late, -1000, 1000)
    BY <1>4
  <2>. DEFINE interval == IF a.frame > 1000 \/ a.frame < 0 THEN 1000 ELSE a.frame
              acc == IF a.drawn > 1 THEN 1 ELSE 0
              int == IF a.drawn > 2 THEN 1 ELSE 0
              k == IF a.late \in -1000 .. 1000 THEN a.late
                   ELSE IF a.drawn <= 1 THEN 0 ELSE Quality!Clip(a.late, -1000, 1000)
              l == IF a.late \in -1000 .. 1000 THEN a.late
                   ELSE IF a.drawn <= 1 THEN 0 ELSE Any!Clip(a.late, -1000, 1000)
  <2>2. k = l
    BY <2>1
  <2>3. Quality!RecordFrameLateness(a) =
          [a EXCEPT !.totAcc = a.totAcc + acc * k, !.sumSqAcc = a.sumSqAcc + acc * k * k,
                    !.sumFrameTime = a.sumFrameTime + int * interval,
                    !.sumSqFrameTime = a.sumSqFrameTime + int * interval * interval, !.drawn = a.drawn + 1]
    BY DEF Quality!RecordFrameLateness
  <2>4. Any!RecordFrameLateness(a) =
          [a EXCEPT !.totAcc = a.totAcc + acc * l, !.sumSqAcc = a.sumSqAcc + acc * l * l,
                    !.sumFrameTime = a.sumFrameTime + int * interval,
                    !.sumSqFrameTime = a.sumSqFrameTime + int * interval * interval, !.drawn = a.drawn + 1]
    BY DEF Any!RecordFrameLateness
  <2>. HIDE DEF interval, acc, int, k, l
  <2>. QED
    BY <2>2, <2>3, <2>4
<1>20. \A a, b, c, d : Quality!Decide(a, b, c, d) = Any!Decide(a, b, c, d)
  BY <1>1, <1>7, <1>8, <1>9, <1>10, <1>11, <1>13, <1>14, <1>15, <1>16, <1>17, <1>18 DEF Quality!Decide, Any!Decide
<1>21. Quality!OnStartStreaming = Any!OnStartStreaming
  BY <1>1, <1>5, <1>6 DEF Quality!OnStartStreaming, Any!OnStartStreaming
<1>22. Quality!Due = Any!Due
  BY DEF Quality!Due, Any!Due
<1>23. Quality!OnRenderStart = Any!OnRenderStart
  BY <1>19 DEF Quality!OnRenderStart, Any!OnRenderStart
<1>24. Quality!OnDirectRender = Any!OnDirectRender
  BY <1>19, <1>1 DEF Quality!OnDirectRender, Any!OnDirectRender
<1>25. Quality!Notify = Any!Notify
  BY <1>1 DEF Quality!Notify, Any!Notify, Quality!Throttle, Any!Throttle
<1>26. Quality!Arrive => Any!Arrive
  BY <1>1 DEF Quality!Arrive, Any!Arrive
<1>27. Quality!Frame => Any!Frame
  BY <1>20 DEF Quality!Frame, Any!Frame
<1>28. Quality!OnRenderEnd => Any!OnRenderEnd
  BY <1>1, <1>3 DEF Quality!OnRenderEnd, Any!OnRenderEnd
<1>. QED
  BY <1>21, <1>22, <1>23, <1>24, <1>25, <1>26, <1>27, <1>28 DEF Quality!Next, Any!Next

LEMMA LateIsAny == LateQuality!Next => Any!Next
<1>1. LateQuality!NoFrame = Any!NoFrame
  BY DEF LateQuality!NoFrame, Any!NoFrame
<1>2. \A a, b : LateQuality!Div(a, b) = Any!Div(a, b)
  BY DEF LateQuality!Div, Any!Div
<1>3. \A a, b : LateQuality!Average(a, b) = Any!Average(a, b)
  BY <1>2 DEF LateQuality!Average, Any!Average, LateQuality!AVGPERIOD, Any!AVGPERIOD
<1>4. \A a, b, c : LateQuality!Clip(a, b, c) = Any!Clip(a, b, c)
  BY DEF LateQuality!Clip, Any!Clip
<1>5. LateQuality!Quiet = Any!Quiet
  BY DEF LateQuality!Quiet, Any!Quiet
<1>6. LateQuality!ResetStreamingTimes = Any!ResetStreamingTimes
  BY DEF LateQuality!ResetStreamingTimes, Any!ResetStreamingTimes
<1>7. \A a : LateQuality!Proportion(a) = Any!Proportion(a)
  BY <1>4 DEF LateQuality!Proportion, Any!Proportion
<1>8. \A a : LateQuality!Bias(a) = Any!Bias(a)
  BY DEF LateQuality!Bias, Any!Bias
<1>9. \A a, b : LateQuality!JustDropped(a, b) = Any!JustDropped(a, b)
  BY DEF LateQuality!JustDropped, Any!JustDropped
<1>10. \A a : LateQuality!Observed(a) = Any!Observed(a)
  BY <1>2 DEF LateQuality!Observed, Any!Observed
<1>11. \A a, b : LateQuality!Earliness(a, b) = Any!Earliness(a, b)
  BY <1>2 DEF LateQuality!Earliness, Any!Earliness
<1>12. \A a : LateQuality!Since(a) = Any!Since(a)
  BY <1>4 DEF LateQuality!Since, Any!Since, LateQuality!UNITS, Any!UNITS
<1>13. \A a, b, c, d : LateQuality!DrawIt(a, b, c, d) = Any!DrawIt(a, b, c, d)
  BY DEF LateQuality!DrawIt, Any!DrawIt, LateQuality!UNITS, Any!UNITS
<1>14. \A a, b, c, d : LateQuality!PlayASAP(a, b, c, d) = Any!PlayASAP(a, b, c, d)
  BY <1>2 DEF LateQuality!PlayASAP, Any!PlayASAP
<1>15. \A a, b : LateQuality!DrawNow(a, b) = Any!DrawNow(a, b)
  BY <1>2, <1>3, <1>12 DEF LateQuality!DrawNow, Any!DrawNow, LateQuality!AVGPERIOD, Any!AVGPERIOD
<1>16. \A a, b, c : LateQuality!Planned(a, b, c) = Any!Planned(a, b, c)
  BY <1>4 DEF LateQuality!Planned, Any!Planned
<1>17. \A a, b, c, d, e : LateQuality!DrawLater(a, b, c, d, e) = Any!DrawLater(a, b, c, d, e)
  <2>. TAKE a, b, c, d, e
  <2>. DEFINE z == IF b < 0 THEN -b ELSE 0
  <2>1. LateQuality!Average(a.waitAvg, z) = Any!Average(a.waitAvg, z) /\ LateQuality!Since(qualityM.lastDraw) = Any!Since(qualityM.lastDraw)
    BY <1>3, <1>12
  <2>2. LateQuality!DrawLater(a, b, c, d, e) =
          [a EXCEPT !.normal = @ + 1, !.frameAvg = e, !.waitAvg = LateQuality!Average(a.waitAvg, z),
                    !.lastDraw = IF b < 0 THEN c ELSE now,
                    !.frame = IF b < 0 THEN c - qualityM.lastDraw ELSE LateQuality!Since(qualityM.lastDraw),
                    !.late = IF b < 0 THEN c - d ELSE b]
    BY DEF LateQuality!DrawLater
  <2>3. Any!DrawLater(a, b, c, d, e) =
          [a EXCEPT !.normal = @ + 1, !.frameAvg = e, !.waitAvg = Any!Average(a.waitAvg, z),
                    !.lastDraw = IF b < 0 THEN c ELSE now,
                    !.frame = IF b < 0 THEN c - qualityM.lastDraw ELSE Any!Since(qualityM.lastDraw),
                    !.late = IF b < 0 THEN c - d ELSE b]
    BY DEF Any!DrawLater
  <2>. QED
    BY <2>1, <2>2, <2>3
<1>18. \A a, b : LateQuality!Drop(a, b) = Any!Drop(a, b)
  BY <1>3 DEF LateQuality!Drop, Any!Drop
<1>19. \A a : LateQuality!RecordFrameLateness(a) = Any!RecordFrameLateness(a)
  <2>. TAKE a
  <2>1. LateQuality!Clip(a.late, -1000, 1000) = Any!Clip(a.late, -1000, 1000)
    BY <1>4
  <2>. DEFINE interval == IF a.frame > 1000 \/ a.frame < 0 THEN 1000 ELSE a.frame
              acc == IF a.drawn > 1 THEN 1 ELSE 0
              int == IF a.drawn > 2 THEN 1 ELSE 0
              k == IF a.late \in -1000 .. 1000 THEN a.late
                   ELSE IF a.drawn <= 1 THEN 0 ELSE LateQuality!Clip(a.late, -1000, 1000)
              l == IF a.late \in -1000 .. 1000 THEN a.late
                   ELSE IF a.drawn <= 1 THEN 0 ELSE Any!Clip(a.late, -1000, 1000)
  <2>2. k = l
    BY <2>1
  <2>3. LateQuality!RecordFrameLateness(a) =
          [a EXCEPT !.totAcc = a.totAcc + acc * k, !.sumSqAcc = a.sumSqAcc + acc * k * k,
                    !.sumFrameTime = a.sumFrameTime + int * interval,
                    !.sumSqFrameTime = a.sumSqFrameTime + int * interval * interval, !.drawn = a.drawn + 1]
    BY DEF LateQuality!RecordFrameLateness
  <2>4. Any!RecordFrameLateness(a) =
          [a EXCEPT !.totAcc = a.totAcc + acc * l, !.sumSqAcc = a.sumSqAcc + acc * l * l,
                    !.sumFrameTime = a.sumFrameTime + int * interval,
                    !.sumSqFrameTime = a.sumSqFrameTime + int * interval * interval, !.drawn = a.drawn + 1]
    BY DEF Any!RecordFrameLateness
  <2>. HIDE DEF interval, acc, int, k, l
  <2>. QED
    BY <2>2, <2>3, <2>4
<1>20. \A a, b, c, d : LateQuality!Decide(a, b, c, d) = Any!Decide(a, b, c, d)
  BY <1>1, <1>7, <1>8, <1>9, <1>10, <1>11, <1>13, <1>14, <1>15, <1>16, <1>17, <1>18 DEF LateQuality!Decide, Any!Decide
<1>21. LateQuality!OnStartStreaming = Any!OnStartStreaming
  BY <1>1, <1>5, <1>6 DEF LateQuality!OnStartStreaming, Any!OnStartStreaming
<1>22. LateQuality!Due = Any!Due
  BY DEF LateQuality!Due, Any!Due
<1>23. LateQuality!OnRenderStart = Any!OnRenderStart
  BY <1>19 DEF LateQuality!OnRenderStart, Any!OnRenderStart
<1>24. LateQuality!OnDirectRender = Any!OnDirectRender
  BY <1>19, <1>1 DEF LateQuality!OnDirectRender, Any!OnDirectRender
<1>25. LateQuality!Notify = Any!Notify
  BY <1>1 DEF LateQuality!Notify, Any!Notify, LateQuality!Throttle, Any!Throttle
<1>26. LateQuality!Arrive => Any!Arrive
  BY <1>1 DEF LateQuality!Arrive, Any!Arrive
<1>27. LateQuality!Frame => Any!Frame
  BY <1>20 DEF LateQuality!Frame, Any!Frame
<1>28. LateQuality!OnRenderEnd => Any!OnRenderEnd
  BY <1>1, <1>3 DEF LateQuality!OnRenderEnd, Any!OnRenderEnd
<1>. QED
  BY <1>21, <1>22, <1>23, <1>24, <1>25, <1>26, <1>27, <1>28 DEF LateQuality!Next, Any!Next

-----------------------------------------------------------------------------
(* Both, beside the others *)

\* The inductive invariant of the two.
PicturedInv == QualityInv /\ ControlInv

LEMMA AnyConstants ==
  ASSUME RenderingAssumption PROVE Any!VideoQualityAssumption
<1>1. /\ QualityLeads \subseteq Int /\ QualityDurations \subseteq Nat /\ QualityDrawTimes \subseteq Nat
      /\ QualityGaps \subseteq Nat /\ QualityFrames \in Nat
  BY DEF RenderingAssumption, Quality!VideoQualityAssumption
<1>2. /\ LateLeads \subseteq Int /\ LateDurations \subseteq Nat /\ LateDrawTimes \subseteq Nat
      /\ LateGaps \subseteq Nat
  BY DEF RenderingAssumption, LateQuality!VideoQualityAssumption
<1>. QED
  BY <1>1, <1>2 DEF Any!VideoQualityAssumption

LEMMA QualityStarts == RenderingInit => QualityInv
<1>. SUFFICES ASSUME RenderingInit PROVE QualityInv
  OBVIOUS
<1>1. Quality!ResetStreamingTimes = Any!ResetStreamingTimes /\ Quality!NoFrame = Any!NoFrame /\ Quality!Quiet = Any!Quiet
  BY DEF Quality!ResetStreamingTimes, Any!ResetStreamingTimes, Quality!NoFrame, Any!NoFrame, Quality!Quiet, Any!Quiet
<1>2. LateQuality!ResetStreamingTimes = Any!ResetStreamingTimes /\ LateQuality!NoFrame = Any!NoFrame /\ LateQuality!Quiet = Any!Quiet
  BY DEF LateQuality!ResetStreamingTimes, Any!ResetStreamingTimes, LateQuality!NoFrame, Any!NoFrame, LateQuality!Quiet, Any!Quiet
<1>3. Quality!Init \/ LateQuality!Init
  BY DEF RenderingInit
<1>4. /\ qualityM = Any!ResetStreamingTimes /\ frame = Any!NoFrame /\ now = 0 /\ last = Any!Quiet /\ qualityShown = -1
  BY <1>1, <1>2, <1>3 DEF Quality!Init, LateQuality!Init
<1>5. frame.at = "none" /\ frame.start = 0 /\ last.dropped = FALSE
  BY <1>4 DEF Any!NoFrame, Any!Quiet
<1>. QED
  BY <1>4, <1>5, ResetIs DEF QualityInv

LEMMA ControlStarts == ASSUME RenderingAssumption, RenderingInit PROVE ControlInv
<1>1. Control!Init /\ Control!ControlWindowAssumption
  BY DEF RenderingInit, RenderingAssumption
<1>. DEFINE r == Control!Rect(0, 0, DefaultSize[1], DefaultSize[2])
<1>2. r \in Control!Rects
  BY <1>1 DEF Control!Rect, Control!Rects, Control!ControlWindowAssumption
<1>. HIDE DEF r
<1>. QED
  BY <1>1, <1>2, Zenon DEF Control!Init, ControlInv, Windowed, r

LEMMA RenderingMoves ==
  ASSUME RenderingNext
  PROVE  [Any!Next]_(Any!vars) /\ [Control!Next]_(Control!vars)
<1>1. Quality!Next \/ LateQuality!Next \/ UNCHANGED qualityVars
  BY DEF RenderingNext
<1>2. Control!Next \/ UNCHANGED controlVars
  BY DEF RenderingNext
<1>. QED
  BY <1>1, <1>2, InTimeIsAny, LateIsAny DEF qualityVars, controlVars, Any!vars, Control!vars

\* What NothingElseChanges says of one step.
Unmoved ==
  /\ qualityM'.dropped > qualityM.dropped => last'.late >= 0
  /\ (qualityM'.dropped > qualityM.dropped /\ qualityShown >= 0) => now - qualityShown <= Quality!UNITS
  /\ (last.dropped /\ frame' # frame /\ frame'.at = "waiting") => last'.late < -900
  /\ Control!MoveSide =>
       \A f \in Control!Differences(w.rect, w'.rect) : Control!Differences(w.rect, w'.rect) = {f}
  /\ Control!put_WindowStyle => w'.rect = w.rect /\ w'.visible = w.visible
  /\ (owner /\ owner' /\ w'.rect # w.rect) => Control!MoveSide \/ Control!MoveAll


LEMMA RenderingStep ==
  ASSUME RenderingAssumption, PicturedInv, [RenderingNext]_renderingVars
  PROVE  PicturedInv' /\ Unmoved
<1>1. [Any!Next]_(Any!vars) /\ [Control!Next]_(Control!vars)
  <2>1. CASE UNCHANGED renderingVars
    BY <2>1 DEF renderingVars, qualityVars, controlVars, Any!vars, Control!vars
  <2>. QED
    BY <2>1, RenderingMoves
<1>2. Any!VideoQualityAssumption /\ Control!ControlWindowAssumption
  BY AnyConstants DEF RenderingAssumption
<1>3. QualityMoves
  BY <1>1, <1>2, QualityStep DEF PicturedInv
<1>4. WindowMoves(Control!MoveSide \/ Control!MoveAll)
  BY <1>1, <1>2, ControlStep DEF PicturedInv
<1>5. ControlInv'
  BY <1>4 DEF WindowMoves, ControlInv
<1>6. Control!MoveSide =>
        \A f \in Control!Differences(w.rect, w'.rect) : Control!Differences(w.rect, w'.rect) = {f}
  BY <1>2, SidesMove DEF PicturedInv
<1>7. Control!put_WindowStyle => w'.rect = w.rect /\ w'.visible = w.visible
  BY <1>2, StylesStay DEF PicturedInv
<1>8. (owner /\ owner' /\ w'.rect # w.rect) => Control!MoveSide \/ Control!MoveAll
  BY <1>4 DEF WindowMoves
<1>. QED
  BY <1>3, <1>5, <1>6, <1>7, <1>8 DEF QualityMoves, PicturedInv, Unmoved, Quality!UNITS

\* A frame that is not late is never dropped; one is dropped only if the picture on the
\* screen is less than a second old; after it the next one does not wait unless it is far
\* too early.  A side of the window moves alone, a style moves nothing, and only the
\* program moves a window that has an owner.
THEOREM NothingElseMoves == RenderingSpec => NothingElseChanges
<1>1. RenderingInit => PicturedInv
  BY RenderingAssumption, QualityStarts, ControlStarts DEF PicturedInv
<1>2. PicturedInv /\ [RenderingNext]_renderingVars => PicturedInv'
  BY RenderingAssumption, RenderingStep
<1>3. PicturedInv /\ [RenderingNext]_renderingVars => Unmoved
  BY RenderingAssumption, RenderingStep
<1>4. Unmoved =>
        /\ [qualityM'.dropped > qualityM.dropped => last'.late >= 0]_(Quality!vars)
        /\ [(qualityM'.dropped > qualityM.dropped /\ qualityShown >= 0) => now - qualityShown <= Quality!UNITS]_(Quality!vars)
        /\ [(last.dropped /\ frame' # frame /\ frame'.at = "waiting") => last'.late < -900]_(Quality!vars)
        /\ [Control!MoveSide =>
              \A f \in Control!Differences(w.rect, w'.rect) : Control!Differences(w.rect, w'.rect) = {f}]_(Control!vars)
        /\ [Control!put_WindowStyle => w'.rect = w.rect /\ w'.visible = w.visible]_(Control!vars)
        /\ [owner /\ owner' /\ w'.rect # w.rect => Control!MoveSide \/ Control!MoveAll]_(Control!vars)
  BY DEF Unmoved
<1>. QED
  BY <1>1, <1>2, <1>3, <1>4, PTL DEF RenderingSpec, renderingVars, NothingElseChanges,
     Quality!EarlyIsNotDropped, Quality!NotHung, Quality!NextAfterDropIsEarly,
     Control!OneSideMoves, Control!StyleKeepsPlace, Control!OwnedStaysPut

-----------------------------------------------------------------------------
(* Rectangles and pictures (ControlVideo): those near and at the ends of a LONG in one. *)

Picture == INSTANCE ControlVideo
    WITH Videos <- Videos \cup FarVideos, TargetValues <- TargetValues \cup FarTargets,
    source <- imageSource, drawn <- imageDrawn

Formatted == [width : Picture!Lengths, height : Picture!Lengths, bits : Nat, used : Nat]
Rects == [left : Picture!LONGs, top : Picture!LONGs, right : Picture!LONGs, bottom : Picture!LONGs]

\* A rectangle with sizes that are LONGs, none of them negative.
Sized(r) == r \in Rects /\ r.right - r.left \in Picture!Lengths /\ r.bottom - r.top \in Picture!Lengths

\* What a program has asked for is of its type.
Asked(c) ==
  /\ c.op \in {"idle", "source", "target", "source position", "target position", "default source",
               "size", "image", "palette"}
  /\ c.op \in {"source", "target"} => c.arg[1] \in Picture!Sides /\ c.arg[2] \in Picture!LONGs
  /\ c.op \in {"source position", "target position"} => \A i \in 1 .. 4 : c.arg[i] \in Picture!LONGs
  /\ c.op \in {"image", "palette"} => c.arg[1] \in Nat

\* The inductive invariant: both rectangles have their sizes, the source is in the video
\* that is connected, and whether to stretch is what they say.
ImageTypes ==
  /\ video \in Formatted /\ told \in Nat /\ {stretch, shared, paused} \subseteq BOOLEAN
  /\ Asked(call)
ImagePlaces ==
  /\ Sized(imageSource) /\ Sized(target) /\ stretch = Picture!StretchMode(imageSource, target)
  /\ Picture!Connected => Picture!GoodSource(imageSource, video.width, video.height)
ImageShown ==
  /\ imageDrawn = {} \/ imageDrawn = Picture!Pixels(imageSource)
  /\ Picture!CopyIsTheSource /\ Picture!EntriesInPalette
ImageInv == ImageTypes /\ ImagePlaces /\ ImageShown

\* Integers of a LONG stay as they are, others wrap into it; those from one range above
\* it become negative.
LEMMA RestIs == ASSUME NEW a \in Int, NEW d \in Nat \ {0}, 0 <= a, a < d PROVE a % d = a
OBVIOUS

LEMMA RestBound == ASSUME NEW a \in Int, NEW d \in Nat \ {0} PROVE a % d \in 0 .. d - 1
OBVIOUS

LEMMA RestOnce == ASSUME NEW a \in Int, NEW d \in Nat \ {0}, d <= a, a < 2 * d PROVE a % d = a - d
<1>1. (a - d) % d = a - d
  BY RestIs
<1>2. a % d = (a - d) % d
  OBVIOUS
<1>. QED
  BY <1>1, <1>2

LEMMA Wraps ==
  ASSUME IntMax \in Nat \ {0}, NEW n \in Int
  PROVE  /\ Picture!Wrap(n) \in Picture!LONGs
         /\ n \in Picture!LONGs => Picture!Wrap(n) = n
         /\ IntMax <= n /\ n < 2 * IntMax => Picture!Wrap(n) < 0
<1>. DEFINE a == n + IntMax
            d == 2 * IntMax
<1>1. a \in Int /\ d \in Nat \ {0}
  OBVIOUS
<1>2. Picture!Wrap(n) = (a % d) - IntMax
  BY DEF Picture!Wrap
<1>3. a % d \in 0 .. d - 1
  BY <1>1, RestBound
<1>4. 0 <= a /\ a < d => a % d = a
  BY <1>1, RestIs
<1>5. d <= a /\ a < 2 * d => a % d = a - d
  BY <1>1, RestOnce
<1>6. PICK r \in Int : r = a % d
  BY <1>3
<1>. QED
  BY <1>2, <1>3, <1>4, <1>5, <1>6 DEF Picture!LONGs

LEMMA SizesAre ==
  ASSUME IntMax \in Nat \ {0}, NEW r, Sized(r)
  PROVE  /\ Picture!WIDTH(r) = r.right - r.left /\ Picture!HEIGHT(r) = r.bottom - r.top
         /\ Picture!WIDTH(r) \in Nat /\ Picture!HEIGHT(r) \in Nat
         /\ r.left \in Int /\ r.right \in Int /\ r.top \in Int /\ r.bottom \in Int
<1>1. r.left \in Int /\ r.right \in Int /\ r.top \in Int /\ r.bottom \in Int
  BY DEF Sized, Rects, Picture!LONGs
<1>2. r.right - r.left \in Nat /\ r.bottom - r.top \in Nat
      /\ r.right - r.left \in Picture!LONGs /\ r.bottom - r.top \in Picture!LONGs
  BY <1>1 DEF Sized, Picture!LONGs, Picture!Lengths
<1>3. Picture!WIDTH(r) = r.right - r.left
  BY <1>1, <1>2, Wraps DEF Picture!WIDTH
<1>4. Picture!HEIGHT(r) = r.bottom - r.top
  BY <1>1, <1>2, Wraps DEF Picture!HEIGHT
<1>. QED
  BY <1>1, <1>2, <1>3, <1>4

\* What a program asks for is a rectangle of LONGs.
LEMMA MovedIs ==
  ASSUME IntMax \in Nat \ {0}, NEW r \in Rects, NEW side \in Picture!Sides, NEW n \in Picture!LONGs
  PROVE  Picture!Moved(r, side, n) \in Rects
<1>1. /\ n \in Int /\ r.left \in Int /\ r.right \in Int /\ r.top \in Int /\ r.bottom \in Int
  BY DEF Rects, Picture!LONGs
<1>2. Picture!WIDTH(r) \in Picture!LONGs /\ Picture!HEIGHT(r) \in Picture!LONGs
  BY <1>1, Wraps DEF Picture!WIDTH, Picture!HEIGHT
<1>3. Picture!WIDTH(r) \in Int /\ Picture!HEIGHT(r) \in Int
  BY <1>2 DEF Picture!LONGs
<1>. DEFINE a == Picture!Wrap(n + Picture!WIDTH(r))
            b == Picture!Wrap(r.left + n)
            c == Picture!Wrap(n + Picture!HEIGHT(r))
            d == Picture!Wrap(r.top + n)
<1>4. n + Picture!WIDTH(r) \in Int /\ r.left + n \in Int /\ n + Picture!HEIGHT(r) \in Int /\ r.top + n \in Int
  BY <1>1, <1>3
<1>5. a \in Picture!LONGs /\ b \in Picture!LONGs /\ c \in Picture!LONGs /\ d \in Picture!LONGs
  BY <1>4, Wraps
<1>6. /\ side = "left" => Picture!Moved(r, side, n) = [r EXCEPT !.left = n, !.right = a]
      /\ side = "width" => Picture!Moved(r, side, n) = [r EXCEPT !.right = b]
      /\ side = "top" => Picture!Moved(r, side, n) = [r EXCEPT !.top = n, !.bottom = c]
      /\ side = "height" => Picture!Moved(r, side, n) = [r EXCEPT !.bottom = d]
  BY DEF Picture!Moved
<1>. HIDE DEF a, b, c, d
<1>. QED
  BY <1>5, <1>6 DEF Picture!Sides, Rects

LEMMA PlacedIs ==
  ASSUME IntMax \in Nat \ {0}, NEW p, \A i \in 1 .. 4 : p[i] \in Picture!LONGs
  PROVE  Picture!Placed(p) \in Rects
<1>1. /\ p[1] \in Picture!LONGs /\ p[2] \in Picture!LONGs
      /\ p[1] \in Int /\ p[2] \in Int /\ p[3] \in Int /\ p[4] \in Int
  BY DEF Picture!LONGs
<1>2. p[1] + p[3] \in Int /\ p[2] + p[4] \in Int
  BY <1>1
<1>3. Picture!Wrap(p[1] + p[3]) \in Picture!LONGs /\ Picture!Wrap(p[2] + p[4]) \in Picture!LONGs
  BY <1>2, Wraps
<1>. QED
  BY <1>1, <1>3 DEF Picture!Placed, Rects

\* A source or a destination that is accepted has its sizes.
LEMMA GoodSourceIs ==
  ASSUME IntMax \in Nat \ {0}, NEW r \in Rects, NEW a \in Picture!Lengths, NEW b \in Picture!Lengths,
         Picture!GoodSource(r, a, b)
  PROVE  Sized(r)
BY DEF Picture!GoodSource, Sized, Rects, Picture!LONGs, Picture!Lengths

LEMMA GoodTargetIs ==
  ASSUME IntMax \in Nat \ {0}, NEW r \in Rects, Picture!GoodTarget(r)
  PROVE  Sized(r)
<1>1. r.left \in Int /\ r.right \in Int /\ r.top \in Int /\ r.bottom \in Int
  BY DEF Rects, Picture!LONGs
<1>. DEFINE a == r.right - r.left
            b == r.bottom - r.top
<1>2. a \in Nat /\ b \in Nat /\ a < 2 * IntMax /\ b < 2 * IntMax
  BY <1>1 DEF Rects, Picture!LONGs, Picture!GoodTarget
<1>3. Picture!Wrap(a) > 0 /\ Picture!Wrap(b) > 0
  BY DEF Picture!GoodTarget, Picture!WIDTH, Picture!HEIGHT
<1>4. Picture!Wrap(a) \in Int /\ Picture!Wrap(b) \in Int
  BY <1>2, Wraps DEF Picture!LONGs
<1>5. a < IntMax /\ b < IntMax
  BY <1>2, <1>3, <1>4, Wraps
<1>. QED
  BY <1>2, <1>5 DEF Sized, Picture!Lengths

LEMMA WholeIs ==
  ASSUME IntMax \in Nat \ {0}, NEW v \in Formatted
  PROVE  /\ Sized(Picture!Whole(v))
         /\ v.width # 0 /\ v.height # 0 => Picture!GoodSource(Picture!Whole(v), v.width, v.height)
<1>1. v.width \in Picture!Lengths /\ v.height \in Picture!Lengths
  BY DEF Formatted
<1>2. Picture!Whole(v).left = 0 /\ Picture!Whole(v).top = 0 /\ Picture!Whole(v).right = v.width
      /\ Picture!Whole(v).bottom = v.height
  BY DEF Picture!Whole
<1>3. Picture!Whole(v) \in Rects
  BY <1>1 DEF Picture!Whole, Rects, Picture!Lengths, Picture!LONGs
<1>. QED
  BY <1>1, <1>2, <1>3 DEF Sized, Picture!GoodSource, Picture!Lengths

\* What is drawn is the source, counted from the top or from the bottom.
LEMMA RenderedIs ==
  ASSUME IntMax \in Nat \ {0}, NEW v \in Formatted, NEW s, NEW t, Sized(s), Sized(t), NEW fast \in BOOLEAN
  PROVE  Picture!Rendered(v, s, t, fast, Picture!StretchMode(s, t)) = Picture!Pixels(s)
<1>. DEFINE a == s.right - s.left
            b == s.bottom - s.top
<1>1. /\ Picture!WIDTH(s) = a /\ Picture!HEIGHT(s) = b /\ a \in Nat /\ b \in Nat
      /\ s.left \in Int /\ s.right \in Int /\ s.top \in Int /\ s.bottom \in Int
  BY SizesAre
<1>2. Picture!StretchMode(s, t) \/ (Picture!WIDTH(t) = a /\ Picture!HEIGHT(t) = b)
  BY <1>1 DEF Picture!StretchMode
<1>3. Picture!Rendered(v, s, t, fast, Picture!StretchMode(s, t)) =
        IF fast THEN Picture!Fast(s, a, b) ELSE Picture!Slow(v, s, a, b)
  BY <1>1, <1>2 DEF Picture!Rendered
<1>4. s.left + a - 1 = s.right - 1 /\ s.top + b - 1 = s.bottom - 1
  BY <1>1
<1>5. Picture!Fast(s, a, b) = Picture!Pixels(s)
  BY <1>4 DEF Picture!Fast, Picture!Pixels
<1>6. Picture!Slow(v, s, a, b) = Picture!Pixels(s)
  <2>1. v.height \in Int
    BY DEF Formatted, Picture!Lengths
  <2>. DEFINE h == v.height
              top == h - s.bottom
  <2>2. \A line \in top .. top + b - 1 : h - 1 - line \in s.top .. s.bottom - 1
    BY <1>1, <2>1
  <2>3. \A y \in s.top .. s.bottom - 1 : h - 1 - y \in top .. top + b - 1 /\ y = h - 1 - (h - 1 - y)
    BY <1>1, <2>1
  <2>4. Picture!Slow(v, s, a, b) = {<<x, h - 1 - line>> : x \in s.left .. s.right - 1, line \in top .. top + b - 1}
    BY <1>4 DEF Picture!Slow, Picture!RowOfLine
  <2>5. Picture!Pixels(s) = (s.left .. s.right - 1) \X (s.top .. s.bottom - 1)
    BY DEF Picture!Pixels
  <2>. DEFINE X == s.left .. s.right - 1
              L == top .. top + b - 1
              Y == s.top .. s.bottom - 1
  <2>6. \A p \in Picture!Slow(v, s, a, b) : p \in Picture!Pixels(s)
    <3>1. \A x \in X, line \in L : <<x, h - 1 - line>> \in X \X Y
      BY <2>2
    <3>. HIDE DEF X, L, Y
    <3>. QED
      BY <2>4, <2>5, <3>1 DEF X, L, Y
  <2>7. \A p \in Picture!Pixels(s) : p \in Picture!Slow(v, s, a, b)
    <3>1. ASSUME NEW x \in X, NEW y \in Y
          PROVE  <<x, y>> \in Picture!Slow(v, s, a, b)
      <4>1. h - 1 - y \in L /\ y = h - 1 - (h - 1 - y)
        BY <2>3
      <4>. QED
        BY <2>4, <4>1
    <3>2. \A p \in X \X Y : p = <<p[1], p[2]>> /\ p[1] \in X /\ p[2] \in Y
      OBVIOUS
    <3>. QED
      BY <2>5, <3>1, <3>2
  <2>. QED
    BY <2>6, <2>7
<1>. QED
  BY <1>3, <1>5, <1>6

\* A copy is the right way up.
LEMMA CopyIs ==
  ASSUME IntMax \in Nat \ {0}, NEW v \in Formatted, NEW r, Sized(r)
  PROVE  \A p \in DOMAIN Picture!CopyOf(v, r) : Picture!CopyOf(v, r)[p] = <<r.left + p[1], r.top + p[2]>>
<1>. DEFINE D == (0 .. Picture!WIDTH(r) - 1) \X (0 .. Picture!HEIGHT(r) - 1)
<1>0. DOMAIN Picture!CopyOf(v, r) = D
  BY DEF Picture!CopyOf
<1>. SUFFICES ASSUME NEW p \in D
              PROVE  Picture!CopyOf(v, r)[p] = <<r.left + p[1], r.top + p[2]>>
  BY <1>0
<1>1. /\ Picture!HEIGHT(r) = r.bottom - r.top /\ Picture!HEIGHT(r) \in Int /\ v.height \in Int
      /\ r.left \in Int /\ r.top \in Int /\ r.bottom \in Int
  BY SizesAre DEF Formatted, Picture!Lengths
<1>2. p[2] \in Int
  BY <1>1
<1>3. Picture!CopyOf(v, r)[p] =
        <<r.left + p[1], v.height - 1 - ((v.height - (r.top + Picture!HEIGHT(r))) + (Picture!HEIGHT(r) - 1 - p[2]))>>
  BY DEF Picture!CopyOf, Picture!RowOfLine, Picture!LinesToSkip
<1>4. v.height - 1 - ((v.height - (r.top + Picture!HEIGHT(r))) + (Picture!HEIGHT(r) - 1 - p[2])) = r.top + p[2]
  BY <1>1, <1>2
<1>. QED
  BY <1>3, <1>4

LEMMA NaturalProduct == ASSUME NEW a \in Nat, NEW b \in Nat PROVE a * b \in Nat
OBVIOUS

LEMMA BytesAre ==
  ASSUME IntMax \in Nat \ {0}, NEW v \in Formatted, NEW r, Sized(r)
  PROVE  Picture!ImageBytes(v, r) \in Nat
<1>1. Picture!WIDTH(r) \in Nat /\ Picture!HEIGHT(r) \in Nat /\ v.bits \in Nat /\ v.used \in Nat
  BY SizesAre DEF Formatted
<1>2. Picture!WIDTH(r) * v.bits \in Nat
  BY <1>1, NaturalProduct
<1>3. Picture!WidthBytes(v.bits, Picture!WIDTH(r)) \in Nat
  BY <1>2 DEF Picture!WidthBytes
<1>4. Picture!WidthBytes(v.bits, Picture!WIDTH(r)) * Picture!HEIGHT(r) \in Nat
  BY <1>1, <1>3, NaturalProduct
<1>5. Picture!HeaderBytes(v) \in Nat
  BY <1>1 DEF Picture!HeaderBytes
<1>. QED
  BY <1>4, <1>5 DEF Picture!ImageBytes

\* The constants of both instances are of their types.
LEMMA PictureConstants ==
  ASSUME Image!ControlVideoAssumption, FarImage!ControlVideoAssumption
  PROVE  Picture!ControlVideoAssumption
BY DEF Image!ControlVideoAssumption, FarImage!ControlVideoAssumption, Picture!ControlVideoAssumption,
   Image!LONGs, FarImage!LONGs, Picture!LONGs, Image!Lengths, FarImage!Lengths, Picture!Lengths

\* A new source, in the video there is now, and a new destination.
LEMMA SourceKeeps ==
  ASSUME IntMax \in Nat \ {0}, ImageInv, ImageTypes', NEW r, Sized(r), Picture!SetSourceRect(r),
         Picture!Connected' => Picture!GoodSource(r, video'.width, video'.height), Picture!EntriesInPalette'
  PROVE  ImageInv'
<1>1. imageSource' = r /\ stretch' = Picture!StretchMode(r, target) /\ copied' = Picture!NoCopy
      /\ imageDrawn' = {} /\ target' = target
  BY DEF Picture!SetSourceRect
<1>2. Picture!StretchMode(r, target) = Picture!StretchMode(imageSource, target)'
  BY <1>1 DEF Picture!StretchMode, Picture!WIDTH, Picture!HEIGHT, Picture!Wrap
<1>3. ImagePlaces'
  BY <1>1, <1>2 DEF ImageInv, ImagePlaces, Sized, Rects, Picture!LONGs, Picture!Lengths, Picture!GoodSource
<1>4. ImageShown'
  BY <1>1 DEF ImageShown, Picture!CopyIsTheSource, Picture!NoCopy
<1>. QED
  BY <1>3, <1>4 DEF ImageInv

LEMMA TargetKeeps ==
  ASSUME IntMax \in Nat \ {0}, ImageInv, NEW r, Sized(r), Picture!SetTargetRect(r), Asked(call)',
         UNCHANGED <<video, shared, paused, entries>>
  PROVE  ImageInv'
<1>1. target' = r /\ stretch' = Picture!StretchMode(imageSource, r) /\ imageDrawn' = {}
      /\ UNCHANGED <<imageSource, told, copied>>
  BY DEF Picture!SetTargetRect
<1>2. Picture!StretchMode(imageSource, r) = Picture!StretchMode(imageSource, target)'
  BY <1>1 DEF Picture!StretchMode, Picture!WIDTH, Picture!HEIGHT, Picture!Wrap
<1>3. stretch' \in BOOLEAN
  BY <1>1, Zenon DEF Picture!StretchMode
<1>4. ImageTypes'
  BY <1>1, <1>3 DEF ImageInv, ImageTypes
<1>5. ImagePlaces'
  BY <1>1, <1>2 DEF ImageInv, ImagePlaces, Sized, Rects, Picture!LONGs, Picture!Lengths, Picture!GoodSource,
     Picture!Connected, Picture!NoVideo
<1>6. ImageShown'
  BY <1>1 DEF ImageInv, ImageShown, Picture!CopyIsTheSource, Picture!NoCopy, Picture!EntriesInPalette
<1>. QED
  BY <1>4, <1>5, <1>6 DEF ImageInv

\* What changes neither rectangle, nor what is shown, nor the format.
LEMMA OthersKeep ==
  ASSUME ImageInv, ImageTypes', ImageShown', UNCHANGED <<video, imageSource, target, stretch>>
  PROVE  ImageInv'
<1>1. ImagePlaces'
  BY DEF ImageInv, ImagePlaces, Sized, Rects, Picture!LONGs, Picture!Lengths, Picture!GoodSource,
     Picture!Connected, Picture!NoVideo, Picture!StretchMode, Picture!WIDTH, Picture!HEIGHT, Picture!Wrap
<1>. QED
  BY <1>1 DEF ImageInv

LEMMA ShownKeeps ==
  ASSUME ImageInv, UNCHANGED <<video, imageSource, copied, entries>>,
         imageDrawn' = imageDrawn \/ imageDrawn' = Picture!Pixels(imageSource)
  PROVE  ImageShown'
BY DEF ImageInv, ImageShown, Picture!CopyIsTheSource, Picture!NoCopy, Picture!EntriesInPalette, Picture!Pixels

LEMMA IdleAsked == Asked(Picture!Idle)
BY DEF Asked, Picture!Idle

\* A connection, or a change of its format
LEMMA FormatsKeep ==
  ASSUME Picture!ControlVideoAssumption, ImageInv, Picture!Connect \/ Picture!NewFormat
  PROVE  ImageInv'
<1>1. PICK v \in Videos \cup FarVideos :
        video' = v /\ Picture!SetSourceRect(Picture!Whole(v)) /\ entries' = {}
        /\ shared' \in BOOLEAN /\ UNCHANGED <<paused, call>>
  <2>1. CASE Picture!Connect
    BY <2>1 DEF Picture!Connect, Picture!NewVideo
  <2>2. CASE Picture!NewFormat
    BY <2>2 DEF Picture!NewFormat, Picture!NewVideo, ImageInv, ImageTypes
  <2>. QED
    BY <2>1, <2>2
<1>2. v \in Formatted /\ v.width # 0 /\ v.height # 0 /\ IntMax \in Nat \ {0}
  BY DEF Picture!ControlVideoAssumption, Formatted
<1>3. Sized(Picture!Whole(v)) /\ Picture!GoodSource(Picture!Whole(v), v.width, v.height)
  BY <1>2, WholeIs
<1>4. told' = 0 /\ stretch' \in BOOLEAN
  BY <1>1, Zenon DEF Picture!SetSourceRect, Picture!StretchMode
<1>5. ImageTypes'
  BY <1>1, <1>2, <1>4 DEF ImageInv, ImageTypes
<1>6. Picture!EntriesInPalette'
  BY <1>1 DEF Picture!EntriesInPalette
<1>. QED
  BY <1>1, <1>2, <1>3, <1>5, <1>6, SourceKeeps

\* What the renderer does while it is connected.
LEMMA RendererKeeps ==
  ASSUME Picture!ControlVideoAssumption, ImageInv,
         Picture!Disconnect \/ Picture!ChangeState \/ Picture!Resize \/ Picture!DrawImage
  PROVE  ImageInv'
<1>0. IntMax \in Nat \ {0} /\ video \in Formatted
  BY DEF Picture!ControlVideoAssumption, ImageInv, ImageTypes
<1>1. CASE Picture!Disconnect
  <2>1. /\ video' = Picture!NoVideo /\ paused' = FALSE /\ told' = 0 /\ copied' = Picture!NoCopy /\ imageDrawn' = {}
        /\ entries' = {} /\ UNCHANGED <<imageSource, target, stretch, shared, call>>
    BY <1>1 DEF Picture!Disconnect, Picture!Unmoved
  <2>2. Picture!NoVideo \in Formatted
    BY <1>0 DEF Picture!NoVideo, Formatted, Picture!Lengths
  <2>3. FALSE \in BOOLEAN
    BY Zenon
  <2>4. ImageTypes'
    BY <2>1, <2>2, <2>3 DEF ImageInv, ImageTypes
  <2>5. ~Picture!Connected'
    BY <2>1 DEF Picture!Connected, Picture!NoVideo
  <2>6. Picture!StretchMode(imageSource, target)' = Picture!StretchMode(imageSource, target)
    BY <2>1 DEF Picture!StretchMode, Picture!WIDTH, Picture!HEIGHT, Picture!Wrap
  <2>7. ImagePlaces'
    BY <2>1, <2>5, <2>6 DEF ImageInv, ImagePlaces, Sized, Rects, Picture!LONGs, Picture!Lengths
  <2>8. ImageShown'
    BY <2>1 DEF ImageShown, Picture!CopyIsTheSource, Picture!NoCopy, Picture!EntriesInPalette
  <2>. QED
    BY <2>4, <2>7, <2>8 DEF ImageInv
<1>2. CASE Picture!ChangeState
  <2>1. /\ paused' = ~paused /\ UNCHANGED <<video, imageSource, target, stretch, shared, call, told, copied, imageDrawn, entries>>
    BY <1>2 DEF Picture!ChangeState, Picture!Unmoved, Picture!Unread
  <2>2. paused' \in BOOLEAN
    BY <2>1, Zenon
  <2>3. ImageTypes'
    BY <2>1, <2>2 DEF ImageInv, ImageTypes
  <2>4. ImageShown'
    BY <2>1, ShownKeeps
  <2>. QED
    BY <2>1, <2>3, <2>4, OthersKeep
<1>3. CASE Picture!Resize
  <2>1. PICK win \in Windows :
          Picture!SetTargetRect(Picture!Placed(<<0, 0, win[1], win[2]>>)) /\ UNCHANGED <<video, shared, paused, call, entries>>
    BY <1>3 DEF Picture!Resize
  <2>2. win[1] \in Picture!Lengths /\ win[2] \in Picture!Lengths
    BY DEF Picture!ControlVideoAssumption
  <2>. DEFINE r == Picture!Placed(<<0, 0, win[1], win[2]>>)
  <2>3. win[1] \in Picture!LONGs /\ win[2] \in Picture!LONGs /\ 0 \in Picture!LONGs /\ win[1] \in Int /\ win[2] \in Int
    BY <1>0, <2>2 DEF Picture!Lengths, Picture!LONGs
  <2>4. Picture!Wrap(0 + win[1]) = win[1] /\ Picture!Wrap(0 + win[2]) = win[2]
    BY <1>0, <2>3, Wraps
  <2>5. r = [left |-> 0, top |-> 0, right |-> win[1], bottom |-> win[2]]
    BY <2>4 DEF Picture!Placed
  <2>6. Sized(r)
    BY <2>2, <2>3, <2>5 DEF Sized, Rects
  <2>. HIDE DEF r
  <2>7. Asked(call)'
    BY <2>1 DEF ImageInv, ImageTypes
  <2>. QED
    BY <1>0, <2>1, <2>6, <2>7, TargetKeeps DEF r
<1>4. CASE Picture!DrawImage
  <2>1. /\ imageDrawn' = Picture!Rendered(video, imageSource, target, shared, stretch)
        /\ UNCHANGED <<video, imageSource, target, stretch, shared, paused, call, told, copied, entries>>
    BY <1>4 DEF Picture!DrawImage, Picture!Unmoved
  <2>2. imageDrawn' = Picture!Pixels(imageSource)
    BY <1>0, <2>1, RenderedIs DEF ImageInv, ImagePlaces, ImageTypes
  <2>3. ImageTypes'
    BY <2>1 DEF ImageInv, ImageTypes
  <2>4. ImageShown'
    BY <2>1, <2>2, ShownKeeps
  <2>. QED
    BY <2>1, <2>3, <2>4, OthersKeep
<1>. QED
  BY <1>1, <1>2, <1>3, <1>4

\* A call has arguments of its type.
LEMMA PositionsAre ==
  ASSUME NEW S, NEW T, S \subseteq T, NEW p \in Picture!Positions(S)
  PROVE  \A i \in 1 .. 4 : p[i] \in T
<1>1. p \in T \X T \X T \X T
  BY DEF Picture!Positions
<1>2. p[1] \in T /\ p[2] \in T /\ p[3] \in T /\ p[4] \in T
  BY <1>1
<1>3. \A i \in 1 .. 4 : i = 1 \/ i = 2 \/ i = 3 \/ i = 4
  OBVIOUS
<1>. QED
  BY <1>2, <1>3

LEMMA CallsKeep ==
  ASSUME Picture!ControlVideoAssumption, ImageInv, Picture!Call
  PROVE  ImageInv'
<1>1. call' \in Picture!Requests
      /\ UNCHANGED <<video, imageSource, target, stretch, shared, paused, told, copied, imageDrawn, entries>>
  BY DEF Picture!Call, Picture!Unmoved, Picture!Unread
<1>2. /\ SourceValues \subseteq Picture!LONGs /\ TargetValues \cup FarTargets \subseteq Picture!LONGs
      /\ Chunks \subseteq Nat /\ told \in Nat
  BY DEF Picture!ControlVideoAssumption, ImageInv, ImageTypes
<1>3. ASSUME NEW c \in Picture!Requests PROVE Asked(c)
  <2>1. CASE c \in [op : {"source"}, arg : Picture!Sides \X SourceValues]
    BY <1>2, <2>1 DEF Asked
  <2>2. CASE c \in [op : {"target"}, arg : Picture!Sides \X (TargetValues \cup FarTargets)]
    BY <1>2, <2>2 DEF Asked
  <2>3. CASE c \in [op : {"source position"}, arg : Picture!Positions(SourceValues)]
    <3>1. c.op = "source position" /\ c.arg \in Picture!Positions(SourceValues)
      BY <2>3
    <3>. QED
      BY <1>2, <3>1, PositionsAre DEF Asked
  <2>4. CASE c \in [op : {"target position"}, arg : Picture!Positions(TargetValues \cup FarTargets)]
    <3>1. c.op = "target position" /\ c.arg \in Picture!Positions(TargetValues \cup FarTargets)
      BY <2>4
    <3>. QED
      BY <1>2, <3>1, PositionsAre DEF Asked
  <2>5. CASE c \in [op : {"default source", "size"}, arg : {<<>>}]
    BY <2>5 DEF Asked
  <2>6. CASE c \in [op : {"image"}, arg : {<<0>>, <<told>>}]
    <3>1. c.op = "image" /\ c.arg \in {<<0>>, <<told>>}
      BY <2>6
    <3>2. c.arg[1] \in Nat
      BY <1>2, <3>1
    <3>. QED
      BY <3>1, <3>2 DEF Asked
  <2>7. CASE c \in [op : {"palette"}, arg : {<<n>> : n \in Chunks}]
    <3>1. c.op = "palette" /\ c.arg \in {<<n>> : n \in Chunks}
      BY <2>7
    <3>2. PICK n \in Chunks : c.arg = <<n>>
      BY <3>1
    <3>3. c.arg[1] \in Nat
      BY <1>2, <3>2
    <3>. QED
      BY <3>1, <3>3 DEF Asked
  <2>. QED
    BY <2>1, <2>2, <2>3, <2>4, <2>5, <2>6, <2>7 DEF Picture!Requests
<1>4. Asked(call')
  BY <1>1, <1>3
<1>5. Asked(call')  => Asked(call)'
  BY DEF Asked, Picture!Sides, Picture!LONGs
<1>6. ImageTypes'
  BY <1>1, <1>4, <1>5 DEF ImageInv, ImageTypes
<1>7. ImageShown'
  BY <1>1, ShownKeeps
<1>. QED
  BY <1>1, <1>6, <1>7, OthersKeep

\* The methods, behind the lock.
LEMMA ReturnKeeps ==
  ASSUME ImageInv, Picture!Return, told' \in Nat, stretch' \in BOOLEAN
  PROVE  ImageTypes' /\ UNCHANGED <<video, shared, paused>>
<1>1. call' = Picture!Idle /\ UNCHANGED <<video, shared, paused>>
  BY DEF Picture!Return
<1>2. Asked(call)'
  BY <1>1, IdleAsked DEF Asked, Picture!Idle, Picture!Sides, Picture!LONGs
<1>. QED
  BY <1>1, <1>2 DEF ImageInv, ImageTypes

LEMMA PutSourceKeeps ==
  ASSUME Picture!ControlVideoAssumption, ImageInv, NEW r \in Rects, Picture!PutSource(r)
  PROVE  ImageInv'
<1>0. IntMax \in Nat \ {0} /\ video \in Formatted /\ told \in Nat /\ stretch \in BOOLEAN
  BY DEF Picture!ControlVideoAssumption, ImageInv, ImageTypes
<1>1. PICK size \in Picture!VideoSizes :
        /\ Picture!Return /\ UNCHANGED entries
        /\ IF Picture!GoodSource(r, size[1], size[2]) THEN Picture!SetSourceRect(r)
           ELSE Picture!Unmoved /\ Picture!Unread
  BY DEF Picture!PutSource
<1>2. size[1] \in Picture!Lengths /\ size[2] \in Picture!Lengths
      /\ (Picture!Connected => size[1] = video.width /\ size[2] = video.height)
  BY <1>0 DEF Picture!VideoSizes, Picture!Lengths, Formatted
<1>3. UNCHANGED <<video, entries>>
  BY <1>1 DEF Picture!Return
<1>4. CASE Picture!GoodSource(r, size[1], size[2])
  <2>1. Picture!SetSourceRect(r) /\ Sized(r)
    BY <1>0, <1>1, <1>2, <1>4, GoodSourceIs
  <2>2. told' = 0 /\ stretch' \in BOOLEAN
    BY <2>1, Zenon DEF Picture!SetSourceRect, Picture!StretchMode
  <2>3. ImageTypes'
    BY <1>1, <2>2, ReturnKeeps
  <2>4. Picture!Connected' => Picture!GoodSource(r, video'.width, video'.height)
    BY <1>2, <1>3, <1>4 DEF Picture!Connected, Picture!NoVideo
  <2>5. Picture!EntriesInPalette'
    BY <1>3 DEF ImageInv, ImageShown, Picture!EntriesInPalette
  <2>. QED
    BY <1>0, <2>1, <2>3, <2>4, <2>5, SourceKeeps
<1>5. CASE ~Picture!GoodSource(r, size[1], size[2])
  <2>1. UNCHANGED <<imageSource, target, stretch, told, copied, imageDrawn>>
    BY <1>1, <1>5 DEF Picture!Unmoved, Picture!Unread
  <2>2. ImageTypes'
    BY <1>0, <1>1, <2>1, ReturnKeeps
  <2>3. ImageShown'
    BY <1>3, <2>1, ShownKeeps
  <2>. QED
    BY <1>3, <2>1, <2>2, <2>3, OthersKeep
<1>. QED
  BY <1>4, <1>5

LEMMA PutTargetKeeps ==
  ASSUME Picture!ControlVideoAssumption, ImageInv, NEW r \in Rects, Picture!PutTarget(r)
  PROVE  ImageInv'
<1>0. IntMax \in Nat \ {0} /\ told \in Nat /\ stretch \in BOOLEAN
  BY DEF Picture!ControlVideoAssumption, ImageInv, ImageTypes
<1>1. Picture!Return /\ UNCHANGED entries
  BY DEF Picture!PutTarget
<1>3. UNCHANGED <<video, shared, paused>> /\ call' = Picture!Idle
  BY <1>1 DEF Picture!Return
<1>4. CASE Picture!GoodTarget(r)
  <2>1. Picture!SetTargetRect(r) /\ Sized(r)
    BY <1>0, <1>4, GoodTargetIs DEF Picture!PutTarget
  <2>2. told' = told /\ stretch' \in BOOLEAN
    BY <2>1, Zenon DEF Picture!SetTargetRect, Picture!StretchMode
  <2>3. Asked(call)'
    BY <1>0, <1>1, <2>2, ReturnKeeps DEF ImageTypes
  <2>. QED
    BY <1>0, <1>1, <1>3, <2>1, <2>3, TargetKeeps
<1>5. CASE ~Picture!GoodTarget(r)
  <2>1. UNCHANGED <<imageSource, target, stretch, told, copied, imageDrawn>>
    BY <1>5 DEF Picture!PutTarget, Picture!Unmoved, Picture!Unread
  <2>2. ImageTypes'
    BY <1>0, <1>1, <2>1, ReturnKeeps
  <2>3. ImageShown'
    BY <1>1, <1>3, <2>1, ShownKeeps
  <2>. QED
    BY <1>3, <2>1, <2>2, <2>3, OthersKeep
<1>. QED
  BY <1>4, <1>5

LEMMA PutsKeep ==
  ASSUME Picture!ControlVideoAssumption, ImageInv,
         \/ Picture!PutSourceSide \/ Picture!PutTargetSide
         \/ Picture!SetSourcePosition \/ Picture!SetDestinationPosition
  PROVE  ImageInv'
<1>0. IntMax \in Nat \ {0} /\ Asked(call) /\ imageSource \in Rects /\ target \in Rects
  BY DEF Picture!ControlVideoAssumption, ImageInv, ImageTypes, ImagePlaces, Sized
<1>1. CASE Picture!PutSourceSide
  <2>1. Picture!Moved(imageSource, call.arg[1], call.arg[2]) \in Rects
    BY <1>0, <1>1, MovedIs DEF Picture!PutSourceSide, Asked
  <2>. QED
    BY <1>1, <2>1, PutSourceKeeps DEF Picture!PutSourceSide
<1>2. CASE Picture!PutTargetSide
  <2>1. Picture!Moved(target, call.arg[1], call.arg[2]) \in Rects
    BY <1>0, <1>2, MovedIs DEF Picture!PutTargetSide, Asked
  <2>. QED
    BY <1>2, <2>1, PutTargetKeeps DEF Picture!PutTargetSide
<1>3. CASE Picture!SetSourcePosition
  <2>1. Picture!Placed(call.arg) \in Rects
    BY <1>0, <1>3, PlacedIs DEF Picture!SetSourcePosition, Asked
  <2>. QED
    BY <1>3, <2>1, PutSourceKeeps DEF Picture!SetSourcePosition
<1>4. CASE Picture!SetDestinationPosition
  <2>1. Picture!Placed(call.arg) \in Rects
    BY <1>0, <1>4, PlacedIs DEF Picture!SetDestinationPosition, Asked
  <2>. QED
    BY <1>4, <2>1, PutTargetKeeps DEF Picture!SetDestinationPosition
<1>. QED
  BY <1>1, <1>2, <1>3, <1>4

LEMMA AnswersKeep ==
  ASSUME Picture!ControlVideoAssumption, ImageInv,
         \/ Picture!SetDefaultSourcePosition \/ Picture!GetImageSize \/ Picture!CopyImage
         \/ Picture!GetVideoPaletteEntries
  PROVE  ImageInv'
<1>0. IntMax \in Nat \ {0} /\ video \in Formatted /\ told \in Nat /\ stretch \in BOOLEAN
      /\ Asked(call) /\ Sized(imageSource)
  BY DEF Picture!ControlVideoAssumption, ImageInv, ImageTypes, ImagePlaces
<1>1. CASE Picture!SetDefaultSourcePosition
  <2>1. Picture!Return /\ UNCHANGED entries /\ Picture!SetSourceRect(Picture!Whole(video))
    BY <1>1 DEF Picture!SetDefaultSourcePosition
  <2>2. told' = 0 /\ stretch' \in BOOLEAN
    BY <2>1, Zenon DEF Picture!SetSourceRect, Picture!StretchMode
  <2>3. ImageTypes' /\ video' = video
    BY <2>1, <2>2, ReturnKeeps
  <2>4. Sized(Picture!Whole(video))
    BY <1>0, WholeIs
  <2>5. Picture!Connected' => Picture!GoodSource(Picture!Whole(video), video'.width, video'.height)
    <3>1. Picture!Connected' => Picture!Connected
      BY <2>3 DEF Picture!Connected, Picture!NoVideo
    <3>2. Picture!Connected => video.width # 0 /\ video.height # 0
      BY <1>0 DEF ImageInv, ImagePlaces, Picture!GoodSource, Sized, Rects, Picture!LONGs, Formatted, Picture!Lengths
    <3>. QED
      BY <1>0, <2>3, <3>1, <3>2, WholeIs
  <2>6. Picture!EntriesInPalette'
    BY <2>1, <2>3 DEF ImageInv, ImageShown, Picture!EntriesInPalette
  <2>. QED
    BY <1>0, <2>1, <2>3, <2>4, <2>5, <2>6, SourceKeeps
<1>2. CASE Picture!GetImageSize
  <2>1. /\ Picture!Return /\ UNCHANGED <<imageSource, target, stretch, copied, imageDrawn, entries>>
        /\ told' = IF Picture!Connected THEN Picture!ImageBytes(video, imageSource) ELSE told
    BY <1>2 DEF Picture!GetImageSize, Picture!Unmoved
  <2>2. told' \in Nat
    BY <1>0, <2>1, BytesAre
  <2>3. ImageTypes' /\ video' = video
    BY <1>0, <2>1, <2>2, ReturnKeeps
  <2>4. ImageShown'
    BY <2>1, <2>3, ShownKeeps
  <2>. QED
    BY <2>1, <2>3, <2>4, OthersKeep
<1>3. CASE Picture!CopyImage
  <2>1. /\ Picture!Return /\ UNCHANGED <<imageSource, target, stretch, told, imageDrawn, entries>>
    BY <1>3 DEF Picture!CopyImage, Picture!Unmoved
  <2>2. ImageTypes' /\ video' = video
    BY <1>0, <2>1, ReturnKeeps
  <2>. DEFINE bytes == Picture!ImageBytes(video, imageSource)
              copy == Picture!CopyOf(video, imageSource)
              made == [pixels |-> copy, buffer |-> call.arg[1], written |-> bytes]
  <2>3. copied' = Picture!NoCopy \/ (copied' = made /\ bytes <= call.arg[1])
    BY <1>3 DEF Picture!CopyImage, Picture!Fits
  <2>4. \A p \in DOMAIN copy : copy[p] = <<imageSource.left + p[1], imageSource.top + p[2]>>
    BY <1>0, CopyIs
  <2>. HIDE DEF copy, bytes
  <2>5. Picture!CopyIsTheSource'
    <3>1. CASE copied' = Picture!NoCopy
      BY <3>1 DEF Picture!CopyIsTheSource, Picture!NoCopy
    <3>2. CASE copied' = made /\ bytes <= call.arg[1]
      <4>1. copied'.pixels = copy /\ copied'.buffer = call.arg[1] /\ copied'.written = bytes
        BY <3>2
      <4>. QED
        BY <2>1, <2>4, <3>2, <4>1 DEF Picture!CopyIsTheSource
    <3>. QED
      BY <2>3, <3>1, <3>2
  <2>6. ImageShown'
    BY <2>1, <2>2, <2>5 DEF ImageInv, ImageShown, Picture!EntriesInPalette, Picture!Pixels
  <2>. QED
    BY <2>1, <2>2, <2>6, OthersKeep
<1>4. CASE Picture!GetVideoPaletteEntries
  <2>1. /\ Picture!Return /\ UNCHANGED <<imageSource, target, stretch, told, copied, imageDrawn>>
    BY <1>4 DEF Picture!GetVideoPaletteEntries, Picture!Unmoved, Picture!Unread
  <2>2. ImageTypes' /\ video' = video
    BY <1>0, <2>1, ReturnKeeps
  <2>. DEFINE start == Picture!Cardinality(entries)
              n == Picture!Retrieved(video.used, start, call.arg[1])
  <2>3. entries' = entries \cup (start .. start + n - 1)
    BY <1>4 DEF Picture!GetVideoPaletteEntries
  <2>4. start \in Nat
    <3>1. \A S : Picture!Cardinality(S) = Cardinality(S)
      BY DEF Picture!Cardinality, Cardinality, Picture!IsFiniteSet, IsFiniteSet
    <3>2. entries \subseteq 0 .. video.used - 1 /\ 0 \in Int /\ video.used - 1 \in Int
      BY <1>0 DEF ImageInv, ImageShown, Picture!EntriesInPalette, Formatted
    <3>3. IsFiniteSet(entries)
      BY <3>2, FS_Interval, FS_Subset
    <3>. QED
      BY <3>1, <3>3, FS_CardinalityType
  <2>5. call.arg[1] \in Nat /\ video.used \in Nat
    BY <1>0, <1>4 DEF Picture!GetVideoPaletteEntries, Asked, Formatted
  <2>6. start .. start + n - 1 \subseteq 0 .. video.used - 1
    <3>. HIDE DEF start
    <3>. QED
      BY <2>4, <2>5 DEF Picture!Retrieved
  <2>7. Picture!EntriesInPalette'
    BY <2>2, <2>3, <2>6 DEF ImageInv, ImageShown, Picture!EntriesInPalette
  <2>8. ImageShown'
    BY <2>1, <2>2, <2>7 DEF ImageInv, ImageShown, Picture!CopyIsTheSource, Picture!NoCopy, Picture!Pixels
  <2>. QED
    BY <2>1, <2>2, <2>8, OthersKeep
<1>. QED
  BY <1>1, <1>2, <1>3, <1>4

LEMMA ImageStep ==
  ASSUME Picture!ControlVideoAssumption, ImageInv, [Picture!Next]_(Picture!vars)
  PROVE  ImageInv'
<1>1. CASE UNCHANGED Picture!vars
  <2>1. UNCHANGED <<video, imageSource, target, stretch, shared, paused, call, told, copied, imageDrawn, entries>>
    BY <1>1 DEF Picture!vars
  <2>2. ImageTypes'
    BY <2>1 DEF ImageInv, ImageTypes
  <2>3. ImageShown'
    BY <2>1, ShownKeeps
  <2>. QED
    BY <2>1, <2>2, <2>3, OthersKeep
<1>. QED
  BY <1>1, FormatsKeep, RendererKeeps, CallsKeep, PutsKeep, AnswersKeep DEF Picture!Next

LEMMA ImageStarts ==
  ASSUME Picture!ControlVideoAssumption, Picture!Init
  PROVE  ImageInv
<1>0. /\ IntMax \in Nat \ {0} /\ video = Picture!NoVideo /\ imageSource = Picture!Empty /\ target = Picture!Empty
      /\ stretch = FALSE /\ shared = FALSE /\ paused = FALSE /\ call = Picture!Idle /\ told = 0
      /\ copied = Picture!NoCopy /\ imageDrawn = {} /\ entries = {}
  BY DEF Picture!ControlVideoAssumption, Picture!Init
<1>1. Picture!NoVideo \in Formatted
  BY <1>0 DEF Picture!NoVideo, Formatted, Picture!Lengths
<1>2. FALSE \in BOOLEAN
  BY Zenon
<1>3. ImageTypes
  BY <1>0, <1>1, <1>2, IdleAsked DEF ImageTypes
<1>4. Sized(Picture!Empty)
  BY <1>0 DEF Picture!Empty, Sized, Rects, Picture!LONGs, Picture!Lengths
<1>5. stretch = Picture!StretchMode(imageSource, target)
  BY <1>0 DEF Picture!StretchMode
<1>6. ~Picture!Connected
  BY <1>0 DEF Picture!Connected
<1>7. ImagePlaces
  BY <1>0, <1>4, <1>5, <1>6 DEF ImagePlaces
<1>8. ImageShown
  BY <1>0 DEF ImageShown, Picture!CopyIsTheSource, Picture!EntriesInPalette
<1>. QED
  BY <1>3, <1>7, <1>8 DEF ImageInv

\* A step of either instance is one of both together.
LEMMA NearIsPicture == Image!Next => Picture!Next
<1>1. \A S : Image!Cardinality(S) = Picture!Cardinality(S)
  BY DEF Image!Cardinality, Picture!Cardinality, Image!IsFiniteSet, Picture!IsFiniteSet
<1>2. Image!NoVideo = Picture!NoVideo
  BY DEF Image!NoVideo, Picture!NoVideo
<1>3. Image!Idle = Picture!Idle
  BY DEF Image!Idle, Picture!Idle
<1>4. Image!Empty = Picture!Empty
  BY DEF Image!Empty, Picture!Empty
<1>5. \A a : Image!Wrap(a) = Picture!Wrap(a)
  BY DEF Image!Wrap, Picture!Wrap
<1>6. \A a : Image!WIDTH(a) = Picture!WIDTH(a)
  BY <1>5 DEF Image!WIDTH, Picture!WIDTH
<1>7. \A a : Image!HEIGHT(a) = Picture!HEIGHT(a)
  BY <1>5 DEF Image!HEIGHT, Picture!HEIGHT
<1>8. Image!NoCopy = Picture!NoCopy
  BY DEF Image!NoCopy, Picture!NoCopy
<1>9. Image!Connected = Picture!Connected
  BY <1>2 DEF Image!Connected, Picture!Connected
<1>10. \A a : Image!Whole(a) = Picture!Whole(a)
  BY DEF Image!Whole, Picture!Whole
<1>11. \A a, b, c : Image!Moved(a, b, c) = Picture!Moved(a, b, c)
  BY <1>5, <1>6, <1>7 DEF Image!Moved, Picture!Moved
<1>12. \A a : Image!Placed(a) = Picture!Placed(a)
  BY <1>5 DEF Image!Placed, Picture!Placed
<1>13. \A a, b, c : Image!GoodSource(a, b, c) = Picture!GoodSource(a, b, c)
  BY DEF Image!GoodSource, Picture!GoodSource
<1>14. \A a : Image!GoodTarget(a) = Picture!GoodTarget(a)
  BY <1>6, <1>7 DEF Image!GoodTarget, Picture!GoodTarget
<1>15. \A a, b : Image!StretchMode(a, b) = Picture!StretchMode(a, b)
  BY <1>6, <1>7 DEF Image!StretchMode, Picture!StretchMode
<1>16. \A a : Image!SetSourceRect(a) = Picture!SetSourceRect(a)
  BY <1>15, <1>8 DEF Image!SetSourceRect, Picture!SetSourceRect
<1>17. \A a : Image!SetTargetRect(a) = Picture!SetTargetRect(a)
  BY <1>15 DEF Image!SetTargetRect, Picture!SetTargetRect
<1>18. \A a, b : Image!WidthBytes(a, b) = Picture!WidthBytes(a, b)
  BY DEF Image!WidthBytes, Picture!WidthBytes
<1>19. \A a : Image!HeaderBytes(a) = Picture!HeaderBytes(a)
  BY DEF Image!HeaderBytes, Picture!HeaderBytes
<1>20. \A a, b : Image!ImageBytes(a, b) = Picture!ImageBytes(a, b)
  BY <1>19, <1>18, <1>6, <1>7 DEF Image!ImageBytes, Picture!ImageBytes
<1>21. \A a, b : Image!RowOfLine(a, b) = Picture!RowOfLine(a, b)
  BY DEF Image!RowOfLine, Picture!RowOfLine
<1>22. \A a, b : Image!LinesToSkip(a, b) = Picture!LinesToSkip(a, b)
  BY <1>7 DEF Image!LinesToSkip, Picture!LinesToSkip
<1>23. \A a, b : Image!CopyOf(a, b) = Picture!CopyOf(a, b)
  BY <1>6, <1>7, <1>21, <1>22 DEF Image!CopyOf, Picture!CopyOf
<1>24. \A a, b, c, d : Image!Slow(a, b, c, d) = Picture!Slow(a, b, c, d)
  BY <1>21 DEF Image!Slow, Picture!Slow
<1>25. \A a, b, c : Image!Fast(a, b, c) = Picture!Fast(a, b, c)
  BY DEF Image!Fast, Picture!Fast
<1>26. \A a, b, c, d, e : Image!Rendered(a, b, c, d, e) = Picture!Rendered(a, b, c, d, e)
  BY <1>6, <1>7, <1>25, <1>24 DEF Image!Rendered, Picture!Rendered
<1>27. Image!Unmoved = Picture!Unmoved
  BY DEF Image!Unmoved, Picture!Unmoved
<1>28. Image!Unread = Picture!Unread
  BY DEF Image!Unread, Picture!Unread
<1>29. Image!Return = Picture!Return
  BY <1>3 DEF Image!Return, Picture!Return
<1>30. Image!VideoSizes = Picture!VideoSizes
  BY <1>9 DEF Image!VideoSizes, Picture!VideoSizes
<1>31. \A a : Image!PutSource(a) = Picture!PutSource(a)
  BY <1>29, <1>30, <1>13, <1>16, <1>27, <1>28 DEF Image!PutSource, Picture!PutSource
<1>32. \A a : Image!PutTarget(a) = Picture!PutTarget(a)
  BY <1>29, <1>14, <1>17, <1>27, <1>28 DEF Image!PutTarget, Picture!PutTarget
<1>33. \A a : Image!Fits(a) = Picture!Fits(a)
  BY DEF Image!Fits, Picture!Fits
<1>34. \A a, b, c : Image!Retrieved(a, b, c) = Picture!Retrieved(a, b, c)
  BY DEF Image!Retrieved, Picture!Retrieved
<1>35. Image!Sides = Picture!Sides
  BY DEF Image!Sides, Picture!Sides
<1>36. \A a : Image!Positions(a) = Picture!Positions(a)
  BY DEF Image!Positions, Picture!Positions
<1>37. Image!Disconnect = Picture!Disconnect
  BY <1>9, <1>2, <1>8, <1>27 DEF Image!Disconnect, Picture!Disconnect
<1>38. Image!ChangeState = Picture!ChangeState
  BY <1>9, <1>27, <1>28 DEF Image!ChangeState, Picture!ChangeState
<1>39. Image!Resize = Picture!Resize
  BY <1>17, <1>12 DEF Image!Resize, Picture!Resize
<1>40. Image!DrawImage = Picture!DrawImage
  BY <1>9, <1>26, <1>27 DEF Image!DrawImage, Picture!DrawImage
<1>41. Image!PutSourceSide = Picture!PutSourceSide
  BY <1>31, <1>11 DEF Image!PutSourceSide, Picture!PutSourceSide
<1>42. Image!PutTargetSide = Picture!PutTargetSide
  BY <1>32, <1>11 DEF Image!PutTargetSide, Picture!PutTargetSide
<1>43. Image!SetSourcePosition = Picture!SetSourcePosition
  BY <1>31, <1>12 DEF Image!SetSourcePosition, Picture!SetSourcePosition
<1>44. Image!SetDestinationPosition = Picture!SetDestinationPosition
  BY <1>32, <1>12 DEF Image!SetDestinationPosition, Picture!SetDestinationPosition
<1>45. Image!SetDefaultSourcePosition = Picture!SetDefaultSourcePosition
  BY <1>29, <1>16, <1>10 DEF Image!SetDefaultSourcePosition, Picture!SetDefaultSourcePosition
<1>46. Image!GetImageSize = Picture!GetImageSize
  BY <1>29, <1>27, <1>9, <1>20 DEF Image!GetImageSize, Picture!GetImageSize
<1>47. Image!CopyImage = Picture!CopyImage
  BY <1>29, <1>27, <1>9, <1>33, <1>20, <1>23, <1>8 DEF Image!CopyImage, Picture!CopyImage
<1>48. Image!GetVideoPaletteEntries = Picture!GetVideoPaletteEntries
  BY <1>29, <1>27, <1>28, <1>34, <1>1 DEF Image!GetVideoPaletteEntries, Picture!GetVideoPaletteEntries
<1>49. Image!NewVideo => Picture!NewVideo
  BY <1>16, <1>10 DEF Image!NewVideo, Picture!NewVideo
<1>50. Image!Connect => Picture!Connect
  BY <1>49, <1>9 DEF Image!Connect, Picture!Connect
<1>51. Image!NewFormat => Picture!NewFormat
  BY <1>49, <1>9 DEF Image!NewFormat, Picture!NewFormat
<1>52. Image!Requests \subseteq Picture!Requests
  <2>1. \A S, T : S \subseteq T => Picture!Positions(S) \subseteq Picture!Positions(T)
    BY DEF Picture!Positions
  <2>2. Image!Positions(SourceValues) \subseteq Picture!Positions(SourceValues)
    BY <1>36, <2>1
  <2>3. Image!Positions(TargetValues) \subseteq Picture!Positions(TargetValues \cup FarTargets)
    BY <1>36, <2>1
  <2>. QED
    BY <1>35, <2>2, <2>3 DEF Image!Requests, Picture!Requests
<1>53. Image!Call => Picture!Call
  BY <1>52, <1>9, <1>3, <1>27, <1>28 DEF Image!Call, Picture!Call
<1>. QED
  BY <1>37, <1>38, <1>39, <1>40, <1>41, <1>42, <1>43, <1>44, <1>45, <1>46, <1>47, <1>48, <1>50, <1>51, <1>53 DEF Image!Next, Picture!Next

LEMMA FarIsPicture == FarImage!Next => Picture!Next
<1>1. \A S : FarImage!Cardinality(S) = Picture!Cardinality(S)
  BY DEF FarImage!Cardinality, Picture!Cardinality, FarImage!IsFiniteSet, Picture!IsFiniteSet
<1>2. FarImage!NoVideo = Picture!NoVideo
  BY DEF FarImage!NoVideo, Picture!NoVideo
<1>3. FarImage!Idle = Picture!Idle
  BY DEF FarImage!Idle, Picture!Idle
<1>4. FarImage!Empty = Picture!Empty
  BY DEF FarImage!Empty, Picture!Empty
<1>5. \A a : FarImage!Wrap(a) = Picture!Wrap(a)
  BY DEF FarImage!Wrap, Picture!Wrap
<1>6. \A a : FarImage!WIDTH(a) = Picture!WIDTH(a)
  BY <1>5 DEF FarImage!WIDTH, Picture!WIDTH
<1>7. \A a : FarImage!HEIGHT(a) = Picture!HEIGHT(a)
  BY <1>5 DEF FarImage!HEIGHT, Picture!HEIGHT
<1>8. FarImage!NoCopy = Picture!NoCopy
  BY DEF FarImage!NoCopy, Picture!NoCopy
<1>9. FarImage!Connected = Picture!Connected
  BY <1>2 DEF FarImage!Connected, Picture!Connected
<1>10. \A a : FarImage!Whole(a) = Picture!Whole(a)
  BY DEF FarImage!Whole, Picture!Whole
<1>11. \A a, b, c : FarImage!Moved(a, b, c) = Picture!Moved(a, b, c)
  BY <1>5, <1>6, <1>7 DEF FarImage!Moved, Picture!Moved
<1>12. \A a : FarImage!Placed(a) = Picture!Placed(a)
  BY <1>5 DEF FarImage!Placed, Picture!Placed
<1>13. \A a, b, c : FarImage!GoodSource(a, b, c) = Picture!GoodSource(a, b, c)
  BY DEF FarImage!GoodSource, Picture!GoodSource
<1>14. \A a : FarImage!GoodTarget(a) = Picture!GoodTarget(a)
  BY <1>6, <1>7 DEF FarImage!GoodTarget, Picture!GoodTarget
<1>15. \A a, b : FarImage!StretchMode(a, b) = Picture!StretchMode(a, b)
  BY <1>6, <1>7 DEF FarImage!StretchMode, Picture!StretchMode
<1>16. \A a : FarImage!SetSourceRect(a) = Picture!SetSourceRect(a)
  BY <1>15, <1>8 DEF FarImage!SetSourceRect, Picture!SetSourceRect
<1>17. \A a : FarImage!SetTargetRect(a) = Picture!SetTargetRect(a)
  BY <1>15 DEF FarImage!SetTargetRect, Picture!SetTargetRect
<1>18. \A a, b : FarImage!WidthBytes(a, b) = Picture!WidthBytes(a, b)
  BY DEF FarImage!WidthBytes, Picture!WidthBytes
<1>19. \A a : FarImage!HeaderBytes(a) = Picture!HeaderBytes(a)
  BY DEF FarImage!HeaderBytes, Picture!HeaderBytes
<1>20. \A a, b : FarImage!ImageBytes(a, b) = Picture!ImageBytes(a, b)
  BY <1>19, <1>18, <1>6, <1>7 DEF FarImage!ImageBytes, Picture!ImageBytes
<1>21. \A a, b : FarImage!RowOfLine(a, b) = Picture!RowOfLine(a, b)
  BY DEF FarImage!RowOfLine, Picture!RowOfLine
<1>22. \A a, b : FarImage!LinesToSkip(a, b) = Picture!LinesToSkip(a, b)
  BY <1>7 DEF FarImage!LinesToSkip, Picture!LinesToSkip
<1>23. \A a, b : FarImage!CopyOf(a, b) = Picture!CopyOf(a, b)
  BY <1>6, <1>7, <1>21, <1>22 DEF FarImage!CopyOf, Picture!CopyOf
<1>24. \A a, b, c, d : FarImage!Slow(a, b, c, d) = Picture!Slow(a, b, c, d)
  BY <1>21 DEF FarImage!Slow, Picture!Slow
<1>25. \A a, b, c : FarImage!Fast(a, b, c) = Picture!Fast(a, b, c)
  BY DEF FarImage!Fast, Picture!Fast
<1>26. \A a, b, c, d, e : FarImage!Rendered(a, b, c, d, e) = Picture!Rendered(a, b, c, d, e)
  BY <1>6, <1>7, <1>25, <1>24 DEF FarImage!Rendered, Picture!Rendered
<1>27. FarImage!Unmoved = Picture!Unmoved
  BY DEF FarImage!Unmoved, Picture!Unmoved
<1>28. FarImage!Unread = Picture!Unread
  BY DEF FarImage!Unread, Picture!Unread
<1>29. FarImage!Return = Picture!Return
  BY <1>3 DEF FarImage!Return, Picture!Return
<1>30. FarImage!VideoSizes = Picture!VideoSizes
  BY <1>9 DEF FarImage!VideoSizes, Picture!VideoSizes
<1>31. \A a : FarImage!PutSource(a) = Picture!PutSource(a)
  BY <1>29, <1>30, <1>13, <1>16, <1>27, <1>28 DEF FarImage!PutSource, Picture!PutSource
<1>32. \A a : FarImage!PutTarget(a) = Picture!PutTarget(a)
  BY <1>29, <1>14, <1>17, <1>27, <1>28 DEF FarImage!PutTarget, Picture!PutTarget
<1>33. \A a : FarImage!Fits(a) = Picture!Fits(a)
  BY DEF FarImage!Fits, Picture!Fits
<1>34. \A a, b, c : FarImage!Retrieved(a, b, c) = Picture!Retrieved(a, b, c)
  BY DEF FarImage!Retrieved, Picture!Retrieved
<1>35. FarImage!Sides = Picture!Sides
  BY DEF FarImage!Sides, Picture!Sides
<1>36. \A a : FarImage!Positions(a) = Picture!Positions(a)
  BY DEF FarImage!Positions, Picture!Positions
<1>37. FarImage!Disconnect = Picture!Disconnect
  BY <1>9, <1>2, <1>8, <1>27 DEF FarImage!Disconnect, Picture!Disconnect
<1>38. FarImage!ChangeState = Picture!ChangeState
  BY <1>9, <1>27, <1>28 DEF FarImage!ChangeState, Picture!ChangeState
<1>39. FarImage!Resize = Picture!Resize
  BY <1>17, <1>12 DEF FarImage!Resize, Picture!Resize
<1>40. FarImage!DrawImage = Picture!DrawImage
  BY <1>9, <1>26, <1>27 DEF FarImage!DrawImage, Picture!DrawImage
<1>41. FarImage!PutSourceSide = Picture!PutSourceSide
  BY <1>31, <1>11 DEF FarImage!PutSourceSide, Picture!PutSourceSide
<1>42. FarImage!PutTargetSide = Picture!PutTargetSide
  BY <1>32, <1>11 DEF FarImage!PutTargetSide, Picture!PutTargetSide
<1>43. FarImage!SetSourcePosition = Picture!SetSourcePosition
  BY <1>31, <1>12 DEF FarImage!SetSourcePosition, Picture!SetSourcePosition
<1>44. FarImage!SetDestinationPosition = Picture!SetDestinationPosition
  BY <1>32, <1>12 DEF FarImage!SetDestinationPosition, Picture!SetDestinationPosition
<1>45. FarImage!SetDefaultSourcePosition = Picture!SetDefaultSourcePosition
  BY <1>29, <1>16, <1>10 DEF FarImage!SetDefaultSourcePosition, Picture!SetDefaultSourcePosition
<1>46. FarImage!GetImageSize = Picture!GetImageSize
  BY <1>29, <1>27, <1>9, <1>20 DEF FarImage!GetImageSize, Picture!GetImageSize
<1>47. FarImage!CopyImage = Picture!CopyImage
  BY <1>29, <1>27, <1>9, <1>33, <1>20, <1>23, <1>8 DEF FarImage!CopyImage, Picture!CopyImage
<1>48. FarImage!GetVideoPaletteEntries = Picture!GetVideoPaletteEntries
  BY <1>29, <1>27, <1>28, <1>34, <1>1 DEF FarImage!GetVideoPaletteEntries, Picture!GetVideoPaletteEntries
<1>49. FarImage!NewVideo => Picture!NewVideo
  BY <1>16, <1>10 DEF FarImage!NewVideo, Picture!NewVideo
<1>50. FarImage!Connect => Picture!Connect
  BY <1>49, <1>9 DEF FarImage!Connect, Picture!Connect
<1>51. FarImage!NewFormat => Picture!NewFormat
  BY <1>49, <1>9 DEF FarImage!NewFormat, Picture!NewFormat
<1>52. FarImage!Requests \subseteq Picture!Requests
  <2>1. \A S, T : S \subseteq T => Picture!Positions(S) \subseteq Picture!Positions(T)
    BY DEF Picture!Positions
  <2>2. FarImage!Positions(SourceValues \cap Nat) \subseteq Picture!Positions(SourceValues)
    BY <1>36, <2>1
  <2>3. FarImage!Positions(FarTargets) \subseteq Picture!Positions(TargetValues \cup FarTargets)
    BY <1>36, <2>1
  <2>. QED
    BY <1>35, <2>2, <2>3 DEF FarImage!Requests, Picture!Requests
<1>53. FarImage!Call => Picture!Call
  BY <1>52, <1>9, <1>3, <1>27, <1>28 DEF FarImage!Call, Picture!Call
<1>. QED
  BY <1>37, <1>38, <1>39, <1>40, <1>41, <1>42, <1>43, <1>44, <1>45, <1>46, <1>47, <1>48, <1>50, <1>51, <1>53 DEF FarImage!Next, Picture!Next

-----------------------------------------------------------------------------
(* Seeking *)

Settings == [start : Int, stop : Int, rate : {1, 2}]
Notices == {<<>>, <<"start">>, <<"stop">>, <<"rate">>, <<"stop", "start">>}
Notified(q, f) == q # <<>> /\ (Head(q) = f \/ (Len(q) = 2 /\ q[2] = f))

\* The inductive invariant: a setting that the derived class does not have is one
\* that a thread has yet to notify it of; a renderer that is at the end of the
\* stream is where it found the stop position.
SeekInv ==
  /\ seekSource \in Settings /\ seen \in Settings /\ todo \in [Threads -> Notices]
  /\ \A f \in {"start", "stop", "rate"} : seen[f] = seekSource[f] \/ \E t \in Threads : Notified(todo[t], f)
  /\ seekStream \in [running : BOOLEAN, stopping : BOOLEAN, at : Int, base : Int] /\ seekStream.base <= seekStream.at
  /\ position \in [start : Int, end : Int, reset : BOOLEAN] /\ eos \in {"no", "asked", "done"}
  /\ stopFound \in Int \cup {E_NOTIMPL}
  /\ seekStream.stopping => seekStream.running
  /\ seekStream.stopping \/ ~seekStream.running => position.reset
  /\ ~position.reset /\ eos = "no" => seekStream.base + position.start < seekStream.at
  /\ eos = "asked" => ~position.reset \/ seekStream.stopping
  /\ eos = "done" /\ ~position.reset => position.start = stopFound \/ stopFound = E_NOTIMPL

LEMMA NoticeIs ==
  /\ \A n : Head(<<n>>) = n /\ Len(<<n>>) = 1 /\ <<n>> # <<>> /\ Tail(<<n>>) = <<>>
  /\ \A n, o : /\ Head(<<n, o>>) = n /\ Len(<<n, o>>) = 2 /\ <<n, o>> # <<>> /\ Tail(<<n, o>>) = <<o>>
              /\ <<n, o>>[2] = o
  /\ Len(<<>>) = 0
OBVIOUS

LEMMA PairIsConcat ==
  ASSUME NEW S, NEW a \in S, NEW b \in S
  PROVE  <<a>> \o <<b>> = <<a, b>>
<1>. DEFINE p == <<a>>
            q == <<b>>
            r == <<a, b>>
<1>1. /\ p \in Seq(S) /\ q \in Seq(S) /\ r \in Seq(S) /\ Len(p) = 1 /\ Len(q) = 1 /\ Len(r) = 2
      /\ p[1] = a /\ q[1] = b /\ r[1] = a /\ r[2] = b
  OBVIOUS
<1>. HIDE DEF p, q, r
<1>2. /\ p \o q \in Seq(S) /\ Len(p \o q) = Len(p) + Len(q)
      /\ \A i \in 1 .. Len(p) + Len(q) : (p \o q)[i] = IF i <= Len(p) THEN p[i] ELSE q[i - Len(p)]
  BY <1>1, ConcatProperties
<1>3. Len(p \o q) = 2 /\ \A i \in 1 .. Len(r) : r[i] = (p \o q)[i]
  BY <1>1, <1>2
<1>4. p \o q = r
  BY <1>1, <1>2, <1>3, SeqEqual
<1>. QED
  BY <1>4 DEF p, q, r

LEMMA NotifiedIs ==
  /\ \A n \in {"start", "stop", "rate"} : Notified(<<n>>, n)
  /\ Notified(<<"stop", "start">>, "stop") /\ Notified(<<"stop", "start">>, "start")
<1>1. \A n \in {"start", "stop", "rate"} : Notified(<<n>>, n)
  <2>. SUFFICES ASSUME NEW n \in {"start", "stop", "rate"} PROVE Notified(<<n>>, n)
    OBVIOUS
  <2>1. <<n>> # <<>> /\ Head(<<n>>) = n
    OBVIOUS
  <2>. QED
    BY <2>1 DEF Notified
<1>. DEFINE q == <<"stop", "start">>
<1>2. q # <<>> /\ Head(q) = "stop" /\ Len(q) = 2 /\ q[2] = "start"
  OBVIOUS
<1>. HIDE DEF q
<1>3. Notified(q, "stop") /\ Notified(q, "start")
  BY <1>2 DEF Notified
<1>. QED
  BY <1>1, <1>3 DEF q

LEMMA NoticesAre ==
  ASSUME NEW q \in Notices, q # <<>>
  PROVE  /\ Head(q) \in {"start", "stop", "rate"} /\ Tail(q) \in Notices /\ Len(q) <= 2
         /\ \A f : Notified(q, f) => f = Head(q) \/ Notified(Tail(q), f)
<1>1. CASE q = <<"start">>
  BY <1>1 DEF Notices, Notified
<1>2. CASE q = <<"stop">>
  BY <1>2 DEF Notices, Notified
<1>3. CASE q = <<"rate">>
  BY <1>3 DEF Notices, Notified
<1>4. CASE q = <<"stop", "start">>
  <2>1. Head(q) = "stop" /\ Tail(q) = <<"start">> /\ Len(q) = 2 /\ q[2] = "start"
    BY <1>4, NoticeIs
  <2>2. Tail(q) \in Notices
    BY <2>1 DEF Notices
  <2>3. Notified(Tail(q), "start")
    BY <2>1, NotifiedIs
  <2>4. \A f : Notified(q, f) => f = "stop" \/ f = "start"
    BY <2>1 DEF Notified
  <2>. QED
    BY <2>1, <2>2, <2>3, <2>4
<1>. QED
  BY <1>1, <1>2, <1>3, <1>4 DEF Notices

\* A change of the settings is notified afterwards.
LEMMA ChangesNotified ==
  ASSUME SeekInv, NEW t \in Threads, NEW members \in Settings, NEW q \in Notices,
         \A f \in {"start", "stop", "rate"} : members[f] # seekSource[f] => Notified(q, f),
         Seeker!Change(t, members, q)
  PROVE  SeekInv'
<1>1. /\ todo[t] = <<>> /\ seekSource' = members /\ todo' = [todo EXCEPT ![t] = q]
      /\ UNCHANGED <<seen, seekStream, position, eos, stopFound>>
  BY DEF Seeker!Change
<1>2. todo' \in [Threads -> Notices] /\ todo'[t] = q /\ \A u \in Threads \ {t} : todo'[u] = todo[u]
  BY <1>1 DEF SeekInv
<1>3. ASSUME NEW f \in {"start", "stop", "rate"}, seen'[f] # seekSource'[f]
      PROVE  \E u \in Threads : Notified(todo'[u], f)
  <2>1. CASE members[f] # seekSource[f]
    BY <1>2, <2>1
  <2>2. CASE members[f] = seekSource[f]
    <3>1. PICK u \in Threads : Notified(todo[u], f)
      BY <1>1, <1>3, <2>2 DEF SeekInv
    <3>2. u # t
      BY <1>1, <3>1 DEF Notified
    <3>. QED
      BY <1>2, <3>1, <3>2
  <2>. QED
    BY <2>1, <2>2
<1>. QED
  BY <1>1, <1>2, <1>3 DEF SeekInv, Seeker!NoPosition

LEMMA SeekChanges ==
  ASSUME Seeker!SeekingAssumption, SeekInv,
         Seeker!SetPositions \/ Seeker!PutCurrentPosition \/ Seeker!PutStopTime \/ Seeker!SetRate
  PROVE  SeekInv'
<1>. USE DEF Settings
<1>0. seekSource \in Settings /\ Targets \subseteq Int /\ seekSource.start \in Int /\ seekSource.stop \in Int
  BY DEF SeekInv, Seeker!SeekingAssumption
<1>1. CASE Seeker!SetPositions
  <2>1. PICK t \in Threads, startFlag \in {"none", "absolute", "relative"},
             stopFlag \in {"none", "absolute", "incremental", "relative"}, x \in Targets, y \in Targets :
          Seeker!Change(t, [seekSource EXCEPT !.start = Seeker!StartAfter(startFlag, x),
                                              !.stop = Seeker!StopAfter(stopFlag, y, Seeker!StartAfter(startFlag, x))],
                        Seeker!NoticesOf(startFlag, stopFlag))
    BY <1>1 DEF Seeker!SetPositions
  <2>. DEFINE a == Seeker!StartAfter(startFlag, x)
              b == Seeker!StopAfter(stopFlag, y, a)
              q == Seeker!NoticesOf(startFlag, stopFlag)
              members == [seekSource EXCEPT !.start = a, !.stop = b]
  <2>2. x \in Int /\ y \in Int
    BY <1>0
  <2>3. a \in Int /\ (startFlag = "none" => a = seekSource.start)
    BY <1>0, <2>2 DEF Seeker!StartAfter
  <2>. HIDE DEF a
  <2>4. b \in Int /\ (stopFlag = "none" => b = seekSource.stop)
    BY <1>0, <2>2, <2>3 DEF Seeker!StopAfter
  <2>. HIDE DEF b
  <2>5. members \in Settings /\ members.start = a /\ members.stop = b /\ members.rate = seekSource.rate
    BY <1>0, <2>3, <2>4
  <2>. HIDE DEF members
  <2>7. /\ q \in Notices /\ (startFlag # "none" => Notified(q, "start"))
        /\ (stopFlag # "none" => Notified(q, "stop"))
    <3>1. CASE stopFlag = "none" /\ startFlag = "none"
      <4>1. q = <<>>
        BY <3>1 DEF Seeker!NoticesOf
      <4>. QED
        BY <3>1, <4>1 DEF Notices
    <3>2. CASE stopFlag = "none" /\ startFlag # "none"
      <4>1. q = <<"start">>
        BY <3>2 DEF Seeker!NoticesOf
      <4>2. q \in Notices
        BY <4>1 DEF Notices
      <4>. QED
        BY <3>2, <4>1, <4>2, NotifiedIs
    <3>3. CASE stopFlag # "none" /\ startFlag = "none"
      <4>1. q = <<"stop">>
        BY <3>3 DEF Seeker!NoticesOf
      <4>2. q \in Notices
        BY <4>1 DEF Notices
      <4>. QED
        BY <3>3, <4>1, <4>2, NotifiedIs
    <3>4. CASE stopFlag # "none" /\ startFlag # "none"
      <4>0. q = <<"stop">> \o <<"start">>
        BY <3>4 DEF Seeker!NoticesOf
      <4>3. <<"stop">> \o <<"start">> = <<"stop", "start">>
        <5>1. "stop" \in {"stop", "start"} /\ "start" \in {"stop", "start"}
          OBVIOUS
        <5>. QED
          BY <5>1, PairIsConcat
      <4>1. q = <<"stop", "start">>
        BY <4>0, <4>3
      <4>2. q \in Notices
        BY <4>1 DEF Notices
      <4>. QED
        BY <3>4, <4>1, <4>2, NotifiedIs
    <3>. QED
      BY <3>1, <3>2, <3>3, <3>4
  <2>. HIDE DEF q
  <2>8. \A f \in {"start", "stop", "rate"} : members[f] # seekSource[f] => Notified(q, f)
    BY <2>3, <2>4, <2>5, <2>7
  <2>. QED
    BY <2>1, <2>5, <2>7, <2>8, ChangesNotified DEF a, b, q, members
<1>2. CASE Seeker!SetRate
  <2>1. PICK t \in Threads, rate \in {0, 1, 2} : rate # 0 /\ Seeker!Change(t, [seekSource EXCEPT !.rate = rate], <<"rate">>)
    BY <1>2 DEF Seeker!SetRate
  <2>2. [seekSource EXCEPT !.rate = rate] \in Settings
    BY <1>0, <2>1
  <2>3. <<"rate">> \in Notices /\ Notified(<<"rate">>, "rate")
    <3>1. <<"rate">> \in Notices
      BY DEF Notices
    <3>. QED
      BY <3>1, NotifiedIs
  <2>4. \A f \in {"start", "stop", "rate"} : [seekSource EXCEPT !.rate = rate][f] # seekSource[f] => Notified(<<"rate">>, f)
    BY <1>0, <2>3
  <2>. QED
    BY <2>1, <2>2, <2>3, <2>4, ChangesNotified
<1>3. ~Seeker!PutCurrentPosition /\ ~Seeker!PutStopTime
  BY DEF Seeker!PutCurrentPosition, Seeker!PutStopTime, Seeker!PeerPosition
<1>. QED
  BY <1>1, <1>2, <1>3

LEMMA SeekNotifies == ASSUME SeekInv, Seeker!Notify PROVE SeekInv'
<1>1. PICK t \in Threads :
        /\ todo[t] # <<>>
        /\ seen' = [seen EXCEPT ![Head(todo[t])] = seekSource[Head(todo[t])]]
        /\ todo' = [todo EXCEPT ![t] = Tail(todo[t])]
        /\ Seeker!Restart(seekStream.running, seen'.start)
        /\ UNCHANGED <<seekSource, stopFound>>
  BY DEF Seeker!Notify
<1>. DEFINE h == Head(todo[t])
<1>2. todo[t] \in Notices /\ h \in {"start", "stop", "rate"} /\ Tail(todo[t]) \in Notices
      /\ \A f : Notified(todo[t], f) => f = h \/ Notified(Tail(todo[t]), f)
  BY <1>1, NoticesAre DEF SeekInv
<1>3. todo' \in [Threads -> Notices] /\ todo'[t] = Tail(todo[t]) /\ \A u \in Threads \ {t} : todo'[u] = todo[u]
  BY <1>1, <1>2 DEF SeekInv
<1>4. seen' \in Settings /\ seen'[h] = seekSource[h] /\ \A f \in {"start", "stop", "rate"} \ {h} : seen'[f] = seen[f]
  <2>1. CASE h = "start"
    BY <1>1, <2>1 DEF SeekInv, Settings
  <2>2. CASE h = "stop"
    BY <1>1, <2>2 DEF SeekInv, Settings
  <2>3. CASE h = "rate"
    BY <1>1, <2>3 DEF SeekInv, Settings
  <2>. QED
    BY <1>2, <2>1, <2>2, <2>3
<1>. HIDE DEF h
<1>5. ASSUME NEW f \in {"start", "stop", "rate"}, seen'[f] # seekSource'[f]
      PROVE  \E u \in Threads : Notified(todo'[u], f)
  <2>1. f # h /\ seen[f] # seekSource[f]
    BY <1>1, <1>4, <1>5
  <2>2. PICK u \in Threads : Notified(todo[u], f)
    BY <2>1 DEF SeekInv
  <2>. QED
    BY <1>2, <1>3, <2>1, <2>2
<1>6. seen'.start \in Int
  BY <1>4 DEF Settings
<1>7. CASE seekStream.running
  <2>1. /\ seekStream' = [seekStream EXCEPT !.at = seen'.start, !.base = seen'.start]
        /\ position' = Seeker!NoPosition /\ eos' = "no" /\ ~seekStream.stopping
    BY <1>1, <1>7 DEF Seeker!Restart, Seeker!ResetMediaTime
  <2>4. seekStream \in [running : BOOLEAN, stopping : BOOLEAN, at : Int, base : Int]
    BY DEF SeekInv
  <2>5. seekStream' \in [running : BOOLEAN, stopping : BOOLEAN, at : Int, base : Int]
    BY <1>6, <2>1, <2>4, Zenon
  <2>6. seekStream'.base = seen'.start /\ seekStream'.at = seen'.start /\ ~seekStream'.stopping
    BY <2>1, <2>4
  <2>2. seekStream' \in [running : BOOLEAN, stopping : BOOLEAN, at : Int, base : Int] /\ seekStream'.base <= seekStream'.at
    BY <1>6, <2>5, <2>6
  <2>3. position'.reset = TRUE /\ position' \in [start : Int, end : Int, reset : BOOLEAN]
    BY <2>1 DEF Seeker!NoPosition
  <2>. QED
    BY <1>1, <1>3, <1>4, <1>5, <2>1, <2>2, <2>3, <2>6 DEF SeekInv, Seeker!NoPosition
<1>8. CASE ~seekStream.running
  <2>1. UNCHANGED <<seekStream, position, eos>>
    BY <1>1, <1>8 DEF Seeker!Restart
  <2>. QED
    BY <1>1, <1>3, <1>4, <1>5, <2>1 DEF SeekInv, Seeker!NoPosition
<1>. QED
  BY <1>7, <1>8

LEMMA SeekStreams ==
  ASSUME SeekInv, Seeker!Start \/ Seeker!Inactive \/ Seeker!Stop \/ Seeker!Streaming
  PROVE  SeekInv'
<1>1. /\ position.start \in Int /\ position.end \in Int /\ position.reset \in BOOLEAN
      /\ seekStream.at \in Int /\ seekStream.base \in Int
      /\ seekStream.running \in BOOLEAN /\ seekStream.stopping \in BOOLEAN
      /\ seekStream \in [running : BOOLEAN, stopping : BOOLEAN, at : Int, base : Int] /\ seekSource.stop \in Int /\ seen.start \in Int
  BY DEF SeekInv, Settings
<1>2. Seeker!NoPosition \in [start : Int, end : Int, reset : BOOLEAN] /\ Seeker!NoPosition.reset = TRUE
  BY DEF Seeker!NoPosition
<1>3. CASE Seeker!Start
  <2>1. /\ eos = "no" /\ ~seekStream.running /\ UNCHANGED <<seekSource, todo, seen, position, eos, stopFound>>
        /\ seekStream' = [running |-> TRUE, stopping |-> FALSE, at |-> seen.start, base |-> seen.start]
    BY <1>3 DEF Seeker!Start
  <2>2. seekStream' \in [running : BOOLEAN, stopping : BOOLEAN, at : Int, base : Int] /\ seekStream'.base <= seekStream'.at /\ position.reset
    BY <1>1, <2>1 DEF SeekInv
  <2>. QED
    BY <2>1, <2>2 DEF SeekInv, Seeker!NoPosition
<1>4. CASE Seeker!Stop
  <2>1. /\ seekStream.stopping /\ eos # "asked" /\ eos' = "no"
        /\ seekStream' = [seekStream EXCEPT !.running = FALSE, !.stopping = FALSE]
        /\ UNCHANGED <<seekSource, todo, seen, position, stopFound>>
    BY <1>4 DEF Seeker!Stop
  <2>2. seekStream' \in [running : BOOLEAN, stopping : BOOLEAN, at : Int, base : Int]
    BY <1>1, <2>1, Zenon
  <2>3. /\ seekStream'.at = seekStream.at /\ seekStream'.base = seekStream.base
        /\ ~seekStream'.running /\ ~seekStream'.stopping
    BY <1>1, <2>1
  <2>4. position.reset
    BY <2>1 DEF SeekInv
  <2>. QED
    BY <2>1, <2>2, <2>3, <2>4 DEF SeekInv
<1>8. CASE Seeker!Inactive
  <2>1. /\ seekStream.running /\ seekStream' = [seekStream EXCEPT !.stopping = TRUE]
        /\ position' = Seeker!NoPosition
        /\ UNCHANGED <<seekSource, todo, seen, eos, stopFound>>
    BY <1>8 DEF Seeker!Inactive, Seeker!ResetMediaTime
  <2>2. seekStream' \in [running : BOOLEAN, stopping : BOOLEAN, at : Int, base : Int]
    BY <1>1, <2>1, Zenon
  <2>3. /\ seekStream'.at = seekStream.at /\ seekStream'.base = seekStream.base
        /\ seekStream'.running /\ seekStream'.stopping
    BY <1>1, <2>1
  <2>. QED
    BY <1>2, <2>1, <2>2, <2>3 DEF SeekInv
<1>5. CASE Seeker!Deliver
  <2>1. PICK timed \in BOOLEAN :
          /\ seekStream.running /\ ~seekStream.stopping /\ eos = "no"
          /\ seekStream' = [seekStream EXCEPT !.at = seekStream.at + 1]
          /\ position' = Seeker!Registered(timed)
          /\ UNCHANGED <<seekSource, todo, seen, eos, stopFound>>
    BY <1>5 DEF Seeker!Deliver
  <2>. DEFINE n == seekStream.at + 1
              a == seekStream.at - seekStream.base
              b == a + 1
  <2>9. n \in Int /\ a \in Int /\ b \in Int
    BY <1>1
  <2>10. seekStream' = [seekStream EXCEPT !.at = n]
    BY <2>1
  <2>3. position' = position \/ position' = [start |-> a, end |-> b, reset |-> FALSE]
    BY <2>1 DEF Seeker!Registered
  <2>. HIDE DEF n, a, b
  <2>11. seekStream' \in [running : BOOLEAN, stopping : BOOLEAN, at : Int, base : Int]
    BY <1>1, <2>9, <2>10, Zenon
  <2>12. /\ seekStream'.running = seekStream.running /\ seekStream'.stopping = seekStream.stopping
         /\ seekStream'.at = n /\ seekStream'.base = seekStream.base
    BY <1>1, <2>10
  <2>2. /\ seekStream' \in [running : BOOLEAN, stopping : BOOLEAN, at : Int, base : Int] /\ seekStream'.running = seekStream.running
        /\ seekStream'.at = seekStream.at + 1 /\ seekStream'.base = seekStream.base
    BY <2>11, <2>12 DEF n
  <2>13. FALSE \in BOOLEAN
    BY Zenon
  <2>14. [start |-> a, end |-> b, reset |-> FALSE] \in [start : Int, end : Int, reset : BOOLEAN]
    BY <2>9, <2>13, Zenon
  <2>4. position' \in [start : Int, end : Int, reset : BOOLEAN]
    BY <2>3, <2>14 DEF SeekInv
  <2>16. position' = position \/ (position'.reset = FALSE /\ position'.start = a)
    <3>1. CASE position' = position
      BY <3>1
    <3>2. CASE position' = [start |-> a, end |-> b, reset |-> FALSE]
      <4>1. position'.reset = FALSE
        BY <3>2, Zenon
      <4>2. position'.start = a
        BY <3>2, Zenon
      <4>. QED
        BY <4>1, <4>2
    <3>. QED
      BY <2>3, <3>1, <3>2
  <2>5. position' = position \/ (~position'.reset /\ position'.start = seekStream.at - seekStream.base)
    BY <2>16 DEF a
  <2>6. seekStream'.base <= seekStream'.at /\ (~position'.reset => seekStream'.base + position'.start < seekStream'.at)
    BY <1>1, <2>1, <2>2, <2>5 DEF SeekInv
  <2>7. seekStream'.running /\ ~seekStream'.stopping
    BY <2>1, <2>2, <2>12
  <2>. QED
    BY <2>1, <2>2, <2>4, <2>6, <2>7 DEF SeekInv
<1>6. CASE Seeker!EndOfStream
  <2>1. /\ eos' = IF position.reset THEN "done" ELSE "asked"
        /\ stopFound' = seekSource.stop \/ stopFound' = E_NOTIMPL
        /\ UNCHANGED <<seekSource, todo, seen, seekStream, position>>
    BY <1>6 DEF Seeker!EndOfStream, Seeker!NextEos
  <2>. QED
    BY <1>1, <2>1 DEF SeekInv, Seeker!NoPosition
<1>7. CASE Seeker!EndOfStreamEnds
  <2>1. /\ eos' = "done" /\ UNCHANGED <<seekSource, todo, seen, seekStream, stopFound>> /\ eos = "asked"
        /\ position' = IF stopFound = E_NOTIMPL THEN position ELSE [position EXCEPT !.start = stopFound, !.end = stopFound]
    BY <1>7 DEF Seeker!EndOfStreamEnds, Seeker!EndAtStop
  <2>2. CASE stopFound = E_NOTIMPL
    BY <2>1, <2>2 DEF SeekInv, Seeker!NoPosition
  <2>3. CASE stopFound # E_NOTIMPL
    <3>1. stopFound \in Int /\ position \in [start : Int, end : Int, reset : BOOLEAN]
      BY <2>3 DEF SeekInv
    <3>2. position' = [position EXCEPT !.start = stopFound, !.end = stopFound]
      BY <2>1, <2>3
    <3>3. position' \in [start : Int, end : Int, reset : BOOLEAN]
      BY <3>1, <3>2, Zenon
    <3>4. position'.start = stopFound /\ position'.reset = position.reset
      BY <3>1, <3>2
    <3>. QED
      BY <2>1, <3>3, <3>4 DEF SeekInv
  <2>. QED
    BY <2>2, <2>3
<1>. QED
  BY <1>3, <1>4, <1>5, <1>6, <1>7, <1>8 DEF Seeker!Streaming

LEMMA SeekStep ==
  ASSUME Seeker!SeekingAssumption, SeekInv, [Seeker!Next]_(Seeker!vars)
  PROVE  SeekInv'
<1>1. CASE Seeker!Connect \/ Seeker!Ask \/ UNCHANGED Seeker!vars
  <2>1. UNCHANGED <<seekSource, todo, seen, seekStream, position, eos, stopFound>>
    BY <1>1 DEF Seeker!Connect, Seeker!Ask, Seeker!vars
  <2>. QED
    BY <2>1 DEF SeekInv, Seeker!NoPosition
<1>. QED
  BY <1>1, SeekChanges, SeekNotifies, SeekStreams DEF Seeker!Next

LEMMA SeekStarts == ASSUME Seeker!SeekingAssumption, Seeker!Init PROVE SeekInv
<1>1. [start |-> 0, stop |-> Length, rate |-> 1] \in Settings
  BY DEF Settings, Seeker!SeekingAssumption
<1>2. <<>> \in Notices
  BY DEF Notices
<1>3. Seeker!NoPosition \in [start : Int, end : Int, reset : BOOLEAN] /\ Seeker!NoPosition.reset = TRUE
  BY DEF Seeker!NoPosition
<1>. QED
  BY <1>1, <1>2, <1>3 DEF SeekInv, Seeker!Init

LEMMA SeekShows ==
  ASSUME Seeker!SeekingAssumption, SeekInv
  PROVE  Seeker!TypeOK /\ Seeker!ChangesAreNoticed /\ Seeker!EndsAtStop /\ Seeker!NoOldPosition
<1>1. \A t \in Threads : Len(todo[t]) <= 2
  <2>1. \A q \in Notices : Len(q) <= 2
    BY NoticesAre, NoticeIs
  <2>. QED
    BY <2>1 DEF SeekInv
<1>2. Seeker!TypeOK
  BY <1>1 DEF SeekInv, Settings, Seeker!TypeOK
<1>3. ASSUME Seeker!Quiet PROVE seen = seekSource
  <2>1. \A f \in {"start", "stop", "rate"} : seen[f] = seekSource[f]
    BY <1>3 DEF Seeker!Quiet, SeekInv, Notified
  <2>. QED
    BY <2>1 DEF SeekInv, Settings
<1>4. Seeker!EndsAtStop
  BY DEF SeekInv, Settings, Seeker!EndsAtStop, Seeker!CurrentPosition, Seeker!PeerSeeking, Seeker!SeekingAssumption
<1>. QED
  BY <1>2, <1>3, <1>4 DEF Seeker!ChangesAreNoticed, Seeker!NoOldPosition, SeekInv

\* The format is one of the instance's own.
LEMMA NearVideos ==
  ASSUME Image!Next
  PROVE  video' = video \/ video' \in Videos \cup {Picture!NoVideo}
<1>. USE DEF Image!Unmoved, Image!Unread, Image!Return
<1>1. CASE Image!Connect \/ Image!NewFormat
  BY <1>1 DEF Image!Connect, Image!NewFormat, Image!NewVideo
<1>2. CASE Image!Disconnect
  BY <1>2 DEF Image!Disconnect, Image!NoVideo, Picture!NoVideo
<1>3. CASE Image!ChangeState \/ Image!Resize \/ Image!DrawImage \/ Image!Call
  BY <1>3 DEF Image!ChangeState, Image!Resize, Image!DrawImage, Image!Call
<1>4. CASE Image!PutSourceSide \/ Image!PutTargetSide \/ Image!SetSourcePosition \/ Image!SetDestinationPosition
  BY <1>4 DEF Image!PutSourceSide, Image!PutTargetSide, Image!SetSourcePosition, Image!SetDestinationPosition,
     Image!PutSource, Image!PutTarget
<1>5. CASE Image!SetDefaultSourcePosition \/ Image!GetImageSize \/ Image!CopyImage \/ Image!GetVideoPaletteEntries
  BY <1>5 DEF Image!SetDefaultSourcePosition, Image!GetImageSize, Image!CopyImage, Image!GetVideoPaletteEntries
<1>. QED
  BY <1>1, <1>2, <1>3, <1>4, <1>5 DEF Image!Next

LEMMA FarVideosAre ==
  ASSUME FarImage!Next
  PROVE  video' = video \/ video' \in FarVideos \cup {Picture!NoVideo}
<1>. USE DEF FarImage!Unmoved, FarImage!Unread, FarImage!Return
<1>1. CASE FarImage!Connect \/ FarImage!NewFormat
  BY <1>1 DEF FarImage!Connect, FarImage!NewFormat, FarImage!NewVideo
<1>2. CASE FarImage!Disconnect
  BY <1>2 DEF FarImage!Disconnect, FarImage!NoVideo, Picture!NoVideo
<1>3. CASE FarImage!ChangeState \/ FarImage!Resize \/ FarImage!DrawImage \/ FarImage!Call
  BY <1>3 DEF FarImage!ChangeState, FarImage!Resize, FarImage!DrawImage, FarImage!Call
<1>4. CASE FarImage!PutSourceSide \/ FarImage!PutTargetSide \/ FarImage!SetSourcePosition \/ FarImage!SetDestinationPosition
  BY <1>4 DEF FarImage!PutSourceSide, FarImage!PutTargetSide, FarImage!SetSourcePosition, FarImage!SetDestinationPosition,
     FarImage!PutSource, FarImage!PutTarget
<1>5. CASE FarImage!SetDefaultSourcePosition \/ FarImage!GetImageSize \/ FarImage!CopyImage \/ FarImage!GetVideoPaletteEntries
  BY <1>5 DEF FarImage!SetDefaultSourcePosition, FarImage!GetImageSize, FarImage!CopyImage, FarImage!GetVideoPaletteEntries
<1>. QED
  BY <1>1, <1>2, <1>3, <1>4, <1>5 DEF FarImage!Next

-----------------------------------------------------------------------------
(* Windows, pictures and positions, beside the others *)

\* The inductive invariant of the three.
OwnVideo ==
  /\ part = "ControlVideo" => video \in Videos \cup {Picture!NoVideo}
  /\ part = "FarImage" => video \in FarVideos \cup {Picture!NoVideo}
ShowsInv == ControlInv /\ ImageInv /\ SeekInv /\ OwnVideo

LEMMA ImagesAreTyped ==
  ASSUME ImageInv, OwnVideo
  PROVE  /\ part = "ControlVideo" => Image!TypeOK
         /\ part = "FarImage" => FarImage!TypeOK
<1>. USE DEF ImageInv, ImageTypes, ImagePlaces, Asked, Sized, Rects, OwnVideo, Picture!NoVideo,
       Picture!LONGs, Picture!Lengths
<1>1. ASSUME part = "ControlVideo" PROVE Image!TypeOK
  BY <1>1 DEF Image!TypeOK, Image!NoVideo, Image!LONGs, Image!Lengths
<1>2. ASSUME part = "FarImage" PROVE FarImage!TypeOK
  BY <1>2 DEF FarImage!TypeOK, FarImage!NoVideo, FarImage!LONGs, FarImage!Lengths
<1>. QED
  BY <1>1, <1>2

LEMMA ImageShows ==
  ASSUME IntMax \in Nat \ {0}, ImageInv
  PROVE  Image!SourceInVideo /\ Image!DrawsTheSource /\ Image!CopyIsTheSource /\ Image!EntriesInPalette
<1>0. Image!Pixels(imageSource) = Picture!Pixels(imageSource)
  BY DEF Image!Pixels, Picture!Pixels
<1>1. Image!SourceInVideo
  <2>. SUFFICES ASSUME Picture!Connected
                PROVE  /\ Image!Pixels(imageSource) # {}
                       /\ Image!Pixels(imageSource) \subseteq Image!Pixels(Image!Whole(video))
    BY DEF Image!SourceInVideo, Image!Connected, Picture!Connected, Image!NoVideo, Picture!NoVideo
  <2>1. Picture!GoodSource(imageSource, video.width, video.height)
    BY DEF ImageInv, ImagePlaces
  <2>2. /\ imageSource.left \in Int /\ imageSource.right \in Int /\ imageSource.top \in Int /\ imageSource.bottom \in Int
        /\ video.width \in Int /\ video.height \in Int
    BY SizesAre DEF ImageInv, ImagePlaces, ImageTypes, Formatted, Picture!Lengths
  <2>3. /\ imageSource.left \in imageSource.left .. imageSource.right - 1
        /\ imageSource.top \in imageSource.top .. imageSource.bottom - 1
    BY <2>1, <2>2 DEF Picture!GoodSource
  <2>4. /\ imageSource.left .. imageSource.right - 1 \subseteq 0 .. video.width - 1
        /\ imageSource.top .. imageSource.bottom - 1 \subseteq 0 .. video.height - 1
    BY <2>1, <2>2 DEF Picture!GoodSource
  <2>5. Image!Pixels(Image!Whole(video)) = (0 .. video.width - 1) \X (0 .. video.height - 1)
    BY DEF Image!Pixels, Image!Whole
  <2>6. Image!Pixels(imageSource) =
          (imageSource.left .. imageSource.right - 1) \X (imageSource.top .. imageSource.bottom - 1)
    BY DEF Image!Pixels
  <2>7. <<imageSource.left, imageSource.top>> \in Image!Pixels(imageSource)
    BY <2>3, <2>6
  <2>8. Image!Pixels(imageSource) \subseteq Image!Pixels(Image!Whole(video))
    BY <2>4, <2>5, <2>6
  <2>. QED
    BY <2>7, <2>8
<1>2. Image!DrawsTheSource
  BY <1>0 DEF ImageInv, ImageShown, Image!DrawsTheSource
<1>3. Image!CopyIsTheSource
  BY DEF ImageInv, ImageShown, Image!CopyIsTheSource, Picture!CopyIsTheSource, Image!NoCopy, Picture!NoCopy
<1>4. Image!EntriesInPalette
  BY DEF ImageInv, ImageShown, Image!EntriesInPalette, Picture!EntriesInPalette
<1>. QED
  BY <1>1, <1>2, <1>3, <1>4

LEMMA ShowsStarts == ASSUME RenderingAssumption, RenderingInit PROVE ShowsInv
<1>1. Image!Init \/ FarImage!Init
  BY DEF RenderingInit
<1>2. Picture!Init
  BY <1>1 DEF Image!Init, FarImage!Init, Picture!Init, Image!NoVideo, FarImage!NoVideo, Picture!NoVideo,
     Image!Empty, FarImage!Empty, Picture!Empty, Image!Idle, FarImage!Idle, Picture!Idle,
     Image!NoCopy, FarImage!NoCopy, Picture!NoCopy
<1>3. Picture!ControlVideoAssumption /\ Seeker!SeekingAssumption
  BY PictureConstants DEF RenderingAssumption
<1>4. ImageInv
  BY <1>2, <1>3, ImageStarts
<1>5. SeekInv
  BY <1>3, SeekStarts DEF RenderingInit
<1>6. OwnVideo
  BY <1>2 DEF OwnVideo, Picture!Init
<1>. QED
  BY <1>4, <1>5, <1>6, ControlStarts DEF ShowsInv

LEMMA ShowsStep ==
  ASSUME RenderingAssumption, ShowsInv, [RenderingNext]_renderingVars
  PROVE  ShowsInv'
<1>1. /\ Picture!ControlVideoAssumption /\ Seeker!SeekingAssumption /\ Control!ControlWindowAssumption
  BY PictureConstants DEF RenderingAssumption
<1>2. [Control!Next]_(Control!vars) /\ [Picture!Next]_(Picture!vars) /\ [Seeker!Next]_(Seeker!vars)
  <2>1. CASE UNCHANGED renderingVars
    BY <2>1 DEF renderingVars, controlVars, imageVars, seekVars, Control!vars, Picture!vars, Seeker!vars
  <2>2. CASE RenderingNext
    <3>1. /\ Control!Next \/ UNCHANGED controlVars
          /\ Image!Next \/ FarImage!Next \/ UNCHANGED imageVars
          /\ Seeker!Next \/ UNCHANGED seekVars
      BY <2>2 DEF RenderingNext
    <3>. QED
      BY <3>1, NearIsPicture, FarIsPicture DEF controlVars, imageVars, seekVars, Control!vars, Picture!vars, Seeker!vars
  <2>. QED
    BY <2>1, <2>2
<1>3. ControlInv'
  BY <1>1, <1>2, ControlStep DEF ShowsInv, WindowMoves, ControlInv
<1>4. ImageInv'
  BY <1>1, <1>2, ImageStep DEF ShowsInv
<1>5. SeekInv'
  BY <1>1, <1>2, SeekStep DEF ShowsInv
<1>6. OwnVideo'
  <2>1. part' = part
    BY DEF RenderingNext, renderingVars
  <2>2. CASE part = "ControlVideo"
    <3>1. Image!Next \/ UNCHANGED video
      BY <2>2 DEF RenderingNext, renderingVars, imageVars
    <3>2. video' = video \/ video' \in Videos \cup {Picture!NoVideo}
      BY <3>1, NearVideos
    <3>. QED
      BY <2>1, <2>2, <3>2 DEF OwnVideo, ShowsInv, Picture!NoVideo
  <2>3. CASE part = "FarImage"
    <3>1. FarImage!Next \/ UNCHANGED video
      BY <2>3 DEF RenderingNext, renderingVars, imageVars
    <3>2. video' = video \/ video' \in FarVideos \cup {Picture!NoVideo}
      BY <3>1, FarVideosAre
    <3>. QED
      BY <2>1, <2>3, <3>2 DEF OwnVideo, ShowsInv, Picture!NoVideo
  <2>. QED
    BY <2>1, <2>2, <2>3 DEF OwnVideo
<1>. QED
  BY <1>3, <1>4, <1>5, <1>6 DEF ShowsInv

LEMMA ShowsTheSource ==
  ASSUME RenderingAssumption, ShowsInv
  PROVE  WindowShowsSource
<1>1. Picture!ControlVideoAssumption /\ Seeker!SeekingAssumption
  BY PictureConstants DEF RenderingAssumption
<1>2. Image!SourceInVideo /\ Image!DrawsTheSource /\ Image!CopyIsTheSource /\ Image!EntriesInPalette
  BY <1>1, ImageShows DEF ShowsInv, Picture!ControlVideoAssumption
<1>3. Control!TypeOK
  BY DEF ShowsInv, ControlInv, Windowed, Control!TypeOK
<1>. QED
  BY <1>1, <1>2, <1>3, ImagesAreTyped, SeekShows DEF ShowsInv, WindowShowsSource

\* The source is a part of the video, and exactly its pixels are drawn and copied, also
\* where sizes reach the ends of a LONG; a window is a child while it has an owner; the end
\* of the stream is at the stop position, and no change of a setting goes unnoticed.
THEOREM SourceIsShown == RenderingSpec => []WindowShowsSource
<1>1. RenderingInit => ShowsInv
  BY RenderingAssumption, ShowsStarts
<1>2. ShowsInv /\ [RenderingNext]_renderingVars => ShowsInv'
  BY RenderingAssumption, ShowsStep
<1>3. ShowsInv => WindowShowsSource
  BY RenderingAssumption, ShowsTheSource
<1>. QED
  BY <1>1, <1>2, <1>3, PTL DEF RenderingSpec, renderingVars
============================================================================
