--------------------------- MODULE ImageAllocator ---------------------------
(***************************************************************************)
(* The samples a video renderer shares with GDI: CImageAllocator makes each *)
(* one with a bitmap and the colours of the format, CImagePalette counts a *)
(* version for each new palette, and CDrawImage brings the colours of a    *)
(* sample up to date when its version is older than the present one. The   *)
(* source thread gets and gives back samples, the renderer draws them,     *)
(* formats change and the pin is connected again, and the system may run   *)
(* out of bitmaps while the samples are made.                              *)
(***************************************************************************)
EXTENDS Integers, FiniteSets

CONSTANTS
  Colours,     \* palettes; NoPalette is a format without one
  Used,        \* what a format has for biClrUsed: 0 stands for all colours
  Sizes,       \* the sizes of pictures, and of buffers that are asked for
  MaxSamples,  \* the most samples that are asked for
  MaxVersion,  \* bound: palettes prepared
  Fails        \* whether the system may run out of bitmaps

CONSTANT NoPalette
ASSUME SamplesAssumption == MaxSamples \in Nat \ {0} /\ MaxVersion \in Nat \ {0} /\ NoPalette \notin Colours

VARIABLES
  format,       \* the media type: its colours, biClrUsed and size
  negotiated,   \* the properties were agreed for this connection
  agreed,       \* m_lSize and m_lCount, 0 before they are set
  committed,    \* m_bCommitted
  decommitting, \* m_bDecommitInProgress
  samples,      \* the samples there are: size, palette version and colours
  free,         \* m_lFree
  held,         \* the samples the source and the renderer hold
  version,      \* m_PaletteVersion
  drawn         \* the sample last drawn in the present format, and in which colours

vars == <<format, negotiated, agreed, committed, decommitting, samples, free, held, version, drawn>>

PALETTE_VERSION == 1
None == 0
NotDrawn == [sample |-> None, colours |-> NoPalette]
Formats == [colours : Colours \cup {NoPalette}, used : Used, size : Sizes]
ContainsPalette(f) == f.colours # NoPalette
NoSamples == [s \in {} |-> None]

Init ==
  /\ format \in Formats /\ negotiated = FALSE /\ agreed = [size |-> 0, count |-> 0]
  /\ committed = FALSE /\ decommitting = FALSE
  /\ samples = NoSamples /\ free = {} /\ held = {}
  /\ version = PALETTE_VERSION + (IF ContainsPalette(format) THEN 1 ELSE 0) /\ drawn = NotDrawn

----------------------------------------------------------------------------
(* The format: a new palette while running, or a new connection *)

\* A slip in ShouldUpdate: palettes of as many colours are taken to be equal.
ShouldUpdate_ByCount(new, old) == new.used # old.used \/ (ContainsPalette(new) # ContainsPalette(old))

ShouldUpdate(new, old) ==
  IF ~ContainsPalette(new) /\ ~ContainsPalette(old) THEN FALSE
  ELSE ~(/\ ContainsPalette(new) /\ ContainsPalette(old)
         /\ new.used = old.used /\ old.used > 0 /\ new.colours = old.colours)

\* PreparePalette: the version is for new palettes only.
PreparePalette(new) ==
  /\ version' = IF ShouldUpdate(new, format) /\ ContainsPalette(new) THEN version + 1 ELSE version
  /\ format' = new /\ drawn' = NotDrawn

\* A sample comes with a new palette for the pictures from now on.
NewPalette ==
  /\ version < MaxVersion /\ ContainsPalette(format)
  /\ \E new \in Formats : ContainsPalette(new) /\ new.size = format.size /\ PreparePalette(new)
  /\ UNCHANGED <<negotiated, agreed, committed, decommitting, samples, free, held>>

\* The pin is connected anew, which is when nothing is in use, and the
\* output pin will call SetProperties again.
Reconnect ==
  /\ version < MaxVersion /\ ~committed /\ ~decommitting
  /\ \E new \in Formats : PreparePalette(new)
  /\ negotiated' = FALSE
  /\ UNCHANGED <<agreed, committed, decommitting, samples, free, held>>

\* CheckSizes and SetProperties: a buffer is exactly as long as the picture.
AgreedSize(size) == format.size
SetProperties ==
  /\ ~committed /\ free = DOMAIN samples
  /\ \E size \in Sizes, count \in 1 .. MaxSamples :
       size >= format.size /\ agreed' = [size |-> AgreedSize(size), count |-> count]
  /\ negotiated' = TRUE
  /\ UNCHANGED <<format, committed, decommitting, samples, free, held, version, drawn>>

----------------------------------------------------------------------------
(* Commit and Decommit *)

\* CreateDIB, CreateImageSample: samples are always made with the first
\* version, and in the colours of the format.
NewSample == [size |-> agreed.size, version |-> PALETTE_VERSION, colours |-> format.colours]

\* Alloc, up to n samples. A failure leaves those already made.
Alloc(n) ==
  LET made == {s \in 1 .. n : s \notin DOMAIN samples}
  IN  /\ samples' = [s \in DOMAIN samples \cup made |-> IF s \in made THEN NewSample ELSE samples[s]]
      /\ free' = free \cup made

Commit ==
  /\ ~committed /\ ~decommitting /\ negotiated /\ committed' = TRUE
  /\ Alloc(agreed.count)
  /\ UNCHANGED <<format, negotiated, agreed, decommitting, held, version, drawn>>

CommitFails ==
  /\ Fails /\ ~committed /\ ~decommitting /\ negotiated
  /\ \E n \in 0 .. agreed.count - 1 : n >= Cardinality(DOMAIN samples) /\ Alloc(n)
  /\ UNCHANGED <<format, negotiated, agreed, committed, decommitting, held, version, drawn>>

CommitAgain ==
  /\ ~committed /\ decommitting /\ committed' = TRUE /\ decommitting' = FALSE
  /\ UNCHANGED <<format, negotiated, agreed, samples, free, held, version, drawn>>

\* A slip in Outstanding: the samples are deleted while some are out.
Outstanding_Never(f) == FALSE

\* Free deletes all the samples, and only once they are all back.
Outstanding(f) == f # DOMAIN samples
Decommit ==
  /\ committed /\ committed' = FALSE /\ drawn' = NotDrawn
  /\ decommitting' = Outstanding(free)
  /\ IF Outstanding(free) THEN UNCHANGED <<samples, free>> ELSE samples' = NoSamples /\ free' = {}
  /\ UNCHANGED <<format, negotiated, agreed, held, version>>

----------------------------------------------------------------------------
(* The samples in use *)

GetBuffer ==
  /\ committed /\ \E s \in free : free' = free \ {s} /\ held' = held \cup {s}
  /\ UNCHANGED <<format, negotiated, agreed, committed, decommitting, samples, version, drawn>>

ReleaseBuffer ==
  /\ \E s \in held :
       /\ held' = held \ {s}
       /\ IF decommitting /\ ~Outstanding(free \cup {s})
          THEN samples' = NoSamples /\ free' = {} /\ decommitting' = FALSE /\ drawn' = NotDrawn
          ELSE free' = free \cup {s} /\ UNCHANGED <<samples, decommitting, drawn>>
  /\ UNCHANGED <<format, negotiated, agreed, committed, version>>

\* FastRender: UpdateColourTable copies biClrUsed colours.
UpdateColourTable(sample) == [sample EXCEPT !.version = version, !.colours = IF format.used > 0 THEN format.colours ELSE @]
UpToDate(sample) == IF sample.version < version THEN UpdateColourTable(sample) ELSE sample

FastRender ==
  \E s \in held :
    /\ samples' = [samples EXCEPT ![s] = UpToDate(samples[s])]
    /\ drawn' = [sample |-> s, colours |-> samples'[s].colours]
    /\ UNCHANGED <<format, negotiated, agreed, committed, decommitting, free, held, version>>

Next ==
  \/ NewPalette \/ Reconnect \/ SetProperties \/ Commit \/ CommitFails \/ CommitAgain \/ Decommit
  \/ GetBuffer \/ ReleaseBuffer \/ FastRender

Spec == Init /\ [][Next]_vars

----------------------------------------------------------------------------
\* Every variable has its type, and the sample last drawn still exists.
TypeOK ==
  /\ format \in Formats /\ negotiated \in BOOLEAN /\ agreed.size \in Sizes \cup {0} /\ agreed.count \in 0 .. MaxSamples
  /\ committed \in BOOLEAN /\ decommitting \in BOOLEAN /\ version \in 1 .. MaxVersion + 1
  /\ free \subseteq DOMAIN samples /\ DOMAIN samples \subseteq 1 .. MaxSamples
  /\ drawn # NotDrawn => drawn.sample \in DOMAIN samples

\* A palettised picture is drawn in the colours of the present format, in
\* whichever format its sample was made or last drawn (FastRender and the
\* versions CImagePalette counts).
DrawnInItsColours == drawn # NotDrawn /\ ContainsPalette(format) => drawn.colours = format.colours

\* While the allocator is committed its samples are as many and as large as
\* agreed, and large enough for a picture of the format.
SamplesAsAgreed ==
  committed /\ ~decommitting =>
    /\ DOMAIN samples = 1 .. agreed.count
    /\ \A s \in DOMAIN samples : samples[s].size = agreed.size /\ samples[s].size = format.size

\* A sample that somebody holds exists and is not free, and every other one
\* is free: Free waits for the last of them.
InUseExists == held \cap free = {} /\ held \cup free = DOMAIN samples

\* The assertion of Alloc: nothing is allocated when it begins.
AllocBeginsWithNothing == [][Commit => samples = NoSamples]_vars
=============================================================================
