---------------------------- MODULE ControlVideo ----------------------------
(***************************************************************************)
(* The IBasicVideo side of a video renderer (CBaseControlVideo, winctrl)   *)
(* and the drawing of its pictures (CDrawImage, winutil): a program moves  *)
(* the source and the destination rectangle, asks for a copy of the        *)
(* picture and reads the palette, while the pin is connected, changes its  *)
(* format and disconnects, the window is resized and pictures are drawn.   *)
(* Each method tests that the pin is connected and only then takes the     *)
(* interface lock: a call is a Call, which tests, and a Return, which does *)
(* the rest.                                                               *)
(***************************************************************************)
EXTENDS Integers, Sequences, SequencesExt, FiniteSets

CONSTANTS
  IntMax,       \* a LONG holds -IntMax .. IntMax - 1
  Videos,       \* the formats [width, height, bits, used]
  SourceValues, \* what a program passes for one side of the source
  TargetValues, \* and for one side of the destination
  Windows,      \* the sizes <<width, height>> of the window
  Chunks        \* how many palette entries a program reads at a time

LONGs == -IntMax .. IntMax - 1
Lengths == 0 .. IntMax - 1
ControlVideoAssumption ==
  /\ IntMax \in Nat \ {0}
  /\ Videos \subseteq [width : Lengths \ {0}, height : Lengths \ {0}, bits : Nat, used : Nat]
  /\ SourceValues \cup TargetValues \subseteq LONGs
  /\ Windows \subseteq Lengths \X Lengths /\ Chunks \subseteq Nat

VARIABLES
  video,     \* the format of the connection, or NoVideo
  source,    \* m_SourceRect
  target,    \* m_TargetRect
  stretch,   \* m_bStretch
  shared,    \* m_bUsingImageAllocator: the samples are ours and GDI's
  paused,    \* the state of the filter
  call,      \* the call of the program that passed the test, or Idle
  told,      \* the image size the program was last told, 0 after a change
  copied,    \* the last copy: from where each pixel is, and the bytes written
  drawn,     \* the pixels of the video last drawn
  entries    \* the indices of the palette entries read so far

vars == <<video, source, target, stretch, shared, paused, call, told, copied, drawn, entries>>

----------------------------------------------------------------------------
(* Rectangles, in integers that wrap *)

NoVideo == [width |-> 0, height |-> 0, bits |-> 0, used |-> 0]
Idle == [op |-> "idle", arg |-> <<>>]
Empty == [left |-> 0, top |-> 0, right |-> 0, bottom |-> 0]
Wrap(n) == ((n + IntMax) % (2 * IntMax)) - IntMax
WIDTH(r) == Wrap(r.right - r.left)
HEIGHT(r) == Wrap(r.bottom - r.top)
NoCopy == [pixels |-> <<>>, written |-> 0, buffer |-> 0]
Connected == video # NoVideo
Whole(v) == [left |-> 0, top |-> 0, right |-> v.width, bottom |-> v.height]

\* The rectangle with one side changed: moving keeps the size.
Moved(r, side, n) ==
  CASE side = "left" -> [r EXCEPT !.left = n, !.right = Wrap(n + WIDTH(r))]
    [] side = "width" -> [r EXCEPT !.right = Wrap(r.left + n)]
    [] side = "top" -> [r EXCEPT !.top = n, !.bottom = Wrap(n + HEIGHT(r))]
    [] side = "height" -> [r EXCEPT !.bottom = Wrap(r.top + n)]

Placed(p) == [left |-> p[1], top |-> p[2], right |-> Wrap(p[1] + p[3]), bottom |-> Wrap(p[2] + p[4])]

\* A slip in GoodSource: the left and the top edge may be negative.
GoodSource_Origin(r, width, height) ==
  /\ r.left < r.right /\ r.right <= width
  /\ r.top < r.bottom /\ r.bottom <= height

\* CheckSourceRect: size is what GetVideoSize left in Width and Height.
GoodSource(r, width, height) ==
  /\ 0 <= r.left /\ r.left < r.right /\ r.right <= width
  /\ 0 <= r.top /\ r.top < r.bottom /\ r.bottom <= height

\* CheckTargetRect: the rectangle is in order, and its size is one of a LONG.
GoodTarget(r) ==
  /\ r.left <= r.right /\ r.top <= r.bottom
  /\ WIDTH(r) > 0 /\ HEIGHT(r) > 0

\* SetStretchMode
StretchMode(s, t) == ~(WIDTH(s) = WIDTH(t) /\ HEIGHT(s) = HEIGHT(t))

\* A picture drawn and an image copied are those of the present rectangles.
SetSourceRect(r) ==
  /\ source' = r /\ stretch' = StretchMode(r, target)
  /\ told' = 0 /\ copied' = NoCopy /\ drawn' = {} /\ UNCHANGED target
SetTargetRect(r) ==
  /\ target' = r /\ stretch' = StretchMode(source, r)
  /\ drawn' = {} /\ UNCHANGED <<source, told, copied>>

----------------------------------------------------------------------------
(* A bottom-up bitmap: its lines are stored from the last row upwards *)

WidthBytes(bits, width) == ((width * bits + 31) \div 32) * 4
HeaderBytes(v) == 40 + 4 * v.used
ImageBytes(v, r) == HeaderBytes(v) + WidthBytes(v.bits, WIDTH(r)) * HEIGHT(r)
RowOfLine(height, line) == height - 1 - line
Pixels(r) == (r.left .. r.right - 1) \X (r.top .. r.bottom - 1)

\* CopyImage: pixel <<x, y>> of the copy comes from which pixel of the video.
LinesToSkip(v, r) == v.height - (r.top + HEIGHT(r))
CopyOf(v, r) ==
  [p \in (0 .. WIDTH(r) - 1) \X (0 .. HEIGHT(r) - 1) |->
     <<r.left + p[1],
       RowOfLine(v.height, LinesToSkip(v, r) + RowOfLine(HEIGHT(r), p[2]))>>]

\* The lines drawn by SlowRender, which counts them from the bottom, ...
Slow(v, s, width, height) ==
  LET top == v.height - s.bottom
  IN  {<<x, RowOfLine(v.height, line)>> : x \in s.left .. s.left + width - 1, line \in top .. top + height - 1}

\* ... and those of FastRender, where GDI counts from the top. Without
\* stretching both draw as much as the destination holds.
Fast(s, width, height) == (s.left .. s.left + width - 1) \X (s.top .. s.top + height - 1)

Rendered(v, s, t, fast, stretched) ==
  LET width == IF stretched THEN WIDTH(s) ELSE WIDTH(t)
      height == IF stretched THEN HEIGHT(s) ELSE HEIGHT(t)
  IN  IF fast THEN Fast(s, width, height) ELSE Slow(v, s, width, height)

----------------------------------------------------------------------------
Init ==
  /\ video = NoVideo /\ source = Empty /\ target = Empty /\ stretch = FALSE
  /\ shared = FALSE /\ paused = FALSE /\ call = Idle /\ told = 0
  /\ copied = NoCopy /\ drawn = {} /\ entries = {}

Unmoved == UNCHANGED <<source, target, stretch>>
Unread == UNCHANGED <<told, copied, drawn>>

(* The derived renderer, external to this code, keeps its format and both  *)
(* rectangles: a connection and a change of format make the whole video    *)
(* the source.                                                             *)
NewVideo == \E v \in Videos : video' = v /\ SetSourceRect(Whole(v)) /\ entries' = {}
Connect == ~Connected /\ NewVideo /\ shared' \in BOOLEAN /\ UNCHANGED <<paused, call>>
NewFormat == Connected /\ NewVideo /\ UNCHANGED <<shared, paused, call>>

Disconnect ==
  /\ Connected /\ video' = NoVideo /\ paused' = FALSE
  /\ told' = 0 /\ copied' = NoCopy /\ drawn' = {} /\ entries' = {}
  /\ Unmoved /\ UNCHANGED <<shared, call>>

ChangeState ==
  /\ Connected /\ paused' = ~paused
  /\ Unmoved /\ Unread /\ UNCHANGED <<video, shared, call, entries>>

\* The window was resized; it may now be empty.
Resize ==
  /\ \E w \in Windows : SetTargetRect(Placed(<<0, 0, w[1], w[2]>>))
  /\ UNCHANGED <<video, shared, paused, call, entries>>

\* DrawImage, with the picture's samples shared with GDI or not.
DrawImage ==
  /\ Connected /\ drawn' = Rendered(video, source, target, shared, stretch)
  /\ Unmoved /\ UNCHANGED <<video, shared, paused, call, told, copied, entries>>

----------------------------------------------------------------------------
(* The calls of the program *)

Sides == {"left", "width", "top", "height"}
Positions(values) == {<<l, t, n, n>> : l \in values, t \in values, n \in values}

Requests ==
  [op : {"source"}, arg : Sides \X SourceValues]
    \cup [op : {"target"}, arg : Sides \X TargetValues]
    \cup [op : {"source position"}, arg : Positions(SourceValues)]
    \cup [op : {"target position"}, arg : Positions(TargetValues)]
    \cup [op : {"default source", "size"}, arg : {<<>>}]
    \cup [op : {"image"}, arg : {<<0>>, <<told>>}]
    \cup [op : {"palette"}, arg : {<<n>> : n \in Chunks}]

\* CheckConnected, before the lock
Call ==
  /\ call = Idle /\ Connected /\ call' \in Requests
  /\ Unmoved /\ Unread /\ UNCHANGED <<video, shared, paused, entries>>

\* What GetVideoSize leaves in Width and Height: without a connection it
\* fails, and they are whatever was there.
VideoSizes == IF Connected THEN {<<video.width, video.height>>} ELSE {<<0, 0>>, <<IntMax - 1, IntMax - 1>>}

Return == call' = Idle /\ UNCHANGED <<video, shared, paused>>

PutSource(r) ==
  /\ Return /\ UNCHANGED entries
  /\ \E size \in VideoSizes :
       IF GoodSource(r, size[1], size[2]) THEN SetSourceRect(r) ELSE Unmoved /\ Unread

PutTarget(r) ==
  /\ Return /\ UNCHANGED entries
  /\ IF GoodTarget(r) THEN SetTargetRect(r) ELSE Unmoved /\ Unread

PutSourceSide == call.op = "source" /\ PutSource(Moved(source, call.arg[1], call.arg[2]))
PutTargetSide == call.op = "target" /\ PutTarget(Moved(target, call.arg[1], call.arg[2]))
SetSourcePosition == call.op = "source position" /\ PutSource(Placed(call.arg))
SetDestinationPosition == call.op = "target position" /\ PutTarget(Placed(call.arg))

SetDefaultSourcePosition ==
  /\ call.op = "default source" /\ Return /\ UNCHANGED entries
  /\ SetSourceRect(Whole(video))

\* GetCurrentImage without a buffer: the size of the image
GetImageSize ==
  /\ call.op = "size" /\ Return /\ Unmoved /\ UNCHANGED <<copied, drawn, entries>>
  /\ told' = IF Connected THEN ImageBytes(video, source) ELSE told

\* and with one, while paused: GetStaticImage copies it with CopyImage.
Fits(bytes) == bytes <= call.arg[1]
CopyImage ==
  /\ call.op = "image" /\ Return /\ Unmoved /\ UNCHANGED <<told, drawn, entries>>
  /\ copied' = IF Connected /\ paused /\ Fits(ImageBytes(video, source))
               THEN [pixels |-> CopyOf(video, source), buffer |-> call.arg[1], written |-> ImageBytes(video, source)]
               ELSE NoCopy

\* GetVideoPaletteEntries from where the program has got to
Retrieved(used, start, n) == IF start >= used THEN 0 ELSE IF used - start < n THEN used - start ELSE n
GetVideoPaletteEntries ==
  /\ call.op = "palette" /\ Return /\ Unmoved /\ Unread
  /\ LET start == Cardinality(entries)
     IN  entries' = entries \cup (start .. start + Retrieved(video.used, start, call.arg[1]) - 1)

Next ==
  \/ Connect \/ NewFormat \/ Disconnect \/ ChangeState \/ Resize \/ DrawImage \/ Call
  \/ PutSourceSide \/ PutTargetSide \/ SetSourcePosition \/ SetDestinationPosition
  \/ SetDefaultSourcePosition \/ GetImageSize \/ CopyImage \/ GetVideoPaletteEntries

Spec == Init /\ [][Next]_vars

----------------------------------------------------------------------------
\* Every variable has its type, and no size of a rectangle has wrapped: a
\* destination as wide as a LONG allows is refused (CheckTargetRect).
TypeOK ==
  /\ video \in Videos \cup {NoVideo} /\ told \in Nat
  /\ call.op \in {"idle", "source", "target", "source position", "target position", "default source",
                  "size", "image", "palette"}
  /\ stretch \in BOOLEAN /\ shared \in BOOLEAN /\ paused \in BOOLEAN
  /\ \A r \in {source, target} :
       /\ \A n \in {r.left, r.top, r.right, r.bottom} : n \in LONGs
       /\ r.right - r.left \in Lengths /\ r.bottom - r.top \in Lengths

\* Whatever sides a program moves, and whenever the format changes or the
\* pin is disconnected below its call, the source is a part of the video,
\* with at least one pixel: CopyImage and GDI touch nothing else.
SourceInVideo == Connected => Pixels(source) # {} /\ Pixels(source) \subseteq Pixels(Whole(video))

\* A picture that is drawn shows the pixels of the source, all of them and
\* no others, whichever of the two rectangles changed last, and with either
\* kind of sample: SetStretchMode tells when the destination has no room.
DrawsTheSource == drawn # {} => drawn = Pixels(source)

\* A copy of the image is the right way up, and it is not longer than the
\* buffer, though the source may have changed since its size was asked.
CopyIsTheSource ==
  copied # NoCopy =>
    /\ \A p \in DOMAIN copied.pixels : copied.pixels[p] = <<source.left + p[1], source.top + p[2]>>
    /\ copied.written <= copied.buffer

\* The palette entries given to a program are entries of the format.
EntriesInPalette == entries \subseteq 0 .. video.used - 1
=============================================================================
