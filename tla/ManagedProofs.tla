---------------------------- MODULE ManagedProofs ----------------------------
(***************************************************************************)
(* Proofs about the managed side.  Cross, for any number of threads,       *)
(* crosses and other shapes: a program that keeps to the protocol never    *)
(* sees half of a cross nor uses a NULL entry of the map, although a cross *)
(* is drawn by two calls.  CrossMx, for any rings; SampleApp; and all of   *)
(* MCManaged's components side by side.                                    *)
(***************************************************************************)
EXTENDS MCManaged, FiniteSetTheorems, FunctionTheorems, SequenceTheorems, TLAPS

\* Each line has an id of its own, as the constructor's callers give them.
Distinct ==
  \A c, d \in Crosses : \A i, j \in 1 .. 2 : m_id[c][i] = m_id[d][j] => c = d /\ i = j

One(c)    == m_overlays[m_id[c][1]]
Two(c)    == m_overlays[m_id[c][2]]
Hidden(e) == [e EXCEPT !.visible = FALSE]
Calls     == {Idle} \cup {Draws(c, p) : c \in Crosses, p \in Places} \cup {Removes(c) : c \in Crosses}

\* What a map looks like that has no NULL entry.
NotNull    == [type : Types \cup {"absent"}, visible : BOOLEAN, at : Places]
Sound(map) == map \in [Ids -> NotNull]

\* What the crosses rely on. One in the middle of a call has its first line
\* already as the call will leave it, and nobody else is in the middle of it.
Drawing(t) == busy[t].op = "Draw" /\ m_dsShowPlayer =>
                One(busy[t].cross) = Shape("line", busy[t].at)
Removing(t) == busy[t].op = "Remove" =>
                 /\ IsShape(Two(busy[t].cross)) /\ One(busy[t].cross) = Hidden(Two(busy[t].cross))
OneEach == \A t, u \in Threads :
             busy[t] # Idle /\ busy[u] # Idle /\ busy[t].cross = busy[u].cross => t = u

\* The inductive invariant: a thread inside a call has drawn or hidden what its
\* step says, no two are in calls of one cross, and then every cross is whole.
CrossInv ==
  /\ Sound(m_overlays) /\ crashed = FALSE /\ busy \in [Threads -> Calls]
  /\ ~m_dsShowPlayer => m_overlays = NoShapes
  /\ OneEach /\ CrossIsWhole
  /\ \A t \in Threads : Drawing(t) /\ Removing(t)

----------------------------------------------------------------------------
(* The operations on the map *)

\* A call that has changed at most one entry
Touched(id, e) ==
  /\ Sound(m_overlays') /\ crashed' = FALSE
  /\ UNCHANGED m_dsShowPlayer
  /\ \A j \in Ids \ {id} : m_overlays'[j] = m_overlays[j]
  /\ IF m_dsShowPlayer THEN m_overlays'[id] = e ELSE m_overlays' = m_overlays

\* A map without NULL entries has none for any call to stumble over.
LEMMA NoNulls ==
  ASSUME Sound(m_overlays)
  PROVE  ~HasNullEntry /\ \A id \in Ids : m_overlays[id].type # "null"
BY DEF Sound, HasNullEntry, NotNull, Types

\* Adding a shape puts it where it is asked for, if there is a player.
LEMMA AddTouches ==
  ASSUME Sound(m_overlays), crashed = FALSE, NEW ty \in Types, NEW id \in Ids, NEW p \in Places,
         AddShape(ty, id, p)
  PROVE  Touched(id, Shape(ty, p))
<1>1. Shape(ty, p) \in NotNull
  BY DEF Shape, NotNull
<1>2. CASE m_dsShowPlayer
  <2>1. SetOverlays([m_overlays EXCEPT ![id] = Shape(ty, p)])
    BY <1>2, NoNulls DEF AddShape, OnPlayer
  <2>. QED
    BY <1>1, <1>2, <2>1 DEF SetOverlays, Touched, Sound, session
<1>3. CASE ~m_dsShowPlayer
  BY <1>3 DEF AddShape, OnPlayer, overlays, session, Touched
<1>. QED
  BY <1>2, <1>3

\* Hiding a shape that is in the map hides it and nothing else.
LEMMA HideTouches ==
  ASSUME Sound(m_overlays), crashed = FALSE, NEW id \in Ids, IsShape(m_overlays[id]),
         Visible(id, FALSE)
  PROVE  Touched(id, Hidden(m_overlays[id]))
<1>3. Hidden(m_overlays[id]) \in NotNull
  BY DEF NotNull, Hidden, Sound
<1>4. CASE m_dsShowPlayer
  <2>1. SetOverlays([m_overlays EXCEPT ![id] = Hidden(m_overlays[id])])
    BY <1>4 DEF Visible, OnPlayer, Hidden
  <2>. QED
    BY <1>3, <1>4, <2>1 DEF SetOverlays, Touched, Sound, session
<1>5. CASE ~m_dsShowPlayer
  BY <1>5 DEF Visible, OnPlayer, overlays, session, Touched
<1>. QED
  BY <1>4, <1>5

\* ApplyOverlay reads the map and leaves it alone, also when it fails.
LEMMA ApplyReads ==
  ASSUME Sound(m_overlays), ApplyOverlay
  PROVE  UNCHANGED <<m_overlays, m_dsShowPlayer, crashed>>
BY NoNulls DEF ApplyOverlay, OnPlayer, Painted, overlays, session

\* Clear hides every shape.
LEMMA ClearHides ==
  ASSUME Sound(m_overlays), crashed = FALSE, ClearAll
  PROVE  /\ Sound(m_overlays') /\ UNCHANGED <<m_dsShowPlayer, crashed>>
         /\ \/ m_overlays' = [id \in Ids |-> Hidden(m_overlays[id])] /\ m_dsShowPlayer
            \/ m_overlays' = m_overlays
<1>1. CASE m_dsShowPlayer
  <2>1. SetOverlays([id \in Ids |-> Hidden(m_overlays[id])])
    BY <1>1, NoNulls DEF ClearAll, OnPlayer, Hidden
  <2>2. \A id \in Ids : Hidden(m_overlays[id]) \in NotNull
    BY DEF Sound, Hidden, NotNull
  <2>. QED
    BY <1>1, <2>1, <2>2 DEF SetOverlays, Sound, session
<1>2. CASE ~m_dsShowPlayer
  BY <1>2 DEF ClearAll, OnPlayer, overlays, session
<1>. QED
  BY <1>1, <1>2

----------------------------------------------------------------------------
(* The calls of the program *)

\* A thread in a call is in one of the two, with a cross and perhaps a place.
LEMMA InCall ==
  ASSUME CrossInv, NEW t \in Threads, busy[t] # Idle
  PROVE  /\ busy[t].cross \in Crosses /\ Busy(busy[t].cross)
         /\ \/ busy[t].op = "Draw" /\ busy[t].at \in Places
            \/ busy[t].op = "Remove"
BY DEF CrossInv, Calls, Draws, Removes, Busy

\* The two ids of a cross are ids of shapes, and different.
LEMMA LinesApart ==
  ASSUME Distinct, NEW c \in Crosses
  PROVE  m_id[c][1] \in Ids /\ m_id[c][2] \in Ids /\ m_id[c][1] # m_id[c][2]
BY CrossAssumption DEF Distinct

\* A first call touches the first line of a cross nobody is in the middle of,
\* and puts its thread into the middle of it.
LEMMA FirstCall ==
  ASSUME CrossInv, Distinct, NEW t \in Threads, NEW c \in Crosses, NEW e, NEW call \in Calls,
         busy[t] = Idle, ~Busy(c), call # Idle, call.cross = c,
         Touched(m_id[c][1], e), busy' = [busy EXCEPT ![t] = call],
         call.op = "Draw" => e = Shape("line", call.at),
         call.op = "Remove" => m_dsShowPlayer /\ IsShape(Two(c)) /\ e = Hidden(Two(c))
  PROVE  CrossInv'
<1>. USE CrossAssumption DEF CrossInv
<1>1. \A d \in Crosses \ {c} : One(d)' = One(d) /\ Two(d)' = Two(d)
  BY DEF Touched, Distinct, One, Two
<1>2. Two(c)' = Two(c) /\ (m_dsShowPlayer => One(c)' = e)
  BY DEF Touched, Distinct, One, Two
<1>3. busy' \in [Threads -> Calls] /\ busy'[t] = call /\ \A u \in Threads \ {t} : busy'[u] = busy[u]
  OBVIOUS
<1>4. \A u \in Threads \ {t} : busy[u] # Idle => busy[u].cross \in Crosses \ {c}
  BY InCall DEF Busy
<1>5. OneEach'
  BY <1>3, <1>4 DEF OneEach
<1>6. ASSUME NEW d \in Crosses, ~Busy(d)' PROVE One(d)' = Two(d)'
  <2>1. d # c /\ ~Busy(d)
    BY <1>3, <1>6 DEF Busy
  <2>. QED
    BY <1>1, <2>1 DEF CrossIsWhole, One, Two
<1>7. ASSUME NEW u \in Threads PROVE Drawing(u)' /\ Removing(u)'
  <2>1. CASE u = t
    BY <1>2, <1>3, <2>1 DEF Drawing, Removing, Touched
  <2>2. CASE u # t /\ busy[u] # Idle
    BY <1>1, <1>3, <1>4, <2>2 DEF Drawing, Removing, Touched
  <2>3. CASE u # t /\ busy[u] = Idle
    BY <1>3, <2>3 DEF Drawing, Removing, Idle
  <2>. QED
    BY <2>1, <2>2, <2>3
<1>. QED
  BY <1>3, <1>5, <1>6, <1>7 DEF Touched, CrossIsWhole, One, Two

\* The second call touches the other line, which makes the cross whole.
LEMMA SecondCall ==
  ASSUME CrossInv, Distinct, NEW t \in Threads, NEW e,
         busy[t] # Idle, busy' = [busy EXCEPT ![t] = Idle],
         Touched(m_id[busy[t].cross][2], e), m_dsShowPlayer => e = One(busy[t].cross)
  PROVE  CrossInv'
<1>. USE CrossAssumption DEF CrossInv
<1>0. PICK c \in Crosses : c = busy[t].cross
  BY InCall
<1>1. \A d \in Crosses \ {c} : One(d)' = One(d) /\ Two(d)' = Two(d)
  BY <1>0 DEF Touched, Distinct, One, Two
<1>2. One(c)' = One(c) /\ (m_dsShowPlayer => Two(c)' = One(c))
  BY <1>0, LinesApart DEF Touched, One, Two
<1>3. busy' \in [Threads -> Calls] /\ busy'[t] = Idle /\ \A u \in Threads \ {t} : busy'[u] = busy[u]
  BY DEF Calls
<1>4. \A u \in Threads \ {t} : busy[u] # Idle => busy[u].cross \in Crosses \ {c}
  BY <1>0, InCall DEF OneEach
<1>5. OneEach'
  BY <1>3 DEF OneEach
<1>6. ASSUME NEW d \in Crosses, ~Busy(d)' PROVE One(d)' = Two(d)'
  <2>1. CASE d = c /\ m_dsShowPlayer
    BY <1>2, <2>1
  <2>2. CASE ~m_dsShowPlayer
    BY <2>2, LinesApart DEF Touched, NoShapes, One, Two
  <2>3. CASE d # c
    <3>1. ~Busy(d)
      BY <1>0, <1>3, <1>6, <2>3 DEF Busy
    <3>. QED
      BY <1>1, <2>3, <3>1 DEF CrossIsWhole, One, Two
  <2>. QED
    BY <2>1, <2>2, <2>3
<1>7. ASSUME NEW u \in Threads PROVE Drawing(u)' /\ Removing(u)'
  <2>1. CASE busy'[u] = Idle
    BY <2>1 DEF Drawing, Removing, Idle
  <2>2. CASE u # t /\ busy[u] # Idle
    BY <1>1, <1>3, <1>4, <2>2 DEF Drawing, Removing, Touched
  <2>. QED
    BY <1>3, <2>1, <2>2
<1>. QED
  BY <1>3, <1>5, <1>6, <1>7 DEF Touched, CrossIsWhole, One, Two

\* A call on another shape touches no line.
LEMMA OtherCall ==
  ASSUME CrossInv, NEW id \in Ids \ LineIds, NEW e, Touched(id, e), UNCHANGED busy
  PROVE  CrossInv'
<1>. USE CrossAssumption DEF CrossInv
<1>1. \A d \in Crosses : One(d)' = One(d) /\ Two(d)' = Two(d)
  BY DEF Touched, LineIds, One, Two
<1>2. \A u \in Threads : Drawing(u)' /\ Removing(u)'
  <2>1. ASSUME NEW u \in Threads, busy[u] # Idle PROVE Drawing(u)' /\ Removing(u)'
    BY <1>1, <2>1, InCall DEF Drawing, Removing, Touched
  <2>2. ASSUME NEW u \in Threads, busy[u] = Idle PROVE Drawing(u)' /\ Removing(u)'
    BY <2>2 DEF Drawing, Removing, Idle
  <2>. QED
    BY <2>1, <2>2
<1>3. CrossIsWhole'
  BY <1>1 DEF CrossIsWhole, One, Two, Busy
<1>. QED
  BY <1>2, <1>3 DEF Touched, OneEach

\* What changes all shapes alike, while no thread is in a call.
LEMMA WhenAlone ==
  ASSUME CrossInv, Alone, UNCHANGED busy, crashed' = FALSE, Sound(m_overlays'),
         ~m_dsShowPlayer' => m_overlays' = NoShapes,
         \A i, j \in Ids : m_overlays[i] = m_overlays[j] => m_overlays'[i] = m_overlays'[j]
  PROVE  CrossInv'
<1>. USE CrossAssumption DEF CrossInv, Alone
<1>1. CrossIsWhole'
  BY DEF CrossIsWhole, Busy
<1>2. OneEach' /\ \A t \in Threads : Drawing(t)' /\ Removing(t)'
  BY DEF OneEach, Drawing, Removing, Idle
<1>. QED
  BY <1>1, <1>2

----------------------------------------------------------------------------
\* Every step of a careful program keeps the invariant.
LEMMA CarefulStep ==
  ASSUME Careful = TRUE, Distinct, CrossInv, NEW t \in Threads, Begin(t) \/ Finish(t)
  PROVE  CrossInv'
<1>. USE CrossAssumption, OverlayAssumption
<1>0. Sound(m_overlays) /\ crashed = FALSE /\ busy \in [Threads -> Calls]
  BY DEF CrossInv
<1>1. ASSUME NEW c \in Crosses, NEW p \in Places, Draw(t, c, p) PROVE CrossInv'
  <2>1. Touched(m_id[c][1], Shape("line", p))
    BY <1>0, <1>1, AddTouches, LinesApart DEF Draw, AddLine, Types
  <2>2. Draws(c, p) \in Calls /\ Draws(c, p) # Idle
    BY DEF Calls, Draws, Idle
  <2>3. Draws(c, p).cross = c /\ Draws(c, p).op = "Draw" /\ Draws(c, p).at = p
    BY DEF Draws
  <2>4. busy[t] = Idle /\ ~Busy(c) /\ busy' = [busy EXCEPT ![t] = Draws(c, p)]
    BY <1>1 DEF Draw, Ready, MayUse
  <2>. QED
    BY <2>1, <2>2, <2>3, <2>4, FirstCall
<1>2. ASSUME NEW c \in Crosses, Remove(t, c) PROVE CrossInv'
  <2>1. IsShape(One(c)) /\ IsShape(Two(c)) /\ busy[t] = Idle /\ ~Busy(c)
    BY <1>2 DEF Remove, Ready, MayUse, MayRemove, One, Two
  <2>2. One(c) = Two(c)
    BY <2>1 DEF CrossInv, CrossIsWhole, One, Two
  <2>3. m_dsShowPlayer
    BY <2>1, LinesApart DEF CrossInv, NoShapes, IsShape, Types, Absent, One
  <2>4. PICK e : e = Hidden(Two(c))
    OBVIOUS
  <2>5. Touched(m_id[c][1], e)
    BY <1>0, <1>2, <2>1, <2>2, <2>4, HideTouches, LinesApart DEF Remove, One, Two
  <2>6. /\ Removes(c) \in Calls /\ Removes(c) # Idle
        /\ Removes(c).cross = c /\ Removes(c).op = "Remove"
    BY DEF Calls, Removes, Idle
  <2>7. busy' = [busy EXCEPT ![t] = Removes(c)]
    BY <1>2 DEF Remove
  <2>. QED
    BY <2>1, <2>3, <2>4, <2>5, <2>6, <2>7, FirstCall
<1>3. CASE DrawSecond(t)
  <2>1. busy[t] # Idle /\ busy' = [busy EXCEPT ![t] = Idle] /\ busy[t].op = "Draw"
    BY <1>3 DEF DrawSecond, Idle
  <2>2. busy[t].cross \in Crosses /\ busy[t].at \in Places
    BY <2>1, InCall
  <2>3. PICK e : e = Shape("line", busy[t].at)
    OBVIOUS
  <2>4. Touched(m_id[busy[t].cross][2], e)
    BY <1>0, <1>3, <2>2, <2>3, AddTouches, LinesApart DEF DrawSecond, AddLine, Types
  <2>5. m_dsShowPlayer => e = One(busy[t].cross)
    BY <2>1, <2>3 DEF CrossInv, Drawing
  <2>. QED
    BY <2>1, <2>4, <2>5, SecondCall
<1>4. CASE RemoveSecond(t)
  <2>1. busy[t] # Idle /\ busy' = [busy EXCEPT ![t] = Idle] /\ busy[t].op = "Remove"
    BY <1>4 DEF RemoveSecond, Idle
  <2>2. busy[t].cross \in Crosses /\ IsShape(Two(busy[t].cross))
        /\ One(busy[t].cross) = Hidden(Two(busy[t].cross))
    BY <2>1, InCall DEF CrossInv, Removing
  <2>3. PICK e : e = Hidden(Two(busy[t].cross))
    OBVIOUS
  <2>4. Touched(m_id[busy[t].cross][2], e)
    BY <1>0, <1>4, <2>2, <2>3, HideTouches, LinesApart DEF RemoveSecond, Two
  <2>. QED
    BY <2>1, <2>2, <2>3, <2>4, SecondCall
<1>5. ASSUME NEW c \in Crosses, Clear(t, c) PROVE CrossInv'
  <2>1. Alone /\ UNCHANGED busy /\ ClearAll
    BY <1>5 DEF Clear
  <2>2. Sound(m_overlays') /\ UNCHANGED <<m_dsShowPlayer, crashed>>
    BY <1>0, <2>1, ClearHides
  <2>3. \A i, j \in Ids : m_overlays[i] = m_overlays[j] => m_overlays'[i] = m_overlays'[j]
    BY <1>0, <2>1, ClearHides
  <2>4. ~m_dsShowPlayer' => m_overlays' = NoShapes
    BY <1>0, <2>1, <2>2, ClearHides DEF CrossInv
  <2>. QED
    BY <1>0, <2>1, <2>2, <2>3, <2>4, WhenAlone
<1>6. ASSUME NEW id \in Ids, AddOther(t, id) PROVE CrossInv'
  <2>1. id \in Ids \ LineIds /\ UNCHANGED busy
    BY <1>6 DEF AddOther
  <2>2. PICK ty \in Types : AddShape(ty, id, Origin)
    BY <1>6 DEF AddOther, AddCircle, AddTextOverlay, AddTextOverlay2, Types
  <2>3. Touched(id, Shape(ty, Origin))
    BY <1>0, <2>2, AddTouches
  <2>. QED
    BY <2>1, <2>3, OtherCall
<1>7. CASE Show(t)
  <2>1. UNCHANGED <<m_overlays, m_dsShowPlayer, crashed, busy>>
    BY <1>0, <1>7, ApplyReads DEF Show
  <2>. QED
    BY <2>1 DEF CrossInv, OneEach, CrossIsWhole, Drawing, Removing, Busy, One, Two
<1>8. CASE Session(t)
  <2>1. Alone /\ UNCHANGED <<busy, crashed>>
    BY <1>8 DEF Session, InitilizeRSTPSource, SelectDecoder, Close
  <2>2. \/ m_dsShowPlayer' = TRUE /\ UNCHANGED m_overlays
        \/ m_overlays' = NoShapes
    BY <1>8 DEF Session, InitilizeRSTPSource, SelectDecoder, Close
  <2>3. Sound(NoShapes)
    BY DEF Sound, NoShapes, Absent, NotNull
  <2>. QED
    BY <1>0, <2>1, <2>2, <2>3, WhenAlone DEF NoShapes
<1>. QED
  BY <1>1, <1>2, <1>3, <1>4, <1>5, <1>6, <1>7, <1>8 DEF Begin, Finish

\* The invariant holds of every careful program.
LEMMA CrossStarts == Init => CrossInv
<1>. SUFFICES ASSUME Init PROVE CrossInv
  OBVIOUS
<1>. USE DEF Init, NoPlayer
<1>1. Sound(NoShapes)
  BY OverlayAssumption DEF Sound, NoShapes, Absent, NotNull
<1>2. CrossIsWhole
  BY CrossAssumption DEF CrossIsWhole, NoShapes
<1>3. OneEach /\ \A t \in Threads : Drawing(t) /\ Removing(t)
  BY DEF OneEach, Drawing, Removing, Idle
<1>4. busy \in [Threads -> Calls]
  BY DEF Calls
<1>. QED
  BY <1>1, <1>2, <1>3, <1>4 DEF CrossInv

LEMMA CrossStep ==
  ASSUME Careful = TRUE, Distinct
  PROVE  CrossInv /\ [Next]_vars => CrossInv'
<1>1. ASSUME CrossInv, UNCHANGED vars PROVE CrossInv'
  BY <1>1 DEF vars, overlays, session, CrossInv, OneEach, CrossIsWhole, Drawing, Removing, Busy, One, Two
<1>. QED
  BY <1>1, CarefulStep DEF Next

LEMMA CrossInvariant ==
  ASSUME Careful = TRUE, Distinct
  PROVE  Spec => []CrossInv
<1>1. CrossInv /\ [Next]_vars => CrossInv'
  BY CrossStep
<1>. QED
  BY <1>1, CrossStarts, PTL DEF Spec

LEMMA CrossInvImplies == CrossInv => CrossIsWhole /\ NoNullEntry
BY NoNulls DEF CrossInv, NoNullEntry

\* However many threads draw and remove crosses, a careful program finds both
\* lines of a cross alike whenever nobody is in the middle of one of its two
\* calls, and never uses a NULL entry.
THEOREM CrossesAreWhole ==
  ASSUME Careful = TRUE, Distinct
  PROVE  Spec => [](CrossIsWhole /\ NoNullEntry)
BY CrossInvariant, CrossInvImplies, PTL

\* What a step hands to the mixer has idle crosses whole.
LEMMA PictureStep ==
  CrossInv /\ [Next]_vars => [PictureShowsWhole]_vars
<1>. SUFFICES ASSUME CrossInv, NEW t \in Threads, Begin(t) \/ Finish(t),
                     NEW c \in Crosses, ~Busy(c), picture' # picture
              PROVE  picture'[m_id[c][1]] = picture'[m_id[c][2]]
  BY DEF Next, PictureShowsWhole
<1>1. picture' = NoShapes \/ picture' = Visibles
  BY DEF Begin, Finish, Draw, Remove, Clear, AddOther, Show, Session, DrawSecond,
         RemoveSecond, AddLine, AddCircle, AddTextOverlay, AddTextOverlay2, AddShape,
         Visible, ClearAll, ApplyOverlay, Painted, OnPlayer, SetOverlays,
         DereferencesNull, overlays, InitilizeRSTPSource, SelectDecoder, Close
<1>2. m_overlays[m_id[c][1]] = m_overlays[m_id[c][2]]
  BY DEF CrossInv, CrossIsWhole
<1>. QED
  BY <1>1, <1>2, CrossAssumption DEF NoShapes, Visibles

\* What ApplyOverlay hands to the mixer shows idle crosses whole, in a careful
\* program: no thread's half of a cross gets into another thread's picture.
THEOREM PicturesAreWhole ==
  ASSUME Careful = TRUE, Distinct
  PROVE  Spec => [][PictureShowsWhole]_vars
BY CrossInvariant, PictureStep, PTL DEF Spec

----------------------------------------------------------------------------
(* The handles of GDI *)

\* The handles are counted, and so are the failures.
HandleInv ==
  /\ gdi \in [{"windowDC", "memoryDC", "bitmap"} -> Nat] /\ failures \in Nat
  /\ HandlesComeBack

\* Only a failing call of ApplyOverlay loses handles, at most one of each kind.
LEMMA HandlesLost ==
  ASSUME NEW t \in Threads, Begin(t) \/ Finish(t)
  PROVE  \/ UNCHANGED <<gdi, failures>>
         \/ \E c \in GdiMayFail : Lose(LeftBy[c]) /\ failures' = failures + 1
<1>1. CASE Show(t)
  BY <1>1 DEF Show, ApplyOverlay, Painted, OnPlayer, DereferencesNull, overlays
<1>2. CASE ~Show(t)
  BY <1>2
     DEF Begin, Finish, Draw, Remove, Clear, AddOther, Session, DrawSecond, RemoveSecond,
         AddLine, AddCircle, AddTextOverlay, AddTextOverlay2, AddShape, Visible, ClearAll,
         OnPlayer, SetOverlays, DereferencesNull, overlays, InitilizeRSTPSource,
         SelectDecoder, Close
<1>. QED
  BY <1>1, <1>2

\* No failing call leaves more than one handle of a kind behind.
LEMMA LeftByOne ==
  \A c \in GdiCalls, h \in {"windowDC", "memoryDC", "bitmap"} : LeftBy[c][h] \in {0, 1}
<1>1. \A w, m, b \in {0, 1} : \A h \in {"windowDC", "memoryDC", "bitmap"} :
        Handles(w, m, b)[h] \in {0, 1}
  BY DEF Handles
<1>2. ASSUME NEW c \in GdiCalls
      PROVE  \E w, m, b \in {0, 1} : LeftBy[c] = Handles(w, m, b)
  BY DEF LeftBy, GdiCalls, NoHandles
<1>. QED
  BY <1>1, <1>2

LEMMA HandlesStart == Init => HandleInv
BY DEF Init, NoPlayer, NoHandles, Handles, HandleInv, HandlesComeBack

LEMMA HandleStep == HandleInv /\ [Next]_vars => HandleInv'
<1>1. ASSUME HandleInv, UNCHANGED <<gdi, failures>> PROVE HandleInv'
  BY <1>1 DEF HandleInv, HandlesComeBack
<1>2. ASSUME HandleInv, NEW c \in GdiMayFail, Lose(LeftBy[c]), failures' = failures + 1
      PROVE  HandleInv'
  <2>1. \A h \in {"windowDC", "memoryDC", "bitmap"} : LeftBy[c][h] \in {0, 1}
    BY <1>2, OverlayAssumption, LeftByOne
  <2>2. gdi' = [h \in {"windowDC", "memoryDC", "bitmap"} |-> gdi[h] + LeftBy[c][h]]
    BY <1>2 DEF Lose, HandleInv
  <2>. QED
    BY <1>2, <2>1, <2>2 DEF HandleInv, HandlesComeBack
<1>3. UNCHANGED vars => UNCHANGED <<gdi, failures>>
  BY DEF vars, overlays
<1>. QED
  BY <1>1, <1>2, <1>3, HandlesLost DEF Next

\* Whatever the threads do, and whether they keep to the protocol or not,
\* ApplyOverlay gives back every handle it takes except when it fails, and then
\* it loses no more than one of each kind.
THEOREM HandlesAreGivenBack == Spec => []HandlesComeBack
<1>1. HandleInv => HandlesComeBack
  BY DEF HandleInv
<1>. QED
  BY <1>1, HandlesStart, HandleStep, PTL DEF Spec

----------------------------------------------------------------------------
(* The types of Overlays and Cross *)

\* The calls of ApplyOverlay lose numbers of handles.
LEMMA LoseTyped ==
  ASSUME OverlayTypeOK, NEW c \in GdiCalls, Lose(LeftBy[c])
  PROVE  gdi' \in [{"windowDC", "memoryDC", "bitmap"} -> Nat]
<1>1. \A h \in {"windowDC", "memoryDC", "bitmap"} : LeftBy[c][h] \in Nat
  BY LeftByOne
<1>2. gdi' = [h \in {"windowDC", "memoryDC", "bitmap"} |-> gdi[h] + LeftBy[c][h]]
  BY DEF Lose, OverlayTypeOK
<1>. QED
  BY <1>1, <1>2 DEF OverlayTypeOK

\* What is hidden is an entry still, and a shape is no NULL pointer.
LEMMA HiddenTyped ==
  \A e \in Entries : /\ [e EXCEPT !.visible = FALSE] \in Entries
                     /\ NullEntry \in Entries
<1>1. NullEntry \in Entries /\ Absent \in Entries
  BY DEF Entries
<1>2. ASSUME NEW e \in Shapes PROVE [e EXCEPT !.visible = FALSE] \in Entries
  <2>1. FALSE \in BOOLEAN
    BY Zenon
  <2>. QED
    BY <1>2, <2>1 DEF Entries, Shapes
<1>3. ASSUME NEW e \in [type : {"absent", "null"}, visible : {FALSE}, at : {Origin}]
      PROVE  [e EXCEPT !.visible = FALSE] = e
  OBVIOUS
<1>4. [Absent EXCEPT !.visible = FALSE] = Absent /\ [NullEntry EXCEPT !.visible = FALSE] = NullEntry
  <2>1. /\ Absent \in [type : {"absent", "null"}, visible : {FALSE}, at : {Origin}]
        /\ NullEntry \in [type : {"absent", "null"}, visible : {FALSE}, at : {Origin}]
    BY DEF Absent, NullEntry
  <2>. QED
    BY <1>3, <2>1
<1>. QED
  BY <1>1, <1>2, <1>3, <1>4 DEF Entries

\* Every export keeps the types of what it works on.
LEMMA ExportsTyped ==
  ASSUME OverlayTypeOK
  PROVE  /\ \A ty \in Types, id \in Ids, p \in Places : AddShape(ty, id, p) => OverlayTypeOK'
         /\ \A id \in Ids : Visible(id, FALSE) => OverlayTypeOK'
         /\ ClearAll => OverlayTypeOK'
         /\ ApplyOverlay => OverlayTypeOK'
         /\ InitilizeRSTPSource \/ SelectDecoder \/ Close => OverlayTypeOK'
         /\ UNCHANGED overlays => OverlayTypeOK'
<1>. USE OverlayAssumption DEF OverlayTypeOK
<1>1. ASSUME UNCHANGED overlays PROVE OverlayTypeOK'
  BY <1>1 DEF overlays, session
<1>2. ASSUME DereferencesNull PROVE OverlayTypeOK'
  BY <1>2 DEF DereferencesNull, session
<1>3. ASSUME NEW map \in [Ids -> Entries], SetOverlays(map) PROVE OverlayTypeOK'
  BY <1>3 DEF SetOverlays, session
<1>4. ASSUME NEW ty \in Types, NEW id \in Ids, NEW p \in Places, AddShape(ty, id, p) PROVE OverlayTypeOK'
  <2>1. Shape(ty, p) \in Entries
    BY DEF Shape, Entries, Shapes
  <2>. QED
    BY <1>1, <1>2, <1>3, <1>4, <2>1 DEF AddShape, OnPlayer
<1>5. ASSUME NEW id \in Ids, Visible(id, FALSE) PROVE OverlayTypeOK'
  <2>1. PICK e : e = IF IsShape(m_overlays[id]) THEN [m_overlays[id] EXCEPT !.visible = FALSE] ELSE NullEntry
    OBVIOUS
  <2>2. e \in Entries
    BY <2>1, HiddenTyped
  <2>3. SetOverlays([m_overlays EXCEPT ![id] = e]) \/ UNCHANGED overlays
    BY <1>5, <2>1 DEF Visible, OnPlayer
  <2>. QED
    BY <1>1, <1>3, <2>2, <2>3
<1>6. ASSUME ClearAll PROVE OverlayTypeOK'
  <2>1. [id \in Ids |-> [m_overlays[id] EXCEPT !.visible = FALSE]] \in [Ids -> Entries]
    BY HiddenTyped
  <2>. QED
    BY <1>1, <1>2, <1>3, <1>6, <2>1 DEF ClearAll, OnPlayer
<1>7. ASSUME ApplyOverlay PROVE OverlayTypeOK'
  <2>1. ASSUME NEW c \in GdiMayFail, failures < MaxFailures, Lose(LeftBy[c]), failures' = failures + 1,
               UNCHANGED <<session, m_overlays, picture, crashed>>
        PROVE  OverlayTypeOK'
    <3>1. gdi' \in [{"windowDC", "memoryDC", "bitmap"} -> Nat]
      BY <2>1, LoseTyped
    <3>2. failures' \in 0 .. MaxFailures
      BY <2>1
    <3>. QED
      BY <2>1, <3>1, <3>2 DEF session
  <2>2. ASSUME Painted PROVE OverlayTypeOK'
    <3>1. Visibles \in [Ids -> {Absent} \cup {e \in Shapes : e.visible}]
      BY DEF Visibles, Entries, Absent, NullEntry
    <3>. QED
      BY <2>2, <3>1 DEF Painted, session
  <2>. QED
    BY <1>1, <1>2, <1>7, <2>1, <2>2 DEF ApplyOverlay, OnPlayer
<1>8. ASSUME InitilizeRSTPSource \/ SelectDecoder \/ Close PROVE OverlayTypeOK'
  <2>1. NoShapes \in [Ids -> Entries] /\ NoShapes \in [Ids -> {Absent} \cup {e \in Shapes : e.visible}]
    BY DEF NoShapes, Entries
  <2>. QED
    BY <1>8, <2>1 DEF InitilizeRSTPSource, SelectDecoder, Close
<1>. QED
  BY <1>1, <1>4, <1>5, <1>6, <1>7, <1>8

LEMMA NoPlayerTyped == NoPlayer => OverlayTypeOK
<1>1. NoShapes \in [Ids -> Entries] /\ NoShapes \in [Ids -> {Absent} \cup {e \in Shapes : e.visible}]
  BY DEF NoShapes, Entries
<1>2. NoHandles \in [{"windowDC", "memoryDC", "bitmap"} -> Nat]
  BY DEF NoHandles, Handles
<1>. SUFFICES ASSUME NoPlayer PROVE OverlayTypeOK
  OBVIOUS
<1>3. m_dsShowPlayer \in BOOLEAN /\ m_videoInitialized \in BOOLEAN /\ m_pVideo \in BOOLEAN /\ crashed \in BOOLEAN
  BY Zenon DEF NoPlayer
<1>4. failures \in 0 .. MaxFailures
  BY OverlayAssumption DEF NoPlayer
<1>. QED
  BY <1>1, <1>2, <1>3, <1>4 DEF NoPlayer, OverlayTypeOK

\* Every step keeps the types, whether or not the program is careful.
CrossTyped == OverlayTypeOK /\ draw \in [Crosses -> BOOLEAN] /\ busy \in [Threads -> Calls]

LEMMA CrossStepTyped ==
  ASSUME CrossTyped, [Next]_vars
  PROVE  CrossTyped'
<1>. USE CrossAssumption, OverlayAssumption DEF CrossTyped
<1>0. \A c \in Crosses : m_id[c][1] \in Ids /\ m_id[c][2] \in Ids
  OBVIOUS
<1>1. ASSUME NEW t \in Threads, Begin(t) PROVE CrossTyped'
  <2>1. ASSUME NEW c \in Crosses, NEW p \in Places, Draw(t, c, p) PROVE CrossTyped'
    <3>1. AddShape("line", m_id[c][1], p) /\ "line" \in Types
      BY <2>1 DEF Draw, AddLine, Types
    <3>. QED
      BY <1>0, <2>1, <3>1, ExportsTyped DEF Draw, Calls
  <2>2. ASSUME NEW c \in Crosses, Remove(t, c) PROVE CrossTyped'
    <3>1. Removes(c) \in Calls
      BY DEF Calls, Removes, Idle
    <3>. QED
      BY <1>0, <2>2, <3>1, ExportsTyped DEF Remove
  <2>3. ASSUME NEW c \in Crosses, Clear(t, c) PROVE CrossTyped'
    BY <2>3, ExportsTyped DEF Clear
  <2>4. ASSUME NEW id \in Ids, AddOther(t, id) PROVE CrossTyped'
    <3>1. PICK ty \in Types : AddShape(ty, id, Origin)
      BY <2>4 DEF AddOther, AddCircle, AddTextOverlay, AddTextOverlay2, Types
    <3>. QED
      BY <2>4, <3>1, ExportsTyped DEF AddOther
  <2>5. CASE Show(t) \/ Session(t)
    BY <2>5, ExportsTyped DEF Show, Session
  <2>. QED
    BY <1>1, <2>1, <2>2, <2>3, <2>4, <2>5 DEF Begin
<1>2. ASSUME NEW t \in Threads, Finish(t) PROVE CrossTyped'
  <2>1. CASE DrawSecond(t)
    <3>1. busy[t].cross \in Crosses /\ busy[t].at \in Places
      BY <2>1 DEF DrawSecond, Calls, Idle, Draws, Removes
    <3>2. AddShape("line", m_id[busy[t].cross][2], busy[t].at) /\ "line" \in Types
      BY <2>1 DEF DrawSecond, AddLine, Types
    <3>. QED
      BY <1>0, <2>1, <3>1, <3>2, ExportsTyped DEF DrawSecond, Calls
  <2>2. CASE RemoveSecond(t)
    <3>1. busy[t].cross \in Crosses
      BY <2>2 DEF RemoveSecond, Calls, Idle, Draws, Removes
    <3>2. Idle \in Calls
      BY DEF Calls
    <3>. QED
      BY <1>0, <2>2, <3>1, <3>2, ExportsTyped DEF RemoveSecond
  <2>. QED
    BY <1>2, <2>1, <2>2 DEF Finish
<1>3. CASE UNCHANGED vars
  BY <1>3, ExportsTyped DEF vars
<1>. QED
  BY <1>1, <1>2, <1>3 DEF Next

LEMMA CrossTypedImplies == CrossTyped => TypeOK
BY DEF CrossTyped, TypeOK, Calls

----------------------------------------------------------------------------
(* The sample application *)

\* The inductive invariant: the types, and that a handler of Form1 never finds
\* the picture in the second window, nor one of Form2 elsewhere.
AppInv ==
  /\ player \in BOOLEAN /\ video \in BOOLEAN /\ fileName \in BOOLEAN /\ appVideoInitialized \in BOOLEAN
  /\ window \in App!Panels \cup {"none"} /\ area \in App!Panels \cup {"none"}
  /\ m_replaceWindow \in BOOLEAN /\ m_mouseDown \in BOOLEAN /\ m_cross \in BOOLEAN
  /\ form2 \in BOOLEAN /\ count \in Seq(0 .. Ticks)
  /\ end \in {"running", "closed", "m_cross", "m_pVideo"}
  /\ video => player /\ window # "none"
  /\ App!PictureIsVisible /\ App!StumblesAfterFailure /\ App!NothingLeftOpen

LEMMA AppInvImplies == AppInv => App!TypeOK
<1>. SUFFICES ASSUME AppInv PROVE App!TypeOK
  OBVIOUS
<1>1. \A f \in DOMAIN count : count[f] \in 0 .. Ticks
  <2>1. ASSUME NEW S, NEW s \in Seq(S) PROVE \A f \in DOMAIN s : s[f] \in S
    BY ElementOfSeq
  <2>2. count \in Seq(0 .. Ticks)
    BY DEF AppInv
  <2>. QED
    BY <2>1, <2>2
<1>2. {player, fileName, form2, m_replaceWindow, m_mouseDown, m_cross} \subseteq BOOLEAN
  BY Zenon DEF AppInv
<1>. QED
  BY <1>1, <1>2 DEF AppInv, App!TypeOK

LEMMA AppStarts == ASSUME App!SampleAssumption, App!Init PROVE AppInv
<1>. USE DEF App!Init
<1>1. /\ player \in BOOLEAN /\ video \in BOOLEAN /\ fileName \in BOOLEAN /\ appVideoInitialized \in BOOLEAN
      /\ m_replaceWindow \in BOOLEAN /\ m_mouseDown \in BOOLEAN /\ m_cross \in BOOLEAN /\ form2 \in BOOLEAN
  BY Zenon
<1>2. count \in Seq(0 .. Ticks)
  BY DEF App!SampleAssumption
<1>. QED
  BY <1>1, <1>2 DEF AppInv, App!PictureIsVisible, App!Playing, App!StumblesAfterFailure, App!NothingLeftOpen

\* Every handler keeps it, whichever of its calls into the library fail.
LEMMA AppStep ==
  ASSUME App!SampleAssumption, AppInv, [App!Next]_(App!vars)
  PROVE  AppInv'
<1>. USE DEF AppInv, App!PictureIsVisible, App!Playing, App!StumblesAfterFailure, App!NothingLeftOpen, App!Panels
<1>1. CASE App!btnPlayerExample
  BY <1>1 DEF App!btnPlayerExample, App!Active, App!Initialize, App!UpdateVideoWindow, App!form1, App!second
<1>2. CASE App!btnRTSP
  BY <1>2 DEF App!btnRTSP, App!Active, App!Initialize, App!form1, App!second
<1>3. CASE App!SaveRTSP
  BY <1>3 DEF App!SaveRTSP, App!Active, App!Initialize, App!UpdateVideoWindow, App!form1, App!second
<1>4. CASE App!Switch
  BY <1>4 DEF App!Switch, App!Active, App!Show, App!SetWindowHandle, App!UpdateVideoWindow, App!second
<1>5. CASE App!Form1_Resize
  BY <1>5 DEF App!Form1_Resize, App!UpdateVideoWindow, App!form1, App!second
<1>6. CASE App!panel1_MouseDown \/ App!panel1_MouseUp
  <2>1. m_mouseDown' \in BOOLEAN
    BY Zenon, <1>6 DEF App!panel1_MouseDown, App!panel1_MouseUp
  <2>. QED
    BY <1>6, <2>1 DEF App!panel1_MouseDown, App!panel1_MouseUp, App!Active, App!library, App!second
<1>12. CASE App!panel1_MouseMove
  BY <1>12 DEF App!panel1_MouseMove, App!Active, App!library, App!form1, App!second
<1>7. CASE App!button3 \/ App!Form1_FormClosing
  BY <1>7 DEF App!button3, App!Form1_FormClosing, App!Active, App!Close, App!library, App!form1, App!second
<1>8. CASE App!ShowDialog
  <2>1. Append(count, 0) \in Seq(0 .. Ticks)
    BY DEF App!SampleAssumption
  <2>. QED
    BY <1>8, <2>1 DEF App!ShowDialog, App!Active, App!Show, App!SetWindowHandle, App!UpdateVideoWindow, App!form1
<1>9. CASE App!Return
  BY <1>9 DEF App!Return, App!Show, App!SetWindowHandle, App!UpdateVideoWindow, App!form1
<1>10. ASSUME NEW f \in 1 .. MaxForms, App!timer1_Tick(f) PROVE AppInv'
  <2>1. count' \in Seq(0 .. Ticks)
    BY <1>10 DEF App!timer1_Tick, App!SampleAssumption
  <2>. QED
    BY <1>10, <2>1 DEF App!timer1_Tick, App!library, App!form1
<1>11. CASE UNCHANGED App!vars
  BY <1>11 DEF App!vars
<1>. QED
  BY <1>1, <1>2, <1>3, <1>4, <1>5, <1>6, <1>7, <1>8, <1>9, <1>10, <1>11, <1>12 DEF App!Next

\* What the form forgets, and where.
LEMMA AppCauses ==
  ASSUME AppInv, [App!Next]_(App!vars)
  PROVE  /\ App!FlagTellsPanel /\ ~App!FlagTellsPanel' =>
              App!btnPlayerExample \/ App!btnRTSP \/ App!SaveRTSP \/ App!Return
         /\ App!Fits /\ ~App!Fits' => App!btnRTSP \/ App!Form1_Resize
<1>. USE DEF AppInv, App!FlagTellsPanel, App!Fits, App!Playing, App!Panels
<1>1. CASE App!btnPlayerExample \/ App!SaveRTSP
  BY <1>1 DEF App!btnPlayerExample, App!SaveRTSP, App!Initialize, App!UpdateVideoWindow
<1>4. CASE App!Switch
  BY <1>4 DEF App!Switch, App!Active, App!Show, App!SetWindowHandle, App!UpdateVideoWindow, App!second
<1>5. CASE App!Form1_Resize
  BY <1>5 DEF App!Form1_Resize, App!UpdateVideoWindow, App!form1, App!second
<1>6. CASE App!panel1_MouseDown \/ App!panel1_MouseUp \/ App!panel1_MouseMove
  BY <1>6 DEF App!panel1_MouseDown, App!panel1_MouseUp, App!panel1_MouseMove, App!Active, App!library,
              App!form1, App!second
<1>7. CASE App!button3 \/ App!Form1_FormClosing
  BY <1>7 DEF App!button3, App!Form1_FormClosing, App!Active, App!Close, App!library, App!form1, App!second
<1>8. CASE App!ShowDialog
  BY <1>8 DEF App!ShowDialog, App!Active, App!Show, App!SetWindowHandle, App!UpdateVideoWindow, App!form1
<1>9. CASE App!Return
  BY <1>9 DEF App!Return, App!Show, App!SetWindowHandle, App!UpdateVideoWindow, App!form1
<1>10. ASSUME NEW f \in 1 .. MaxForms, App!timer1_Tick(f) 
       PROVE  UNCHANGED <<player, video, window, area, appVideoInitialized, m_replaceWindow, form2, end>>
  BY <1>10 DEF App!timer1_Tick, App!library, App!form1
<1>11. CASE UNCHANGED App!vars
  BY <1>11 DEF App!vars
<1>. QED
  BY <1>1, <1>4, <1>5, <1>6, <1>7, <1>8, <1>9, <1>10, <1>11 DEF App!Next

----------------------------------------------------------------------------
(* The rings of points *)

\* A ring of s slots: the one written next, how many are drawn, the points in the
\* slots, those kept, what was put in each slot, and the last point.
RingOf(s, w, f, xy, kept, put, last) ==
  /\ s \in Nat /\ w \in Nat /\ f \in Nat
  /\ xy \in [0 .. s - 1 -> Places] /\ put \in [0 .. s - 1 -> SUBSET Places]
  /\ kept \in Seq(Places) /\ Len(kept) <= s
  /\ IF s = 0 THEN w = 0 ELSE w < s
  \* The points kept are in the slots in their order, oldest first, up to the next slot.
  /\ IF Len(kept) < s
       THEN w = Len(kept) /\ f = w /\ \A k \in 0 .. w - 1 : xy[k] = kept[k + 1]
       ELSE /\ f = s \/ (f = s - 1 /\ w = 0)
            /\ \A k \in 0 .. s - 1 : xy[k] = IF k < w THEN kept[s - w + k + 1] ELSE kept[k - w + 1]
  /\ \A k \in 0 .. Len(kept) - 1 : xy[k] \in put[k]
  /\ Len(kept) > 0 => last = kept[Len(kept)]

\* An index goes to the next slot, and from the last one to the first.
LEMMA NextSlot ==
  ASSUME NEW s \in Nat \ {0}, NEW w \in 0 .. s - 1
  PROVE  (w + 1) % s = IF w + 1 = s THEN 0 ELSE w + 1
<1>1. CASE w + 1 = s
  <2>1. s % s = 0
    BY SMT
  <2>. QED
    BY <1>1, <2>1
<1>2. CASE w + 1 < s
  BY <1>2, SMT
<1>. QED
  BY <1>1, <1>2

\* What is kept when a point comes
Newest(s, kept, p) == Append(IF Len(kept) = s THEN Tail(kept) ELSE kept, p)

LEMMA NewestKept ==
  ASSUME NEW s \in Nat \ {0}, NEW kept \in Seq(Places), Len(kept) <= s, NEW p \in Places
  PROVE  /\ Newest(s, kept, p) \in Seq(Places)
         /\ Len(kept) < s =>
              /\ Len(Newest(s, kept, p)) = Len(kept) + 1
              /\ \A i \in 1 .. Len(kept) : Newest(s, kept, p)[i] = kept[i]
              /\ Newest(s, kept, p)[Len(kept) + 1] = p
         /\ Len(kept) = s =>
              /\ Len(Newest(s, kept, p)) = s
              /\ \A i \in 1 .. s - 1 : Newest(s, kept, p)[i] = kept[i + 1]
              /\ Newest(s, kept, p)[s] = p
<1>1. CASE Len(kept) < s
  <2>1. Newest(s, kept, p) = Append(kept, p)
    BY <1>1 DEF Newest
  <2>. QED
    BY <1>1, <2>1, AppendProperties, LenProperties
<1>2. CASE Len(kept) = s
  <2>1. Newest(s, kept, p) = Append(Tail(kept), p) /\ kept # <<>>
    BY <1>2 DEF Newest
  <2>2. /\ Tail(kept) \in Seq(Places) /\ Len(Tail(kept)) = s - 1
        /\ \A i \in 1 .. s - 1 : Tail(kept)[i] = kept[i + 1]
    BY <1>2, <2>1, HeadTailProperties
  <2>3. PICK t \in Seq(Places) : t = Tail(kept)
    BY <2>2
  <2>4. /\ Append(t, p) \in Seq(Places) /\ Len(Append(t, p)) = Len(t) + 1
        /\ \A i \in 1 .. Len(t) : Append(t, p)[i] = t[i]
        /\ Append(t, p)[Len(t) + 1] = p
    BY AppendProperties
  <2>. QED
    BY <1>2, <2>1, <2>2, <2>3, <2>4
<1>. QED
  BY <1>1, <1>2, LenProperties

\* In a full ring the oldest goes.
Rolled(new, s, kept, p) == /\ new \in Seq(Places) /\ Len(new) = s /\ new[s] = p
                           /\ \A i \in 1 .. s - 1 : new[i] = kept[i + 1]

LEMMA NewestOfFull ==
  ASSUME NEW s \in Nat \ {0}, NEW kept \in Seq(Places), Len(kept) = s, NEW p \in Places
  PROVE  Rolled(Newest(s, kept, p), s, kept, p)
<1>1. Len(kept) <= s
  OBVIOUS
<1>. QED
  BY <1>1, NewestKept DEF Rolled

\* A push keeps the ring in order.
LEMMA PushKeeps ==
  ASSUME NEW s, NEW w, NEW f, NEW xy, NEW kept, NEW put, NEW last,
         RingOf(s, w, f, xy, kept, put, last), s > 0, NEW p \in Places, NEW w2, NEW f2,
         w2 = IF w + 1 = s THEN 0 ELSE w + 1,
         f2 = IF w2 # 0 /\ f < s THEN f + 1 ELSE f
  PROVE  RingOf(s, w2, f2, [xy EXCEPT ![w] = p], Newest(s, kept, p),
                [put EXCEPT ![w] = @ \cup {p}], p)
<1>0. /\ s \in Nat \ {0} /\ w \in 0 .. s - 1 /\ f \in Nat
      /\ kept \in Seq(Places) /\ Len(kept) \in Nat /\ Len(kept) <= s
      /\ xy \in [0 .. s - 1 -> Places] /\ put \in [0 .. s - 1 -> SUBSET Places]
      /\ \A k \in 0 .. Len(kept) - 1 : xy[k] \in put[k]
  BY LenProperties DEF RingOf
<1>1. PICK new, xy2, put2 : new = Newest(s, kept, p) /\ xy2 = [xy EXCEPT ![w] = p]
                            /\ put2 = [put EXCEPT ![w] = @ \cup {p}]
  OBVIOUS
<1>2. xy2 \in [0 .. s - 1 -> Places] /\ xy2[w] = p /\ \A k \in 0 .. s - 1 : k # w => xy2[k] = xy[k]
  BY <1>0, <1>1
<1>3. /\ put2 \in [0 .. s - 1 -> SUBSET Places] /\ p \in put2[w]
      /\ \A k \in 0 .. s - 1 : k # w => put2[k] = put[k]
  BY <1>0, <1>1
<1>4. w2 \in Nat /\ f2 \in Nat /\ w2 < s
  BY <1>0
<1>5. CASE Len(kept) < s
  <2>1. /\ new \in Seq(Places) /\ Len(new) = Len(kept) + 1 /\ new[Len(kept) + 1] = p
        /\ \A i \in 1 .. Len(kept) : new[i] = kept[i]
    BY <1>0, <1>1, <1>5, NewestKept
  <2>2. w = Len(kept) /\ f = w /\ \A k \in 0 .. w - 1 : xy[k] = kept[k + 1]
    BY <1>5 DEF RingOf
  <2>3. \A k \in 0 .. w : xy2[k] = new[k + 1]
    BY <1>0, <1>2, <2>1, <2>2
  <2>4. \A k \in 0 .. w : xy2[k] \in put2[k]
    BY <1>0, <1>2, <1>3, <2>2
  <2>5. CASE w + 1 < s
    BY <1>1, <1>0, <1>2, <1>3, <1>4, <2>1, <2>2, <2>3, <2>4, <2>5 DEF RingOf
  <2>6. CASE w + 1 = s
    BY <1>1, <1>0, <1>2, <1>3, <1>4, <2>1, <2>2, <2>3, <2>4, <2>6 DEF RingOf
  <2>. QED
    BY <1>0, <2>5, <2>6
<1>6. CASE Len(kept) = s
  <2>1. /\ new \in Seq(Places) /\ Len(new) = s /\ new[s] = p
        /\ \A i \in 1 .. s - 1 : new[i] = kept[i + 1]
    <3>1. s \in Nat \ {0} /\ kept \in Seq(Places) /\ p \in Places
      BY <1>0
    <3>2. Rolled(Newest(s, kept, p), s, kept, p)
      BY <1>6, <3>1, NewestOfFull
    <3>. QED
      BY <1>1, <3>2 DEF Rolled
  <2>2. /\ f = s \/ (f = s - 1 /\ w = 0)
        /\ \A k \in 0 .. s - 1 : xy[k] = IF k < w THEN kept[s - w + k + 1] ELSE kept[k - w + 1]
    BY <1>0, <1>6 DEF RingOf
  <2>3. f2 = s \/ (f2 = s - 1 /\ w2 = 0)
    BY <1>0, <2>2
  <2>4. \A k \in 0 .. s - 1 : xy2[k] \in put2[k]
    BY <1>0, <1>2, <1>3, <1>6
  <2>5. ASSUME NEW k \in 0 .. s - 1
        PROVE  xy2[k] = IF k < w2 THEN new[s - w2 + k + 1] ELSE new[k - w2 + 1]
    <3>1. CASE k = w
      BY <1>0, <1>2, <2>1, <3>1
    <3>2. CASE k < w
      <4>1. xy2[k] = kept[s - w + k + 1]
        BY <1>0, <1>2, <2>2, <3>2
      <4>2. PICK i \in 1 .. s - 1 : i = s - w + k
        BY <1>0, <3>2
      <4>3. new[i] = kept[i + 1]
        BY <2>1
      <4>4. CASE w2 = 0
        BY <1>0, <3>2, <4>1, <4>2, <4>3, <4>4
      <4>5. CASE w2 = w + 1
        <5>1. s - w2 + k + 1 = i /\ k < w2
          BY <1>0, <3>2, <4>2, <4>5
        <5>2. s - w + k + 1 = i + 1
          BY <1>0, <3>2, <4>2
        <5>. QED
          BY <4>1, <4>3, <5>1, <5>2
      <4>. QED
        BY <4>4, <4>5
    <3>3. CASE k > w
      <4>1. xy2[k] = kept[k - w + 1]
        BY <1>0, <1>2, <2>2, <3>3
      <4>2. PICK i \in 1 .. s - 1 : i = k - w
        BY <1>0, <3>3
      <4>3. new[i] = kept[i + 1]
        BY <2>1
      <4>4. w2 = w + 1
        BY <1>0, <3>3
      <4>5. k - w2 + 1 = i /\ ~(k < w2) /\ k - w + 1 = i + 1
        BY <1>0, <3>3, <4>2, <4>4
      <4>. QED
        BY <4>1, <4>3, <4>5
    <3>. QED
      BY <1>0, <3>1, <3>2, <3>3
  <2>. QED
    BY <1>1, <1>0, <1>2, <1>3, <1>4, <2>1, <2>3, <2>4, <2>5 DEF RingOf
<1>. QED
  BY <1>0, <1>5, <1>6

\* The slots among the first f that show a point, and the first m places kept that do
SlotsOf(xy, f, p)   == {k \in 0 .. f - 1 : xy[k] = p}
PlacesOf(kept, m, p) == {i \in 1 .. m : kept[i] = p}
SameCounts(xy, f, kept, m) == \A p : Cardinality(SlotsOf(xy, f, p)) = Cardinality(PlacesOf(kept, m, p))

\* As many slots show a point as places of the sequence, if some bijection pairs them.
LEMMA CountedAlike ==
  ASSUME NEW n \in Nat, NEW xy, NEW kept, NEW pair \in [0 .. n - 1 -> 1 .. n],
         \A j, k \in 0 .. n - 1 : pair[j] = pair[k] => j = k,
         \A i \in 1 .. n : \E k \in 0 .. n - 1 : pair[k] = i,
         \A k \in 0 .. n - 1 : xy[k] = kept[pair[k]]
  PROVE  SameCounts(xy, n, kept, n)
<1>. SUFFICES ASSUME NEW p PROVE Cardinality(SlotsOf(xy, n, p)) = Cardinality(PlacesOf(kept, n, p))
  BY DEF SameCounts
<1>. DEFINE S == {k \in 0 .. n - 1 : xy[k] = p}
            T == {i \in 1 .. n : kept[i] = p}
            F == [k \in S |-> pair[k]]
<1>1. F \in [S -> T]
  OBVIOUS
<1>2. \A j, k \in S : F[j] = F[k] => j = k
  OBVIOUS
<1>3. \A i \in T : \E k \in S : F[k] = i
  OBVIOUS
<1>4. F \in Bijection(S, T)
  <2>. HIDE DEF S, T, F
  <2>. QED
    BY <1>1, <1>2, <1>3, Fun_IsBij
<1>5. IsFiniteSet(S)
  <2>1. 0 \in Int /\ n - 1 \in Int /\ S \in SUBSET (0 .. n - 1)
    OBVIOUS
  <2>. HIDE DEF S
  <2>. QED
    BY <2>1, FS_Interval, FS_Subset
<1>. HIDE DEF S, T, F
<1>6. Cardinality(T) = Cardinality(S)
  BY <1>4, <1>5, FS_Bijection, Fun_ExistsBijEquiv DEF ExistsBijection
<1>. QED
  BY <1>6 DEF S, T, SlotsOf, PlacesOf

\* The slots drawn show the points kept, the newest perhaps excepted.
LEMMA DrawnAreKept ==
  ASSUME NEW s, NEW w, NEW f, NEW xy, NEW kept, NEW put, NEW last,
         RingOf(s, w, f, xy, kept, put, last)
  PROVE  /\ f <= Len(kept)
         /\ \E m \in {Len(kept), Len(kept) - 1} : SameCounts(xy, f, kept, m)
<1>0. /\ s \in Nat /\ w \in Nat /\ f \in Nat /\ Len(kept) \in Nat /\ Len(kept) <= s
      /\ IF s = 0 THEN w = 0 ELSE w < s
  BY LenProperties DEF RingOf
<1>1. ASSUME NEW m \in {Len(kept), Len(kept) - 1}, f = 0, m <= 0 PROVE SameCounts(xy, f, kept, m)
  <2>1. \A p : SlotsOf(xy, f, p) = {} /\ PlacesOf(kept, m, p) = {}
    BY <1>0, <1>1 DEF SlotsOf, PlacesOf
  <2>. QED
    BY <2>1 DEF SameCounts
<1>2. CASE f > 0 /\ f \in {Len(kept), Len(kept) - 1} /\ \A k \in 0 .. f - 1 : xy[k] = kept[k + 1]
  <2>. DEFINE pair == [k \in 0 .. f - 1 |-> k + 1]
  <2>1. pair \in [0 .. f - 1 -> 1 .. f]
    BY <1>0
  <2>2. /\ \A j, k \in 0 .. f - 1 : pair[j] = pair[k] => j = k
        /\ \A k \in 0 .. f - 1 : xy[k] = kept[pair[k]]
    BY <1>0, <1>2
  <2>3. ASSUME NEW i \in 1 .. f PROVE \E k \in 0 .. f - 1 : pair[k] = i
    <3>1. i - 1 \in 0 .. f - 1 /\ pair[i - 1] = i
      BY <1>0
    <3>. QED
      BY <3>1
  <2>. HIDE DEF pair
  <2>4. SameCounts(xy, f, kept, f)
    BY <1>0, <2>1, <2>2, <2>3, CountedAlike
  <2>. QED
    BY <1>0, <1>2, <2>4
<1>3. CASE /\ f = s /\ Len(kept) = s /\ s > 0
           /\ \A k \in 0 .. s - 1 : xy[k] = IF k < w THEN kept[s - w + k + 1] ELSE kept[k - w + 1]
  <2>. DEFINE pair == [k \in 0 .. s - 1 |-> IF k < w THEN s - w + k + 1 ELSE k - w + 1]
  <2>1. pair \in [0 .. s - 1 -> 1 .. s]
    BY <1>0, <1>3
  <2>2. /\ \A j, k \in 0 .. s - 1 : pair[j] = pair[k] => j = k
        /\ \A k \in 0 .. s - 1 : xy[k] = kept[pair[k]]
    BY <1>0, <1>3
  <2>3. ASSUME NEW i \in 1 .. s PROVE \E k \in 0 .. s - 1 : pair[k] = i
    <3>1. CASE i <= s - w
      <4>1. i + w - 1 \in 0 .. s - 1 /\ pair[i + w - 1] = i
        BY <1>0, <1>3, <3>1
      <4>. QED
        BY <4>1
    <3>2. CASE i > s - w
      <4>1. i - (s - w) - 1 \in 0 .. s - 1 /\ pair[i - (s - w) - 1] = i
        BY <1>0, <1>3, <3>2
      <4>. QED
        BY <4>1
    <3>. QED
      BY <1>0, <3>1, <3>2
  <2>. HIDE DEF pair
  <2>4. SameCounts(xy, s, kept, s)
    BY <1>0, <2>1, <2>2, <2>3, CountedAlike
  <2>. QED
    BY <1>0, <1>3, <2>4
<1>4. CASE Len(kept) < s
  <2>1. w = Len(kept) /\ f = w /\ \A k \in 0 .. w - 1 : xy[k] = kept[k + 1]
    BY <1>4 DEF RingOf
  <2>2. CASE f = 0
    BY <1>0, <1>1, <2>1, <2>2
  <2>3. CASE f > 0
    BY <1>0, <1>2, <2>1, <2>3
  <2>. QED
    BY <1>0, <2>2, <2>3
<1>5. CASE Len(kept) = s
  <2>1. /\ f = s \/ (f = s - 1 /\ w = 0)
        /\ \A k \in 0 .. s - 1 : xy[k] = IF k < w THEN kept[s - w + k + 1] ELSE kept[k - w + 1]
    BY <1>0, <1>5 DEF RingOf
  <2>2. CASE f = s /\ s > 0
    BY <1>0, <1>3, <1>5, <2>1, <2>2
  <2>3. CASE f = 0
    <3>1. Len(kept) <= 0 \/ Len(kept) - 1 <= 0
      BY <1>0, <1>5, <2>1, <2>3
    <3>. QED
      BY <1>0, <1>1, <2>3, <3>1
  <2>4. CASE f = s - 1 /\ w = 0 /\ f > 0
    <3>1. \A k \in 0 .. f - 1 : xy[k] = kept[k + 1]
      BY <1>0, <2>1, <2>4
    <3>2. f = Len(kept) - 1
      BY <1>5, <2>4
    <3>. QED
      BY <1>0, <1>2, <2>4, <3>1, <3>2
  <2>. QED
    BY <1>0, <2>1, <2>2, <2>3, <2>4
<1>. QED
  BY <1>0, <1>4, <1>5

\* The shapes a ring of ours shows in a slot were put there, and it has been drawn.
Shows(o) ==
  \A k \in 1 .. m_size[o] - 1 : \A id \in Ring!LineIds(o, k) :
    ringOverlays[id].visible => ringOverlays[id].at \in stored[o][k] /\ ringDraw[o]

Above(o, q) == m_ixStart[q] + 2 * m_size[q] <= m_ixStart[o]

\* The types of what the rings share
RingTyped ==
  /\ Ring!OverlayTypeOK
  /\ index \in 0 .. MaxIndex
  /\ m_ixStart \in [RingObjects -> 0 .. MaxIndex]
  /\ m_size \in [RingObjects -> RingSizes \cup {0}]
  /\ m_wix \in [RingObjects -> Nat] /\ m_fsize \in [RingObjects -> Nat]
  /\ m_xy = [o \in RingObjects |-> m_xy[o]] /\ stored = [o \in RingObjects |-> stored[o]]
  /\ recent \in [RingObjects -> Seq(Places)]
  /\ m_last \in [RingObjects -> Places]
  /\ ringDraw \in [RingObjects -> BOOLEAN]

TheRing(o) == RingOf(m_size[o], m_wix[o], m_fsize[o], m_xy[o], recent[o], stored[o], m_last[o])

\* The inductive invariant: each ring is in order, their lines are apart and below
\* the counter, and what is visible beyond slot 0 was put into its slot.
RingInv ==
  /\ RingTyped
  /\ \A o \in RingObjects : TheRing(o) /\ Shows(o) /\ m_ixStart[o] + 2 * m_size[o] <= index
  /\ \A o, q \in RingObjects : o # q /\ m_size[o] > 0 /\ m_size[q] > 0 => Above(o, q) \/ Above(q, o)
  /\ \A id \in RingIds : /\ ringOverlays[id].type # "null"
                         /\ id >= index \/ ~ringDsShowPlayer => ~ringOverlays[id].visible

\* A slot's two lines are ids of shapes, and tell the slot.
LEMMA SlotOfLine ==
  ASSUME NEW b \in Nat, NEW k \in Nat, NEW id \in {b + 2 * k, b + 2 * k + 1}
  PROVE  id \in Nat /\ (id - b) \div 2 = k
<1>1. id - b = 2 * k \/ id - b = 2 * k + 1
  OBVIOUS
<1>2. (2 * k) \div 2 = k /\ (2 * k + 1) \div 2 = k
  OBVIOUS
<1>. QED
  BY <1>1, <1>2

\* The numbers of the rings are numbers.
LEMMA RingNumbers ==
  ASSUME Ring!CrossMxAssumption, RingInv, NEW o \in RingObjects
  PROVE  /\ MaxIndex \in Nat /\ index \in Nat /\ index <= MaxIndex /\ RingIds = 0 .. MaxIndex - 1
         /\ m_ixStart[o] \in Nat /\ m_size[o] \in Nat /\ m_ixStart[o] + 2 * m_size[o] <= index
<1>1. MaxIndex \in Nat /\ RingSizes \subseteq Nat \ {0} /\ RingIds = 0 .. MaxIndex - 1
  BY DEF Ring!CrossMxAssumption
<1>2. index \in 0 .. MaxIndex /\ m_ixStart[o] \in 0 .. MaxIndex /\ m_size[o] \in RingSizes \cup {0}
  BY DEF RingInv, RingTyped
<1>3. m_ixStart[o] + 2 * m_size[o] <= index
  BY DEF RingInv
<1>4. m_size[o] \in Nat
  <2>1. ASSUME NEW n \in RingSizes \cup {0} PROVE n \in Nat
    BY <1>1
  <2>. QED
    BY <1>2, <2>1
<1>5. m_ixStart[o] \in Nat
  BY <1>1, <1>2
<1>6. index \in Nat /\ index <= MaxIndex
  BY <1>1, <1>2
<1>. QED
  BY <1>1, <1>3, <1>4, <1>5, <1>6

LEMMA LinesOf ==
  ASSUME Ring!CrossMxAssumption, RingInv, NEW o \in RingObjects, NEW k \in 0 .. m_size[o] - 1,
         NEW id \in Ring!LineIds(o, k)
  PROVE  /\ id \in RingIds /\ id < index /\ (id - m_ixStart[o]) \div 2 = k
         /\ m_ixStart[o] <= id /\ id < m_ixStart[o] + 2 * m_size[o]
<1>1. /\ m_ixStart[o] \in Nat /\ m_size[o] \in Nat /\ index \in Nat /\ MaxIndex \in Nat
      /\ m_ixStart[o] + 2 * m_size[o] <= index /\ index <= MaxIndex /\ RingIds = 0 .. MaxIndex - 1
  BY RingNumbers
<1>4. k \in Nat /\ k < m_size[o]
  BY <1>1
<1>2. id \in {m_ixStart[o] + 2 * k, m_ixStart[o] + 2 * k + 1}
  BY DEF Ring!LineIds
<1>3. id \in Nat /\ (id - m_ixStart[o]) \div 2 = k
  <2>1. PICK b \in Nat, j \in Nat : b = m_ixStart[o] /\ j = k
    BY <1>1, <1>4
  <2>2. id \in {b + 2 * j, b + 2 * j + 1}
    BY <1>2, <2>1
  <2>3. id \in Nat /\ (id - b) \div 2 = j
    BY <2>2, SlotOfLine
  <2>. QED
    BY <2>1, <2>3
<1>5. m_ixStart[o] <= id /\ id < m_ixStart[o] + 2 * m_size[o]
  <2>1. PICK b \in Nat, j \in Nat, s \in Nat : b = m_ixStart[o] /\ j = k /\ s = m_size[o]
    BY <1>1, <1>4
  <2>2. id \in {b + 2 * j, b + 2 * j + 1} /\ j < s
    BY <1>2, <1>4, <2>1
  <2>3. b <= id /\ id < b + 2 * s
    BY <2>2
  <2>. QED
    BY <2>1, <2>3
<1>6. id \in RingIds /\ id < index
  <2>1. PICK b \in Nat, z \in Nat, i \in Nat, m \in Nat :
          b = m_ixStart[o] /\ z = m_size[o] /\ i = index /\ m = MaxIndex
    BY RingNumbers
  <2>2. id \in Nat /\ id < b + 2 * z /\ b + 2 * z <= i /\ i <= m
    BY <1>3, <1>5, <2>1, RingNumbers
  <2>3. id \in 0 .. m - 1 /\ id < i
    BY <2>2
  <2>. QED
    BY <1>1, <2>1, <2>3
<1>. QED
  BY <1>3, <1>5, <1>6

\* No two slots share a line.
LEMMA LinesTell ==
  ASSUME Ring!CrossMxAssumption, RingInv,
         NEW o \in RingObjects, NEW k \in 0 .. m_size[o] - 1,
         NEW q \in RingObjects, NEW j \in 0 .. m_size[q] - 1,
         NEW id \in Ring!LineIds(o, k), id \in Ring!LineIds(q, j)
  PROVE  o = q /\ k = j
<1>1. /\ (id - m_ixStart[o]) \div 2 = k /\ m_ixStart[o] <= id /\ id < m_ixStart[o] + 2 * m_size[o]
      /\ id \in RingIds
  BY LinesOf
<1>2. /\ (id - m_ixStart[q]) \div 2 = j /\ m_ixStart[q] <= id /\ id < m_ixStart[q] + 2 * m_size[q]
  BY LinesOf
<1>3. /\ m_ixStart[o] \in Nat /\ m_size[o] \in Nat /\ m_ixStart[q] \in Nat /\ m_size[q] \in Nat
      /\ id \in Nat /\ m_size[o] > 0 /\ m_size[q] > 0
  <2>1. m_size[o] > 0 /\ m_size[q] > 0
    BY RingNumbers
  <2>2. id \in Nat
    BY <1>1, RingNumbers
  <2>3. m_ixStart[o] \in Nat /\ m_size[o] \in Nat
    BY RingNumbers
  <2>4. m_ixStart[q] \in Nat /\ m_size[q] \in Nat
    BY RingNumbers
  <2>. QED
    BY <2>1, <2>2, <2>3, <2>4
<1>4. o # q => Above(o, q) \/ Above(q, o)
  BY <1>3 DEF RingInv
<1>5. o = q
  BY <1>1, <1>2, <1>3, <1>4 DEF Above
<1>. QED
  BY <1>1, <1>2, <1>5

\* What is claimed of the rings follows.
LEMMA RingInvImplies ==
  ASSUME Ring!CrossMxAssumption, RingInv
  PROVE  Ring!TypeOK /\ Ring!RingHoldsRecent /\ Ring!NothingStaleIsShown
<1>1. Ring!TypeOK
  <2>1. ASSUME NEW o \in RingObjects
        PROVE  /\ m_xy[o] \in [Ring!Slots(o) -> Places]
               /\ m_wix[o] \in Ring!Slots(o) \cup {0}
               /\ m_fsize[o] \in 0 .. m_size[o]
               /\ recent[o] \in Seq(Places) /\ Len(recent[o]) <= m_size[o]
               /\ stored[o] \in [Ring!Slots(o) -> SUBSET Places]
    <3>1. RingOf(m_size[o], m_wix[o], m_fsize[o], m_xy[o], recent[o], stored[o], m_last[o])
      BY DEF RingInv, TheRing
    <3>2. m_fsize[o] <= Len(recent[o])
      BY <3>1, DrawnAreKept
    <3>. QED
      BY <3>1, <3>2, LenProperties DEF RingOf, Ring!Slots
  <2>. QED
    BY <2>1 DEF RingInv, RingTyped, Ring!TypeOK
<1>2. Ring!RingHoldsRecent
  <2>. SUFFICES ASSUME NEW o \in RingObjects
                PROVE  LET n == Len(recent[o])
                       IN  /\ n > 0 => m_last[o] = recent[o][n]
                           /\ \E m \in {n, n - 1} : \A p \in Places :
                                Ring!Cardinality({k \in Ring!Drawn(o) : m_xy[o][k] = p}) = Ring!Kept(o, m, p)
    BY DEF Ring!RingHoldsRecent
  <2>1. RingOf(m_size[o], m_wix[o], m_fsize[o], m_xy[o], recent[o], stored[o], m_last[o])
    BY DEF RingInv, TheRing
  <2>2. PICK m \in {Len(recent[o]), Len(recent[o]) - 1} : SameCounts(m_xy[o], m_fsize[o], recent[o], m)
    BY <2>1, DrawnAreKept
  <2>3. \A S : Ring!Cardinality(S) = Cardinality(S)
    BY DEF Ring!Cardinality, Cardinality, Ring!IsFiniteSet, IsFiniteSet
  <2>4. \A p : Cardinality({k \in 0 .. m_fsize[o] - 1 : m_xy[o][k] = p}) = Cardinality({i \in 1 .. m : recent[o][i] = p})
    BY <2>2 DEF SameCounts, SlotsOf, PlacesOf
  <2>5. ASSUME NEW p \in Places
        PROVE  Ring!Cardinality({k \in Ring!Drawn(o) : m_xy[o][k] = p}) = Ring!Kept(o, m, p)
    BY <2>3, <2>4 DEF Ring!Drawn, Ring!Kept
  <2>6. Len(recent[o]) > 0 => m_last[o] = recent[o][Len(recent[o])]
    BY <2>1 DEF RingOf
  <2>. QED
    BY <2>5, <2>6
<1>3. Ring!NothingStaleIsShown
  <2>1. \A o \in RingObjects : m_size[o] \in Nat
    BY DEF RingInv, RingTyped, Ring!CrossMxAssumption
  <2>2. \A o \in RingObjects : Ring!Slots(o) \ {0} = 1 .. m_size[o] - 1
    BY <2>1 DEF Ring!Slots
  <2>. QED
    BY <2>2 DEF RingInv, Shows, Ring!NothingStaleIsShown
<1>. QED
  BY <1>1, <1>2, <1>3

\* A shape that is hidden keeps its type.
LEMMA RingHidden ==
  \A e \in Ring!Entries : LET h == [e EXCEPT !.visible = FALSE]
                          IN  h \in Ring!Entries /\ h.type = e.type /\ ~h.visible
<1>1. ASSUME NEW e \in Ring!Shapes
      PROVE  LET h == [e EXCEPT !.visible = FALSE] IN h \in Ring!Shapes /\ h.type = e.type /\ ~h.visible
  <2>1. FALSE \in BOOLEAN
    BY Zenon
  <2>. QED
    BY <1>1, <2>1 DEF Ring!Shapes
<1>2. ASSUME NEW e \in [type : {"absent", "null"}, visible : {FALSE}, at : {Origin}]
      PROVE  [e EXCEPT !.visible = FALSE] = e /\ ~e.visible
  OBVIOUS
<1>3. /\ Ring!Absent \in [type : {"absent", "null"}, visible : {FALSE}, at : {Origin}]
      /\ Ring!NullEntry \in [type : {"absent", "null"}, visible : {FALSE}, at : {Origin}]
  BY DEF Ring!Absent, Ring!NullEntry
<1>. QED
  BY <1>1, <1>2, <1>3 DEF Ring!Entries

\* The exports a ring uses keep the types of the map.
LEMMA RingExports ==
  ASSUME Ring!OverlayAssumption, Ring!OverlayTypeOK
  PROVE  /\ UNCHANGED Ring!overlays => Ring!OverlayTypeOK'
         /\ \A map \in [RingIds -> Ring!Entries] : Ring!SetOverlays(map) => Ring!OverlayTypeOK'
         /\ Ring!InitilizeRSTPSource \/ Ring!SelectDecoder \/ Ring!Close => Ring!OverlayTypeOK'
<1>. USE Ring!OverlayAssumption DEF Ring!OverlayTypeOK, Ring!OverlayAssumption
<1>1. ASSUME UNCHANGED Ring!overlays PROVE Ring!OverlayTypeOK'
  BY <1>1 DEF Ring!overlays, Ring!session
<1>2. ASSUME NEW map \in [RingIds -> Ring!Entries], Ring!SetOverlays(map) PROVE Ring!OverlayTypeOK'
  BY <1>2 DEF Ring!SetOverlays, Ring!session
<1>3. ASSUME Ring!InitilizeRSTPSource \/ Ring!SelectDecoder \/ Ring!Close PROVE Ring!OverlayTypeOK'
  <2>1. /\ Ring!NoShapes \in [RingIds -> Ring!Entries]
        /\ Ring!NoShapes \in [RingIds -> {Ring!Absent} \cup {e \in Ring!Shapes : e.visible}]
    BY DEF Ring!NoShapes, Ring!Entries
  <2>. QED
    BY <1>3, <2>1 DEF Ring!InitilizeRSTPSource, Ring!SelectDecoder, Ring!Close
<1>. QED
  BY <1>1, <1>2, <1>3

RingAssumptions == Ring!CrossMxAssumption /\ Ring!OverlayAssumption

\* A step that changes only the map and the flags
LEMMA MapStep ==
  ASSUME RingAssumptions, RingInv, UNCHANGED Ring!ring,
         Ring!OverlayTypeOK', ringDraw' \in [RingObjects -> BOOLEAN],
         \A o \in RingObjects : Shows(o)',
         \A id \in RingIds : /\ ringOverlays'[id].type # "null"
                             /\ id >= index \/ ~ringDsShowPlayer' => ~ringOverlays'[id].visible
  PROVE  RingInv'
<1>1. RingTyped'
  BY DEF RingInv, RingTyped, Ring!ring
<1>2. \A o \in RingObjects : TheRing(o)'
  BY DEF RingInv, TheRing, Ring!ring
<1>3. /\ \A o \in RingObjects : (m_ixStart[o] + 2 * m_size[o] <= index)'
      /\ \A o, q \in RingObjects : (o # q /\ m_size[o] > 0 /\ m_size[q] > 0 => Above(o, q) \/ Above(q, o))'
  BY DEF RingInv, Above, Ring!ring
<1>4. index' = index
  BY DEF Ring!ring
<1>. QED
  BY <1>1, <1>2, <1>3, <1>4 DEF RingInv

\* Crosses drawn in slots whose points were put there
LEMMA DrawStep ==
  ASSUME RingAssumptions, RingInv, NEW o \in RingObjects, NEW K \in SUBSET (0 .. m_size[o] - 1),
         Ring!DrawCrosses(o, K), UNCHANGED Ring!ring,
         ringDraw' \in [RingObjects -> BOOLEAN], \A q \in RingObjects : ringDraw[q] => ringDraw'[q],
         \A k \in K : k > 0 => m_xy[o][k] \in stored[o][k] /\ ringDraw'[o]
  PROVE  RingInv'
<1>. DEFINE map == [id \in RingIds |->
                      IF \E k \in K : id \in Ring!LineIds(o, k)
                        THEN Ring!Shape("line", m_xy[o][(id - m_ixStart[o]) \div 2])
                        ELSE ringOverlays[id]]
<1>0. Ring!CrossMxAssumption /\ Ring!OverlayAssumption /\ Ring!OverlayTypeOK
  BY DEF RingAssumptions, RingInv, RingTyped
<1>1. \/ UNCHANGED Ring!overlays
      \/ ringDsShowPlayer /\ Ring!SetOverlays(map)
  BY DEF Ring!DrawCrosses, Ring!OnPlayer
<1>2. \A id \in RingIds : \A k \in K : id \in Ring!LineIds(o, k) => map[id] = Ring!Shape("line", m_xy[o][k])
  <2>. SUFFICES ASSUME NEW id \in RingIds, NEW k \in K, id \in Ring!LineIds(o, k)
                PROVE  map[id] = Ring!Shape("line", m_xy[o][k])
    OBVIOUS
  <2>1. (id - m_ixStart[o]) \div 2 = k
    BY <1>0, LinesOf
  <2>. QED
    BY <2>1
<1>3. \A id \in RingIds : (\A k \in K : id \notin Ring!LineIds(o, k)) => map[id] = ringOverlays[id]
  OBVIOUS
<1>4. \A k \in K : m_xy[o][k] \in Places
  BY DEF RingInv, TheRing, RingOf
<1>5. map \in [RingIds -> Ring!Entries]
  <2>1. ASSUME NEW id \in RingIds, NEW k \in K, id \in Ring!LineIds(o, k) PROVE map[id] \in Ring!Entries
    <3>1. Ring!Shape("line", m_xy[o][k]) \in Ring!Entries
      BY <1>4 DEF Ring!Shape, Ring!Entries, Ring!Shapes, Ring!Types
    <3>. QED
      BY <1>2, <2>1, <3>1
  <2>2. \A id \in RingIds : ringOverlays[id] \in Ring!Entries
    BY <1>0 DEF Ring!OverlayTypeOK
  <2>3. \A id \in RingIds : map[id] \in Ring!Entries
    BY <1>3, <2>1, <2>2
  <2>. QED
    BY <2>3
<1>. HIDE DEF map
<1>6. Ring!OverlayTypeOK'
  BY <1>0, <1>1, <1>5, RingExports
<1>7. CASE UNCHANGED Ring!overlays
  <2>1. ringOverlays' = ringOverlays /\ ringDsShowPlayer' = ringDsShowPlayer
    BY <1>7 DEF Ring!overlays, Ring!session
  <2>2. \A q \in RingObjects : Shows(q)'
    BY <2>1 DEF RingInv, Shows, Ring!ring, Ring!LineIds
  <2>. QED
    BY <1>6, <2>1, <2>2, MapStep DEF RingInv
<1>8. CASE ringDsShowPlayer /\ Ring!SetOverlays(map)
  <2>1. ringOverlays' = map /\ ringDsShowPlayer' = ringDsShowPlayer
    BY <1>8 DEF Ring!SetOverlays, Ring!session
  <2>2. ASSUME NEW q \in RingObjects, NEW k \in 1 .. m_size[q] - 1, NEW id \in Ring!LineIds(q, k),
               map[id].visible
        PROVE  map[id].at \in stored[q][k] /\ ringDraw'[q]
    <3>0. k \in 0 .. m_size[q] - 1 /\ k > 0
      BY <1>0, RingNumbers
    <3>1. id \in RingIds
      BY <1>0, <3>0, LinesOf
    <3>2. CASE \E j \in K : id \in Ring!LineIds(o, j)
      <4>1. PICK j \in K : id \in Ring!LineIds(o, j)
        BY <3>2
      <4>2. q = o /\ j = k
        BY <1>0, <3>0, <4>1, LinesTell
      <4>3. map[id] = Ring!Shape("line", m_xy[o][k])
        BY <1>2, <3>1, <4>1, <4>2
      <4>4. map[id].at = m_xy[o][k]
        BY <4>3 DEF Ring!Shape
      <4>. QED
        BY <3>0, <4>1, <4>2, <4>4
    <3>3. CASE \A j \in K : id \notin Ring!LineIds(o, j)
      <4>1. map[id] = ringOverlays[id]
        BY <1>3, <3>1, <3>3
      <4>. QED
        BY <2>2, <4>1 DEF RingInv, Shows
    <3>. QED
      BY <3>2, <3>3
  <2>3. \A q \in RingObjects : Shows(q)'
    BY <2>1, <2>2 DEF Shows, Ring!ring, Ring!LineIds
  <2>4. ASSUME NEW id \in RingIds
        PROVE  map[id].type # "null" /\ (id >= index => ~map[id].visible)
    <3>1. CASE \E j \in K : id \in Ring!LineIds(o, j)
      <4>1. PICK j \in K : id \in Ring!LineIds(o, j)
        BY <3>1
      <4>2. id < index /\ index \in Nat /\ id \in Nat
        BY <1>0, <4>1, LinesOf, RingNumbers
      <4>3. map[id] = Ring!Shape("line", m_xy[o][j])
        BY <1>2, <4>1
      <4>4. map[id].type = "line"
        BY <4>3 DEF Ring!Shape
      <4>. QED
        BY <4>2, <4>4
    <3>2. CASE \A j \in K : id \notin Ring!LineIds(o, j)
      BY <1>3, <3>2 DEF RingInv
    <3>. QED
      BY <3>1, <3>2
  <2>. QED
    BY <1>6, <1>8, <2>1, <2>3, <2>4, MapStep
<1>. QED
  BY <1>1, <1>7, <1>8

\* Init takes new lines, on which nothing has been drawn.
LEMMA InitStep ==
  ASSUME RingAssumptions, RingInv, NEW o \in RingObjects, NEW size \in RingSizes, Ring!InitRing(o, size)
  PROVE  RingInv'
<1>. USE DEF Ring!Set
<1>0. Ring!CrossMxAssumption /\ Ring!OverlayAssumption /\ Ring!OverlayTypeOK
  BY DEF RingAssumptions, RingInv, RingTyped
<1>1. size \in Nat /\ size > 0
  BY <1>0 DEF Ring!CrossMxAssumption
<1>2. /\ MaxIndex \in Nat /\ index \in Nat /\ RingIds = 0 .. MaxIndex - 1
      /\ \A q \in RingObjects : m_ixStart[q] \in Nat /\ m_size[q] \in Nat /\ m_ixStart[q] + 2 * m_size[q] <= index
  BY <1>0, RingNumbers
<1>3. index + 2 * size <= MaxIndex /\ index' = index + 2 * size
  BY DEF Ring!InitRing
<1>4. /\ UNCHANGED <<ringOverlays, ringDsShowPlayer, m_last, ringDraw>> /\ UNCHANGED Ring!overlays
  BY DEF Ring!InitRing, Ring!overlays, Ring!session
<1>5. /\ m_ixStart' = [m_ixStart EXCEPT ![o] = index] /\ m_size' = [m_size EXCEPT ![o] = size]
      /\ m_xy' = [m_xy EXCEPT ![o] = [k \in 0 .. size - 1 |-> Origin]]
      /\ m_wix' = [m_wix EXCEPT ![o] = 0] /\ m_fsize' = [m_fsize EXCEPT ![o] = 0]
      /\ recent' = [recent EXCEPT ![o] = <<>>]
      /\ stored' = [stored EXCEPT ![o] = [k \in 0 .. size - 1 |-> {}]]
  BY DEF Ring!InitRing
<1>6. RingTyped
  BY DEF RingInv
<1>7. /\ m_ixStart'[o] = index /\ m_size'[o] = size /\ m_xy'[o] = [k \in 0 .. size - 1 |-> Origin]
      /\ m_wix'[o] = 0 /\ m_fsize'[o] = 0 /\ recent'[o] = <<>>
      /\ stored'[o] = [k \in 0 .. size - 1 |-> {}]
  BY <1>5, <1>6 DEF RingTyped
<1>8. \A q \in RingObjects \ {o} :
        /\ m_ixStart'[q] = m_ixStart[q] /\ m_size'[q] = m_size[q] /\ m_xy'[q] = m_xy[q]
        /\ m_wix'[q] = m_wix[q] /\ m_fsize'[q] = m_fsize[q] /\ recent'[q] = recent[q]
        /\ stored'[q] = stored[q]
  BY <1>5, <1>6 DEF RingTyped
<1>9. RingTyped'
  <2>1. Ring!OverlayTypeOK'
    BY <1>0, <1>4, RingExports
  <2>2. index' \in 0 .. MaxIndex /\ index \in 0 .. MaxIndex
    BY <1>1, <1>2, <1>3
  <2>3. m_ixStart' \in [RingObjects -> 0 .. MaxIndex] /\ m_size' \in [RingObjects -> RingSizes \cup {0}]
    BY <1>5, <1>6, <2>2 DEF RingTyped
  <2>4. m_wix' \in [RingObjects -> Nat] /\ m_fsize' \in [RingObjects -> Nat] /\ recent' \in [RingObjects -> Seq(Places)]
    BY <1>5, <1>6 DEF RingTyped
  <2>5. m_xy' = [q \in RingObjects |-> m_xy'[q]] /\ stored' = [q \in RingObjects |-> stored'[q]]
    BY <1>5, <1>6 DEF RingTyped
  <2>. QED
    BY <1>4, <1>6, <2>1, <2>2, <2>3, <2>4, <2>5 DEF RingTyped
<1>10. \A q \in RingObjects : TheRing(q)'
  <2>1. TheRing(o)'
    <3>1. RingOf(size, 0, 0, [k \in 0 .. size - 1 |-> Origin], <<>>, [k \in 0 .. size - 1 |-> {}], m_last[o])
      BY <1>0, <1>1 DEF RingOf, Ring!OverlayAssumption
    <3>. QED
      BY <1>4, <1>7, <3>1 DEF TheRing
  <2>2. ASSUME NEW q \in RingObjects \ {o} PROVE TheRing(q)'
    BY <1>4, <1>8 DEF TheRing, RingInv
  <2>. QED
    BY <2>1, <2>2
<1>11. /\ \A q \in RingObjects : (m_ixStart[q] + 2 * m_size[q] <= index)'
       /\ \A q, r \in RingObjects : (q # r /\ m_size[q] > 0 /\ m_size[r] > 0 => Above(q, r) \/ Above(r, q))'
  <2>1. \A q \in RingObjects \ {o} : Above(o, q)'
    BY <1>2, <1>7, <1>8 DEF Above
  <2>2. ASSUME NEW q \in RingObjects PROVE (m_ixStart[q] + 2 * m_size[q] <= index)'
    <3>1. CASE q = o
      BY <1>1, <1>2, <1>3, <1>7, <3>1
    <3>2. CASE q # o
      <4>1. m_ixStart[q] + 2 * m_size[q] <= index /\ m_ixStart[q] \in Nat /\ m_size[q] \in Nat
        BY <1>2
      <4>. QED
        BY <1>1, <1>2, <1>3, <1>8, <3>2, <4>1
    <3>. QED
      BY <3>1, <3>2
  <2>3. ASSUME NEW q \in RingObjects \ {o}, NEW r \in RingObjects \ {o}, q # r, m_size'[q] > 0, m_size'[r] > 0
        PROVE  Above(q, r)' \/ Above(r, q)'
    BY <1>8, <2>3 DEF Above, RingInv
  <2>. QED
    BY <2>1, <2>2, <2>3
<1>12. \A q \in RingObjects : Shows(q)'
  <2>1. ASSUME NEW k \in 1 .. size - 1, NEW id \in {index + 2 * k, index + 2 * k + 1}
        PROVE  ~ringOverlays[id].visible
    <3>1. k \in Nat /\ k < size
      BY <1>1
    <3>2. id \in RingIds /\ id >= index
      BY <1>1, <1>2, <1>3, <3>1
    <3>. QED
      BY <3>2 DEF RingInv
  <2>2. Shows(o)'
    BY <1>4, <1>7, <2>1 DEF Shows, Ring!LineIds
  <2>3. ASSUME NEW q \in RingObjects \ {o} PROVE Shows(q)'
    BY <1>4, <1>8 DEF Shows, Ring!LineIds, RingInv
  <2>. QED
    BY <2>2, <2>3
<1>13. \A id \in RingIds : /\ ringOverlays'[id].type # "null"
                           /\ id >= index' \/ ~ringDsShowPlayer' => ~ringOverlays'[id].visible
  <2>1. \A id \in RingIds : id >= index' => id >= index
    BY <1>1, <1>2, <1>3
  <2>. QED
    BY <1>4, <2>1 DEF RingInv
<1>. QED
  BY <1>9, <1>10, <1>11, <1>12, <1>13 DEF RingInv

\* A push goes to the next slot of one ring.
LEMMA PushStep ==
  ASSUME RingAssumptions, RingInv, NEW o \in RingObjects, NEW p \in Places, NEW dups, Ring!Push(o, p, dups)
  PROVE  RingInv'
<1>. USE DEF Ring!Set
<1>0. Ring!CrossMxAssumption /\ Ring!OverlayAssumption /\ Ring!OverlayTypeOK
  BY DEF RingAssumptions, RingInv, RingTyped
<1>1. RingTyped /\ TheRing(o)
  BY DEF RingInv
<1>2. m_size[o] \in Nat \ {0} /\ m_wix[o] \in 0 .. m_size[o] - 1
  <2>1. m_size[o] \in Nat /\ m_size[o] > 0 /\ m_wix[o] \in Nat
    BY <1>0, <1>1, RingNumbers DEF Ring!Push, RingTyped
  <2>. QED
    BY <1>1, <2>1 DEF TheRing, RingOf
<1>3. PICK w2 : w2 = IF m_wix[o] + 1 = m_size[o] THEN 0 ELSE m_wix[o] + 1
  OBVIOUS
<1>4. PICK f2 : f2 = IF w2 # 0 /\ m_fsize[o] < m_size[o] THEN m_fsize[o] + 1 ELSE m_fsize[o]
  OBVIOUS
<1>5. Ring!NextIndex(o) = w2
  BY <1>2, <1>3, NextSlot DEF Ring!NextIndex
<1>6. /\ m_wix' = [m_wix EXCEPT ![o] = w2] /\ m_fsize' = [m_fsize EXCEPT ![o] = f2]
      /\ m_last' = [m_last EXCEPT ![o] = p]
      /\ m_xy' = [m_xy EXCEPT ![o] = [m_xy[o] EXCEPT ![m_wix[o]] = p]]
      /\ recent' = [recent EXCEPT ![o] = Newest(m_size[o], recent[o], p)]
      /\ stored' = [stored EXCEPT ![o] = [stored[o] EXCEPT ![m_wix[o]] = @ \cup {p}]]
      /\ UNCHANGED <<index, m_ixStart, m_size, ringDraw, ringOverlays, ringDsShowPlayer>>
      /\ UNCHANGED Ring!overlays
  BY <1>4, <1>5 DEF Ring!Push, Ring!Counted, Newest, Ring!overlays, Ring!session
<1>7. RingOf(m_size[o], w2, f2, [m_xy[o] EXCEPT ![m_wix[o]] = p], Newest(m_size[o], recent[o], p),
             [stored[o] EXCEPT ![m_wix[o]] = @ \cup {p}], p)
  BY <1>1, <1>2, <1>3, <1>4, PushKeeps DEF TheRing
<1>8. /\ m_wix'[o] = w2 /\ m_fsize'[o] = f2 /\ m_last'[o] = p
      /\ m_xy'[o] = [m_xy[o] EXCEPT ![m_wix[o]] = p]
      /\ recent'[o] = Newest(m_size[o], recent[o], p)
      /\ stored'[o] = [stored[o] EXCEPT ![m_wix[o]] = @ \cup {p}]
  BY <1>1, <1>6 DEF RingTyped
<1>9. \A q \in RingObjects \ {o} :
        /\ m_wix'[q] = m_wix[q] /\ m_fsize'[q] = m_fsize[q] /\ m_last'[q] = m_last[q] /\ m_xy'[q] = m_xy[q]
        /\ recent'[q] = recent[q] /\ stored'[q] = stored[q]
  BY <1>1, <1>6 DEF RingTyped
<1>10. RingTyped'
  <2>1. Ring!OverlayTypeOK'
    BY <1>0, <1>6, RingExports
  <2>2. w2 \in Nat /\ f2 \in Nat /\ Newest(m_size[o], recent[o], p) \in Seq(Places)
    BY <1>7 DEF RingOf
  <2>3. m_wix' \in [RingObjects -> Nat] /\ m_fsize' \in [RingObjects -> Nat] /\ recent' \in [RingObjects -> Seq(Places)]
        /\ m_last' \in [RingObjects -> Places]
    BY <1>1, <1>6, <2>2 DEF RingTyped
  <2>5. m_xy' = [q \in RingObjects |-> m_xy'[q]] /\ stored' = [q \in RingObjects |-> stored'[q]]
    BY <1>1, <1>6 DEF RingTyped
  <2>. QED
    BY <1>1, <1>6, <2>1, <2>3, <2>5 DEF RingTyped
<1>11. \A q \in RingObjects : TheRing(q)'
  <2>1. TheRing(o)'
    BY <1>6, <1>7, <1>8 DEF TheRing
  <2>2. ASSUME NEW q \in RingObjects \ {o} PROVE TheRing(q)'
    BY <1>6, <1>9 DEF TheRing, RingInv
  <2>. QED
    BY <2>1, <2>2
<1>12. \A q \in RingObjects : Shows(q)'
  <2>1. \A k \in 0 .. m_size[o] - 1 : stored[o][k] \subseteq stored'[o][k]
    BY <1>1, <1>2, <1>8 DEF TheRing, RingOf
  <2>2. Shows(o)'
    BY <1>2, <1>6, <2>1 DEF Shows, Ring!LineIds, RingInv
  <2>3. ASSUME NEW q \in RingObjects \ {o} PROVE Shows(q)'
    BY <1>6, <1>9 DEF Shows, Ring!LineIds, RingInv
  <2>. QED
    BY <2>2, <2>3
<1>. QED
  BY <1>6, <1>10, <1>11, <1>12 DEF RingInv, Above

\* Clear empties a ring, and hides every shape there is if this ring has been drawn.
LEMMA ClearStep ==
  ASSUME RingAssumptions, RingInv, NEW o \in RingObjects, Ring!Clear(o)
  PROVE  RingInv'
<1>. USE DEF Ring!Set
<1>0. Ring!CrossMxAssumption /\ Ring!OverlayAssumption /\ Ring!OverlayTypeOK /\ RingTyped /\ TheRing(o)
  BY DEF RingAssumptions, RingInv, RingTyped
<1>1. /\ m_wix' = [m_wix EXCEPT ![o] = 0] /\ m_fsize' = [m_fsize EXCEPT ![o] = 0]
      /\ recent' = [recent EXCEPT ![o] = <<>>]
      /\ stored' = [stored EXCEPT ![o] = [k \in 0 .. m_size[o] - 1 |-> {}]]
      /\ UNCHANGED <<index, m_ixStart, m_size, m_xy, m_last, ringDraw>>
      /\ IF ringDraw[o] THEN Ring!ClearAll ELSE UNCHANGED Ring!overlays
  BY DEF Ring!Clear, Ring!Slots
<1>2. /\ m_wix'[o] = 0 /\ m_fsize'[o] = 0 /\ recent'[o] = <<>>
      /\ stored'[o] = [k \in 0 .. m_size[o] - 1 |-> {}]
  BY <1>0, <1>1 DEF RingTyped
<1>3. \A q \in RingObjects \ {o} :
        m_wix'[q] = m_wix[q] /\ m_fsize'[q] = m_fsize[q] /\ recent'[q] = recent[q] /\ stored'[q] = stored[q]
  BY <1>0, <1>1 DEF RingTyped
<1>4. PICK hidden : hidden = [id \in RingIds |-> [ringOverlays[id] EXCEPT !.visible = FALSE]]
  OBVIOUS
<1>5. \/ UNCHANGED Ring!overlays /\ (ringDraw[o] => ~ringDsShowPlayer)
      \/ ringDsShowPlayer /\ Ring!SetOverlays(hidden)
  BY <1>1, <1>4 DEF RingInv, Ring!ClearAll, Ring!OnPlayer, Ring!HasNullEntry
<1>6. \A id \in RingIds : /\ ringOverlays[id] \in Ring!Entries /\ hidden[id] \in Ring!Entries
                          /\ hidden[id].type = ringOverlays[id].type /\ ~hidden[id].visible
  <2>1. \A e \in Ring!Entries : LET h == [e EXCEPT !.visible = FALSE]
                                IN  h \in Ring!Entries /\ h.type = e.type /\ ~h.visible
    BY RingHidden
  <2>. QED
    BY <1>0, <1>4, <2>1 DEF Ring!OverlayTypeOK
<1>7. hidden \in [RingIds -> Ring!Entries]
  BY <1>4, <1>6
<1>8. Ring!OverlayTypeOK'
  BY <1>0, <1>5, <1>7, RingExports
<1>9. RingTyped'
  <2>1. m_wix' \in [RingObjects -> Nat] /\ m_fsize' \in [RingObjects -> Nat] /\ recent' \in [RingObjects -> Seq(Places)]
    BY <1>0, <1>1 DEF RingTyped
  <2>2. stored' = [q \in RingObjects |-> stored'[q]]
    BY <1>0, <1>1 DEF RingTyped
  <2>3. RingTyped /\ UNCHANGED <<index, m_ixStart, m_size, m_xy, m_last, ringDraw>>
    BY <1>0, <1>1
  <2>. QED
    BY <1>8, <2>1, <2>2, <2>3 DEF RingTyped
<1>10. \A q \in RingObjects : TheRing(q)'
  <2>1. TheRing(o)'
    <3>1. RingOf(m_size[o], 0, 0, m_xy[o], <<>>, [k \in 0 .. m_size[o] - 1 |-> {}], m_last[o])
      BY <1>0 DEF TheRing, RingOf
    <3>. QED
      BY <1>1, <1>2, <3>1 DEF TheRing
  <2>2. ASSUME NEW q \in RingObjects \ {o} PROVE TheRing(q)'
    BY <1>1, <1>3 DEF TheRing, RingInv
  <2>. QED
    BY <2>1, <2>2
<1>11. /\ \A id \in RingIds : /\ ringOverlays'[id].type # "null"
                              /\ id >= index' \/ ~ringDsShowPlayer' => ~ringOverlays'[id].visible
       /\ \A q \in RingObjects : Shows(q)'
  <2>0. \A q \in RingObjects : \A k \in 1 .. m_size[q] - 1 : \A id \in Ring!LineIds(q, k) : id \in RingIds
    <3>1. \A q \in RingObjects : \A k \in 1 .. m_size[q] - 1 : k \in 0 .. m_size[q] - 1
      BY <1>0, RingNumbers
    <3>. QED
      BY <1>0, <3>1, LinesOf
  <2>1. CASE UNCHANGED Ring!overlays /\ (ringDraw[o] => ~ringDsShowPlayer)
    <3>1. UNCHANGED <<ringOverlays, ringDsShowPlayer>>
      BY <2>1 DEF Ring!overlays, Ring!session
    <3>2. Shows(o)'
      <4>1. ASSUME NEW k \in 1 .. m_size[o] - 1, NEW id \in Ring!LineIds(o, k) PROVE ~ringOverlays[id].visible
        BY <2>0, <2>1 DEF RingInv, Shows
      <4>. QED
        BY <1>1, <3>1, <4>1 DEF Shows, Ring!LineIds
    <3>3. ASSUME NEW q \in RingObjects \ {o} PROVE Shows(q)'
      BY <1>1, <1>3, <3>1 DEF Shows, Ring!LineIds, RingInv
    <3>. QED
      BY <1>1, <3>1, <3>2, <3>3 DEF RingInv
  <2>2. CASE ringDsShowPlayer /\ Ring!SetOverlays(hidden)
    <3>1. ringOverlays' = hidden
      BY <2>2 DEF Ring!SetOverlays
    <3>2. \A q \in RingObjects : Shows(q)'
      BY <1>1, <1>6, <2>0, <3>1 DEF Shows, Ring!LineIds
    <3>. QED
      BY <1>6, <3>1, <3>2 DEF RingInv
  <2>. QED
    BY <1>5, <2>1, <2>2
<1>. QED
  BY <1>1, <1>9, <1>10, <1>11 DEF RingInv, Above

\* A player comes or goes.
LEMMA SessionStep ==
  ASSUME RingAssumptions, RingInv, Ring!Session
  PROVE  RingInv'
<1>0. Ring!CrossMxAssumption /\ Ring!OverlayAssumption /\ Ring!OverlayTypeOK /\ RingTyped
  BY DEF RingAssumptions, RingInv, RingTyped
<1>1. Ring!OverlayTypeOK' /\ UNCHANGED Ring!ring /\ ringDraw' = ringDraw
  BY <1>0, RingExports DEF Ring!Session
<1>2. \/ ringDsShowPlayer' /\ ringOverlays' = ringOverlays
      \/ ringOverlays' = Ring!NoShapes
  BY DEF Ring!Session, Ring!InitilizeRSTPSource, Ring!SelectDecoder, Ring!Close
<1>3. \A q \in RingObjects : \A k \in 1 .. m_size[q] - 1 : \A id \in Ring!LineIds(q, k) : id \in RingIds
  <2>1. \A q \in RingObjects : \A k \in 1 .. m_size[q] - 1 : k \in 0 .. m_size[q] - 1
    BY <1>0, RingNumbers
  <2>. QED
    BY <1>0, <2>1, LinesOf
<1>4. CASE ringDsShowPlayer' /\ ringOverlays' = ringOverlays
  <2>1. \A q \in RingObjects : Shows(q)'
    BY <1>1, <1>4 DEF RingInv, Shows, Ring!ring, Ring!LineIds
  <2>2. \A id \in RingIds : /\ ringOverlays'[id].type # "null"
                            /\ id >= index \/ ~ringDsShowPlayer' => ~ringOverlays'[id].visible
    BY <1>4 DEF RingInv
  <2>. QED
    BY <1>0, <1>1, <2>1, <2>2, MapStep DEF RingTyped
<1>5. CASE ringOverlays' = Ring!NoShapes
  <2>1. \A id \in RingIds : ringOverlays'[id].type = "absent" /\ ~ringOverlays'[id].visible
    BY <1>5 DEF Ring!NoShapes, Ring!Absent
  <2>2. \A q \in RingObjects : Shows(q)'
    BY <1>1, <1>3, <2>1 DEF Shows, Ring!ring, Ring!LineIds
  <2>. QED
    BY <1>0, <1>1, <2>1, <2>2, MapStep DEF RingTyped
<1>. QED
  BY <1>2, <1>4, <1>5

\* Every step of the rings keeps the invariant.
LEMMA RingStep ==
  ASSUME RingAssumptions, RingInv, [Ring!Next]_(Ring!vars)
  PROVE  RingInv'
<1>0. Ring!CrossMxAssumption /\ Ring!OverlayAssumption /\ Ring!OverlayTypeOK /\ RingTyped
  BY DEF RingAssumptions, RingInv, RingTyped
<1>1. ASSUME NEW o \in RingObjects, Ring!Draw(o) PROVE RingInv'
  <2>1. /\ Ring!DrawCrosses(o, 0 .. m_fsize[o] - 1) /\ UNCHANGED Ring!ring
        /\ ringDraw' = [ringDraw EXCEPT ![o] = TRUE]
    BY <1>1 DEF Ring!Draw, Ring!Drawn, Ring!Set
  <2>2. TheRing(o) /\ m_fsize[o] \in Nat /\ m_size[o] \in Nat
    BY <1>0, RingNumbers DEF RingInv, RingTyped
  <2>3. m_fsize[o] <= Len(recent[o]) /\ Len(recent[o]) \in Nat /\ Len(recent[o]) <= m_size[o]
    BY <2>2, DrawnAreKept, LenProperties DEF TheRing, RingOf
  <2>4. \A k \in 0 .. m_fsize[o] - 1 : m_xy[o][k] \in stored[o][k]
    <3>1. \A k \in 0 .. Len(recent[o]) - 1 : m_xy[o][k] \in stored[o][k]
      BY <2>2 DEF TheRing, RingOf
    <3>2. \A k \in 0 .. m_fsize[o] - 1 : k \in 0 .. Len(recent[o]) - 1
      BY <2>2, <2>3
    <3>. QED
      BY <3>1, <3>2
  <2>5. 0 .. m_fsize[o] - 1 \in SUBSET (0 .. m_size[o] - 1)
    BY <2>2, <2>3
  <2>6. ringDraw' \in [RingObjects -> BOOLEAN]
    BY Zenon, <1>0, <2>1 DEF RingTyped
  <2>7. ringDraw'[o] /\ \A q \in RingObjects : ringDraw[q] => ringDraw'[q]
    BY <1>0, <2>1 DEF RingTyped
  <2>. QED
    BY <2>1, <2>4, <2>5, <2>6, <2>7, DrawStep
<1>2. ASSUME NEW o \in RingObjects, Ring!DrawFirst(o) PROVE RingInv'
  <2>1. Ring!DrawCrosses(o, {0}) /\ UNCHANGED <<Ring!ring, ringDraw>> /\ m_size[o] > 0
    BY <1>2 DEF Ring!DrawFirst
  <2>2. {0} \in SUBSET (0 .. m_size[o] - 1)
    BY <1>0, <2>1, RingNumbers
  <2>3. \A k \in {0} : ~(k > 0)
    OBVIOUS
  <2>4. UNCHANGED Ring!ring /\ ringDraw' = ringDraw /\ ringDraw \in [RingObjects -> BOOLEAN]
    BY <1>0, <2>1 DEF RingTyped
  <2>. QED
    BY <2>1, <2>2, <2>3, <2>4, DrawStep
<1>3. CASE UNCHANGED Ring!vars
  <2>1. UNCHANGED <<Ring!ring, Ring!overlays, ringOverlays, ringDsShowPlayer, ringDraw>>
    BY <1>3 DEF Ring!vars, Ring!overlays, Ring!session
  <2>2. Ring!OverlayTypeOK' /\ UNCHANGED Ring!ring /\ ringDraw' \in [RingObjects -> BOOLEAN]
    BY <1>0, <2>1, RingExports DEF RingTyped
  <2>3. \A q \in RingObjects : Shows(q)'
    BY <2>1, <2>2 DEF RingInv, Shows, Ring!ring, Ring!LineIds
  <2>. QED
    BY <2>1, <2>2, <2>3, MapStep DEF RingInv
<1>. QED
  BY <1>1, <1>2, <1>3, InitStep, PushStep, ClearStep, SessionStep DEF Ring!Next

LEMMA RingStarts == ASSUME RingAssumptions, Ring!Init PROVE RingInv
<1>0. Ring!CrossMxAssumption /\ Ring!OverlayAssumption
  BY DEF RingAssumptions
<1>1. /\ index = 0 /\ m_ixStart = [o \in RingObjects |-> 0] /\ m_size = [o \in RingObjects |-> 0]
      /\ m_xy = [o \in RingObjects |-> <<>>] /\ m_wix = [o \in RingObjects |-> 0]
      /\ m_fsize = [o \in RingObjects |-> 0] /\ m_last = [o \in RingObjects |-> Origin]
      /\ ringDraw = [o \in RingObjects |-> FALSE] /\ recent = [o \in RingObjects |-> <<>>]
      /\ stored = [o \in RingObjects |-> <<>>] /\ ringOverlays = Ring!NoShapes
  BY DEF Ring!Init, Ring!NoPlayer
<1>2. <<>> \in [0 .. 0 - 1 -> Places] /\ <<>> \in [0 .. 0 - 1 -> SUBSET Places] /\ <<>> \in Seq(Places) /\ Len(<<>>) = 0
  <2>1. \A S : <<>> \in Seq(S) /\ Len(<<>>) = 0
    OBVIOUS
  <2>2. \A S : <<>> \in [1 .. 0 -> S]
    BY <2>1, LenProperties
  <2>3. 1 .. 0 = 0 .. 0 - 1
    OBVIOUS
  <2>. QED
    BY <2>1, <2>2, <2>3
<1>3. \A o \in RingObjects : TheRing(o)
  BY <1>1, <1>2 DEF TheRing, RingOf
<1>4. Ring!OverlayTypeOK
  <2>1. /\ Ring!NoShapes \in [RingIds -> Ring!Entries]
        /\ Ring!NoShapes \in [RingIds -> {Ring!Absent} \cup {e \in Ring!Shapes : e.visible}]
    BY DEF Ring!NoShapes, Ring!Entries
  <2>2. Ring!NoHandles \in [{"windowDC", "memoryDC", "bitmap"} -> Nat]
    BY DEF Ring!NoHandles, Ring!Handles
  <2>3. /\ ringDsShowPlayer \in BOOLEAN /\ ringVideoInitialized \in BOOLEAN /\ ringPVideo \in BOOLEAN
        /\ ringCrashed \in BOOLEAN
    BY Zenon DEF Ring!Init, Ring!NoPlayer
  <2>4. ringFailures \in 0 .. MaxFailures
    BY <1>0 DEF Ring!Init, Ring!NoPlayer, Ring!OverlayAssumption
  <2>. QED
    BY <2>1, <2>2, <2>3, <2>4 DEF Ring!Init, Ring!NoPlayer, Ring!OverlayTypeOK
<1>5. RingTyped
  <2>1. ringDraw \in [RingObjects -> BOOLEAN]
    BY Zenon, <1>1
  <2>. QED
    BY <1>0, <1>1, <1>2, <1>4, <2>1 DEF RingTyped, Ring!CrossMxAssumption, Ring!OverlayAssumption
<1>6. \A id \in RingIds : ringOverlays[id].type # "null" /\ ~ringOverlays[id].visible
  BY <1>1 DEF Ring!NoShapes, Ring!Absent
<1>. QED
  BY <1>1, <1>3, <1>5, <1>6 DEF RingInv, Shows

----------------------------------------------------------------------------
(* Side by side *)

\* Each component has its invariant, in every execution: those an execution is
\* not about stay as they were at the start.
ManagedInv ==
  /\ CrossInv /\ CrossTyped /\ HandleInv /\ RingInv /\ AppInv
  /\ IF part = "TwoObjects" THEN TwoObjects!SerialInv ELSE OneObject!OneInv

\* What the constants promise each component
LEMMA TheirAssumptions ==
  RingAssumptions /\ OneObject!WrapperAssumption /\ TwoObjects!WrapperAssumption /\ App!SampleAssumption
<1>1. Ring!OverlayAssumption
  BY OverlayAssumption DEF Ring!OverlayAssumption, Ring!GdiCalls, GdiCalls
<1>. QED
  BY <1>1, ManagedAssumption DEF RingAssumptions

LEMMA CrossStartsTyped == Init => CrossTyped
<1>. SUFFICES ASSUME Init PROVE CrossTyped
  OBVIOUS
<1>1. OverlayTypeOK
  BY NoPlayerTyped DEF Init
<1>2. draw \in [Crosses -> BOOLEAN]
  BY Zenon DEF Init
<1>3. busy \in [Threads -> Calls]
  BY DEF Init, Calls
<1>. QED
  BY <1>1, <1>2, <1>3 DEF CrossTyped

LEMMA ManagedStarts == ManagedInit => ManagedInv
<1>. SUFFICES ASSUME ManagedInit PROVE ManagedInv
  OBVIOUS
<1>1. Init /\ Ring!Init /\ App!Init
  BY DEF ManagedInit
<1>2. CrossInv /\ CrossTyped /\ HandleInv
  BY <1>1, CrossStarts, CrossStartsTyped, HandlesStart
<1>3. RingInv
  BY <1>1, RingStarts, TheirAssumptions
<1>4. AppInv
  BY <1>1, AppStarts, TheirAssumptions
<1>5. CASE part = "TwoObjects"
  <2>1. TwoObjects!Init
    BY <1>5 DEF ManagedInit
  <2>2. TwoObjects!SerialInv
    BY <2>1, TheirAssumptions, TwoObjects!SerialInit
  <2>. QED
    BY <1>2, <1>3, <1>4, <1>5, <2>2 DEF ManagedInv
<1>6. CASE part # "TwoObjects"
  <2>1. OneObject!Init
    BY <1>6 DEF ManagedInit
  <2>2. OneObject!OneInv
    BY <2>1, TheirAssumptions, OneObject!OneStarts
  <2>. QED
    BY <1>2, <1>3, <1>4, <1>6, <2>2 DEF ManagedInv
<1>. QED
  BY <1>5, <1>6

\* A step of all is a step of one component, or of none.
LEMMA StepOfEach ==
  ASSUME [ManagedNext]_<<part, vars, ringVars, wrapperVars, appVars>>
  PROVE  /\ part' = part
         /\ [Next]_vars /\ (part # "Cross" => UNCHANGED vars)
         /\ [Ring!Next]_(Ring!vars) /\ [App!Next]_(App!vars)
         /\ part = "TwoObjects" => [TwoObjects!Next]_(TwoObjects!vars)
         /\ part # "TwoObjects" => [OneObject!Next]_(OneObject!vars) /\ (part = "OneObject" \/ UNCHANGED wrapperVars)
<1>1. UNCHANGED ringVars => UNCHANGED Ring!vars
  BY DEF ringVars, Ring!vars, Ring!overlays, Ring!session, Ring!ring
<1>2. UNCHANGED appVars => UNCHANGED App!vars
  BY DEF appVars, App!vars
<1>3. UNCHANGED wrapperVars => UNCHANGED OneObject!vars /\ UNCHANGED TwoObjects!vars
  BY DEF wrapperVars, OneObject!vars, TwoObjects!vars
<1>4. CASE UNCHANGED <<part, vars, ringVars, wrapperVars, appVars>>
  BY <1>1, <1>2, <1>3, <1>4
<1>5. CASE ManagedNext
  BY <1>1, <1>2, <1>3, <1>5 DEF ManagedNext
<1>. QED
  BY <1>4, <1>5

LEMMA ManagedStep ==
  ASSUME Careful = TRUE, Distinct, ManagedInv,
         [ManagedNext]_<<part, vars, ringVars, wrapperVars, appVars>>
  PROVE  ManagedInv'
<1>1. CrossInv' /\ CrossTyped' /\ HandleInv'
  BY StepOfEach, CrossStep, CrossStepTyped, HandleStep DEF ManagedInv
<1>2. RingInv'
  BY StepOfEach, RingStep, TheirAssumptions DEF ManagedInv
<1>3. AppInv'
  BY StepOfEach, AppStep, TheirAssumptions DEF ManagedInv
<1>4. CASE part = "TwoObjects"
  <2>1. TwoObjects!SerialInv /\ [TwoObjects!Next]_(TwoObjects!vars) /\ part' = part
    BY <1>4, StepOfEach DEF ManagedInv
  <2>2. TwoObjects!SerialInv'
    BY <2>1, TheirAssumptions, TwoObjects!SerialStep
  <2>. QED
    BY <1>1, <1>2, <1>3, <1>4, <2>1, <2>2 DEF ManagedInv
<1>5. CASE part # "TwoObjects"
  <2>1. OneObject!OneInv /\ [OneObject!Next]_(OneObject!vars) /\ part' = part
    BY <1>5, StepOfEach DEF ManagedInv
  <2>2. OneObject!OneInv'
    BY <2>1, TheirAssumptions, OneObject!OneStep
  <2>. QED
    BY <1>1, <1>2, <1>3, <1>5, <2>1, <2>2 DEF ManagedInv
<1>. QED
  BY <1>4, <1>5

\* The managed side is in order whatever the numbers of threads, crosses, rings,
\* DSCS objects and forms: all that a run finds of small instances.
THEOREM EverythingManagedIsInOrder ==
  ASSUME Careful = TRUE, Distinct
  PROVE  ManagedSpec => [](CrossIsWhole /\ HandlesComeBack /\ ManagedIsInOrder)
<1>1. ManagedInv => CrossIsWhole /\ HandlesComeBack /\ ManagedIsInOrder
  <2>. SUFFICES ASSUME ManagedInv PROVE CrossIsWhole /\ HandlesComeBack /\ ManagedIsInOrder
    OBVIOUS
  <2>1. TypeOK /\ NoNullEntry /\ CrossIsWhole /\ HandlesComeBack
    BY CrossTypedImplies, CrossInvImplies DEF ManagedInv, HandleInv
  <2>2. Ring!TypeOK /\ Ring!RingHoldsRecent /\ Ring!NothingStaleIsShown
    BY RingInvImplies, TheirAssumptions DEF ManagedInv, RingAssumptions
  <2>3. App!TypeOK /\ App!PictureIsVisible /\ App!StumblesAfterFailure /\ App!NothingLeftOpen
    BY AppInvImplies DEF ManagedInv, AppInv
  <2>4. part = "TwoObjects" => TwoObjects!FaultsTakeTwoCalls
    BY DEF ManagedInv, TwoObjects!SerialInv, TwoObjects!FaultsTakeTwoCalls
  <2>5. part = "OneObject" => OneObject!TypeOK /\ OneObject!UsesAreAlive /\ OneObject!CloseCloses /\ OneObject!NoPlayerIsLost
    BY OneObject!OneInvImplies DEF ManagedInv, OneObject!OneInv
  <2>. QED
    BY <2>1, <2>2, <2>3, <2>4, <2>5 DEF ManagedIsInOrder
<1>2. ManagedInv /\ [ManagedNext]_<<part, vars, ringVars, wrapperVars, appVars>> => ManagedInv'
  BY ManagedStep
<1>. QED
  BY <1>1, <1>2, ManagedStarts, PTL DEF ManagedSpec

\* ... and no step goes wrong but for the causes its properties name.
THEOREM EveryStepHasItsCause ==
  ASSUME Careful = TRUE, Distinct
  PROVE  ManagedSpec => StepsHaveCauses
<1>1. ManagedInv /\ [ManagedNext]_<<part, vars, ringVars, wrapperVars, appVars>> => ManagedInv'
  BY ManagedStep
<1>2. ManagedInv /\ [ManagedNext]_<<part, vars, ringVars, wrapperVars, appVars>> =>
        [part = "Cross" => PictureShowsWhole]_<<part, vars>>
  BY StepOfEach, PictureStep DEF ManagedInv
<1>3. ManagedInv /\ [ManagedNext]_<<part, vars, ringVars, wrapperVars, appVars>> =>
        [TwoObjects!NoPlayerIsLost /\ ~TwoObjects!NoPlayerIsLost' => met # {}]_(TwoObjects!vars)
  <2>. SUFFICES ASSUME ManagedInv, [ManagedNext]_<<part, vars, ringVars, wrapperVars, appVars>>
                PROVE  [TwoObjects!NoPlayerIsLost /\ ~TwoObjects!NoPlayerIsLost' => met # {}]_(TwoObjects!vars)
    OBVIOUS
  <2>1. CASE part = "TwoObjects"
    <3>1. TwoObjects!SerialInv /\ [TwoObjects!Next]_(TwoObjects!vars)
      BY <2>1, StepOfEach DEF ManagedInv
    <3>. QED
      BY <3>1, TheirAssumptions, TwoObjects!SerialStep
  <2>2. CASE part # "TwoObjects"
    <3>1. OneObject!OneInv /\ [OneObject!Next]_(OneObject!vars)
      BY <2>2, StepOfEach DEF ManagedInv
    <3>2. OneObject!OneInv'
      BY <3>1, TheirAssumptions, OneObject!OneStep
    <3>3. OneObject!NoPlayerIsLost'
      BY <3>2 DEF OneObject!OneInv, OneObject!Agree, OneObject!NoPlayerIsLost
    <3>. QED
      BY <3>3 DEF OneObject!NoPlayerIsLost, TwoObjects!NoPlayerIsLost
  <2>. QED
    BY <2>1, <2>2
<1>4. ManagedInv /\ [ManagedNext]_<<part, vars, ringVars, wrapperVars, appVars>> =>
        /\ [App!FlagTellsPanel /\ ~App!FlagTellsPanel' =>
              App!btnPlayerExample \/ App!btnRTSP \/ App!SaveRTSP \/ App!Return]_(App!vars)
        /\ [App!Fits /\ ~App!Fits' => App!btnRTSP \/ App!Form1_Resize]_(App!vars)
  BY StepOfEach, AppCauses DEF ManagedInv
<1>. QED
  BY <1>1, <1>2, <1>3, <1>4, ManagedStarts, PTL
     DEF ManagedSpec, StepsHaveCauses, TwoObjects!LossesTakeTwoCalls, App!FlagGetsLostOnly, App!MisfitsHaveCauses
=============================================================================
