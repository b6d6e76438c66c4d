------------------------------ MODULE CrossMx ------------------------------
(***************************************************************************)
(* DSCSLib/CrossMx.cs: a ring of the points pushed last, each drawn as a    *)
(* cross of its own, whose line ids Init takes from a counter all objects   *)
(* share.  The class has no lock and is meant for one thread, so that each  *)
(* method is one step; nobody else draws on the ids Init has taken.        *)
(***************************************************************************)
EXTENDS Overlays, Sequences

CONSTANTS Objects,    \* the CrossMx objects
          Sizes,      \* what Init may be given
          MaxIndex    \* how many ids Init may take in one execution (a bound)

CrossMxAssumption ==
  /\ Sizes \subseteq Nat \ {0} /\ MaxIndex \in Nat
  /\ Ids = 0 .. MaxIndex - 1

VARIABLES index,       \* the static counter of line ids
          m_ixStart, m_size, m_xy, m_wix, m_fsize, m_last,
          draw,        \* the flag inherited from Cross
          recent,      \* the points kept since the ring was last emptied, oldest
                       \* first, at most m_size of them
          stored       \* and all those put in each slot since then
                       \* (these two only serve to state properties)

ring == <<index, m_ixStart, m_size, m_xy, m_wix, m_fsize, m_last, recent, stored>>
vars == <<overlays, ring, draw>>

Slots(o) == 0 .. m_size[o] - 1
Drawn(o) == 0 .. m_fsize[o] - 1

Init == /\ NoPlayer
        /\ index = 0
        /\ m_ixStart = [o \in Objects |-> 0]
        /\ m_size = [o \in Objects |-> 0]
        /\ m_xy = [o \in Objects |-> <<>>]
        /\ m_wix = [o \in Objects |-> 0]
        /\ m_fsize = [o \in Objects |-> 0]
        /\ m_last = [o \in Objects |-> Origin]
        /\ draw = [o \in Objects |-> FALSE]
        /\ recent = [o \in Objects |-> <<>>]
        /\ stored = [o \in Objects |-> <<>>]

Set(f, o, v) == [f EXCEPT ![o] = v]

\* The method Init: new crosses with new ids.  Those of an earlier Init are
\* left where they are, and m_last keeps its value.
InitRing(o, size) ==
  /\ index + 2 * size <= MaxIndex                   \* the bound
  /\ index' = index + 2 * size
  /\ m_ixStart' = Set(m_ixStart, o, index)
  /\ m_size' = Set(m_size, o, size)
  /\ m_xy' = Set(m_xy, o, [k \in 0 .. size - 1 |-> Origin])
  /\ m_wix' = Set(m_wix, o, 0)
  /\ m_fsize' = Set(m_fsize, o, 0)
  /\ recent' = Set(recent, o, <<>>)
  /\ stored' = Set(stored, o, [k \in 0 .. size - 1 |-> {}])
  /\ UNCHANGED <<overlays, m_last, draw>>

\* The push that wraps the index is not counted.
Counted(o, wix) == IF wix # 0 /\ m_fsize[o] < m_size[o] THEN m_fsize[o] + 1
                                                        ELSE m_fsize[o]

NextIndex(o) == (m_wix[o] + 1) % m_size[o]

\* A point that equals the last one is dropped on demand, and any point that
\* comes too early: then nothing changes.
Push(o, p, removeDups) ==
  /\ m_size[o] > 0
  /\ ~(removeDups /\ m_last[o] = p)
  /\ m_xy' = [m_xy EXCEPT ![o][m_wix[o]] = p]
  /\ m_last' = Set(m_last, o, p)
  /\ m_wix' = Set(m_wix, o, NextIndex(o))
  /\ m_fsize' = Set(m_fsize, o, Counted(o, NextIndex(o)))
  /\ recent' = Set(recent, o, Append(IF Len(recent[o]) = m_size[o]
                                       THEN Tail(recent[o]) ELSE recent[o], p))
  /\ stored' = [stored EXCEPT ![o][m_wix[o]] = @ \cup {p}]
  /\ UNCHANGED <<overlays, index, m_ixStart, m_size, draw>>

LineIds(o, k) == {m_ixStart[o] + 2 * k, m_ixStart[o] + 2 * k + 1}

\* The crosses of the slots in K, each at the point of its slot.
DrawCrosses(o, K) ==
  OnPlayer(SetOverlays([id \in Ids |->
    IF \E k \in K : id \in LineIds(o, k)
      THEN Shape("line", m_xy[o][(id - m_ixStart[o]) \div 2])
      ELSE m_overlays[id]]))

Draw(o) == /\ DrawCrosses(o, Drawn(o))
           /\ draw' = Set(draw, o, TRUE)
           /\ UNCHANGED ring

\* DrawFirst neither looks whether the ring is empty nor sets the flag.
DrawFirst(o) == /\ m_size[o] > 0
                /\ DrawCrosses(o, {0})
                /\ UNCHANGED <<ring, draw>>

Clear(o) == /\ IF draw[o] THEN ClearAll ELSE UNCHANGED overlays
            /\ m_wix' = Set(m_wix, o, 0)
            /\ m_fsize' = Set(m_fsize, o, 0)
            /\ recent' = Set(recent, o, <<>>)
            /\ stored' = Set(stored, o, [k \in Slots(o) |-> {}])
            /\ UNCHANGED <<index, m_ixStart, m_size, m_xy, m_last, draw>>

Session == /\ InitilizeRSTPSource \/ SelectDecoder \/ Close
           /\ UNCHANGED <<ring, draw>>

Next == \/ \E o \in Objects :
             \/ \E size \in Sizes : InitRing(o, size)
             \/ \E p \in Places, removeDups \in BOOLEAN : Push(o, p, removeDups)
             \/ Draw(o) \/ DrawFirst(o) \/ Clear(o)
        \/ Session

Spec == Init /\ [][Next]_vars

-----------------------------------------------------------------------------
\* Every variable keeps to its type; no index leaves the arrays m_xy and
\* m_cross.
TypeOK ==
  /\ OverlayTypeOK
  /\ index \in 0 .. MaxIndex
  /\ m_ixStart \in [Objects -> 0 .. MaxIndex]
  /\ m_size \in [Objects -> Sizes \cup {0}]
  /\ \A o \in Objects :
       /\ m_xy[o] \in [Slots(o) -> Places]
       /\ m_wix[o] \in Slots(o) \cup {0}
       /\ m_fsize[o] \in 0 .. m_size[o]
       /\ recent[o] \in Seq(Places) /\ Len(recent[o]) <= m_size[o]
       /\ stored[o] \in [Slots(o) -> SUBSET Places]
  /\ m_last \in [Objects -> Places]
  /\ draw \in [Objects -> BOOLEAN]

Kept(o, n, p) == Cardinality({i \in 1 .. n : recent[o][i] = p})

\* Draw shows the last m_size points pushed since the ring was emptied, each
\* as often as it was pushed, but for the newest one, which may be missing
\* (the push that wraps is not counted); and a duplicate is judged by it.
RingHoldsRecent ==
  \A o \in Objects :
    LET n == Len(recent[o])
    IN  /\ n > 0 => m_last[o] = recent[o][n]
        /\ \E m \in {n, n - 1} : \A p \in Places :
             Cardinality({k \in Drawn(o) : m_xy[o][k] = p}) = Kept(o, m, p)

\* What a visible cross of a ring shows was pushed to its own slot since the
\* ring was last emptied, whatever other objects draw and clear; only the
\* cross DrawFirst draws may be an old one.
NothingStaleIsShown ==
  \A o \in Objects : \A k \in Slots(o) \ {0} : \A id \in LineIds(o, k) :
    m_overlays[id].visible => m_overlays[id].at \in stored[o][k]
=============================================================================
