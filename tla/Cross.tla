------------------------------- MODULE Cross -------------------------------
(***************************************************************************)
(* DSCSLib/Cross.cs: a cross is two lines, drawn and hidden by two calls of *)
(* the DSCS object.  Each call holds the lock of that object; nothing holds *)
(* it between the two, so other threads come in between.                   *)
(***************************************************************************)
EXTENDS Overlays

CONSTANTS Threads,   \* the threads of the program
          Crosses,   \* the Cross objects
          m_id,      \* the two line ids given to each of them
          Careful    \* whether the program keeps to the protocol below

ASSUME CrossAssumption == /\ m_id \in [Crosses -> [1 .. 2 -> Ids]]
                          /\ Careful \in BOOLEAN

VARIABLES draw,      \* the flag draw of each cross
          busy       \* the call of a cross each thread is in the middle of

vars == <<overlays, draw, busy>>

Idle        == [op |-> "idle"]
Draws(c, p) == [op |-> "Draw", cross |-> c, at |-> p]
Removes(c)  == [op |-> "Remove", cross |-> c]

Init == /\ NoPlayer
        /\ draw = [c \in Crosses |-> FALSE]
        /\ busy = [t \in Threads |-> Idle]

Ready(t) == busy[t] = Idle /\ ~crashed

Busy(c) == \E t \in Threads : busy[t] # Idle /\ busy[t].cross = c

LineIds == {m_id[c][n] : c \in Crosses, n \in 1 .. 2}

\* A program that knows the library uses a cross from one thread at a time,
\* removes it only when it is drawn on the player there is, keeps the ids of
\* the lines to itself, and calls what touches every shape (Clear, Close, an
\* initialisation that may make a new player) only between the calls of all
\* crosses.
Alone      == \A t \in Threads : busy[t] = Idle
MayUse(c)  == Careful => ~Busy(c)
MayRemove(c) == Careful => \A n \in 1 .. 2 : IsShape(m_overlays[m_id[c][n]])

-----------------------------------------------------------------------------
Draw(t, c, p) == /\ Ready(t) /\ MayUse(c)
                 /\ AddLine(m_id[c][1], p)
                 /\ busy' = [busy EXCEPT ![t] = Draws(c, p)]
                 /\ UNCHANGED draw

\* A slip in Draw: both calls use the first id.
DrawSecond_SameId(t) ==
  /\ busy[t].op = "Draw" /\ ~crashed
  /\ AddLine(m_id[busy[t].cross][1], busy[t].at)
  /\ draw' = [draw EXCEPT ![busy[t].cross] = TRUE]
  /\ busy' = [busy EXCEPT ![t] = Idle]

DrawSecond(t) ==
  /\ busy[t].op = "Draw" /\ ~crashed
  /\ AddLine(m_id[busy[t].cross][2], busy[t].at)
  /\ draw' = [draw EXCEPT ![busy[t].cross] = TRUE]
  /\ busy' = [busy EXCEPT ![t] = Idle]

Remove(t, c) == /\ Ready(t) /\ MayUse(c) /\ MayRemove(c)
                /\ Visible(m_id[c][1], FALSE)
                /\ busy' = [busy EXCEPT ![t] = Removes(c)]
                /\ UNCHANGED draw

RemoveSecond(t) == /\ busy[t].op = "Remove" /\ ~crashed
                   /\ Visible(m_id[busy[t].cross][2], FALSE)
                   /\ busy' = [busy EXCEPT ![t] = Idle]
                   /\ UNCHANGED draw

\* Clear of a cross that was ever drawn hides every shape there is.
Clear(t, c) == /\ Ready(t) /\ draw[c]
               /\ Careful => Alone
               /\ ClearAll
               /\ UNCHANGED <<draw, busy>>

\* The other shapes, which the program itself adds; where they are does not
\* matter here.
AddOther(t, id) == /\ Ready(t)
                   /\ Careful => id \notin LineIds
                   /\ \/ AddCircle(id, Origin)
                      \/ AddTextOverlay(id, Origin)
                      \/ AddTextOverlay2(id, Origin)
                   /\ UNCHANGED <<draw, busy>>

Show(t) == /\ Ready(t)
           /\ ApplyOverlay
           /\ UNCHANGED <<draw, busy>>

\* The calls that begin and end a player.
Session(t) == /\ Ready(t)
              /\ Careful => Alone
              /\ InitilizeRSTPSource \/ SelectDecoder \/ Close
              /\ UNCHANGED <<draw, busy>>

Begin(t)  == \/ \E c \in Crosses, p \in Places : Draw(t, c, p)
             \/ \E c \in Crosses : Remove(t, c) \/ Clear(t, c)
             \/ \E id \in Ids : AddOther(t, id)
             \/ Show(t)
             \/ Session(t)
Finish(t) == DrawSecond(t) \/ RemoveSecond(t)

Next == \E t \in Threads : Begin(t) \/ Finish(t)

Spec == Init /\ [][Next]_vars

-----------------------------------------------------------------------------
\* Every variable keeps to its type.
TypeOK == /\ OverlayTypeOK
          /\ draw \in [Crosses -> BOOLEAN]
          /\ \A t \in Threads :
               \/ busy[t] = Idle
               \/ \E c \in Crosses, p \in Places : busy[t] = Draws(c, p)
               \/ \E c \in Crosses : busy[t] = Removes(c)

\* The two lines of a cross agree whenever no thread is in the middle of
\* drawing or removing it: both are there or neither, at one place, and both
\* are visible or hidden, however other crosses are drawn and shown meanwhile.
CrossIsWhole ==
  \A c \in Crosses : ~Busy(c) => m_overlays[m_id[c][1]] = m_overlays[m_id[c][2]]

\* The map never has a NULL entry that the next Clear, ApplyOverlay or Draw
\* would dereference.
NoNullEntry == ~HasNullEntry /\ ~crashed

\* ApplyOverlay loses GDI handles only when a call in it fails, and at most
\* one of each kind for each failure: it can be called any number of times.
HandlesComeBack == \A h \in DOMAIN gdi : gdi[h] <= failures

\* A picture on the screen never shows half of a cross nobody was drawing:
\* what ApplyOverlay hands to the mixer has idle crosses whole.
PictureShowsWhole ==
  \A c \in Crosses : ~Busy(c) /\ picture' # picture =>
    picture'[m_id[c][1]] = picture'[m_id[c][2]]
=============================================================================
