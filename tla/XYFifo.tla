------------------------------- MODULE XYFifo -------------------------------
(***************************************************************************)
(* DSCSLib/xyfifo.cs: a ring buffer of points.  The body of every public   *)
(* method is inside lock(this); Push and Pop call GetSize, whose own       *)
(* lock(this) is taken again by the thread that already holds the monitor  *)
(* and so never waits.  A point is stored and fetched one coordinate at a  *)
(* time, and the indices move after the coordinates: between these steps   *)
(* the ring is inconsistent, and only the monitor hides it.                *)
(***************************************************************************)
EXTENDS Integers, Sequences, TLAPS

CONSTANTS Threads,    \* the threads that call the object
          Coords,     \* the coordinates a caller may pass
          m_size,     \* the number of slots given to the constructor
          NoThread    \* the monitor's owner while it is free

ASSUME FifoAssumption == /\ m_size \in Nat \ {0}
                         /\ Coords \subseteq Int
                         /\ 0 \in Coords
                         /\ NoThread \notin Threads

VARIABLES fifo, m_readIndex, m_writeIndex,
          monitor,    \* the thread inside lock(this), or NoThread
          pc,         \* where each thread is
          xy,         \* parameters x, y of the call each thread is in
          result      \* what the last finished call of each thread returned

vars == <<fifo, m_readIndex, m_writeIndex, monitor, pc, xy, result>>

Slots  == 0 .. m_size - 1
Point  == [x : Coords, y : Coords]
Origin == [x |-> 0, y |-> 0]

Init == /\ fifo = [i \in Slots |-> Origin]
        /\ m_readIndex = 0
        /\ m_writeIndex = 0
        /\ monitor = NoThread
        /\ pc = [t \in Threads |-> "idle"]
        /\ xy = [t \in Threads |-> Origin]
        /\ result = [t \in Threads |->
                       [op |-> "none", ok |-> FALSE, p |-> Origin, n |-> 0]]

\* What GetSize computes from the two indices.
GetSize ==
  IF m_readIndex = m_writeIndex THEN 0
  ELSE IF m_writeIndex > m_readIndex THEN m_writeIndex - m_readIndex
  ELSE m_size - m_readIndex + m_writeIndex

Indices == <<m_readIndex, m_writeIndex>>

Goto(t, l) == pc' = [pc EXCEPT ![t] = l]

\* Entering lock(this): the thread waits until the monitor is free.
Enter(t, l, p) == /\ pc[t] = "idle"
                  /\ monitor = NoThread
                  /\ monitor' = t
                  /\ Goto(t, l)
                  /\ xy' = [xy EXCEPT ![t] = p]
                  /\ UNCHANGED <<fifo, Indices, result>>

\* A return statement, which also leaves lock(this).
Return(t, op, ok, p, n) ==
  /\ monitor' = NoThread
  /\ Goto(t, "idle")
  /\ xy' = [xy EXCEPT ![t] = Origin]
  /\ result' = [result EXCEPT ![t] = [op |-> op, ok |-> ok, p |-> p, n |-> n]]

\* A slip in Push: the test for a full ring compares with the number of slots.
Full_OffByOne == GetSize = m_size

\* One slot always stays free, so that a full ring differs from an empty one.
Full == GetSize = m_size - 1

PushFull(t) == /\ pc[t] = "push"
               /\ Full
               /\ Return(t, "Push", FALSE, Origin, 0)
               /\ UNCHANGED <<fifo, Indices>>

PushX(t) == /\ pc[t] = "push"
            /\ ~Full
            /\ fifo' = [fifo EXCEPT ![m_writeIndex].x = xy[t].x]
            /\ Goto(t, "pushY")
            /\ UNCHANGED <<Indices, monitor, xy, result>>

PushY(t) == /\ pc[t] = "pushY"
            /\ fifo' = [fifo EXCEPT ![m_writeIndex].y = xy[t].y]
            /\ Goto(t, "pushIndex")
            /\ UNCHANGED <<Indices, monitor, xy, result>>

PushIndex(t) == /\ pc[t] = "pushIndex"
                /\ m_writeIndex' = (m_writeIndex + 1) % m_size
                /\ Return(t, "Push", TRUE, Origin, 0)
                /\ UNCHANGED <<fifo, m_readIndex>>

PopEmpty(t) == /\ pc[t] = "pop"
               /\ GetSize = 0
               /\ Return(t, "Pop", FALSE, Origin, 0)
               /\ UNCHANGED <<fifo, Indices>>

PopX(t) == /\ pc[t] = "pop"
           /\ GetSize # 0
           /\ xy' = [xy EXCEPT ![t].x = fifo[m_readIndex].x]
           /\ Goto(t, "popY")
           /\ UNCHANGED <<fifo, Indices, monitor, result>>

PopY(t) == /\ pc[t] = "popY"
           /\ xy' = [xy EXCEPT ![t].y = fifo[m_readIndex].y]
           /\ Goto(t, "popIndex")
           /\ UNCHANGED <<fifo, Indices, monitor, result>>

PopIndex(t) == /\ pc[t] = "popIndex"
               /\ m_readIndex' = (m_readIndex + 1) % m_size
               /\ Return(t, "Pop", TRUE, xy[t], 0)
               /\ UNCHANGED <<fifo, m_writeIndex>>

ReturnSize(t) == /\ pc[t] = "size"
                 /\ Return(t, "GetSize", TRUE, Origin, GetSize)
                 /\ UNCHANGED <<fifo, Indices>>

\* The statements of a call in progress.  None of them can wait.
Body(t) == \/ PushFull(t) \/ PushX(t) \/ PushY(t) \/ PushIndex(t)
           \/ PopEmpty(t) \/ PopX(t) \/ PopY(t) \/ PopIndex(t)
           \/ ReturnSize(t)

Call(t) == \/ \E p \in Point : Enter(t, "push", p)
           \/ Enter(t, "pop", Origin)
           \/ Enter(t, "size", Origin)

Next == \E t \in Threads : Call(t) \/ Body(t)

\* A thread inside a method keeps running; nothing forces a client to call.
Fairness == \A t \in Threads : WF_vars(Body(t))

Spec == Init /\ [][Next]_vars /\ Fairness

-----------------------------------------------------------------------------
\* Every variable keeps to its type; the indices stay within the array, so
\* that no access of Push or Pop raises IndexOutOfRangeException.
TypeOK ==
  /\ fifo \in [Slots -> Point]
  /\ m_readIndex \in Slots
  /\ m_writeIndex \in Slots
  /\ monitor \in Threads \cup {NoThread}
  /\ pc \in [Threads -> {"idle", "push", "pushY", "pushIndex",
                         "pop", "popY", "popIndex", "size"}]
  /\ xy \in [Threads -> Point]
  /\ result \in [Threads -> [op : {"none", "Push", "Pop", "GetSize"},
                             ok : BOOLEAN, p : Point, n : 0 .. m_size - 1]]

\* The points between the indices, oldest first: what the ring stands for.
Queue == [i \in 1 .. GetSize |-> fifo[(m_readIndex + i - 1) % m_size]]

Fifo == INSTANCE BoundedFifo WITH Capacity <- m_size - 1, queue <- Queue

\* The methods of xyfifo together behave as an atomic bounded FIFO queue:
\* no point is lost, duplicated, reordered or torn, Push refuses exactly when
\* m_size - 1 points are stored, and GetSize returns how many there are.
IsBoundedFifo == Fifo!Spec

\* Whoever enters a method leaves it, by whichever return statement: the
\* monitor is free again and again, so no caller of the object hangs.
MonitorIsReleased == []<>(monitor = NoThread)

-----------------------------------------------------------------------------
\* Proofs, for every number of slots and every set of threads.

\* GetSize counts between 0 and m_size - 1 points whenever the indices are
\* within the array.
LEMMA GetSizeRange ==
  ASSUME m_readIndex \in Slots, m_writeIndex \in Slots
  PROVE  GetSize \in 0 .. m_size - 1
BY FifoAssumption DEF GetSize, Slots

\* An index advanced modulo m_size stays within the array.
LEMMA NextSlot ==
  ASSUME NEW i \in Slots
  PROVE  (i + 1) % m_size \in Slots
BY FifoAssumption DEF Slots

\* Every step keeps the types: in particular no index ever leaves the array.
LEMMA StepTyped == TypeOK /\ [Next]_vars => TypeOK'
<1>. USE DEF TypeOK, Point, Origin, Indices, Goto, Return
<1>. SUFFICES ASSUME TypeOK, [Next]_vars PROVE TypeOK'
  OBVIOUS
<1>0. 0 \in 0 .. m_size - 1 /\ 0 \in Coords
  BY FifoAssumption
<1>1. ASSUME NEW t \in Threads, Call(t) PROVE TypeOK'
  <2>1. PICK p \in Point, l \in {"push", "pop", "size"} : Enter(t, l, p)
    BY <1>1, <1>0 DEF Call
  <2>. QED
    BY <2>1 DEF Enter
<1>2. ASSUME NEW t \in Threads, PushFull(t) PROVE TypeOK'
  BY <1>2, <1>0 DEF PushFull
<1>3. ASSUME NEW t \in Threads, PushX(t) PROVE TypeOK'
  BY <1>3 DEF PushX
<1>4. ASSUME NEW t \in Threads, PushY(t) PROVE TypeOK'
  BY <1>4 DEF PushY
<1>5. ASSUME NEW t \in Threads, PushIndex(t) PROVE TypeOK'
  BY <1>5, <1>0, NextSlot DEF PushIndex
<1>6. ASSUME NEW t \in Threads, PopEmpty(t) PROVE TypeOK'
  BY <1>6, <1>0 DEF PopEmpty
<1>7. ASSUME NEW t \in Threads, PopX(t) PROVE TypeOK'
  BY <1>7 DEF PopX
<1>8. ASSUME NEW t \in Threads, PopY(t) PROVE TypeOK'
  BY <1>8 DEF PopY
<1>9. ASSUME NEW t \in Threads, PopIndex(t) PROVE TypeOK'
  BY <1>9, <1>0, NextSlot DEF PopIndex
<1>10. ASSUME NEW t \in Threads, ReturnSize(t) PROVE TypeOK'
  BY <1>10, <1>0, GetSizeRange DEF ReturnSize
<1>11. CASE UNCHANGED vars
  BY <1>11 DEF vars
<1>. QED
  BY <1>1, <1>2, <1>3, <1>4, <1>5, <1>6, <1>7, <1>8, <1>9, <1>10, <1>11
     DEF Next, Body

\* Every call of the program starts from the constructor's state and keeps
\* the types.
THEOREM TypeCorrect == Spec => []TypeOK
<1>1. Init => TypeOK
  BY FifoAssumption DEF Init, Slots, TypeOK, Point, Origin
<1>. QED
  BY <1>1, StepTyped, PTL DEF Spec

-----------------------------------------------------------------------------
\* The ring implements the queue: every step of a method but the one that
\* moves an index, or refuses, leaves the queue and the results as they are.

\* An index advanced by less than twice the number of slots wraps once.
LEMMA Wraps ==
  ASSUME NEW i \in Nat, i < 2 * m_size
  PROVE  i % m_size = IF i < m_size THEN i ELSE i - m_size
BY FifoAssumption

\* The slot of the k-th point from the oldest.
Slot(k) == (m_readIndex + k - 1) % m_size

\* What a method knows between its statements, while it has the monitor.
RingInv ==
  /\ TypeOK
  /\ \A t \in Threads :
       /\ pc[t] # "idle" => monitor = t
       /\ pc[t] \in {"pushY", "pushIndex"} => ~Full /\ fifo[m_writeIndex].x = xy[t].x
       /\ pc[t] = "pushIndex" => fifo[m_writeIndex].y = xy[t].y
       /\ pc[t] \in {"popY", "popIndex"} => GetSize # 0 /\ fifo[m_readIndex].x = xy[t].x
       /\ pc[t] = "popIndex" => fifo[m_readIndex].y = xy[t].y

\* The points stand in slots of their own; the next one to be written is none of
\* theirs, unless the ring is full.
LEMMA SlotsOfQueue ==
  ASSUME m_readIndex \in Slots, m_writeIndex \in Slots, NEW k \in 1 .. GetSize
  PROVE  Slot(k) \in Slots /\ Slot(k) # m_writeIndex
<1>1. PICK i \in Nat : i = m_readIndex + k - 1 /\ i < 2 * m_size
  BY FifoAssumption, GetSizeRange DEF Slots
<1>2. Slot(k) = i % m_size
  BY <1>1 DEF Slot
<1>3. Slot(k) = IF i < m_size THEN i ELSE i - m_size
  BY <1>1, <1>2, Wraps
<1>. QED
  BY <1>1, <1>3, FifoAssumption DEF Slots, GetSize

\* An index moves to the next slot, or from the last to the first.
LEMMA NextSlotIs ==
  ASSUME NEW i \in Slots
  PROVE  (i + 1) % m_size = IF i = m_size - 1 THEN 0 ELSE i + 1
BY FifoAssumption, Wraps DEF Slots

\* A point more: the queue gets longer by the slot that was written.
LEMMA WriteMoves ==
  ASSUME m_readIndex \in Slots, m_writeIndex \in Slots, ~Full,
         m_writeIndex' = (m_writeIndex + 1) % m_size, UNCHANGED m_readIndex
  PROVE  GetSize' = GetSize + 1 /\ Slot(GetSize + 1) = m_writeIndex
<1>0. m_writeIndex' = IF m_writeIndex = m_size - 1 THEN 0 ELSE m_writeIndex + 1
  BY NextSlotIs
<1>1. GetSize' = GetSize + 1
  BY <1>0, FifoAssumption DEF Slots, GetSize, Full
<1>2. PICK i \in Nat : i = m_readIndex + GetSize /\ i < 2 * m_size
  BY GetSizeRange, FifoAssumption DEF Slots
<1>3. i % m_size = m_writeIndex
  BY <1>2, Wraps, FifoAssumption DEF Slots, GetSize
<1>4. Slot(GetSize + 1) = i % m_size
  BY <1>2, GetSizeRange, FifoAssumption DEF Slot, Slots
<1>. QED
  BY <1>1, <1>3, <1>4

\* A point less: the queue begins one slot later.
LEMMA ReadMoves ==
  ASSUME m_readIndex \in Slots, m_writeIndex \in Slots, GetSize # 0,
         m_readIndex' = (m_readIndex + 1) % m_size, UNCHANGED m_writeIndex
  PROVE  /\ GetSize' = GetSize - 1
         /\ Slot(1) = m_readIndex
         /\ \A k \in 1 .. GetSize - 1 : Slot(k)' = Slot(k + 1)
<1>0. m_readIndex' = IF m_readIndex = m_size - 1 THEN 0 ELSE m_readIndex + 1
  BY NextSlotIs
<1>1. GetSize' = GetSize - 1
  BY <1>0, FifoAssumption DEF Slots, GetSize
<1>2. Slot(1) = m_readIndex
  BY Wraps, FifoAssumption DEF Slot, Slots
<1>3. ASSUME NEW k \in 1 .. GetSize - 1 PROVE Slot(k)' = Slot(k + 1)
  <2>1. PICK i \in Nat : i = m_readIndex + k /\ i < 2 * m_size
    BY <1>3, GetSizeRange, FifoAssumption DEF Slots
  <2>2. Slot(k + 1) = IF i < m_size THEN i ELSE i - m_size
    <3>1. Slot(k + 1) = i % m_size
      BY <2>1, GetSizeRange, FifoAssumption DEF Slot, Slots
    <3>. QED
      BY <2>1, <3>1, Wraps
  <2>3. PICK j \in Nat : j = m_readIndex' + k - 1 /\ j < 2 * m_size
    BY <1>0, GetSizeRange, FifoAssumption DEF Slots
  <2>4. Slot(k)' = IF j < m_size THEN j ELSE j - m_size
    <3>1. Slot(k)' = j % m_size
      BY <2>3 DEF Slot
    <3>. QED
      BY <2>3, <3>1, Wraps
  <2>. QED
    BY <1>0, <2>1, <2>2, <2>3, <2>4, GetSizeRange, FifoAssumption DEF Slots
<1>. QED
  BY <1>1, <1>2, <1>3

\* Every step keeps what the methods know, since only the one with the monitor
\* touches the ring.
LEMMA RingStep == RingInv /\ [Next]_vars => RingInv'
<1>. SUFFICES ASSUME RingInv, [Next]_vars PROVE RingInv'
  OBVIOUS
<1>. USE DEF TypeOK, Goto, Return, Indices
<1>0. TypeOK /\ TypeOK'
  BY StepTyped DEF RingInv
<1>. DEFINE Knows(t) ==
       /\ pc[t] # "idle" => monitor = t
       /\ pc[t] \in {"pushY", "pushIndex"} => ~Full /\ fifo[m_writeIndex].x = xy[t].x
       /\ pc[t] = "pushIndex" => fifo[m_writeIndex].y = xy[t].y
       /\ pc[t] \in {"popY", "popIndex"} => GetSize # 0 /\ fifo[m_readIndex].x = xy[t].x
       /\ pc[t] = "popIndex" => fifo[m_readIndex].y = xy[t].y
<1>1. ASSUME NEW t \in Threads, Call(t) PROVE RingInv'
  <2>1. PICK p \in Point, l \in {"push", "pop", "size"} : Enter(t, l, p)
    BY <1>1, FifoAssumption DEF Call, Point, Origin
  <2>2. \A u \in Threads : pc[u] = "idle"
    BY <2>1, FifoAssumption DEF Enter, RingInv
  <2>3. \A u \in Threads : Knows(u)'
    BY <1>0, <2>1, <2>2 DEF Enter
  <2>. QED
    BY <1>0, <2>3 DEF RingInv
<1>2. ASSUME NEW t \in Threads, Body(t) PROVE RingInv'
  <2>1. pc[t] # "idle"
    BY <1>2 DEF Body, PushFull, PushX, PushY, PushIndex, PopEmpty, PopX, PopY, PopIndex, ReturnSize
  <2>2. \A u \in Threads \ {t} : pc[u] = "idle" /\ pc'[u] = "idle"
    <3>1. \A u \in Threads \ {t} : pc[u] = "idle"
      BY <2>1 DEF RingInv
    <3>2. \E l : pc' = [pc EXCEPT ![t] = l]
      BY <1>2 DEF Body, PushFull, PushX, PushY, PushIndex, PopEmpty, PopX, PopY, PopIndex, ReturnSize
    <3>. QED
      BY <1>0, <3>1, <3>2
  <2>3. \A u \in Threads \ {t} : Knows(u)'
    BY <2>2
  <2>4. CASE pc'[t] = "idle"
    BY <1>0, <2>3, <2>4 DEF RingInv
  <2>5. CASE PushX(t)
    <3>1. fifo'[m_writeIndex'].x = xy'[t].x /\ ~Full' /\ monitor' = t
      BY <1>0, <2>1, <2>5 DEF PushX, RingInv, Point, Full, GetSize
    <3>. QED
      BY <1>0, <2>3, <2>5, <3>1 DEF PushX, RingInv
  <2>6. CASE PushY(t)
    <3>1. /\ fifo'[m_writeIndex'].y = xy'[t].y /\ fifo'[m_writeIndex'].x = xy'[t].x
          /\ ~Full' /\ monitor' = t
      BY <1>0, <2>1, <2>6 DEF PushY, RingInv, Point, Full, GetSize
    <3>. QED
      BY <1>0, <2>3, <2>6, <3>1 DEF PushY, RingInv
  <2>7. CASE PopX(t)
    <3>1. fifo'[m_readIndex'].x = xy'[t].x /\ GetSize' # 0 /\ monitor' = t
      BY <1>0, <2>1, <2>7 DEF PopX, RingInv, Point, GetSize
    <3>. QED
      BY <1>0, <2>3, <2>7, <3>1 DEF PopX, RingInv
  <2>8. CASE PopY(t)
    <3>1. /\ fifo'[m_readIndex'].y = xy'[t].y /\ fifo'[m_readIndex'].x = xy'[t].x
          /\ GetSize' # 0 /\ monitor' = t
      BY <1>0, <2>1, <2>8 DEF PopY, RingInv, Point, GetSize
    <3>. QED
      BY <1>0, <2>3, <2>8, <3>1 DEF PopY, RingInv
  <2>. QED
    BY <1>0, <1>2, <2>4, <2>5, <2>6, <2>7, <2>8
       DEF Body, PushFull, PushIndex, PopEmpty, PopIndex, ReturnSize
<1>3. CASE UNCHANGED vars
  BY <1>0, <1>3 DEF vars, RingInv, Full, GetSize
<1>. QED
  BY <1>1, <1>2, <1>3 DEF Next

\* The ring always stands for a queue of points, of the length GetSize computes.
LEMMA QueueIs ==
  ASSUME TypeOK
  PROVE  /\ Queue \in Seq(Point) /\ Len(Queue) = GetSize
         /\ \A k \in 1 .. GetSize : Queue[k] = fifo[Slot(k)]
<1>1. GetSize \in Nat
  BY GetSizeRange, FifoAssumption DEF TypeOK
<1>2. Queue = [k \in 1 .. GetSize |-> fifo[Slot(k)]]
  BY DEF Queue, Slot
<1>3. \A k \in 1 .. GetSize : fifo[Slot(k)] \in Point
  BY SlotsOfQueue DEF TypeOK
<1>. QED
  BY <1>1, <1>2, <1>3

\* A step that moves no index and writes only the next slot leaves the queue.
LEMMA QueueStays ==
  ASSUME TypeOK, UNCHANGED Indices,
         \A i \in Slots \ {m_writeIndex} : fifo'[i] = fifo[i]
  PROVE  UNCHANGED Queue
<1>1. m_readIndex' = m_readIndex /\ m_writeIndex' = m_writeIndex /\ GetSize' = GetSize
  BY DEF Indices, GetSize
<1>2. \A k \in 1 .. GetSize : fifo'[Slot(k)] = fifo[Slot(k)]
  BY SlotsOfQueue DEF TypeOK
<1>. QED
  BY <1>1, <1>2 DEF Queue, Slot

\* Points are equal if both coordinates are.
LEMMA SamePoint ==
  ASSUME NEW p \in Point, NEW q \in Point, p.x = q.x, p.y = q.y
  PROVE  p = q
BY DEF Point

\* What Tail does, index by index.
LEMMA TailIs ==
  ASSUME NEW s \in Seq(Point), s # <<>>
  PROVE  Tail(s) = [k \in 1 .. Len(s) - 1 |-> s[k + 1]]
<1>1. Tail(s) \in Seq(Point) /\ Len(Tail(s)) = Len(s) - 1
  OBVIOUS
<1>2. \A k \in 1 .. Len(s) - 1 : Tail(s)[k] = s[k + 1]
  OBVIOUS
<1>3. \A q \in Seq(Point) : q = [k \in 1 .. Len(q) |-> q[k]]
  OBVIOUS
<1>. QED
  BY <1>1, <1>2, <1>3

\* The end of a Push that was not refused appends its point.
LEMMA PushAppends ==
  ASSUME RingInv, TypeOK', NEW t \in Threads, PushIndex(t)
  PROVE  Fifo!Push(t, xy[t])
<1>. USE DEF TypeOK
<1>1. TypeOK /\ ~Full /\ fifo[m_writeIndex] = xy[t] /\ xy[t] \in Point
  <2>1. TypeOK /\ ~Full /\ fifo[m_writeIndex] \in Point /\ xy[t] \in Point
    BY DEF RingInv, PushIndex
  <2>2. fifo[m_writeIndex].x = xy[t].x /\ fifo[m_writeIndex].y = xy[t].y
    BY DEF RingInv, PushIndex
  <2>. QED
    BY <2>1, <2>2, SamePoint
<1>2. /\ m_readIndex' = m_readIndex /\ fifo' = fifo
      /\ m_writeIndex' = (m_writeIndex + 1) % m_size
  BY DEF PushIndex
<1>3. GetSize' = GetSize + 1 /\ Slot(GetSize + 1) = m_writeIndex
  BY <1>1, <1>2, WriteMoves
<1>4. GetSize \in Nat /\ GetSize < m_size - 1
  <2>1. GetSize \in 0 .. m_size - 1 /\ GetSize # m_size - 1
    BY <1>1, GetSizeRange DEF Full
  <2>. QED
    BY <2>1, FifoAssumption
<1>5. Len(Queue) < m_size - 1
  BY <1>1, <1>4, QueueIs
<1>6. Queue' = Append(Queue, xy[t])
  <2>1. Queue' = [k \in 1 .. GetSize + 1 |-> fifo[Slot(k)]]
    BY <1>2, <1>3 DEF Queue, Slot
  <2>2. \A k \in 1 .. GetSize + 1 :
          fifo[Slot(k)] = IF k <= Len(Queue) THEN Queue[k] ELSE xy[t]
    BY <1>1, <1>3, <1>4, QueueIs
  <2>. QED
    BY <1>1, <1>4, <2>1, <2>2, QueueIs
<1>7. result' = [result EXCEPT ![t] = [op |-> "Push", ok |-> TRUE, p |-> Origin, n |-> 0]]
  BY DEF PushIndex, Return
<1>. QED
  BY <1>5, <1>6, <1>7 DEF Fifo!Push, Fifo!Returns, Fifo!Returned, Fifo!Origin, Origin

\* The end of a Pop takes the oldest point and returns it.
LEMMA PopTakes ==
  ASSUME RingInv, TypeOK', NEW t \in Threads, PopIndex(t)
  PROVE  Fifo!Pop(t)
<1>. USE DEF TypeOK
<1>1. TypeOK /\ GetSize # 0 /\ fifo[m_readIndex] = xy[t] /\ xy[t] \in Point
  <2>1. TypeOK /\ GetSize # 0 /\ fifo[m_readIndex] \in Point /\ xy[t] \in Point
    BY DEF RingInv, PopIndex
  <2>2. fifo[m_readIndex].x = xy[t].x /\ fifo[m_readIndex].y = xy[t].y
    BY DEF RingInv, PopIndex
  <2>. QED
    BY <2>1, <2>2, SamePoint
<1>2. /\ m_writeIndex' = m_writeIndex /\ fifo' = fifo
      /\ m_readIndex' = (m_readIndex + 1) % m_size
  BY DEF PopIndex
<1>3. /\ GetSize' = GetSize - 1 /\ Slot(1) = m_readIndex
      /\ \A k \in 1 .. GetSize - 1 : Slot(k)' = Slot(k + 1)
  BY <1>1, <1>2, ReadMoves
<1>4. GetSize \in Nat \ {0}
  BY <1>1, GetSizeRange, FifoAssumption
<1>5. Queue # <<>> /\ Head(Queue) = xy[t]
  BY <1>1, <1>3, <1>4, QueueIs
<1>6. Queue' = Tail(Queue)
  <2>1. Queue' = [k \in 1 .. GetSize - 1 |-> fifo[Slot(k)']]
    BY <1>2, <1>3 DEF Queue, Slot
  <2>2. \A k \in 1 .. GetSize - 1 : fifo[Slot(k)'] = Queue[k + 1]
    BY <1>1, <1>3, <1>4, QueueIs
  <2>3. Queue \in Seq(Point) /\ Len(Queue) = GetSize
    BY <1>1, QueueIs
  <2>4. Tail(Queue) = [k \in 1 .. GetSize - 1 |-> Queue[k + 1]]
    BY <1>5, <2>3, TailIs
  <2>. QED
    BY <2>1, <2>2, <2>4
<1>7. result' = [result EXCEPT ![t] = [op |-> "Pop", ok |-> TRUE, p |-> xy[t], n |-> 0]]
  BY DEF PopIndex, Return
<1>. QED
  BY <1>5, <1>6, <1>7 DEF Fifo!Pop, Fifo!Returns, Fifo!Returned

\* The constructor's ring is the empty queue.
LEMMA InitRefines == Init => Fifo!Init /\ RingInv
<1>. SUFFICES ASSUME Init PROVE Fifo!Init /\ RingInv
  OBVIOUS
<1>. USE DEF Init, Origin
<1>1. TypeOK
  BY FifoAssumption DEF Slots, TypeOK, Point
<1>2. GetSize = 0
  BY DEF GetSize
<1>3. Queue = <<>>
  BY <1>1, <1>2, QueueIs
<1>4. Fifo!Init
  BY <1>3 DEF Fifo!Init, Fifo!NoCallYet, Fifo!Returned, Fifo!Origin
<1>5. RingInv
  BY <1>1 DEF RingInv
<1>. QED
  BY <1>4, <1>5

\* Every step is one of the queue, or leaves the queue and the results.
LEMMA StepRefines ==
  RingInv /\ TypeOK' /\ [Next]_vars => [Fifo!Next]_<<Queue, result>>
<1>. SUFFICES ASSUME RingInv, TypeOK', [Next]_vars PROVE [Fifo!Next]_<<Queue, result>>
  OBVIOUS
<1>0. TypeOK
  BY DEF RingInv
<1>1. ASSUME NEW t \in Threads, Call(t) \/ PopX(t) \/ PopY(t) PROVE UNCHANGED <<Queue, result>>
  <2>1. UNCHANGED <<fifo, Indices, result>>
    BY <1>1 DEF Call, Enter, PopX, PopY
  <2>. QED
    BY <1>0, <2>1, QueueStays
<1>2. ASSUME NEW t \in Threads, PushX(t) \/ PushY(t) PROVE UNCHANGED <<Queue, result>>
  <2>1. UNCHANGED <<Indices, result>>
    BY <1>2 DEF PushX, PushY
  <2>2. \A i \in Slots \ {m_writeIndex} : fifo'[i] = fifo[i]
    BY <1>0, <1>2 DEF PushX, PushY, TypeOK
  <2>. QED
    BY <1>0, <2>1, <2>2, QueueStays
<1>3. ASSUME NEW t \in Threads, PushFull(t) \/ PopEmpty(t) \/ ReturnSize(t)
      PROVE  Fifo!PushRefused(t) \/ Fifo!PopEmpty(t) \/ Fifo!GetSize(t)
  <2>1. UNCHANGED <<fifo, Indices>>
    BY <1>3 DEF PushFull, PopEmpty, ReturnSize
  <2>2. UNCHANGED Queue
    BY <1>0, <2>1, QueueStays
  <2>3. Queue \in Seq(Point) /\ Len(Queue) = GetSize
    BY <1>0, QueueIs
  <2>4. CASE PushFull(t)
    BY <2>2, <2>3, <2>4
       DEF PushFull, Full, Return, Fifo!PushRefused, Fifo!Returns, Fifo!Returned, Fifo!Origin, Origin
  <2>5. CASE PopEmpty(t)
    <3>1. Queue = <<>>
      BY <2>3, <2>5 DEF PopEmpty
    <3>. QED
      BY <2>2, <2>5, <3>1
         DEF PopEmpty, Return, Fifo!PopEmpty, Fifo!Returns, Fifo!Returned, Fifo!Origin, Origin
  <2>6. CASE ReturnSize(t)
    BY <2>2, <2>3, <2>6
       DEF ReturnSize, Return, Fifo!GetSize, Fifo!Returns, Fifo!Returned, Fifo!Origin, Origin
  <2>. QED
    BY <1>3, <2>4, <2>5, <2>6
<1>4. ASSUME NEW t \in Threads, PushIndex(t) PROVE \E p \in Fifo!Point : Fifo!Push(t, p)
  <2>1. xy[t] \in Fifo!Point
    BY <1>0, <1>4 DEF TypeOK, Point, Fifo!Point
  <2>. QED
    BY <1>4, <2>1, PushAppends
<1>5. ASSUME NEW t \in Threads, PopIndex(t) PROVE Fifo!Pop(t)
  BY <1>5, PopTakes
<1>6. CASE UNCHANGED vars
  <2>1. UNCHANGED <<fifo, Indices, result>>
    BY <1>6 DEF vars, Indices
  <2>. QED
    BY <1>0, <2>1, QueueStays
<1>7. ASSUME NEW t \in Threads, Body(t) PROVE Fifo!Next \/ UNCHANGED <<Queue, result>>
  BY <1>1, <1>2, <1>3, <1>4, <1>5, <1>7 DEF Body, Fifo!Next
<1>8. CASE \E t \in Threads : Call(t) \/ Body(t)
  BY <1>1, <1>7, <1>8
<1>. QED
  BY <1>6, <1>8 DEF Next

\* The ring implements the bounded queue, for every number of slots and every
\* set of threads: no interleaving of the methods shows a caller anything that
\* the atomic queue would not.
THEOREM ImplementsFifo == Spec => IsBoundedFifo
<1>1. TypeOK /\ [Next]_vars => TypeOK'
  BY StepTyped
<1>2. RingInv => TypeOK
  BY DEF RingInv
<1>. QED
  BY <1>1, <1>2, InitRefines, RingStep, StepRefines, PTL DEF Spec, IsBoundedFifo, Fifo!Spec
====
