---------------------------- MODULE BoundedFifo ----------------------------
(***************************************************************************)
(* What the class xyfifo promises its callers: a first-in first-out queue  *)
(* of points that holds at most Capacity of them.  Every call takes effect *)
(* in one indivisible step, in which its result becomes known.             *)
(***************************************************************************)
EXTENDS Integers, Sequences

CONSTANTS Threads,   \* the threads that share the queue
          Coords,    \* the coordinates a point may have
          Capacity   \* how many points the queue can hold

VARIABLES queue,     \* the points pushed and not yet popped, oldest first
          result     \* what the last finished call of each thread returned

Point  == [x : Coords, y : Coords]
Origin == [x |-> 0, y |-> 0]

\* A call's result: its return value ok, the out parameters of Pop, and the
\* number GetSize returns.
Returned(op, ok, p, n) == [op |-> op, ok |-> ok, p |-> p, n |-> n]

NoCallYet == Returned("none", FALSE, Origin, 0)

Init == /\ queue = <<>>
        /\ result = [t \in Threads |-> NoCallYet]

Returns(t, op, ok, p, n) ==
  result' = [result EXCEPT ![t] = Returned(op, ok, p, n)]

Push(t, p) == /\ Len(queue) < Capacity
              /\ queue' = Append(queue, p)
              /\ Returns(t, "Push", TRUE, Origin, 0)

PushRefused(t) == /\ Len(queue) = Capacity
                  /\ Returns(t, "Push", FALSE, Origin, 0)
                  /\ UNCHANGED queue

Pop(t) == /\ queue # <<>>
          /\ queue' = Tail(queue)
          /\ Returns(t, "Pop", TRUE, Head(queue), 0)

PopEmpty(t) == /\ queue = <<>>
               /\ Returns(t, "Pop", FALSE, Origin, 0)
               /\ UNCHANGED queue

GetSize(t) == /\ Returns(t, "GetSize", TRUE, Origin, Len(queue))
              /\ UNCHANGED queue

Next == \E t \in Threads : \/ \E p \in Point : Push(t, p)
                           \/ PushRefused(t)
                           \/ Pop(t)
                           \/ PopEmpty(t)
                           \/ GetSize(t)

Spec == Init /\ [][Next]_<<queue, result>>
=============================================================================
