----------------------------- MODULE DSCSWrapper -----------------------------
(***************************************************************************)
(* The DSCS objects of a process (DSCSLib/DSCS.cs) and the one player they *)
(* share through a global of the DLL (DSC2CSLib.cpp). A method holds the   *)
(* monitor of its own object around the exported function, which tests the *)
(* global and then uses it, reading it again each time.                    *)
(***************************************************************************)
EXTENDS Integers, FiniteSets, TLAPS

CONSTANTS
  Threads, Objects,
  MaxPlayers   \* a bound on the players one execution makes

WrapperAssumption == MaxPlayers \in Nat /\ "free" \notin Threads

VARIABLES
  m_dsShowPlayer,      \* the global: a player, or Null
  made,                \* how many players have been made
  alive,               \* those not deleted
  open,                \* those with a filter graph
  m_videoInitialized,  \* of each object
  monitor,             \* the thread in a method of each object
  pc, object, op, this, \* of each thread: where it is, in which method of which
                        \* object, and the player the method runs on
  fault,               \* a thread has used no player, or a dead one
  met                  \* (a history) threads in a call that overlapped one of another object

vars == <<m_dsShowPlayer, made, alive, open, m_videoInitialized, monitor, pc, object, op, this, fault, met>>

Null == 0
Free == "free"
Players == 1 .. MaxPlayers

\* SetWindowHandle, UpdateVideoWindow and Repaint look at the flag first, as
\* Close does; Play, the overlays and SetFileName do not.
Methods == {"Initialize", "SelectDecoder", "Play", "Repaint", "Close"}
Flagged == {"Repaint", "Close"}
Makers == {"Initialize", "SelectDecoder"}

Init ==
  /\ m_dsShowPlayer = Null /\ made = 0 /\ alive = {} /\ open = {} /\ fault = FALSE /\ met = {}
  /\ m_videoInitialized = [o \in Objects |-> FALSE]
  /\ monitor = [o \in Objects |-> Free]
  /\ pc = [t \in Threads |-> "out"] /\ this = [t \in Threads |-> Null]
  /\ object \in [Threads -> Objects] /\ op = [t \in Threads |-> "Play"]

Goto(t, l) == pc' = [pc EXCEPT ![t] = l]
native == <<m_dsShowPlayer, made, alive, open>>
caller == <<m_videoInitialized, monitor, object, op>>

\* A slip in Lock: the method does not lock its object.
Lock_Unlocked(o) == TRUE

\* lock (this), and the test of the flag
Lock(o) == monitor[o] = Free

Enter(t, o, m) ==
  /\ pc[t] = "out" /\ Lock(o)
  /\ monitor' = [monitor EXCEPT ![o] = t]
  /\ object' = [object EXCEPT ![t] = o] /\ op' = [op EXCEPT ![t] = m]
  /\ Goto(t, IF m \in Flagged /\ ~m_videoInitialized[o] THEN "leave" ELSE "test")
  /\ LET others == {u \in Threads \ {t} : pc[u] # "out"}
     IN  met' = IF others = {} THEN met ELSE met \cup others \cup {t}
  /\ UNCHANGED <<native, m_videoInitialized, this, fault>>

\* A slip in Test: a maker replaces the player there is.
Test_MakesAnother(t) ==
  /\ pc[t] = "test"
  /\ Goto(t, IF op[t] \in Makers THEN "new" ELSE IF m_dsShowPlayer # Null THEN "load" ELSE "leave")
  /\ UNCHANGED <<native, caller, this, fault>>

\* The exported function finds out whether there is a player.
Test(t) ==
  /\ pc[t] = "test"
  /\ Goto(t, IF m_dsShowPlayer # Null THEN "load" ELSE IF op[t] \in Makers THEN "new" ELSE "leave")
  /\ UNCHANGED <<native, caller, this, fault>>

New(t) ==
  /\ pc[t] = "new" /\ made < MaxPlayers
  /\ made' = made + 1 /\ m_dsShowPlayer' = made + 1 /\ alive' = alive \cup {made + 1}
  /\ Goto(t, "load")
  /\ UNCHANGED <<open, caller, this, fault>>

\* It reads the global again, and calls the player.
Load(t) ==
  /\ pc[t] = "load" /\ this' = [this EXCEPT ![t] = m_dsShowPlayer]
  /\ fault' = (m_dsShowPlayer \notin alive)
  /\ Goto(t, "inside")
  /\ UNCHANGED <<native, caller>>

\* The method itself. An initialisation that fails may leave a graph.
Run(t) ==
  /\ pc[t] = "inside" /\ fault' = (this[t] \notin alive)
  /\ CASE op[t] = "Initialize" ->
            /\ open' \in {open, open \cup ({this[t]} \cap alive)}
            /\ \/ Goto(t, "leave") /\ UNCHANGED m_videoInitialized
               \/ this[t] \in open' /\ Goto(t, "leave")
                  /\ m_videoInitialized' = [m_videoInitialized EXCEPT ![object[t]] = TRUE]
       [] op[t] = "Close" -> open' = open \ {this[t]} /\ Goto(t, "delete") /\ UNCHANGED m_videoInitialized
       [] OTHER -> Goto(t, "leave") /\ UNCHANGED <<open, m_videoInitialized>>
  /\ UNCHANGED <<m_dsShowPlayer, made, alive, monitor, object, op, this>>

\* delete m_dsShowPlayer, which does nothing for NULL
Delete(t) ==
  /\ pc[t] = "delete"
  /\ fault' = (m_dsShowPlayer \notin alive \cup {Null})
  /\ alive' = alive \ {m_dsShowPlayer} /\ open' = open \ {m_dsShowPlayer}
  /\ Goto(t, "null")
  /\ UNCHANGED <<m_dsShowPlayer, made, caller, this>>

SetNull(t) ==
  /\ pc[t] = "null" /\ m_dsShowPlayer' = Null /\ Goto(t, "leave")
  /\ UNCHANGED <<made, alive, open, caller, this, fault>>

Leave(t) ==
  /\ pc[t] = "leave" /\ Goto(t, "out")
  /\ monitor' = [monitor EXCEPT ![object[t]] = Free]
  /\ met' = met \ {t}
  /\ UNCHANGED <<native, m_videoInitialized, object, op, this, fault>>

Step(t) ==
  \/ (Test(t) \/ New(t) \/ Load(t) \/ Run(t) \/ Delete(t) \/ SetNull(t)) /\ UNCHANGED met
  \/ Leave(t)
  \/ \E o \in Objects, m \in Methods : Enter(t, o, m)
Next == ~fault /\ \E t \in Threads : Step(t)
Spec == Init /\ [][Next]_vars

----------------------------------------------------------------------------
\* Every variable has its type, and a thread in a method of an object has its
\* monitor.
TypeOK ==
  /\ m_dsShowPlayer \in Players \cup {Null} /\ alive \subseteq Players /\ open \subseteq Players
  /\ made \in 0 .. MaxPlayers /\ m_videoInitialized \in [Objects -> BOOLEAN] /\ fault \in BOOLEAN
  /\ monitor \in [Objects -> Threads \cup {Free}]
  /\ pc \in [Threads -> {"out", "test", "new", "load", "inside", "delete", "null", "leave"}]
  /\ object \in [Threads -> Objects] /\ op \in [Threads -> Methods] /\ this \in [Threads -> Players \cup {Null}]
  /\ \A t \in Threads : pc[t] # "out" => monitor[object[t]] = t

\* The monitor of one object is enough for its threads: none of them runs on a
\* player that is not there, although Close deletes it and the exports read
\* the global twice.
UsesAreAlive == ~fault

\* Close leaves nothing behind but what a first initialisation that failed
\* has left: then the flag is down and the call does not reach the DLL.
CloseCloses ==
  \A t \in Threads :
    pc[t] = "leave" /\ op[t] = "Close" => open = {} \/ ~m_videoInitialized[object[t]]

\* The player that is alive is the one the exports find.
NoPlayerIsLost == alive \subseteq {m_dsShowPlayer}

\* Two objects have two monitors. Whatever goes wrong between them takes two
\* calls at once: objects called one after the other are as safe as one.
FaultsTakeTwoCalls == fault => met # {}
\* ... and so does the loss of a player.
LossesTakeTwoCalls == [][NoPlayerIsLost /\ ~NoPlayerIsLost' => met # {}]_vars

-----------------------------------------------------------------------------
(* Proofs: the types for every set of threads and objects, and the safety of  *)
(* one object for every set of threads.                                       *)

\* The types hold at the start.
LEMMA InitTyped ==
  ASSUME WrapperAssumption
  PROVE  Init => TypeOK
<1>. SUFFICES ASSUME Init PROVE TypeOK
  OBVIOUS
<1>. USE DEF WrapperAssumption, Init
<1>1. m_dsShowPlayer = 0 /\ made \in 0 .. MaxPlayers
  BY DEF Null
<1>5. fault \in BOOLEAN
  BY Zenon
<1>2. monitor \in [Objects -> Threads \cup {Free}] /\ m_videoInitialized \in [Objects -> BOOLEAN]
  OBVIOUS
<1>3. pc \in [Threads -> {"out", "test", "new", "load", "inside", "delete", "null", "leave"}]
  OBVIOUS
<1>4. op \in [Threads -> Methods] /\ this \in [Threads -> {Null}]
  BY DEF Methods
<1>. QED
  BY <1>1, <1>2, <1>3, <1>4, <1>5 DEF TypeOK, Null

\* Every step keeps the types, and the monitor of an object stays with the
\* thread that is in one of its methods.
LEMMA StepTyped ==
  ASSUME WrapperAssumption, TypeOK, NEW t \in Threads, Step(t)
  PROVE  TypeOK'
<1>. USE DEF WrapperAssumption, TypeOK, Goto, Players, Null
<1>1. CASE Test(t)
  BY <1>1 DEF Test, native, caller
<1>2. CASE New(t)
  BY <1>2 DEF New, caller
<1>3. CASE Load(t)
  BY <1>3 DEF Load, native, caller
<1>4. CASE Run(t)
  <2>. USE <1>4 DEF Run
  <2>1. open' \subseteq Players
    OBVIOUS
  <2>2. m_videoInitialized' \in [Objects -> BOOLEAN]
    OBVIOUS
  <2>3. /\ pc' \in [Threads -> {"out", "test", "new", "load", "inside", "delete", "null", "leave"}]
        /\ \A u \in Threads : pc'[u] # "out" => pc[u] # "out"
    OBVIOUS
  <2>. QED
    BY <2>1, <2>2, <2>3
<1>5. CASE Delete(t)
  BY <1>5 DEF Delete, caller
<1>6. CASE SetNull(t)
  BY <1>6 DEF SetNull, caller
<1>7. CASE Leave(t)
  BY <1>7 DEF Leave, native, Free
<1>8. ASSUME NEW o \in Objects, NEW m \in Methods, Enter(t, o, m) PROVE TypeOK'
  BY <1>8 DEF Enter, Lock, native, Free
<1>. QED
  BY <1>1, <1>2, <1>3, <1>4, <1>5, <1>6, <1>7, <1>8 DEF Step

\* However many threads call however many objects, the monitor of an object
\* belongs to the one thread that is in a method of it.
THEOREM TypeCorrect ==
  ASSUME WrapperAssumption
  PROVE  Spec => []TypeOK
<1>1. Init => TypeOK
  BY InitTyped
<1>2. TypeOK /\ [Next]_vars => TypeOK'
  <2>1. CASE UNCHANGED vars
    BY <2>1 DEF vars, TypeOK
  <2>. QED
    BY <2>1, StepTyped DEF Next
<1>. QED
  BY <1>1, <1>2, PTL DEF Spec

----------------------------------------------------------------------------
(* One object *)

\* What a thread in a method relies on. The player it has found is alive; the
\* maker finds none; between delete and the assignment of NULL there is none.
Whole(t) ==
  /\ pc[t] \in {"load", "inside", "delete"} => m_dsShowPlayer \in alive
  /\ pc[t] \in {"inside", "delete"} => this[t] = m_dsShowPlayer
  /\ pc[t] = "new" => m_dsShowPlayer = Null
  /\ pc[t] \in {"delete", "null"} => open = {}
  /\ pc[t] = "null" => alive = {}
  /\ pc[t] = "leave" /\ op[t] = "Close" => open = {} \/ ~m_videoInitialized[object[t]]

\* The global and the players agree unless a thread is between the two.
Agree ==
  /\ alive \subseteq {m_dsShowPlayer} /\ open \subseteq alive
  /\ m_dsShowPlayer \in alive \cup {Null} \/ \E t \in Threads : pc[t] = "null"

\* The inductive invariant for one object: the monitor keeps each thread's step,
\* and with it the player, whole.
OneInv == TypeOK /\ Agree /\ ~fault /\ \A t \in Threads : Whole(t)

\* With one object, at most one thread is in a method.
LEMMA Exclusion ==
  ASSUME NEW o, Objects = {o}, TypeOK, NEW t \in Threads, NEW u \in Threads,
         pc[t] # "out", pc[u] # "out"
  PROVE  t = u
BY DEF TypeOK

\* A step of the thread inside keeps what it relies on, and what the players
\* and the global have to do with each other.
LEMMA InnerStep ==
  ASSUME NEW o, Objects = {o}, OneInv, NEW t \in Threads,
         Test(t) \/ New(t) \/ Load(t) \/ Run(t) \/ Delete(t) \/ SetNull(t)
  PROVE  Agree' /\ ~fault' /\ Whole(t)'
<1>. USE DEF OneInv, Whole, Agree, TypeOK, Goto
<1>0. \A u \in Threads : pc[t] # "out" /\ u # t => pc[u] = "out"
  BY Exclusion
<1>1. CASE Test(t)
  <2>. USE <1>1 DEF Test, native, caller
  <2>1. m_dsShowPlayer \in alive \cup {Null}
    BY <1>0
  <2>2. Agree' /\ ~fault'
    BY <2>1
  <2>3. m_dsShowPlayer = Null => open = {}
    BY DEF Players, Null
  <2>. QED
    BY <2>1, <2>2, <2>3
<1>2. CASE New(t)
  <2>1. alive = {}
    BY <1>2 DEF New, Players, Null
  <2>. QED
    BY <1>0, <1>2, <2>1 DEF New, caller
<1>3. CASE Load(t)
  BY <1>0, <1>3 DEF Load, native, caller
<1>4. CASE Run(t)
  <2>. USE <1>4 DEF Run
  <2>1. this[t] = m_dsShowPlayer /\ m_dsShowPlayer \in alive /\ alive = {m_dsShowPlayer} /\ ~fault'
    OBVIOUS
  <2>2. Agree'
    BY <1>0, <2>1
  <2>3. Whole(t)'
    BY <2>1
  <2>. QED
    BY <2>1, <2>2, <2>3
<1>5. CASE Delete(t)
  BY <1>0, <1>5 DEF Delete, caller
<1>6. CASE SetNull(t)
  BY <1>0, <1>6 DEF SetNull, caller
<1>. QED
  BY <1>1, <1>2, <1>3, <1>4, <1>5, <1>6

\* The invariant holds at the start, ...
LEMMA OneStarts ==
  ASSUME WrapperAssumption
  PROVE  Init => OneInv
<1>1. Init => Agree /\ ~fault /\ \A t \in Threads : Whole(t)
  BY DEF Init, Agree, Whole
<1>. QED
  BY <1>1, InitTyped DEF OneInv

\* ... and every step keeps it.
LEMMA OneStep ==
  ASSUME WrapperAssumption, NEW o, Objects = {o}
  PROVE  OneInv /\ [Next]_vars => OneInv'
<1>. SUFFICES ASSUME OneInv, [Next]_vars PROVE OneInv'
  OBVIOUS
<1>1. CASE UNCHANGED vars
  BY <1>1 DEF vars, OneInv, TypeOK, Agree, Whole
<1>2. ASSUME NEW t \in Threads, Step(t) PROVE OneInv'
  <2>1. TypeOK'
    BY <1>2, StepTyped DEF OneInv
  <2>2. \A u \in Threads : pc[t] # "out" /\ u # t => pc[u] = "out"
    BY Exclusion DEF OneInv
  <2>3. CASE Test(t) \/ New(t) \/ Load(t) \/ Run(t) \/ Delete(t) \/ SetNull(t)
    <3>1. Agree' /\ ~fault' /\ Whole(t)'
      BY <2>3, InnerStep
    <3>2. ASSUME NEW u \in Threads, u # t PROVE pc'[u] = "out"
      BY <2>2, <2>3, <3>2 DEF Test, New, Load, Run, Delete, SetNull, Goto, OneInv, TypeOK
    <3>. QED
      BY <2>1, <3>1, <3>2 DEF OneInv, Whole
  <2>4. CASE Leave(t)
    BY <2>1, <2>4 DEF Leave, native, Goto, OneInv, Agree, Whole, TypeOK
  <2>5. ASSUME NEW q \in Objects, NEW m \in Methods, Enter(t, q, m) PROVE OneInv'
    <3>1. \A u \in Threads : pc[u] = "out"
      BY <2>5 DEF WrapperAssumption, Enter, Lock, OneInv, TypeOK, Free
    <3>. QED
      BY <2>1, <2>5, <3>1 DEF Enter, native, Goto, OneInv, Agree, Whole, TypeOK, Flagged
  <2>. QED
    BY <1>2, <2>3, <2>4, <2>5 DEF Step
<1>. QED
  BY <1>1, <1>2 DEF Next

LEMMA OneInvImplies == OneInv => UsesAreAlive /\ CloseCloses /\ NoPlayerIsLost
BY DEF OneInv, Whole, Agree, UsesAreAlive, CloseCloses, NoPlayerIsLost

\* One object is safe for any set of threads: no call uses a player that is
\* not there, Close closes, and no player is lost.
THEOREM OneObjectIsSafe ==
  ASSUME WrapperAssumption, NEW o, Objects = {o}
  PROVE  Spec => [](UsesAreAlive /\ CloseCloses /\ NoPlayerIsLost)
<1>1. OneInv /\ [Next]_vars => OneInv'
  BY OneStep
<1>. QED
  BY <1>1, OneStarts, OneInvImplies, PTL DEF Spec

----------------------------------------------------------------------------
(* Any number of objects *)

\* A call that meets no other is alone, and finds the player as it left it.
Serial(t) ==
  pc[t] # "out" /\ t \notin met =>
    /\ \A u \in Threads \ {t} : pc[u] = "out"
    /\ pc[t] \in {"load", "inside", "delete"} => m_dsShowPlayer \in alive
    /\ pc[t] \in {"inside", "delete"} => this[t] = m_dsShowPlayer
    /\ pc[t] = "new" => m_dsShowPlayer = Null
    /\ pc[t] = "null" => m_dsShowPlayer \notin alive

\* The global names a living player or none, unless somebody is about to clear it:
\* this is what overlapping calls, too, leave to those that come after them.
Cleared == m_dsShowPlayer \in alive \cup {Null} \/ \E t \in Threads : pc[t] = "null"

SerialInv ==
  /\ TypeOK /\ Cleared /\ (fault => met # {})
  /\ \A t \in Threads : Serial(t)
  /\ \A t \in met : t \in Threads /\ pc[t] # "out"

\* The step of a thread within its call leaves the other threads where they are.
LEMMA SerialInner ==
  ASSUME WrapperAssumption, SerialInv, ~fault, NEW t \in Threads,
         Test(t) \/ New(t) \/ Load(t) \/ Run(t) \/ Delete(t) \/ SetNull(t), met' = met
  PROVE  SerialInv' /\ (NoPlayerIsLost /\ ~NoPlayerIsLost' => met # {})
<1>. USE DEF SerialInv, TypeOK, Goto
<1>0. TypeOK'
  BY StepTyped DEF Step
<1>1. pc[t] # "out" /\ pc' = [pc EXCEPT ![t] = pc'[t]] /\ pc'[t] # "out"
  BY DEF Test, New, Load, Run, Delete, SetNull
<1>2. \A u \in Threads \ {t} : pc'[u] = pc[u] /\ this'[u] = this[u]
  BY DEF Test, New, Load, Run, Delete, SetNull, caller
<1>3. \A u \in Threads \ {t} : Serial(u)'
  BY <1>1, <1>2 DEF Serial
<1>4. Cleared' /\ Serial(t)' /\ (t \notin met => ~fault')
  <2>. USE DEF Serial, Cleared
  <2>1. CASE Test(t)
    BY <1>2, <2>1 DEF Test, native, caller
  <2>2. CASE New(t)
    BY <1>2, <2>2 DEF New, caller
  <2>3. CASE Load(t)
    BY <1>2, <2>3 DEF Load, native, caller
  <2>4. CASE Run(t)
    BY <1>2, <2>4 DEF Run
  <2>5. CASE Delete(t)
    BY <1>2, <2>5 DEF Delete, caller
  <2>6. CASE SetNull(t)
    BY <1>2, <2>6 DEF SetNull, caller
  <2>. QED
    BY <2>1, <2>2, <2>3, <2>4, <2>5, <2>6
<1>5. ASSUME NoPlayerIsLost, t \notin met PROVE NoPlayerIsLost'
  <2>. USE <1>5 DEF NoPlayerIsLost, Serial
  <2>1. CASE Test(t) \/ Load(t) \/ Run(t)
    BY <2>1 DEF Test, Load, Run, native
  <2>2. CASE New(t)
    BY <2>2 DEF New, Players, Null
  <2>3. CASE Delete(t)
    BY <2>3 DEF Delete
  <2>4. CASE SetNull(t)
    BY <2>4 DEF SetNull
  <2>. QED
    BY <2>1, <2>2, <2>3, <2>4
<1>. QED
  BY <1>0, <1>1, <1>2, <1>3, <1>4, <1>5

\* A call that begins while others are under way meets them.
LEMMA SerialEnter ==
  ASSUME WrapperAssumption, SerialInv, ~fault, NEW t \in Threads,
         NEW o \in Objects, NEW m \in Methods, Enter(t, o, m)
  PROVE  SerialInv'
<1>. USE DEF SerialInv, TypeOK, Goto
<1>0. TypeOK'
  BY StepTyped DEF Step
<1>1. PICK l \in {"test", "leave"} : pc' = [pc EXCEPT ![t] = l]
  BY DEF Enter
<1>2. UNCHANGED <<m_dsShowPlayer, made, alive, open, this, fault>> /\ pc[t] = "out"
  BY DEF Enter, native
<1>3. CASE \A u \in Threads \ {t} : pc[u] = "out"
  <2>1. met' = met
    BY <1>3 DEF Enter
  <2>. QED
    BY <1>0, <1>1, <1>2, <1>3, <2>1 DEF Serial, Cleared
<1>4. CASE \E u \in Threads \ {t} : pc[u] # "out"
  <2>1. met' = met \cup {u \in Threads \ {t} : pc[u] # "out"} \cup {t}
    BY <1>4 DEF Enter
  <2>2. \A u \in Threads : Serial(u)'
    BY <1>1, <2>1 DEF Serial
  <2>3. Cleared'
    BY <1>1, <1>2 DEF Cleared
  <2>. QED
    BY <1>0, <1>1, <1>2, <2>1, <2>2, <2>3
<1>. QED
  BY <1>3, <1>4

\* Every step keeps that, and the player too, unless calls overlap.
LEMMA SerialStep ==
  ASSUME WrapperAssumption
  PROVE  SerialInv /\ [Next]_vars => SerialInv' /\ [NoPlayerIsLost /\ ~NoPlayerIsLost' => met # {}]_vars
<1>. SUFFICES ASSUME SerialInv, [Next]_vars
              PROVE  SerialInv' /\ [NoPlayerIsLost /\ ~NoPlayerIsLost' => met # {}]_vars
  OBVIOUS
<1>1. CASE UNCHANGED vars
  BY <1>1 DEF vars, SerialInv, TypeOK, Cleared, Serial
<1>2. ASSUME ~fault, NEW t \in Threads, Step(t)
      PROVE  SerialInv' /\ (NoPlayerIsLost /\ ~NoPlayerIsLost' => met # {})
  <2>1. CASE (Test(t) \/ New(t) \/ Load(t) \/ Run(t) \/ Delete(t) \/ SetNull(t)) /\ UNCHANGED met
    BY <1>2, <2>1, SerialInner
  <2>2. CASE Leave(t)
    <3>1. SerialInv'
      BY <1>2, <2>2, StepTyped DEF Leave, native, Goto, SerialInv, TypeOK, Cleared, Serial
    <3>. QED
      BY <2>2, <3>1 DEF Leave, native, NoPlayerIsLost
  <2>3. ASSUME NEW o \in Objects, NEW m \in Methods, Enter(t, o, m)
        PROVE  SerialInv' /\ (NoPlayerIsLost /\ ~NoPlayerIsLost' => met # {})
    BY <1>2, <2>3, SerialEnter DEF Enter, native, NoPlayerIsLost
  <2>. QED
    BY <1>2, <2>1, <2>2, <2>3 DEF Step
<1>. QED
  BY <1>1, <1>2 DEF Next

LEMMA SerialInit ==
  ASSUME WrapperAssumption
  PROVE  Init => SerialInv
BY InitTyped DEF Init, SerialInv, Cleared, Serial

\* Whatever goes wrong with several objects takes two calls at once: a program that
\* makes one call after the other may use as many objects as it likes.
THEOREM OverlapsAreTheCause ==
  ASSUME WrapperAssumption
  PROVE  Spec => []FaultsTakeTwoCalls /\ LossesTakeTwoCalls
<1>1. SerialInv => FaultsTakeTwoCalls
  BY DEF SerialInv, FaultsTakeTwoCalls
<1>2. SerialInv /\ [Next]_vars => SerialInv'
  BY SerialStep
<1>3. SerialInv /\ [Next]_vars => [NoPlayerIsLost /\ ~NoPlayerIsLost' => met # {}]_vars
  BY SerialStep
<1>. QED
  BY <1>1, <1>2, <1>3, SerialInit, PTL DEF Spec, LossesTakeTwoCalls
=============================================================================
