----------------------------- MODULE MediaPlayer -----------------------------
(***************************************************************************)
(* What a program may expect of the player in the DLL, whatever fails in   *)
(* it: a state machine whose state is changed by one call at a time. While *)
(* a source is opened the player is closed; it can be played only after a  *)
(* renderer has got the stream, and then it has a picture until the next   *)
(* call that opens a source or closes the player.                          *)
(***************************************************************************)
VARIABLES
  state,   \* "STATE_CLOSED", "STATE_STOPPED", "STATE_PAUSED" or "STATE_RUNNING"
  stage,   \* how far the call in progress is, "idle" without one
  picture  \* a renderer of the player's graph is connected

vars == <<state, stage, picture>>

Init == state = "STATE_CLOSED" /\ stage = "idle" /\ ~picture

\* A call that opens a source, or closes the player, begins.
Begin ==
  /\ stage = "idle" /\ stage' \in {"opening", "closing"}
  /\ UNCHANGED <<state, picture>>

\* What was open is closed before anything new is made.
TearDown ==
  /\ stage = "opening" /\ stage' = "building" /\ state' = "STATE_CLOSED"
  /\ UNCHANGED picture

\* Graphs, filters and connections are made. The player stays closed.
Build ==
  /\ stage = "building" /\ picture' \in BOOLEAN
  /\ UNCHANGED <<state, stage>>

Opened ==
  /\ stage = "building" /\ stage' = "returning"
  /\ picture /\ state' = "STATE_STOPPED"
  /\ UNCHANGED picture
Failed ==
  /\ stage = "building" /\ stage' = "returning"
  /\ picture' \in BOOLEAN
  /\ UNCHANGED state
Return ==
  /\ stage = "returning" /\ stage' = "idle"
  /\ UNCHANGED <<state, picture>>

\* Close takes the picture away before the state follows.
Disconnect ==
  /\ stage = "closing" /\ picture' \in BOOLEAN
  /\ UNCHANGED <<state, stage>>
Close ==
  /\ stage = "closing" /\ stage' = "deleting" /\ state' = "STATE_CLOSED"
  /\ UNCHANGED picture
Delete ==
  /\ stage = "deleting" /\ stage' = "idle" /\ picture' = FALSE
  /\ UNCHANGED state

Control(from, to) ==
  /\ stage = "idle" /\ state \in from /\ state' = to
  /\ UNCHANGED <<stage, picture>>
Play == Control({"STATE_PAUSED", "STATE_STOPPED"}, "STATE_RUNNING")
Pause == Control({"STATE_RUNNING"}, "STATE_PAUSED")
Stop == Control({"STATE_RUNNING", "STATE_PAUSED"}, "STATE_STOPPED")

Next ==
  \/ Begin \/ TearDown \/ Build \/ Opened \/ Failed \/ Return
  \/ Disconnect \/ Close \/ Delete \/ Play \/ Pause \/ Stop

Safety == Init /\ [][Next]_vars

\* A call that has begun ends.
Spec == Safety /\ WF_vars(TearDown \/ Opened \/ Failed \/ Return \/ Close \/ Delete)
=============================================================================
