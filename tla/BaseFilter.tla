------------------------------- MODULE BaseFilter -------------------------------
(***************************************************************************)
(* CBaseFilter with its pins: Stop, Pause and Run tell the connected pins  *)
(* one after the other; meanwhile the streaming thread is in Receive of    *)
(* the input pin (pin 1), and the upstream filter flushes it.              *)
(***************************************************************************)
EXTENDS Integers, FiniteSets

CONSTANTS
    NPins,          \* pins of the filter; pin 1 is an input pin
    Connected,      \* those that are connected
    ActiveMayFail,  \* a pin's Active or Run may fail
    Clocks,         \* reference clocks
    NoClock,
    MaxSessions     \* bound: flushes

BaseFilterAssumption ==
    /\ NPins \in Nat \ {0} /\ Connected \subseteq 1..NPins /\ 1 \in Connected
    /\ ActiveMayFail \in BOOLEAN
    /\ NoClock \notin Clocks /\ MaxSessions \in Nat

VARIABLES
    state,          \* m_State
    pins,           \* what each pin was told last
    pc,             \* the loop the application's call is in: "idle", "stop", "pause", "run", "clock"
    c,              \* the pin it is at
    last,           \* the application's last call
    flushing,       \* m_bFlushing of the input pin
    error,          \* m_bRunTimeError, given by the session of the sample it was raised for
    session,        \* flushes so far
    receive,        \* "idle", or the session of the sample in Receive
    clock,          \* m_pClock
    newClock,       \* the argument of SetSyncSource
    clockRefs       \* references on each clock

appVars == <<state, pins, pc, c, last>>
pinVars == <<flushing, error, session>>
clockVars == <<clock, newClock, clockRefs>>
vars == <<appVars, pinVars, receive, clockVars>>

Stopped == "stopped" Paused == "paused" Running == "running"
NoError == 0

Init ==
    /\ state = Stopped /\ pins = [p \in 1..NPins |-> "inactive"] /\ pc = "idle" /\ c = 0 /\ last = "none"
    /\ flushing = FALSE /\ error = NoError /\ session = 1 /\ receive = 0
    /\ clock = NoClock /\ newClock = NoClock /\ clockRefs = [k \in Clocks |-> 1]

-----------------------------------------------------------------------------
\* The loops over the pins.
Call(p) == pc' = p /\ c' = 1
Return(s) == pc' = "idle" /\ c' = 0 /\ state' = s

\* Stop of a stopped filter changes nothing.
Stop ==
    /\ pc = "idle" /\ last' = "stop"
    /\ IF state # Stopped THEN Call("stop") ELSE UNCHANGED <<pc, c>>
    /\ UNCHANGED <<state, pins, pinVars, receive, clockVars>>

\* Inactive clears the pin's run-time error and its flush; that it may fail
\* stops nobody.
InactivePin ==
    /\ pc = "stop" /\ c <= NPins
    /\ c' = c + 1
    /\ pins' = IF c \in Connected THEN [pins EXCEPT ![c] = "inactive"] ELSE pins
    /\ IF c = 1 THEN error' = NoError /\ flushing' = FALSE ELSE UNCHANGED <<error, flushing>>
    /\ UNCHANGED <<state, pc, last, session, receive, clockVars>>

StopReturns ==
    /\ pc = "stop" /\ c > NPins
    /\ Return(Stopped)
    /\ UNCHANGED <<pins, last, pinVars, receive, clockVars>>

\* Run of a stopped filter pauses it first.
Pause ==
    /\ pc = "idle" /\ state # Paused
    /\ last' = "pause"
    /\ IF state = Stopped THEN Call("pause") /\ UNCHANGED state
       ELSE state' = Paused /\ UNCHANGED <<pc, c>>
    /\ UNCHANGED <<pins, pinVars, receive, clockVars>>

Run ==
    /\ pc = "idle" /\ state # Running
    /\ last' = "run"
    /\ Call(IF state = Stopped THEN "pauseRun" ELSE "run")
    /\ UNCHANGED <<state, pins, pinVars, receive, clockVars>>

ActivePin ==
    /\ pc \in {"pause", "pauseRun"} /\ c <= NPins
    /\ \/ /\ pins' = IF c \in Connected THEN [pins EXCEPT ![c] = "active"] ELSE pins
          /\ c' = c + 1 /\ UNCHANGED <<state, pc>>
       \/ /\ ActiveMayFail /\ c \in Connected
          /\ Return(state) /\ UNCHANGED pins
    /\ UNCHANGED <<pinVars, last, receive, clockVars>>

PauseReturns ==
    /\ pc \in {"pause", "pauseRun"} /\ c > NPins
    /\ IF pc = "pause" THEN Return(Paused) ELSE Call("run") /\ state' = Paused
    /\ UNCHANGED <<pins, last, pinVars, receive, clockVars>>

RunPin ==
    /\ pc = "run" /\ c <= NPins
    /\ \/ /\ pins' = IF c \in Connected THEN [pins EXCEPT ![c] = "running"] ELSE pins
          /\ c' = c + 1 /\ UNCHANGED <<state, pc>>
       \/ /\ ActiveMayFail /\ c \in Connected
          /\ Return(state) /\ UNCHANGED pins
    /\ UNCHANGED <<pinVars, last, receive, clockVars>>

RunReturns ==
    /\ pc = "run" /\ c > NPins
    /\ Return(Running)
    /\ UNCHANGED <<pins, last, pinVars, receive, clockVars>>

-----------------------------------------------------------------------------
\* SetSyncSource counts the new clock before it lets the old one go.
SetSyncSource ==
    \E k \in Clocks \cup {NoClock} :
        /\ pc = "idle"
        /\ k # NoClock => clockRefs[k] > 0
        /\ clockRefs' = [i \in Clocks |-> clockRefs[i] + (IF i = k THEN 1 ELSE 0)]
        /\ newClock' = k
        /\ pc' = "clock"
        /\ UNCHANGED <<state, pins, c, last, pinVars, receive, clock>>

SwapClock ==
    /\ pc = "clock"
    /\ clockRefs' = [i \in Clocks |-> clockRefs[i] - (IF i = clock THEN 1 ELSE 0)]
    /\ clock' = newClock /\ newClock' = NoClock
    /\ pc' = "idle"
    /\ UNCHANGED <<state, pins, c, last, pinVars, receive>>

\* The application gives up its own reference on a clock.
ReleaseClock ==
    \E k \in Clocks :
        /\ clockRefs[k] > (IF clock = k THEN 1 ELSE 0) + (IF newClock = k THEN 1 ELSE 0)
        /\ clockRefs' = [clockRefs EXCEPT ![k] = @ - 1]
        /\ UNCHANGED <<appVars, pinVars, receive, clock, newClock>>

-----------------------------------------------------------------------------
\* The upstream filter's control thread.
BeginFlush ==
    /\ pc = "idle" /\ ~flushing /\ session < MaxSessions
    /\ flushing' = TRUE
    /\ UNCHANGED <<appVars, error, session, receive, clockVars>>

\* EndFlush is called when no thread is pushing any more without a further Receive.
EndFlush ==
    /\ pc = "idle" /\ flushing /\ receive = 0
    /\ flushing' = FALSE /\ error' = NoError /\ session' = session + 1
    /\ UNCHANGED <<appVars, receive, clockVars>>

\* The streaming thread, without the filter's lock: CheckStreaming, and the type.
Receive ==
    /\ receive = 0
    /\ state # Stopped /\ ~flushing /\ error = NoError
    /\ receive' = session
    /\ UNCHANGED <<appVars, pinVars, clockVars>>

\* The format may have changed to one the derived class does not take.
ReceiveReturns ==
    \E bad \in BOOLEAN :
        /\ receive # 0
        /\ receive' = 0
        /\ error' = IF bad THEN receive ELSE error
        /\ UNCHANGED <<appVars, flushing, session, clockVars>>

InCall == InactivePin \/ StopReturns \/ ActivePin \/ PauseReturns \/ RunPin \/ RunReturns \/ SwapClock

Next ==
    \/ Stop \/ Pause \/ Run \/ SetSyncSource \/ ReleaseClock \/ InCall
    \/ BeginFlush \/ EndFlush \/ Receive \/ ReceiveReturns

Fairness == WF_vars(InCall) /\ WF_vars(ReceiveReturns)
Spec == Init /\ [][Next]_vars /\ Fairness

-----------------------------------------------------------------------------
\* Every variable has its type.
TypeOK ==
    /\ state \in {Stopped, Paused, Running} /\ c \in 0..(NPins + 1)
    /\ pins \in [1..NPins -> {"inactive", "active", "running"}]
    /\ flushing \in BOOLEAN /\ error \in 0..session /\ receive \in 0..session
    /\ clock \in Clocks \cup {NoClock}

\* "Stop can be used to resync the graph state after something has gone bad": after
\* Stop no pin is active.
StoppedIsInactive == pc = "idle" /\ last = "stop" => \A p \in Connected : pins[p] = "inactive"

\* A filter that is paused or running has activated its connected pins, and no other.
ActiveWhenStarted ==
    /\ pc = "idle" /\ state # Stopped => \A p \in Connected : pins[p] # "inactive"
    /\ pc = "idle" /\ state = Running => \A p \in Connected : pins[p] = "running"
    /\ \A p \in (1..NPins) \ Connected : pins[p] = "inactive"

\* "No more errors": a run-time error is one of a sample since the last flush.
NoStaleError == error # NoError => error = session

\* The filter's clock is alive, even if it is set again.
ClockIsAlive == clock # NoClock => clockRefs[clock] > 0

\* Stop, Pause and Run come to their end.
CallsReturn == pc # "idle" ~> pc = "idle"
=============================================================================
