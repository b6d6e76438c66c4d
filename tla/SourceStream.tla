----------------------------- MODULE SourceStream -----------------------------
(***************************************************************************)
(* CSource and its output pins, each with a worker thread (CSourceStream)  *)
(* that fills buffers and delivers them.  The application changes the      *)
(* filter's state under the filter's lock and so one call after the other; *)
(* starting and stopping goes from pin to pin.  What is downstream may     *)
(* keep a buffer until it is stopped itself, before this filter or after.  *)
(***************************************************************************)
EXTENDS AMThread, Sequences

CONSTANTS
    NumPins,        \* m_iPins; the pins are the threads 1..NumPins
    MayFail,        \* Commit and OnThreadCreate may fail
    MaxSamples,     \* bound: samples a pin delivers in one activation
    MaxStarts       \* bound: calls of Pause and Seek

SourceAssumption ==
    /\ NumPins \in Nat \ {0} /\ Threads = 1..NumPins
    /\ MayFail \in BOOLEAN
    /\ MaxSamples \in Nat /\ MaxStarts \in Nat

VARIABLES
    state,      \* m_State of the filter
    app,        \* the application's call: its name, the pin it has come to, its statement
    pins,       \* m_paStreams
    committed,  \* the pin's allocator is committed
    holder,     \* who has the pin's buffer: "free", "worker", "down"
    downstream, \* the filters downstream are active
    starts,     \* calls of Pause and Seek so far
    sent,       \* history: what the pin has delivered in this activation
    ended       \* history: the pin has delivered the end of its stream in this activation

pinVars == <<committed, holder, sent, ended>>
appVars == <<state, app, pins, downstream, starts>>
vars == <<threadVars, pinVars, appVars>>

Idle == [op |-> "idle", pin |-> 1, at |-> "begin"]
At(op, l) == app.op = op /\ app.at = l
AppGoto(l) == app' = [app EXCEPT !.at = l]
\* The next pin, or the end of the call in the state it leads to.
NextPin(s) ==
    IF app.pin < NumPins
    THEN app' = [app EXCEPT !.pin = @ + 1, !.at = "begin"] /\ UNCHANGED state
    ELSE app' = Idle /\ state' = s

Init ==
    /\ ThreadInit
    /\ state = "Stopped"
    /\ app = Idle
    /\ pins = [i \in 1..NumPins |-> i]
    /\ committed = [t \in Threads |-> FALSE]
    /\ holder = [t \in Threads |-> "free"]
    /\ downstream = FALSE
    /\ starts = 0
    /\ sent = [t \in Threads |-> 0]
    /\ ended = [t \in Threads |-> FALSE]

-----------------------------------------------------------------------------
\* CBaseFilter::Pause of a stopped filter: Active for one pin after the other.

Pause ==
    /\ app = Idle /\ state = "Stopped" /\ pins # <<>>
    /\ starts < MaxStarts /\ starts' = starts + 1
    /\ app' = [Idle EXCEPT !.op = "pause"]
    /\ downstream' = TRUE
    /\ UNCHANGED <<threadVars, pinVars, state, pins>>

Fails == app' = Idle /\ UNCHANGED state

ActiveCommit ==
    /\ At("pause", "begin")
    /\ \/ /\ committed' = [committed EXCEPT ![app.pin] = TRUE]
          /\ sent' = [sent EXCEPT ![app.pin] = 0]
          /\ ended' = [ended EXCEPT ![app.pin] = FALSE]
          /\ AppGoto("create") /\ UNCHANGED state
       \/ MayFail /\ Fails /\ UNCHANGED <<committed, sent, ended>>
    /\ UNCHANGED <<threadVars, holder, pins, downstream, starts>>

\* Create, then Init.
ActiveCreate ==
    /\ At("pause", "create")
    /\ \/ Create(app.pin) /\ AppGoto("init") /\ UNCHANGED state
       \/ exists[app.pin] /\ Fails /\ UNCHANGED threadVars
    /\ UNCHANGED <<pinVars, pins, downstream, starts>>

ActiveInit ==
    /\ At("pause", "init")
    /\ Call(app.pin, "INIT") /\ AppGoto("initWait")
    /\ UNCHANGED <<pinVars, state, pins, downstream, starts>>

ActiveInitialized ==
    /\ At("pause", "initWait")
    /\ Returned(app.pin)
    /\ IF returnVal[app.pin] = "S_OK" THEN AppGoto("pause") /\ UNCHANGED state ELSE Fails
    /\ UNCHANGED <<pinVars, pins, downstream, starts>>

ActivePause ==
    /\ At("pause", "pause")
    /\ Call(app.pin, "PAUSE") /\ AppGoto("pauseWait")
    /\ UNCHANGED <<pinVars, state, pins, downstream, starts>>

ActivePaused ==
    /\ At("pause", "pauseWait")
    /\ Returned(app.pin)
    /\ IF returnVal[app.pin] = "S_OK" THEN NextPin("Paused") ELSE Fails
    /\ UNCHANGED <<pinVars, pins, downstream, starts>>

-----------------------------------------------------------------------------
\* CBaseFilter::Stop: Inactive for one pin after the other.

\* The filter graph stops what is downstream, whatever this filter's state.
StopDownstream ==
    /\ app = Idle /\ downstream
    /\ downstream' = FALSE
    /\ UNCHANGED <<threadVars, pinVars, state, app, pins, starts>>

Stop ==
    /\ app = Idle /\ state # "Stopped"
    /\ app' = [Idle EXCEPT !.op = "stop"]
    /\ UNCHANGED <<threadVars, pinVars, state, pins, downstream, starts>>

\* "need to do this before trying to stop the thread, because we may be stuck
\* waiting for our own allocator"
InactiveDecommit ==
    /\ At("stop", "begin")
    /\ committed' = [committed EXCEPT ![app.pin] = FALSE]
    /\ IF exists[app.pin] THEN AppGoto("stop") /\ UNCHANGED state ELSE NextPin("Stopped")
    /\ UNCHANGED <<threadVars, holder, sent, ended, pins, downstream, starts>>

InactiveStop ==
    /\ At("stop", "stop")
    /\ Call(app.pin, "STOP") /\ AppGoto("stopWait")
    /\ UNCHANGED <<pinVars, state, pins, downstream, starts>>

InactiveStopped ==
    /\ At("stop", "stopWait")
    /\ Returned(app.pin)
    /\ IF returnVal[app.pin] = "S_OK" THEN AppGoto("exit") /\ UNCHANGED state ELSE NextPin("Stopped")
    /\ UNCHANGED <<pinVars, pins, downstream, starts>>

InactiveExit ==
    /\ At("stop", "exit")
    /\ Call(app.pin, "EXIT") /\ AppGoto("exitWait")
    /\ UNCHANGED <<pinVars, state, pins, downstream, starts>>

InactiveExited ==
    /\ At("stop", "exitWait")
    /\ Returned(app.pin)
    /\ IF returnVal[app.pin] = "S_OK" THEN AppGoto("close") /\ UNCHANGED state ELSE NextPin("Stopped")
    /\ UNCHANGED <<pinVars, pins, downstream, starts>>

InactiveClose ==
    /\ At("stop", "close")
    /\ CloseBegin(app.pin) /\ AppGoto("join")
    /\ UNCHANGED <<pinVars, state, pins, downstream, starts>>

InactiveJoin ==
    /\ At("stop", "join") /\ HasEnded(app.pin)
    /\ NextPin("Stopped")
    /\ UNCHANGED <<threadVars, pinVars, pins, downstream, starts>>

-----------------------------------------------------------------------------
\* ~CSource deletes its pins, the last one first, when it is stopped; a pin
\* closes its thread and removes itself.

Destroy ==
    /\ app = Idle /\ state = "Stopped" /\ pins # <<>>
    /\ app' = [op |-> "destroy", pin |-> pins[Len(pins)], at |-> "close"]
    /\ UNCHANGED <<threadVars, pinVars, state, pins, downstream, starts>>

DestroyPin ==
    /\ At("destroy", "close")
    /\ IF exists[app.pin] THEN CloseBegin(app.pin) ELSE UNCHANGED threadVars
    /\ AppGoto("join")
    /\ UNCHANGED <<pinVars, state, pins, downstream, starts>>

RemovePin ==
    /\ At("destroy", "join") /\ HasEnded(app.pin)
    /\ pins' = SelectSeq(pins, LAMBDA p : p # app.pin)
    /\ app' = IF pins' = <<>> THEN Idle
              ELSE [op |-> "destroy", pin |-> pins'[Len(pins')], at |-> "close"]
    /\ UNCHANGED <<threadVars, pinVars, state, downstream, starts>>

-----------------------------------------------------------------------------
\* A derived class moves a started stream to another place: it flushes what is
\* downstream, stops the stream and runs it again.

Seek ==
    /\ app = Idle /\ state = "Paused" /\ downstream
    /\ starts < MaxStarts /\ starts' = starts + 1
    /\ \E t \in Threads : app' = [op |-> "seek", pin |-> t, at |-> "stop"]
    /\ downstream' = FALSE
    /\ UNCHANGED <<threadVars, pinVars, state, pins>>

SeekStop ==
    /\ At("seek", "stop")
    /\ Call(app.pin, "STOP") /\ AppGoto("stopWait")
    /\ UNCHANGED <<pinVars, state, pins, downstream, starts>>

SeekStopped ==
    /\ At("seek", "stopWait")
    /\ Returned(app.pin)
    /\ downstream' = TRUE
    /\ sent' = [sent EXCEPT ![app.pin] = 0]
    /\ ended' = [ended EXCEPT ![app.pin] = FALSE]
    /\ AppGoto("run")
    /\ UNCHANGED <<committed, holder, state, pins, starts>>

SeekRun ==
    /\ At("seek", "run")
    /\ Call(app.pin, "RUN") /\ AppGoto("runWait")
    /\ UNCHANGED <<pinVars, state, pins, downstream, starts>>

SeekDone ==
    /\ At("seek", "runWait")
    /\ Returned(app.pin)
    /\ app' = Idle
    /\ UNCHANGED <<pinVars, state, pins, downstream, starts>>

App ==
    \/ ActiveCommit \/ ActiveCreate \/ ActiveInit \/ ActiveInitialized \/ ActivePause \/ ActivePaused
    \/ InactiveDecommit \/ InactiveStop \/ InactiveStopped \/ InactiveExit \/ InactiveExited
    \/ InactiveClose \/ InactiveJoin
    \/ DestroyPin \/ RemovePin
    \/ SeekStop \/ SeekStopped \/ SeekRun \/ SeekDone

-----------------------------------------------------------------------------
\* ThreadProc.

\* The first request must be CMD_INIT; OnThreadCreate may fail.
AwaitInit(t) ==
    /\ worker[t] = "start" /\ ~replying[t] /\ CheckRequest(t)
    /\ IF param[t] # "INIT" THEN Reply(t, "E_UNEXPECTED", "start")
       ELSE Reply(t, "S_OK", "main") \/ (MayFail /\ Reply(t, "E_FAIL", "ended"))
    /\ UNCHANGED <<pinVars, appVars>>

Command(t) ==
    /\ worker[t] = "main" /\ ~replying[t] /\ CheckRequest(t)
    /\ CASE param[t] = "EXIT" -> Reply(t, "S_OK", "destroy")
         [] param[t] \in {"RUN", "PAUSE"} -> Reply(t, "S_OK", "loop")
         [] param[t] = "STOP" -> Reply(t, "S_OK", "main")
         [] OTHER -> Reply(t, "E_NOTIMPL", "main")
    /\ UNCHANGED <<pinVars, appVars>>

OnThreadDestroy(t) ==
    /\ Step(t, "destroy", "ended")
    /\ UNCHANGED <<pinVars, appVars>>

\* DoBufferProcessingLoop between two buffers.  CMD_STOP is left to Command,
\* which finds it again and replies.
LoopRequest(t) ==
    /\ worker[t] = "loop" /\ ~replying[t] /\ CheckRequest(t)
    /\ CASE param[t] = "STOP" -> Step(t, "loop", "main")
         [] param[t] \in {"RUN", "PAUSE"} -> Reply(t, "S_OK", "loop")
         [] OTHER -> Reply(t, "E_UNEXPECTED", "loop")
    /\ UNCHANGED <<pinVars, appVars>>

BeginBuffer(t) ==
    /\ ~CheckRequest(t) /\ sent[t] < MaxSamples
    /\ Step(t, "loop", "buffer")
    /\ UNCHANGED <<pinVars, appVars>>

\* GetDeliveryBuffer waits while the buffer is out, and fails without a commit.
GetDeliveryBuffer(t) ==
    /\ \/ /\ committed[t] /\ holder[t] = "free"
          /\ Step(t, "buffer", "fill")
          /\ holder' = [holder EXCEPT ![t] = "worker"]
       \/ ~committed[t] /\ Step(t, "buffer", "loop") /\ UNCHANGED holder
    /\ UNCHANGED <<committed, sent, ended, appVars>>

\* A slip in EndLoop: the loop goes on after the end of the stream.
EndLoop_GoesOn(t) == Step(t, "fill", "loop") /\ ended' = [ended EXCEPT ![t] = TRUE]

\* The end of the stream, after S_FALSE or an error from FillBuffer.
EndLoop(t) == Step(t, "fill", "main") /\ ended' = [ended EXCEPT ![t] = TRUE]

FillBuffer(t) ==
    /\ \/ Step(t, "fill", "deliver") /\ UNCHANGED <<holder, ended>>
       \/ EndLoop(t) /\ holder' = [holder EXCEPT ![t] = "free"]
    /\ UNCHANGED <<committed, sent, appVars>>

\* Receive downstream: the buffer may be kept; a filter that is not active
\* refuses, and ends the loop.
Deliver(t) ==
    /\ \/ /\ downstream /\ sent' = [sent EXCEPT ![t] = @ + 1]
          /\ Step(t, "deliver", "loop")
          /\ \E h \in {"free", "down"} : holder' = [holder EXCEPT ![t] = h]
       \/ /\ ~downstream
          /\ Step(t, "deliver", "main")
          /\ holder' = [holder EXCEPT ![t] = "free"]
          /\ UNCHANGED sent
    /\ UNCHANGED <<committed, ended, appVars>>

EndReply(t) == ReplyEnd(t) /\ UNCHANGED <<pinVars, appVars>>

Worker(t) ==
    \/ AwaitInit(t) \/ Command(t) \/ LoopRequest(t) \/ GetDeliveryBuffer(t)
    \/ FillBuffer(t) \/ Deliver(t) \/ OnThreadDestroy(t) \/ EndReply(t)

\* A filter downstream gives the buffer back, at the latest when it is stopped.
GiveBack(t) ==
    /\ holder[t] = "down"
    /\ holder' = [holder EXCEPT ![t] = "free"]
    /\ UNCHANGED <<threadVars, committed, sent, ended, appVars>>

Next ==
    \/ Pause \/ Seek \/ StopDownstream \/ Stop \/ Destroy \/ App
    \/ \E t \in Threads : Worker(t) \/ BeginBuffer(t) \/ GiveBack(t)

\* The system schedules every thread.  A buffer downstream need not come back
\* before the filters downstream are stopped.
Fairness ==
    /\ WF_vars(App)
    /\ \A t \in Threads : WF_vars(Worker(t)) /\ WF_vars(GiveBack(t) /\ ~downstream)
Spec == Init /\ [][Next]_vars /\ Fairness

-----------------------------------------------------------------------------
\* The types; and "all paths release the sample": the worker has the buffer
\* where it fills or delivers it and nowhere else.
TypeOK ==
    /\ ThreadTypeOK
    /\ state \in {"Stopped", "Paused"}
    /\ app.op \in {"idle", "pause", "stop", "seek", "destroy"}
    /\ \A t \in Threads : holder[t] \in {"free", "worker", "down"} /\ committed[t] \in BOOLEAN
    /\ \A t \in Threads : holder[t] = "worker" <=> worker[t] \in {"fill", "deliver"}

\* A reply is for the request that is waited for: while one is on its way the
\* request has been taken back, and nobody's reply is left over.
ReplyIsForThisRequest ==
    \A t \in Threads :
        /\ ~(complete[t] /\ send[t])
        /\ complete[t] \/ send[t] \/ replying[t] =>
               app.op \in {"pause", "stop", "seek"} /\ app.pin = t
                   /\ app.at \in {"initWait", "pauseWait", "stopWait", "exitWait", "runWait"}

\* Once a pin's Inactive is done nobody delivers for it: the thread is gone,
\* and the buffer with it.
QuietAfterInactive ==
    state = "Paused" /\ app.op = "stop" =>
        \A t \in 1..(app.pin - 1) : HasEnded(t) /\ ~exists[t] /\ holder[t] # "worker"

\* "ASSERT(!ThreadExists())" where Active creates the thread.
NoThreadBeforeCreate == At("pause", "create") => ~exists[app.pin]

\* Nothing follows the end of the stream until the pin is started again.
NothingAfterEnd ==
    [][\A t \in Threads : ended[t] /\ ended'[t] => sent'[t] = sent[t]]_vars

\* Every call of the application returns: a worker that waits for a buffer is
\* released by the decommit, one that has ended by itself still answers, and a
\* request to stop that the loop has seen is answered after it.
CallsReturn == (app # Idle) ~> (app = Idle)
=============================================================================
