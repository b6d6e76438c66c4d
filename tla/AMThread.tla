------------------------------- MODULE AMThread -------------------------------
(***************************************************************************)
(* CAMThread: a worker thread that is handed one request at a time.  The   *)
(* caller sets a request and an event that stays set until the worker      *)
(* replies, then waits for the reply.  Reply is two steps, since the       *)
(* caller runs as soon as the second of them is done.                      *)
(***************************************************************************)
EXTENDS Integers

CONSTANT Threads

VARIABLES
    exists,     \* m_hThread is not NULL
    param,      \* m_dwParam
    returnVal,  \* m_dwReturnVal
    send,       \* m_EventSend: reset by hand
    complete,   \* m_EventComplete: resets when a wait ends
    worker,     \* the statement the thread has reached, "ended" without one
    replying    \* the thread is between the two steps of Reply

threadVars == <<exists, param, returnVal, send, complete, worker, replying>>
callVars == <<param, returnVal, send, complete, replying>>

ThreadInit ==
    /\ exists = [t \in Threads |-> FALSE]
    /\ param = [t \in Threads |-> "NONE"]
    /\ returnVal = [t \in Threads |-> "S_OK"]
    /\ send = [t \in Threads |-> FALSE]
    /\ complete = [t \in Threads |-> FALSE]
    /\ worker = [t \in Threads |-> "ended"]
    /\ replying = [t \in Threads |-> FALSE]

\* Create, where there is no thread; it starts at its first request.
Create(t) ==
    /\ ~exists[t]
    /\ exists' = [exists EXCEPT ![t] = TRUE]
    /\ worker' = [worker EXCEPT ![t] = "start"]
    /\ UNCHANGED callVars

\* CallWorker up to its wait; the caller has seen that the thread exists.
Call(t, request) ==
    /\ param' = [param EXCEPT ![t] = request]
    /\ send' = [send EXCEPT ![t] = TRUE]
    /\ UNCHANGED <<exists, returnVal, complete, worker, replying>>

\* The end of the wait in CallWorker; the caller goes on with returnVal[t].
Returned(t) ==
    /\ complete[t]
    /\ complete' = [complete EXCEPT ![t] = FALSE]
    /\ UNCHANGED <<exists, param, returnVal, send, worker, replying>>

\* Close: the handle is given up first, then the thread's end is waited for.
CloseBegin(t) ==
    /\ exists' = [exists EXCEPT ![t] = FALSE]
    /\ UNCHANGED <<callVars, worker>>
HasEnded(t) == worker[t] = "ended" /\ ~replying[t]

-----------------------------------------------------------------------------
\* The worker's side.

CheckRequest(t) == send[t]
Goto(t, l) == worker' = [worker EXCEPT ![t] = l]

\* A step that leaves the requests alone.
Step(t, from, to) ==
    /\ worker[t] = from /\ ~replying[t]
    /\ Goto(t, to)
    /\ UNCHANGED <<exists, callVars>>

\* Reply up to the reset of the request; the thread goes on at `next`.
Reply(t, hr, next) ==
    /\ returnVal' = [returnVal EXCEPT ![t] = hr]
    /\ send' = [send EXCEPT ![t] = FALSE]
    /\ replying' = [replying EXCEPT ![t] = TRUE]
    /\ Goto(t, next)
    /\ UNCHANGED <<exists, param, complete>>

ReplyEnd(t) ==
    /\ replying[t]
    /\ complete' = [complete EXCEPT ![t] = TRUE]
    /\ replying' = [replying EXCEPT ![t] = FALSE]
    /\ UNCHANGED <<exists, param, returnVal, send, worker>>

\* What CAMThread keeps for each thread has its type.
ThreadTypeOK ==
    /\ {exists[t] : t \in Threads} \cup {send[t] : t \in Threads}
         \cup {complete[t] : t \in Threads} \cup {replying[t] : t \in Threads} \subseteq BOOLEAN
    /\ DOMAIN param = Threads /\ DOMAIN returnVal = Threads /\ DOMAIN worker = Threads
=============================================================================
