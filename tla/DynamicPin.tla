------------------------------- MODULE DynamicPin -------------------------------
(***************************************************************************)
(* CDynamicOutputPin: the streaming thread counts its uses of the pin, the *)
(* application blocks the pin to reconnect it, and a flush or a stop gets  *)
(* a blocked streaming thread out.  Every function holds m_BlockStateLock  *)
(* from its first line to its last, except for the wait in                 *)
(* StartUsingOutputPin, where each step is one action.                     *)
(***************************************************************************)
EXTENDS Integers, FiniteSets

CONSTANTS
    Apps,           \* threads that call Block
    NoApp,
    MaxUsers,       \* bound: nested uses by the streaming thread
    ChangeFails     \* whether a dynamic change of the format may fail

DynamicPinAssumption ==
    /\ NoApp \notin Apps /\ MaxUsers \in Nat \ {0} /\ ChangeFails \in BOOLEAN

VARIABLES
    active,         \* Active was called, and Inactive not since
    flushing,       \* between DeliverBeginFlush and DeliverEndFlush
    stopEvent,      \* m_hStopEvent
    unblockEvent,   \* m_hUnblockOutputPinEvent
    blockState,     \* m_BlockState
    blockCaller,    \* m_dwBlockCallerThreadID
    notify,         \* m_hNotifyCallerPinBlockedEvent: whose event it duplicates
    users,          \* m_dwNumOutstandingOutputPinUsers
    stream,         \* the streaming thread: where it is
    committed,      \* the allocator is committed
    app,            \* each application thread: idle, waiting or holding the blocked pin
    event           \* each application thread's event

graphVars == <<active, flushing, stopEvent>>
blockVars == <<unblockEvent, blockState, blockCaller, notify, event>>
vars == <<graphVars, blockVars, users, stream, committed, app>>

Init ==
    /\ active = FALSE /\ flushing = FALSE /\ stopEvent \in BOOLEAN
    /\ unblockEvent = TRUE /\ blockState = "not_blocked" /\ blockCaller = NoApp
    /\ notify = NoApp /\ users = 0 /\ stream = "out" /\ committed = FALSE
    /\ app = [a \in Apps |-> "idle"] /\ event = [a \in Apps |-> FALSE]

\* A manual reset event lets go whoever waits at the moment it is set.
Woken(reason) == IF stream = "waiting" THEN reason ELSE stream
StreamIdle == stream = "out"

-----------------------------------------------------------------------------
\* The graph: SetConfigInfo is done.  Upstream waits for the streaming thread
\* between the two halves of a flush, and a filter is stopped outside a flush.
Active ==
    /\ ~active /\ StreamIdle
    /\ active' = TRUE /\ stopEvent' = FALSE /\ committed' = TRUE
    /\ UNCHANGED <<flushing, blockVars, users, stream, app>>

Inactive ==
    /\ active /\ ~flushing
    /\ active' = FALSE /\ stopEvent' = TRUE /\ committed' = FALSE
    /\ stream' = Woken("stopped")
    /\ UNCHANGED <<flushing, blockVars, users, app>>

DeliverBeginFlush ==
    /\ active /\ ~flushing
    /\ flushing' = TRUE /\ stopEvent' = TRUE
    /\ stream' = Woken("stopped")
    /\ UNCHANGED <<active, blockVars, users, committed, app>>

DeliverEndFlush ==
    /\ flushing /\ StreamIdle
    /\ flushing' = FALSE /\ stopEvent' = FALSE
    /\ UNCHANGED <<active, blockVars, users, stream, committed, app>>

-----------------------------------------------------------------------------
\* BlockOutputPin; Event is what SetEvent does to the one that is notified.
Signal(e) == [event EXCEPT ![e] = TRUE]
BlockOutputPin(a) ==
    /\ unblockEvent' = FALSE /\ event' = Signal(a)
    /\ blockState' = "blocked" /\ notify' = NoApp

\* A slip in BlockPin: a pin that is in use is blocked at once.
BlockPin_EvenIfUsed(a) ==
    /\ app[a] = "idle" /\ blockState = "not_blocked"
    /\ app' = [app EXCEPT ![a] = "waiting"]
    /\ blockCaller' = a
    /\ BlockOutputPin(a)
    /\ UNCHANGED <<graphVars, users, stream, committed>>

\* Block, with the thread's event unsignaled first.
BlockPin(a) ==
    /\ app[a] = "idle" /\ blockState = "not_blocked"
    /\ app' = [app EXCEPT ![a] = "waiting"]
    /\ blockCaller' = a
    /\ IF users = 0
       THEN BlockOutputPin(a)
       ELSE /\ blockState' = "pending" /\ notify' = a
            /\ event' = [event EXCEPT ![a] = FALSE]
            /\ UNCHANGED unblockEvent
    /\ UNCHANGED <<graphVars, users, stream, committed>>

\* The wait of a synchronous block, or the application's own.
BlockReturns(a) ==
    /\ app[a] = "waiting" /\ event[a]
    /\ app' = [app EXCEPT ![a] = "holds"]
    /\ event' = [event EXCEPT ![a] = FALSE]
    /\ UNCHANGED <<graphVars, unblockEvent, blockState, blockCaller, notify, users, stream, committed>>

\* A slip in Unblock: who waits for the block is not woken.
Unblock_KeepsWaiter(a) ==
    /\ app[a] # "waiting" /\ blockState # "not_blocked"
    /\ unblockEvent' = TRUE
    /\ blockState' = "not_blocked" /\ blockCaller' = NoApp /\ notify' = NoApp
    /\ app' = [app EXCEPT ![a] = "idle"]
    /\ stream' = Woken("unblocked")
    /\ UNCHANGED <<graphVars, event, users, committed>>

\* UnblockOutputPin, by the thread that holds the pin or, while the block is
\* still pending, by one that cancels it.
Unblock(a) ==
    /\ app[a] # "waiting" /\ blockState # "not_blocked"
    /\ unblockEvent' = TRUE
    /\ event' = IF notify = NoApp THEN event ELSE Signal(notify)
    /\ blockState' = "not_blocked" /\ blockCaller' = NoApp /\ notify' = NoApp
    /\ app' = [app EXCEPT ![a] = "idle"]
    /\ stream' = Woken("unblocked")
    /\ UNCHANGED <<graphVars, users, committed>>

\* A thread whose block was cancelled finds the pin not blocked any more.
UnblockNothing(a) ==
    /\ app[a] = "holds" /\ blockState = "not_blocked"
    /\ app' = [app EXCEPT ![a] = "idle"]
    /\ UNCHANGED <<graphVars, blockVars, users, stream, committed>>

-----------------------------------------------------------------------------
\* StartUsingOutputPin: in, or to the wait outside the lock.
StartUsing ==
    /\ stream \in {"out", "in"} /\ users < MaxUsers /\ (stream = "out" => active /\ ~flushing)
    /\ IF blockState = "blocked"
       THEN stream' = "unlocked" /\ UNCHANGED users
       ELSE stream' = "in" /\ users' = users + 1
    /\ UNCHANGED <<graphVars, blockVars, committed, app>>

Wait ==
    /\ stream = "unlocked"
    /\ stream' = IF unblockEvent THEN "unblocked" ELSE IF stopEvent THEN "stopped" ELSE "waiting"
    /\ UNCHANGED <<graphVars, blockVars, users, committed, app>>

\* A slip in Unblocked: the pin is used without looking at its state again.
Unblocked_NoRecheck ==
    /\ stream = "unblocked"
    /\ stream' = "in" /\ users' = users + 1
    /\ UNCHANGED <<graphVars, blockVars, committed, app>>

\* The lock again: the pin may have been blocked anew.
Unblocked ==
    /\ stream = "unblocked"
    /\ IF blockState = "blocked"
       THEN stream' = "unlocked" /\ UNCHANGED users
       ELSE stream' = "in" /\ users' = users + 1
    /\ UNCHANGED <<graphVars, blockVars, committed, app>>

StateChanged ==
    /\ stream = "stopped" /\ stream' = "out"
    /\ UNCHANGED <<graphVars, blockVars, users, committed, app>>

\* ChangeMediaTypeHelper: the allocator is decommitted, sized and committed;
\* what fails on the way returns.
ChangeMediaType ==
    /\ stream = "in" /\ active /\ committed
    /\ stream' = "changing" /\ committed' = FALSE
    /\ UNCHANGED <<graphVars, blockVars, users, app>>

ChangeReturns ==
    /\ stream = "changing" /\ stream' = "in"
    /\ committed' \in IF ChangeFails THEN BOOLEAN ELSE {TRUE}
    /\ UNCHANGED <<graphVars, blockVars, users, app>>

\* StopUsingOutputPin: the last use completes a block that is pending.
StopUsing ==
    /\ stream = "in"
    /\ users' = users - 1
    /\ stream' = IF users = 1 THEN "out" ELSE "in"
    /\ IF users = 1 /\ blockState # "not_blocked"
       THEN BlockOutputPin(notify) /\ UNCHANGED blockCaller
       ELSE UNCHANGED blockVars
    /\ UNCHANGED <<graphVars, committed, app>>

Graph == Active \/ Inactive \/ DeliverBeginFlush \/ DeliverEndFlush
AppNext(a) == BlockPin(a) \/ BlockReturns(a) \/ Unblock(a) \/ UnblockNothing(a)
StreamReturns == Wait \/ Unblocked \/ StateChanged \/ ChangeReturns

Next ==
    \/ Graph \/ StreamReturns \/ StartUsing \/ ChangeMediaType \/ StopUsing
    \/ \E a \in Apps : AppNext(a)

\* The streaming thread comes back from what it calls and gives the pin up in
\* the end; a thread whose event is set gets out of its wait.
Fairness ==
    /\ WF_vars(StreamReturns) /\ SF_vars(StopUsing) /\ SF_vars(users = 1 /\ StopUsing)
    /\ \A a \in Apps : WF_vars(BlockReturns(a))
Spec == Init /\ [][Next]_vars /\ Fairness

-----------------------------------------------------------------------------
\* Every variable has its type.
TypeOK ==
    /\ users \in 0..MaxUsers /\ {active, flushing, stopEvent, unblockEvent, committed} \subseteq BOOLEAN
    /\ blockState \in {"not_blocked", "pending", "blocked"}
    /\ {blockCaller, notify} \subseteq Apps \cup {NoApp}
    /\ stream \in {"out", "in", "unlocked", "waiting", "unblocked", "stopped", "changing"}

\* AssertValid: the state of a block agrees with its event, its caller and the
\* use count.
BlockStateIsConsistent ==
    /\ (notify # NoApp) <=> (blockState = "pending")
    /\ blockCaller # NoApp => blockState # "not_blocked"
    /\ users # 0 => blockState # "blocked"
    /\ blockState = "pending" => users # 0

\* "This event should be signaled when the output pin is not blocked", and a
\* blocked pin never lets the streaming thread through without being unblocked.
EventFollowsState == unblockEvent <=> blockState # "blocked"

\* With one application thread: while it holds the blocked pin, to reconnect
\* it, the streaming thread neither delivers nor changes the format.
Exclusive == \A a \in Apps : app[a] = "holds" => users = 0 /\ stream \notin {"in", "changing"}

\* A block is granted or cancelled in the end, whatever the streaming thread does.
BlockComesBack == \A a \in Apps : (app[a] = "waiting") ~> (app[a] # "waiting")

\* A stop or a flush gets the streaming thread out of its wait for a blocked
\* pin.  It may find the pin blocked anew, and go back, if it was unblocked.
StopFreesStream == []<>(stream \in {"unlocked", "waiting"} => active /\ ~flushing)

=============================================================================
