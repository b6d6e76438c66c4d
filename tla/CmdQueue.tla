------------------------------ MODULE CmdQueue ------------------------------
(***************************************************************************)
(* CCmdQueue and CDeferredCommand: commands a program has queued for a     *)
(* time, the thread of a filter that executes them when they are due, and  *)
(* the clock that is asked to signal the event of the queue.  The methods  *)
(* of the queue hold its lock; those of a command take none, so that they  *)
(* are several steps.  The queue has one presentation and one stream list. *)
(***************************************************************************)
EXTENDS Integers, Sequences, SequencesExt

CONSTANTS
    Commands,    \* deferred commands
    None,        \* no command
    Times,       \* times they are made for
    Offsets,     \* stream time offsets
    Accurate,    \* the filter asks GetCommandDueFor, not GetDueCommand
    TimesOut,    \* GetDueCommand is called with a finite timeout, over and over
    MayCancel,   \* the program cancels commands
    MayFail,     \* the executor may not have the interface of a command
    MaxTime,     \* bound: time an execution lasts
    MaxChanges   \* bound: Run, EndRun, SetSyncSource and Postpone

CmdQueueAssumption ==
    /\ None \notin Commands
    /\ Times \subseteq Nat /\ Offsets \subseteq Nat /\ MaxTime \in Nat /\ MaxChanges \in Nat

VARIABLES
    q,         \* the members of CCmdQueue, and the advice its clock owes it
    cmd,       \* the members of each CDeferredCommand
    now,       \* the time of the clock
    worker,    \* the filter's thread: where it is and the command it has
    app,       \* the program's thread: where it is, its command and new time
    appHolds,  \* the commands of which the program has a reference
    executed,  \* history: how often each was executed
    fault,     \* m_pQueue was used when it is NULL
    changes    \* changes so far

vars == <<q, cmd, now, worker, app, appHolds, executed, fault, changes>>

Init ==
    /\ q = [presentation |-> <<>>, stream |-> <<>>, clock |-> FALSE, running |-> FALSE,
            offset |-> 0, due |-> FALSE, dwAdvise |-> FALSE, currentAdvise |-> 0,
            pending |-> 0]
    /\ cmd = [c \in Commands |-> [made |-> FALSE, queued |-> FALSE, time |-> 0,
                                  stream |-> FALSE, ref |-> 0]]
    /\ now = 1
    /\ worker = [pc |-> "looking", cmd |-> None]
    /\ app = [pc |-> "idle", cmd |-> None, time |-> 0]
    /\ appHolds = {} /\ executed = [c \in Commands |-> 0]
    /\ fault = FALSE /\ changes = 0

First(list) == IF list = <<>> THEN None ELSE Head(list)
ListOf(queue, k) == IF k.stream THEN queue.stream ELSE queue.presentation
WithList(queue, k, list) ==
    IF k.stream THEN [queue EXCEPT !.stream = list] ELSE [queue EXCEPT !.presentation = list]

\* It is time.
CheckTime(time, stream) ==
    /\ q.clock
    /\ stream => q.running
    /\ time + (IF stream THEN q.offset ELSE 0) <= now

\* Presentation time of the command that is due first, 0 if there is none.
EarliestTime(queue, k) ==
    LET p == First(queue.presentation)
        s == IF queue.running THEN First(queue.stream) ELSE None
        current == IF p = None THEN 0 ELSE k[p].time
        t == IF s = None THEN 0 ELSE k[s].time + queue.offset
    IN  IF s # None /\ (current = 0 \/ t < current) THEN t ELSE current

\* The queue after SetTimeAdvise: an advice not yet given is replaced.
SetTimeAdvise(queue, k) ==
    LET current == EarliestTime(queue, k)
    IN  IF ~queue.clock THEN queue
        ELSE IF current > 0 /\ current # queue.currentAdvise
        THEN [queue EXCEPT !.due = FALSE, !.dwAdvise = TRUE, !.currentAdvise = current,
                           !.pending = current]
        ELSE [queue EXCEPT !.due = FALSE]

\* Behind the commands that are not later.
PlaceOf(list, k, c) == 1 + Len(SelectSeq(list, LAMBDA d : k[d].time <= k[c].time))

Insert(c, k) ==
    LET list == ListOf(q, k[c])
        counted == [k EXCEPT ![c].ref = @ + 1]
    IN  /\ cmd' = counted
        /\ q' = SetTimeAdvise(WithList(q, k[c], InsertAt(list, PlaceOf(list, k, c), c)), counted)

IsListed(c) == Contains(ListOf(q, cmd[c]), c)

RemovedRef(ref) == ref - 1

\* Of a command that is in its list; `queued' is m_pQueue afterwards.
RemoveFromList(c, queued) ==
    /\ cmd' = [cmd EXCEPT ![c].ref = RemovedRef(@), ![c].queued = queued]
    /\ q' = SetTimeAdvise(WithList(q, cmd[c],
                SelectSeq(ListOf(q, cmd[c]), LAMBDA d : d # c)), cmd)

-----------------------------------------------------------------------------
\* The program.

\* The constructor inserts the command; the program takes its reference.
New ==
    \E c \in Commands, time \in Times, stream \in BOOLEAN :
        /\ app.pc = "idle" /\ ~cmd[c].made
        /\ Insert(c, [cmd EXCEPT ![c] = [made |-> TRUE, queued |-> TRUE, time |-> time,
                                         stream |-> stream, ref |-> 1]])
        /\ appHolds' = appHolds \cup {c}
        /\ UNCHANGED <<now, worker, app, executed, fault, changes>>

\* Cancel takes the command out of the queue, and then forgets the queue.
CancelRemoves ==
    \E c \in appHolds :
        /\ MayCancel /\ app.pc = "idle"
        /\ cmd[c].queued /\ IsListed(c)
        /\ RemoveFromList(c, TRUE)
        /\ app' = [pc |-> "cancel", cmd |-> c, time |-> 0]
        /\ UNCHANGED <<now, worker, appHolds, executed, fault, changes>>

CancelForgets ==
    /\ app.pc = "cancel"
    /\ cmd' = [cmd EXCEPT ![app.cmd].queued = FALSE]
    /\ app' = [pc |-> "idle", cmd |-> None, time |-> 0]
    /\ UNCHANGED <<q, now, worker, appHolds, executed, fault, changes>>

\* Of a command that is still queued; Postpone does not test m_pQueue.
PostponeChecks ==
    \E c \in appHolds, time \in Times :
        /\ app.pc = "idle" /\ changes < MaxChanges
        /\ cmd[c].queued
        /\ ~CheckTime(time, cmd[c].stream)
        /\ app' = [pc |-> "postpone", cmd |-> c, time |-> time]
        /\ changes' = changes + 1
        /\ UNCHANGED <<q, cmd, now, worker, appHolds, executed, fault>>

PostponeRemoves ==
    /\ app.pc = "postpone" /\ cmd[app.cmd].queued
    /\ IsListed(app.cmd)
    /\ RemoveFromList(app.cmd, TRUE)
    /\ app' = [app EXCEPT !.pc = "requeue"]
    /\ UNCHANGED <<now, worker, appHolds, executed, fault, changes>>

\* It was executed in the meantime: Remove finds nothing, or there is no queue.
PostponeTooLate ==
    /\ app.pc = "postpone"
    /\ ~(cmd[app.cmd].queued /\ IsListed(app.cmd))
    /\ fault' = (fault \/ ~cmd[app.cmd].queued)
    /\ app' = [pc |-> "idle", cmd |-> None, time |-> 0]
    /\ UNCHANGED <<q, cmd, now, worker, appHolds, executed, changes>>

\* Its command may have been executed between the two, and has no queue then.
PostponeRequeues ==
    /\ app.pc = "requeue"
    /\ IF cmd[app.cmd].queued
       THEN Insert(app.cmd, [cmd EXCEPT ![app.cmd].time = app.time]) /\ UNCHANGED fault
       ELSE fault' = TRUE /\ UNCHANGED <<q, cmd>>
    /\ app' = [pc |-> "idle", cmd |-> None, time |-> 0]
    /\ UNCHANGED <<now, worker, appHolds, executed, changes>>

ReleaseByApp ==
    \E c \in appHolds :
        /\ app.pc = "idle"
        /\ cmd' = [cmd EXCEPT ![c].ref = @ - 1]
        /\ appHolds' = appHolds \ {c}
        /\ UNCHANGED <<q, now, worker, app, executed, fault, changes>>

-----------------------------------------------------------------------------
\* The filter is given a clock, run and stopped.

SetSyncSource ==
    \E clock \in BOOLEAN :
        /\ changes < MaxChanges /\ (clock \/ q.clock)
        /\ q' = SetTimeAdvise([q EXCEPT !.clock = clock, !.dwAdvise = FALSE, !.pending = 0],
                              cmd)
        /\ changes' = changes + 1
        /\ UNCHANGED <<cmd, now, worker, app, appHolds, executed, fault>>

Run ==
    \E offset \in Offsets :
        /\ changes < MaxChanges
        /\ q' = SetTimeAdvise([q EXCEPT !.offset = offset, !.running = TRUE], cmd)
        /\ changes' = changes + 1
        /\ UNCHANGED <<cmd, now, worker, app, appHolds, executed, fault>>

EndRun ==
    /\ q.running /\ changes < MaxChanges
    /\ q' = SetTimeAdvise([q EXCEPT !.running = FALSE], cmd)
    /\ changes' = changes + 1
    /\ UNCHANGED <<cmd, now, worker, app, appHolds, executed, fault>>

-----------------------------------------------------------------------------
\* The thread of the filter.

\* A slip in Earliest: a command in presentation time always comes first.
Earliest_PresentationFirst ==
    IF q.presentation # <<>> THEN Head(q.presentation)
    ELSE IF q.running THEN First(q.stream) ELSE None

\* The command GetDueCommand considers.
Earliest ==
    LET p == First(q.presentation)
        s == IF q.running THEN First(q.stream) ELSE None
    IN  IF s # None /\ (p = None \/ cmd[s].time + q.offset < cmd[p].time) THEN s ELSE p

IsDue(c) == c # None /\ CheckTime(cmd[c].time, cmd[c].stream)

Got(c, addRef) ==
    /\ cmd' = [cmd EXCEPT ![c].ref = @ + addRef]
    /\ worker' = [pc |-> "has", cmd |-> c]

GetDueCommand ==
    /\ ~Accurate /\ worker.pc = "looking"
    /\ IF IsDue(Earliest) THEN Got(Earliest, 1)
       ELSE worker' = [worker EXCEPT !.pc = "waiting"] /\ UNCHANGED cmd
    /\ UNCHANGED <<q, now, app, appHolds, executed, fault, changes>>

Wake ==
    /\ worker.pc = "waiting" /\ q.due
    /\ worker' = [worker EXCEPT !.pc = "looking"]
    /\ UNCHANGED <<q, cmd, now, app, appHolds, executed, fault, changes>>

\* GetDueCommand returns E_ABORT and is called again.
TimeOut ==
    /\ worker.pc = "waiting" /\ TimesOut
    /\ worker' = [worker EXCEPT !.pc = "looking"]
    /\ UNCHANGED <<q, cmd, now, app, appHolds, executed, fault, changes>>

\* For a sample with a stream time.
GetCommandDueFor ==
    \E tStream \in Times :
        LET p == First(q.presentation)
            s == First(q.stream)
        IN  /\ Accurate /\ worker.pc = "looking"
            /\ \/ IsDue(p) /\ Got(p, 1)
               \/ ~IsDue(p) /\ s # None /\ cmd[s].time <= tStream /\ Got(s, 1)
               \/ /\ ~IsDue(p) /\ (s # None => cmd[s].time > tStream)
                  /\ q.running /\ p # None /\ cmd[p].time <= tStream + q.offset
                  /\ Got(p, 0)
            /\ UNCHANGED <<q, now, app, appHolds, executed, fault, changes>>

\* Invoke up to the call of the method.
InvokeCalls ==
    /\ worker.pc = "has" /\ cmd[worker.cmd].queued
    /\ worker' = [worker EXCEPT !.pc = "invoked"]
    /\ executed' = [executed EXCEPT ![worker.cmd] = @ + 1]
    /\ UNCHANGED <<q, cmd, now, app, appHolds, fault, changes>>

\* Already cancelled; or no type library, or no such interface of the executor.
InvokeFails ==
    /\ worker.pc = "has" /\ (~cmd[worker.cmd].queued \/ MayFail)
    /\ worker' = [worker EXCEPT !.pc = "release"]
    /\ UNCHANGED <<q, cmd, now, app, appHolds, executed, fault, changes>>

\* ... and from its return: Remove, which may find nothing; m_pQueue is NULL now.
InvokeRemoves ==
    /\ worker.pc = "invoked" /\ cmd[worker.cmd].queued
    /\ IF IsListed(worker.cmd) THEN RemoveFromList(worker.cmd, FALSE)
       ELSE cmd' = [cmd EXCEPT ![worker.cmd].queued = FALSE] /\ UNCHANGED q
    /\ worker' = [worker EXCEPT !.pc = "release"]
    /\ UNCHANGED <<now, app, appHolds, executed, fault, changes>>

\* The command was cancelled while its method ran.
InvokeFaults ==
    /\ worker.pc = "invoked" /\ ~cmd[worker.cmd].queued
    /\ fault' = TRUE
    /\ worker' = [worker EXCEPT !.pc = "ended"]
    /\ UNCHANGED <<q, cmd, now, app, appHolds, executed, changes>>

ReleaseByWorker ==
    /\ worker.pc = "release"
    /\ cmd' = [cmd EXCEPT ![worker.cmd].ref = @ - 1]
    /\ worker' = [pc |-> "looking", cmd |-> None]
    /\ UNCHANGED <<q, now, app, appHolds, executed, fault, changes>>

-----------------------------------------------------------------------------
\* The clock signals the event it was given.
Advise ==
    /\ q.pending # 0 /\ q.pending <= now
    /\ q' = [q EXCEPT !.due = TRUE, !.pending = 0]
    /\ UNCHANGED <<cmd, now, worker, app, appHolds, executed, fault, changes>>

Tick ==
    /\ now < MaxTime
    /\ now' = now + 1
    /\ UNCHANGED <<q, cmd, worker, app, appHolds, executed, fault, changes>>

Worker ==
    \/ GetDueCommand \/ Wake \/ TimeOut \/ GetCommandDueFor
    \/ InvokeCalls \/ InvokeFails \/ InvokeRemoves \/ InvokeFaults \/ ReleaseByWorker
Program ==
    \/ New \/ CancelRemoves \/ CancelForgets
    \/ PostponeChecks \/ PostponeRemoves \/ PostponeTooLate \/ PostponeRequeues
    \/ ReleaseByApp
Next == Program \/ SetSyncSource \/ Run \/ EndRun \/ Worker \/ Advise \/ Tick

\* The thread runs and the clock goes and signals; a method once begun returns.
Fairness ==
    /\ WF_vars(Worker) /\ WF_vars(Advise) /\ WF_vars(Tick)
    /\ WF_vars(CancelForgets) /\ WF_vars(PostponeRemoves \/ PostponeTooLate)
    /\ WF_vars(PostponeRequeues)
Spec == Init /\ [][Next]_vars /\ Fairness

-----------------------------------------------------------------------------
\* Every variable has its type.
TypeOK ==
    /\ ToSet(q.presentation) \cup ToSet(q.stream) \subseteq Commands
    /\ \A c \in Commands : cmd[c].time \in Times \cup {0} /\ cmd[c].ref \in 0..3
    /\ worker.cmd \in Commands \cup {None} /\ app.cmd \in Commands \cup {None}
    /\ q.pending # 0 => q.dwAdvise

\* Both lists are in the order of time, whatever was postponed, and a command is
\* in the list of its kind, once, until it is executed, cancelled or being
\* moved.
QueueIsConsistent ==
    /\ \A list \in {q.presentation, q.stream} :
           /\ IsInjective(list)
           /\ \A i \in 1..(Len(list) - 1) : cmd[list[i]].time <= cmd[list[i + 1]].time
    /\ \A c \in ToSet(q.presentation) : ~cmd[c].stream
    /\ \A c \in ToSet(q.stream) : cmd[c].stream
    /\ \A c \in Commands :
           cmd[c].queued => (IsListed(c) \/ (app.cmd = c /\ app.pc \in {"cancel", "requeue"}))

InQueue(c) == IF cmd[c].made /\ IsListed(c) THEN 1 ELSE 0
\* A command has one reference for the queue while it is listed, one for the
\* program and one for the thread that has it: nobody's command is deleted.
ReferencesAreCounted ==
    \A c \in Commands :
        cmd[c].ref = InQueue(c) + (IF c \in appHolds THEN 1 ELSE 0)
                                + (IF worker.cmd = c THEN 1 ELSE 0)

\* GetDueCommand gives the thread a command only when its time has come, and
\* none that is earlier is left behind: a stream command only while running.
GivenInTime ==
    [][worker'.pc = "has" /\ worker.pc # "has" =>
        LET c == worker'.cmd
            at(d) == cmd[d].time + (IF cmd[d].stream THEN q.offset ELSE 0)
        IN  /\ q.clock /\ at(c) <= now /\ (cmd[c].stream => q.running)
            /\ \A d \in ToSet(q.presentation) : at(c) <= at(d)
            /\ q.running => \A d \in ToSet(q.stream) : at(c) <= at(d)]_vars

\* However a command is postponed, cancelled or given again, its method is called
\* once.
ExecutedOnce == \A c \in Commands : executed[c] <= 1

\* The clock owes the queue no advice for a command that is not its earliest
\* any more: one that was replaced, cancelled, or whose clock was taken away.
NoStaleAdvice ==
    /\ q.pending # 0 => q.clock /\ q.pending = q.currentAdvise
    /\ EarliestTime(q, cmd) # 0 => (q.pending # 0 => q.pending = EarliestTime(q, cmd))

\* What a filter that comes back after each timeout gets: a command whose time
\* has come does not stay due for ever without being executed.
DueIsExecuted ==
    \A c \in Commands :
        (cmd[c].made /\ IsListed(c) /\ IsDue(c)) ~> (~IsDue(c) \/ ~IsListed(c))

\* The comment on GetDueHandle says that the handle is signalled whenever there
\* are commands due, when GetDueCommand does not block: the thread that waits
\* for it does not wait for ever.
DueIsSignalled ==
    ~<>[](worker.pc = "waiting" /\ IsDue(Earliest))

\* The comment in Invoke says that a command is removed whether or not it was
\* successful, "or we loop indefinitely": one that was taken leaves the queue.
TakenLeavesQueue ==
    \A c \in Commands : (worker.pc = "has" /\ worker.cmd = c) ~> ~IsListed(c)

\* The comment in SetSyncSource says that a new advice is set up: with the new
\* clock, for a command whose time is still to come.
ClockIsAdvised ==
    [][SetSyncSource /\ q'.clock /\ EarliestTime(q, cmd) > now => q'.pending # 0]_vars

\* Invoke begins with "check that we are still outstanding": the command it
\* works on is, until Invoke itself removes it.
InvokedIsOutstanding == ~fault

=============================================================================
