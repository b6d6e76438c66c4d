----------------------------- MODULE OutputQueue -----------------------------
(***************************************************************************)
(* COutputQueue: an output pin's queue of samples and packets.  With a     *)
(* list (Queued) a worker thread sends them downstream; without one the    *)
(* caller's thread does, under the queue's lock.  A flush started by the   *)
(* application discards what is queued.                                    *)
(*                                                                         *)
(* Threads: the stream (Receive, EOS, NewSegment, SendAnyway), the         *)
(* application (BeginFlush, EndFlush, Reset, the destructor), the worker.  *)
(* Samples, ends of stream and segments get their numbers from one count.  *)
(***************************************************************************)
EXTENDS Integers, Sequences, SequencesExt

CONSTANTS
    Queued,         \* the queue has a list and a worker thread
    BatchSize,      \* m_lBatchSize
    BatchExact,     \* m_bBatchExact
    FlushingOpt,    \* m_bFlushingOpt
    MemoryMayFail,  \* AddTail may fail
    MaxGiven,       \* bound: samples, ends of stream and segments together
    MaxFlushes      \* bound: flushes and resets together

QueueAssumption ==
    /\ {Queued, BatchExact, FlushingOpt, MemoryMayFail} \subseteq BOOLEAN
    /\ BatchSize \in Nat \ {0}
    /\ BatchExact => BatchSize > 1
    /\ {MaxGiven, MaxFlushes} \subseteq Nat

VARIABLES
    pc,         \* the statement each thread has reached
    call,       \* what the stream's call carries: a kind, a number and samples
    lock,       \* the thread in the critical section, "none" between
    list,       \* m_List
    batch,      \* m_ppSamples up to m_nBatched
    sending,    \* lNumberToSend samples the worker has taken out of the batch
    packet,     \* the packet (or NULL) the worker has taken off the list
    hr,         \* m_hr
    waiting,    \* m_lWaiting
    sem,        \* the count of m_hSem
    flushing,   \* m_bFlushing
    flushed,    \* m_bFlushed
    complete,   \* m_evFlushComplete is set (it resets when a wait ends)
    terminate,  \* m_bTerminate
    down,       \* the pin downstream: "flow" or "flush"
    given,      \* numbers used so far
    flushes,    \* flushes and resets so far
    unreleased, \* samples not yet released by the queue
    delivered,  \* history: what the pin downstream has accepted
    barrier,    \* history: `given` when the last flush ended downstream
    failed      \* history: downstream refused since the last flush or reset

queueVars == <<list, batch, waiting, sem>>
flushVars == <<flushing, flushed, complete, hr>>
downVars == <<down, delivered, barrier, failed>>
boundVars == <<given, flushes>>
vars == <<pc, call, lock, sending, packet, terminate, unreleased,
          queueVars, flushVars, downVars, boundVars>>

Item(kind, n) == [kind |-> kind, id |-> n]
Nothing == Item("NULL", 0)
Ids(items) == {items[i].id : i \in DOMAIN items}

Goto(t, l) == pc' = [pc EXCEPT ![t] = l]

Init ==
    /\ pc = [stream |-> "idle", app |-> "idle",
             worker |-> IF Queued THEN "loop" ELSE "ended"]
    /\ call = [kind |-> "NONE", id |-> 0, todo |-> <<>>]
    /\ lock = "none"
    /\ list = <<>> /\ batch = <<>> /\ sending = <<>> /\ packet = Nothing
    /\ hr = "S_OK"
    /\ waiting = 0 /\ sem = 0
    /\ flushing = FALSE /\ flushed = TRUE /\ complete = FALSE
    /\ terminate = FALSE
    /\ down = "flow"
    /\ given = 0 /\ flushes = 0
    /\ unreleased = {}
    /\ delivered = <<>> /\ barrier = 0 /\ failed = FALSE

-----------------------------------------------------------------------------
\* The pin downstream.  It may refuse a batch at any time, it discards
\* everything while it flushes, and it may keep a caller waiting until then.

Accept(items) == delivered' = IF down = "flow" THEN delivered \o items ELSE delivered

Receives(items, result) ==
    /\ result \in IF down = "flow" THEN {"S_OK", "ERROR"} ELSE {"S_FALSE"}
    /\ IF result = "S_OK" THEN Accept(items) ELSE UNCHANGED delivered
    /\ failed' = (failed \/ result = "ERROR")
    /\ UNCHANGED <<down, barrier>>

-----------------------------------------------------------------------------
\* Helpers that need the lock.

\* A slip in NotifyThread: the thread is not woken.
NotifyThread_Missing == UNCHANGED <<sem, waiting>>

NotifyThread ==
    /\ sem' = sem + waiting
    /\ waiting' = 0

\* QueueSample for each of the items: what cannot be added is released.
QueueSamples(items) ==
    \E kept \in IF MemoryMayFail THEN SUBSET (DOMAIN items) ELSE {DOMAIN items} :
        /\ list' = list \o [i \in 1..Len(SetToSortSeq(kept, <)) |->
                               items[SetToSortSeq(kept, <)[i]]]
        /\ unreleased' = unreleased \
              {items[i].id : i \in {j \in DOMAIN items \ kept : items[j].kind = "SAMPLE"}}

\* The samples FreeSamples releases: those of the list and of the batch.
FreeSamples ==
    /\ unreleased' = unreleased \ Ids(SelectSeq(list \o batch, LAMBDA s : s.kind = "SAMPLE"))
    /\ list' = <<>>
    /\ batch' = <<>>

-----------------------------------------------------------------------------
\* The stream's calls.  The filter refuses data from the moment it starts to
\* flush, but a call that had been let in goes on.

Receiving == pc.app \in {"idle", "reset", "resetWait"}

\* Receive and ReceiveMultiple with one or two samples.
Receive ==
    \E n \in 1..2 :
        /\ pc.stream = "idle" /\ Receiving /\ given + n <= MaxGiven
        /\ given' = given + n
        /\ call' = [kind |-> "SAMPLE", id |-> given + n,
                    todo |-> [i \in 1..n |-> Item("SAMPLE", given + i)]]
        /\ unreleased' = unreleased \cup (given + 1)..(given + n)
        /\ Goto("stream", IF Queued THEN "enqueue" ELSE "enter")
        /\ UNCHANGED <<lock, sending, packet, terminate, queueVars, flushVars, downVars, flushes>>

\* EOS, NewSegment and SendAnyway.  NewSegment looks at m_hr before the lock.
SendPacket(kind) ==
    /\ pc.stream = "idle" /\ Receiving /\ given < MaxGiven
    /\ given' = given + 1
    /\ call' = [kind |-> kind, id |-> given + 1, todo |-> <<>>]
    /\ IF kind = "NEWSEG" /\ hr # "S_OK"
       THEN UNCHANGED pc
       ELSE Goto("stream", CASE Queued -> "enqueue"
                             [] ~Queued /\ (kind = "SEND" \/ BatchExact) -> "enter"
                             [] OTHER -> "finish")
    /\ UNCHANGED <<lock, sending, packet, terminate, unreleased, queueVars, flushVars,
                   downVars, flushes>>

\* ReceiveMultiple, sending to the thread.
EnqueueSamples ==
    /\ pc.stream = "enqueue" /\ call.kind = "SAMPLE" /\ lock = "none"
    /\ IF hr # "S_OK"
       THEN /\ unreleased' = unreleased \ Ids(call.todo)
            /\ UNCHANGED <<flushed, queueVars>>
       ELSE /\ flushed' = FALSE
            /\ QueueSamples(call.todo)
            /\ IF ~BatchExact \/ Len(batch) + Len(list') >= BatchSize
               THEN NotifyThread
               ELSE UNCHANGED <<waiting, sem>>
            /\ UNCHANGED batch
    /\ call' = [call EXCEPT !.todo = <<>>]
    /\ Goto("stream", "idle")
    /\ UNCHANGED <<lock, sending, packet, terminate, flushing, complete, hr,
                   downVars, boundVars>>

\* The entries EOS, NewSegment and SendAnyway add to the list.
Packets(kind, n) ==
    IF kind = "NEWSEG" THEN <<Item("NEWSEG", 0), Item("PACKET", n)>> ELSE <<Item(kind, n)>>

\* EOS, NewSegment and SendAnyway, sending to the thread.
EnqueuePacket ==
    /\ pc.stream = "enqueue" /\ call.kind # "SAMPLE" /\ lock = "none"
    /\ IF call.kind = "EOS" /\ hr # "S_OK"
       THEN UNCHANGED <<unreleased, queueVars, flushed>>
       ELSE /\ QueueSamples(Packets(call.kind, call.id))
            /\ NotifyThread
            /\ flushed' = IF call.kind = "EOS" THEN FALSE ELSE flushed
            /\ UNCHANGED batch
    /\ Goto("stream", "idle")
    /\ UNCHANGED <<call, lock, sending, packet, terminate, flushing, complete, hr,
                   downVars, boundVars>>

\* ReceiveMultiple without a thread: the lock, the sticky result, the loop.
\* SendAnyway is a call without samples that sets m_bSendAnyway.
EnterReceive ==
    /\ pc.stream = "enter" /\ lock = "none"
    /\ IF hr # "S_OK"
       THEN /\ unreleased' = unreleased \ Ids(call.todo)
            /\ lock' = IF call.kind = "EOS" THEN "stream" ELSE "none"
            /\ Goto("stream", "finish")
            /\ call' = [call EXCEPT !.todo = <<>>]
            /\ UNCHANGED flushed
       ELSE /\ lock' = "stream"
            /\ flushed' = FALSE
            /\ Goto("stream", "batch")
            /\ UNCHANGED <<call, unreleased>>
    /\ UNCHANGED <<sending, packet, terminate, queueVars, flushing, complete, hr,
                   downVars, boundVars>>

SendAnyway == call.kind # "SAMPLE"

Batch ==
    /\ pc.stream = "batch"
    /\ IF call.todo # <<>> \/ (batch # <<>> /\ SendAnyway)
       THEN /\ batch' = IF call.todo = <<>> THEN batch ELSE Append(batch, Head(call.todo))
            /\ call' = [call EXCEPT !.todo = IF @ = <<>> THEN @ ELSE Tail(@)]
            /\ IF Len(batch') = BatchSize \/ SendAnyway
               THEN Goto("stream", "send")
               ELSE UNCHANGED pc
            /\ UNCHANGED lock
       ELSE /\ lock' = IF call.kind = "EOS" THEN lock ELSE "none"
            /\ Goto("stream", "finish")
            /\ UNCHANGED <<batch, call>>
    /\ UNCHANGED <<sending, packet, terminate, unreleased, list, waiting, sem, flushVars,
                   downVars, boundVars>>

SendBatch ==
    /\ pc.stream = "send"
    /\ IF hr = "S_OK"
       THEN \E result \in {"S_OK", "S_FALSE", "ERROR"} :
                Receives(batch, result) /\ hr' = result
       ELSE UNCHANGED <<hr, downVars>>
    /\ unreleased' = unreleased \ Ids(batch)
    /\ batch' = <<>>
    /\ Goto("stream", "batch")
    /\ UNCHANGED <<call, lock, sending, packet, terminate, list, waiting, sem, flushing,
                   flushed, complete, boundVars>>

\* What EOS (still under the lock) and NewSegment do after sending the batch.
Finish ==
    /\ pc.stream = "finish"
    /\ call.kind = "EOS" => lock \in {"none", "stream"}
    /\ IF call.kind = "EOS" /\ hr = "S_OK"
       THEN flushed' = FALSE /\ Accept(<<Item("EOS", call.id)>>)
       ELSE /\ IF call.kind = "NEWSEG" THEN Accept(<<Item("PACKET", call.id)>>)
                                       ELSE UNCHANGED delivered
            /\ UNCHANGED flushed
    /\ lock' = IF lock = "stream" THEN "none" ELSE lock
    /\ Goto("stream", "idle")
    /\ UNCHANGED <<call, sending, packet, terminate, unreleased, queueVars, flushing,
                   complete, hr, down, barrier, failed, boundVars>>

Stream ==
    \/ Receive
    \/ \E kind \in {"EOS", "NEWSEG", "SEND"} : SendPacket(kind)
    \/ EnqueueSamples \/ EnqueuePacket
    \/ EnterReceive \/ Batch \/ SendBatch \/ Finish

-----------------------------------------------------------------------------
\* The application's calls.

\* With a thread the lock comes first, without one the pin downstream.
FirstStep == IF Queued THEN "beginFlush" ELSE "beginPin"

StartFlush ==
    /\ pc.app = "idle" /\ flushes < MaxFlushes
    /\ flushes' = flushes + 1
    /\ Goto("app", FirstStep)
    /\ UNCHANGED <<call, lock, sending, packet, terminate, unreleased, queueVars, flushVars,
                   downVars, given>>

\* The critical section of BeginFlush.
BeginFlush ==
    /\ pc.app = "beginFlush" /\ lock = "none"
    /\ flushing' = TRUE
    /\ hr' = IF hr = "S_OK" THEN "S_FALSE" ELSE hr
    /\ IF Queued /\ ~(flushed /\ FlushingOpt)
       THEN complete' = FALSE /\ NotifyThread /\ Goto("app", "beginPin")
       ELSE UNCHANGED <<complete, waiting, sem>> /\ Goto("app", "inFlush")
    /\ UNCHANGED <<call, lock, sending, packet, terminate, unreleased, list, batch, flushed,
                   downVars, boundVars>>

\* m_pPin->BeginFlush: after the lock with a thread, before it without.
BeginPin ==
    /\ pc.app = "beginPin"
    /\ down' = "flush"
    /\ Goto("app", IF Queued THEN "inFlush" ELSE "beginFlush")
    /\ UNCHANGED <<call, lock, sending, packet, terminate, unreleased, queueVars, flushVars,
                   delivered, barrier, failed, boundVars>>

\* EndFlush, called once the filter has waited for the stream's call.
EndFlush ==
    /\ pc.app = "inFlush" /\ pc.stream = "idle" /\ lock = "none"
    /\ IF FlushingOpt /\ flushed /\ Queued
       THEN flushing' = FALSE /\ hr' = "S_OK" /\ failed' = FALSE /\ Goto("app", "idle")
       ELSE Goto("app", "endWait") /\ UNCHANGED <<flushing, hr, failed>>
    /\ UNCHANGED <<call, lock, sending, packet, terminate, unreleased, queueVars, flushed,
                   complete, down, delivered, barrier, boundVars>>

\* EndFlush waits for the thread to say that it has emptied the list.
Emptied == complete /\ complete' = FALSE

EndWait ==
    /\ pc.app = "endWait" /\ lock = "none"
    /\ IF Queued
       THEN Emptied /\ UNCHANGED <<unreleased, list, batch>>
       ELSE FreeSamples /\ UNCHANGED complete
    /\ Goto("app", "endFlags")
    /\ UNCHANGED <<call, lock, sending, packet, terminate, waiting, sem, flushing, flushed,
                   hr, downVars, boundVars>>

EndFlags ==
    /\ pc.app = "endFlags"
    /\ flushing' = FALSE /\ flushed' = TRUE
    /\ Goto("app", "endPin")
    /\ UNCHANGED <<call, lock, sending, packet, terminate, unreleased, queueVars, complete,
                   hr, downVars, boundVars>>

EndPin ==
    /\ pc.app = "endPin"
    /\ down' = "flow" /\ barrier' = given
    /\ Goto("app", "endResult")
    /\ UNCHANGED <<call, lock, sending, packet, terminate, unreleased, queueVars, flushVars,
                   delivered, failed, boundVars>>

EndResult ==
    /\ pc.app = "endResult"
    /\ hr' = "S_OK" /\ failed' = FALSE
    /\ Goto("app", "idle")
    /\ UNCHANGED <<call, lock, sending, packet, terminate, unreleased, queueVars, flushing,
                   flushed, complete, down, delivered, barrier, boundVars>>

\* Reset cancels the sticky result.
Reset ==
    /\ pc.app = "idle" /\ flushes < MaxFlushes
    /\ Queued => lock = "none"
    /\ flushes' = flushes + 1
    /\ IF Queued
       THEN QueueSamples(<<Item("RESET", 0)>>) /\ NotifyThread /\ Goto("app", "resetWait")
            /\ UNCHANGED <<hr, failed>>
       ELSE hr' = "S_OK" /\ failed' = FALSE /\ UNCHANGED <<pc, list, unreleased, waiting, sem>>
    /\ UNCHANGED <<call, lock, sending, packet, terminate, batch, flushing, flushed, complete,
                   down, delivered, barrier, given>>

ResetWait ==
    /\ pc.app = "resetWait" /\ complete
    /\ complete' = FALSE
    /\ Goto("app", "idle")
    /\ UNCHANGED <<call, lock, sending, packet, terminate, unreleased, queueVars, flushing,
                   flushed, hr, downVars, boundVars>>

\* The destructor, when no call is in progress.
Destroy ==
    /\ pc.app = "idle" /\ pc.stream = "idle" /\ lock = "none"
    /\ IF Queued
       THEN terminate' = TRUE /\ hr' = "S_FALSE" /\ NotifyThread
            /\ UNCHANGED <<unreleased, list, batch>>
       ELSE FreeSamples /\ UNCHANGED <<terminate, hr, waiting, sem>>
    /\ Goto("app", "joining")
    /\ UNCHANGED <<call, lock, sending, packet, flushing, flushed, complete, downVars,
                   boundVars>>

Join ==
    /\ pc.app = "joining" /\ pc.worker = "ended"
    /\ Goto("app", "gone")
    /\ UNCHANGED <<call, lock, sending, packet, terminate, unreleased, queueVars, flushVars,
                   downVars, boundVars>>

App ==
    \/ StartFlush \/ BeginFlush \/ BeginPin
    \/ EndFlush \/ EndWait \/ EndFlags \/ EndPin \/ EndResult
    \/ Reset \/ ResetWait \/ Destroy \/ Join

-----------------------------------------------------------------------------
\* ThreadProc.

\* The head of the loop: the control actions, under the lock.
Loop ==
    /\ pc.worker = "loop" /\ lock \in {"none", "worker"}
    /\ IF terminate
       THEN FreeSamples /\ lock' = "none" /\ Goto("worker", "ended") /\ UNCHANGED complete
       ELSE /\ IF flushing
               THEN FreeSamples /\ complete' = TRUE
               ELSE UNCHANGED <<unreleased, list, batch, complete>>
            /\ lock' = "worker"
            /\ Goto("worker", "take")
    /\ UNCHANGED <<call, sending, packet, terminate, waiting, sem, flushing, flushed, hr,
                   downVars, boundVars>>

\* Leaving the critical section with a batch.
LeaveWith(head, all) ==
    /\ sending' = all /\ batch' = <<>> /\ packet' = head
    /\ lock' = "none"
    /\ Goto("worker", "deliver")

\* Taking the head of the list.
Take ==
    /\ pc.worker = "take"
    /\ LET head == IF list = <<>> THEN Nothing ELSE Head(list)
           rest == IF list = <<>> THEN <<>> ELSE Tail(list)
       IN  CASE head.kind \in {"SAMPLE", "PACKET"} ->
                /\ list' = rest
                /\ IF Len(batch) + 1 = BatchSize
                   THEN LeaveWith(head, Append(batch, head))
                   ELSE /\ batch' = Append(batch, head)
                        /\ Goto("worker", "loop")
                        /\ UNCHANGED <<sending, packet, lock>>
                /\ UNCHANGED waiting
             [] head.kind = "NULL" /\ (BatchExact \/ batch = <<>>) ->
                /\ waiting' = waiting + 1
                /\ lock' = "none"
                /\ Goto("worker", "wait")
                /\ UNCHANGED <<list, batch, sending, packet>>
             [] head.kind = "SEND" /\ batch = <<>> ->
                /\ list' = rest
                /\ Goto("worker", "loop")
                /\ UNCHANGED <<batch, sending, packet, lock, waiting>>
             [] head.kind = "NEWSEG" ->
                /\ list' = IF rest = <<>> THEN <<>> ELSE Tail(rest)
                /\ LeaveWith(IF rest = <<>> THEN Nothing ELSE Head(rest), batch)
                /\ UNCHANGED waiting
             [] OTHER ->
                /\ list' = rest
                /\ LeaveWith(head, batch)
                /\ UNCHANGED waiting
    /\ UNCHANGED <<call, terminate, sem, unreleased, flushVars, downVars, boundVars>>

Wait ==
    /\ pc.worker = "wait" /\ sem > 0
    /\ sem' = sem - 1
    /\ Goto("worker", "loop")
    /\ UNCHANGED <<call, lock, sending, packet, terminate, unreleased, list, batch, waiting,
                   flushVars, downVars, boundVars>>

\* A slip in Deliver: what Receive returned last is not looked at.
Deliver_IgnoresResult ==
    /\ pc.worker = "deliver"
    /\ Goto("worker", IF sending # <<>> THEN "call" ELSE "release")
    /\ UNCHANGED <<call, lock, sending, packet, terminate, unreleased, queueVars, flushVars,
                   downVars, boundVars>>

\* The call downstream, made only while nothing has gone wrong.
Deliver ==
    /\ pc.worker = "deliver"
    /\ IF sending # <<>> /\ hr = "S_OK" THEN Goto("worker", "call")
                                       ELSE Goto("worker", "release")
    /\ UNCHANGED <<call, lock, sending, packet, terminate, unreleased, queueVars, flushVars,
                   downVars, boundVars>>

CallDownstream ==
    /\ pc.worker = "call"
    /\ \E result \in {"S_OK", "S_FALSE", "ERROR"} :
          /\ Receives(sending, result)
          /\ Goto("worker", IF result = "S_OK" THEN "release" ELSE "keepResult")
    /\ UNCHANGED <<call, lock, sending, packet, terminate, unreleased, queueVars, flushVars,
                   boundVars>>

\* A flush that began meanwhile has set m_hr already.
KeepResult ==
    /\ pc.worker = "keepResult" /\ lock = "none"
    /\ hr' = IF hr = "S_OK" THEN (IF failed THEN "ERROR" ELSE "S_FALSE") ELSE hr
    /\ Goto("worker", "release")
    /\ UNCHANGED <<call, lock, sending, packet, terminate, unreleased, queueVars, flushing,
                   flushed, complete, downVars, boundVars>>

ReleaseBatch ==
    /\ pc.worker = "release"
    /\ unreleased' = unreleased \ Ids(sending)
    /\ sending' = <<>>
    /\ Goto("worker", IF packet.kind \in {"EOS", "RESET", "PACKET"} THEN packet.kind ELSE "loop")
    /\ UNCHANGED <<call, lock, packet, terminate, queueVars, flushVars, downVars, boundVars>>

EndOfStream ==
    /\ pc.worker = "EOS"
    /\ IF hr = "S_OK" THEN Accept(<<packet>>) ELSE UNCHANGED delivered
    /\ Goto("worker", "loop")
    /\ UNCHANGED <<call, lock, sending, packet, terminate, unreleased, queueVars, flushVars,
                   down, barrier, failed, boundVars>>

ResetResult ==
    /\ pc.worker = "RESET"
    /\ hr' = "S_OK" /\ failed' = FALSE /\ complete' = TRUE
    /\ Goto("worker", "loop")
    /\ UNCHANGED <<call, lock, sending, packet, terminate, unreleased, queueVars, flushing,
                   flushed, down, delivered, barrier, boundVars>>

NewSegment ==
    /\ pc.worker = "PACKET"
    /\ Accept(<<packet>>)
    /\ Goto("worker", "loop")
    /\ UNCHANGED <<call, lock, sending, packet, terminate, unreleased, queueVars, flushVars,
                   down, barrier, failed, boundVars>>

Worker ==
    \/ Loop \/ Take \/ Wait \/ Deliver \/ CallDownstream \/ KeepResult \/ ReleaseBatch
    \/ EndOfStream \/ ResetResult \/ NewSegment

Next == Stream \/ App \/ Worker

\* Threads run, but the pin downstream may keep a caller as long as it does
\* not flush, and nothing makes the program call.
Fairness ==
    /\ WF_vars(Loop \/ Take \/ Wait \/ Deliver \/ KeepResult \/ ReleaseBatch
               \/ EndOfStream \/ ResetResult \/ NewSegment)
    /\ WF_vars(down = "flush" /\ CallDownstream)
    /\ WF_vars(EnqueueSamples \/ EnqueuePacket \/ EnterReceive \/ Batch \/ Finish)
    /\ WF_vars((down = "flush" \/ hr # "S_OK") /\ SendBatch)
    /\ WF_vars(BeginFlush \/ BeginPin \/ EndFlush \/ EndWait \/ EndFlags \/ EndPin
               \/ EndResult \/ ResetWait)

Spec == Init /\ [][Next]_vars /\ Fairness

\* IsIdle, when it gets the lock.
IsIdle == lock = "none" /\ ~((Queued /\ waiting = 0) \/ batch # <<>>)

-----------------------------------------------------------------------------
\* The variables keep their types: the batch never outgrows its array, and the
\* thread waits at most once at a time (the assertion at outputq.cpp:260).
TypeOK ==
    /\ Len(batch) <= BatchSize /\ Len(sending) <= BatchSize
    /\ waiting \in 0..1 /\ sem \in 0..1
    /\ hr \in {"S_OK", "S_FALSE", "ERROR"}
    /\ {flushing, flushed, complete, terminate, failed} \subseteq BOOLEAN
    /\ lock \in {"none", "stream", "worker"}
    /\ down \in {"flow", "flush"}
    /\ unreleased \subseteq 1..given

\* What is delivered keeps the order in which it was given: samples among
\* themselves, and with the ends of stream and segments between them, although
\* batches are held back and the result of a call may drop any of them.
InOrder ==
    \A i \in 1..(Len(delivered) - 1) : delivered[i].id < delivered[i + 1].id

Held == SelectSeq(list \o batch \o sending \o call.todo, LAMBDA s : s.kind = "SAMPLE")

\* Every sample that has not been released is in exactly one place: it is
\* neither lost on an error path nor released while the queue still has it.
ReleasedOnce ==
    /\ unreleased = Ids(Held)
    /\ \A i, j \in DOMAIN Held : Held[i] = Held[j] => i = j

\* Once the destructor has returned nothing is left behind (outputq.cpp:168).
NothingLeft == pc.app = "gone" => unreleased = {} /\ list = <<>>

\* The thread never sleeps while it has something to do: a control action, a
\* packet, or a sample that need not wait for a full batch.
NoLostWakeup ==
    (pc.worker = "wait" /\ sem = 0) =>
        /\ waiting = 1
        /\ ~terminate
        /\ \A i \in DOMAIN list : list[i].kind = "SAMPLE"
        /\ BatchExact \/ list = <<>>
        /\ Len(batch) + Len(list) < BatchSize \/ hr # "S_OK"

\* After a flush has ended downstream, no sample and no end of stream given
\* before it arrives there.  (A segment may: NewSegment looks at m_hr before it
\* takes the lock, so its packet can join the list when the flush has emptied it.)
NothingOldArrives ==
    [][delivered' # delivered /\ Last(delivered').kind # "PACKET"
          => Last(delivered').id > barrier]_vars

\* After downstream has refused a batch, no sample and no end of stream
\* follows until a flush or a reset.
NothingAfterRefusal ==
    [][delivered' # delivered /\ Last(delivered').kind # "PACKET" => ~failed]_vars

\* While the thread sends, the queue is not marked as flushed (the assertions
\* at outputq.cpp:316 and 325).
SendingIsNotFlushed == pc.worker \in {"call", "keepResult"} => ~flushed

\* A flush always ends, although downstream may keep a caller waiting until it
\* is told to flush itself ("pass downstream first to avoid deadlocks").
FlushEnds ==
    pc.app \in {"beginFlush", "beginPin", "inFlush", "endWait"} ~> pc.app = "idle"

\* IsIdle says so only when there is nothing on the list (the assertion at
\* outputq.cpp:792).
IdleMeansEmpty == IsIdle => list = <<>>

\* Without a thread a batch is held back only when batches are exact (the
\* assertion at outputq.cpp:635).
OnlyExactBatchesWait == ~Queued /\ pc.stream = "idle" /\ batch # <<>> => BatchExact

\* The item after NEW_SEGMENT is its packet (outputq.cpp:412: "we guarantee").
PacketFollows ==
    \A i \in DOMAIN list :
        list[i].kind = "NEWSEG" => i < Len(list) /\ list[i + 1].kind = "PACKET"

\* When Reset returns, the sticky result has been cancelled: its packet is no
\* longer on the way (outputq.cpp:700: "Get ready for new data").
ResetCancels ==
    [][pc.app = "resetWait" /\ pc'.app = "idle" =>
          pc.worker # "RESET" /\ \A i \in DOMAIN list : list[i].kind # "RESET"]_vars

=============================================================================
