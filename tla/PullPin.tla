-------------------------------- MODULE PullPin --------------------------------
(***************************************************************************)
(* CPullPin: a worker thread that pulls a range of a file from an          *)
(* asynchronous reader, with two requests on their way if the allocator    *)
(* has the buffers, or with synchronous reads.  The application starts,    *)
(* moves and stops it, one call after the other under m_AccessLock.  A     *)
(* flush of the reader cancels what it has been asked for.                 *)
(***************************************************************************)
EXTENDS AMThread, Sequences

CONSTANTS
    Sync,           \* m_bSync
    Buffers,        \* cBuffers of the allocator
    Align,          \* cbAlign
    Size,           \* the size of a buffer, a multiple of Align
    Duration,       \* the length of the file
    Ranges,         \* the ranges a program seeks to, as <<start, stop>>
    FlushMayFail,   \* the reader's BeginFlush may fail
    ReadMayFail,    \* a read, or a filter downstream, may fail
    MaxCalls        \* bound: calls of Active and Seek

Pull == CHOOSE t \in Threads : TRUE

PullAssumption ==
    /\ Buffers \in Nat \ {0} /\ Align \in Nat \ {0} /\ Size \in Nat \ {0} /\ Size % Align = 0
    /\ Duration \in Nat /\ MaxCalls \in Nat
    /\ \A r \in Ranges : r \in Nat \X Nat
    /\ {Sync, FlushMayFail, ReadMayFail} \subseteq BOOLEAN
    /\ Threads = {Pull}

VARIABLES
    app,        \* the application's call and its statement
    mState,     \* m_State
    connected,  \* m_pReader and m_pAlloc are set
    range,      \* <<m_tStart, m_tStop>>
    committed,  \* the allocator is committed
    flushing,   \* the reader is flushing
    requests,   \* the reader's requests in order, with "wait", "done", "cancelled"
    current,    \* Process's locals: tCurrent,
    bounds,     \*   tStart, tStop and tAlignStop,
    fresh,      \*   bDiscontinuity,
    sample,     \*   and the sample in hand
    held,       \* buffers kept downstream
    downstream, \* "flow", or "stop" while stopped or flushed
    calls,      \* calls of Active and Seek so far
    delivered,  \* history: the samples delivered since the start
    eos,        \* history: whether EndOfStream has been called since the start, "empty"
                \* for nothing to do, "refused" where downstream did not want the last sample
    error       \* history: where the last error that OnError got comes from

appVars == <<app, mState, connected, range, calls>>
readerVars == <<flushing, requests>>
localVars == <<current, bounds, fresh, sample>>
downVars == <<held, delivered, eos>>
vars == <<threadVars, appVars, committed, readerVars, localVars, downVars, downstream, error>>

NoSample == [t1 |-> 0, t2 |-> 0, first |-> FALSE, status |-> "none"]
Idle == [op |-> "idle", at |-> "begin"]
At(l) == app.at = l
AppGoto(l) == app' = [app EXCEPT !.at = l]

Init ==
    /\ ThreadInit
    /\ app = Idle /\ mState = "EXIT" /\ connected = FALSE /\ range = <<0, 0>>
    /\ committed = FALSE
    /\ flushing = FALSE /\ requests = <<>>
    /\ current = 0 /\ bounds = [start |-> 0, stop |-> 0, align |-> 0] /\ fresh = FALSE
    /\ sample = NoSample
    /\ held = 0 /\ downstream = "stop" /\ calls = 0
    /\ delivered = <<>> /\ eos = "no" /\ error = "none"

-----------------------------------------------------------------------------
\* The reader.

Cancelled(rs) == [i \in DOMAIN rs |->
    IF rs[i].status = "wait" THEN [rs[i] EXCEPT !.status = "cancelled"] ELSE rs[i]]
ReaderBeginFlush == flushing' = TRUE /\ requests' = Cancelled(requests)
ReaderEndFlush == flushing' = FALSE /\ UNCHANGED requests
Pending(rs) == {i \in DOMAIN rs : rs[i].status = "wait"}

\* A read ends, in the order of the requests.
ReaderReads ==
    /\ \E i \in Pending(requests) :
         /\ \A j \in Pending(requests) : i <= j
         /\ \E s \in IF ReadMayFail THEN {"done", "failed"} ELSE {"done"} :
                requests' = [requests EXCEPT ![i].status = s]
    /\ UNCHANGED <<threadVars, appVars, committed, flushing, localVars, downVars, downstream, error>>

\* CleanupCancelled: what has ended is collected until there is nothing or the
\* next one has not ended.
CleanupCancelled(rs) ==
    IF Pending(rs) = {} THEN <<>>
    ELSE SubSeq(rs, CHOOSE i \in Pending(rs) : \A j \in Pending(rs) : i <= j, Len(rs))

-----------------------------------------------------------------------------
\* The application.

Connect ==
    /\ app = Idle /\ ~connected /\ ~exists[Pull]
    /\ connected' = TRUE
    /\ range' = <<0, Duration>>
    /\ UNCHANGED <<threadVars, app, mState, calls, committed, readerVars, localVars, downVars,
                   downstream, error>>

Active ==
    /\ app = Idle /\ connected /\ calls < MaxCalls /\ ~exists[Pull]
    /\ calls' = calls + 1
    /\ app' = [op |-> "start", at |-> "start"]
    /\ downstream' = "flow"
    /\ UNCHANGED <<threadVars, mState, connected, range, committed, readerVars, localVars,
                   downVars, error>>

StartThread ==
    /\ At("start")
    /\ IF exists[Pull] THEN UNCHANGED <<threadVars, committed>>
       ELSE Create(Pull) /\ committed' = TRUE
    /\ mState' = "START"
    /\ AppGoto("startCall")
    /\ UNCHANGED <<connected, range, calls, readerVars, localVars, downVars, downstream, error>>

StartCall ==
    /\ At("startCall")
    /\ Call(Pull, "START") /\ AppGoto("startWait")
    /\ UNCHANGED <<mState, connected, range, calls, committed, readerVars, localVars, downVars,
                   downstream, error>>

StartDone ==
    /\ At("startWait")
    /\ Returned(Pull)
    /\ app' = Idle
    /\ UNCHANGED <<mState, connected, range, calls, committed, readerVars, localVars, downVars,
                   downstream, error>>

\* Seek flushes what is downstream around PauseThread, if it has been started.
SeekBegin ==
    /\ app = Idle /\ connected /\ calls < MaxCalls
    /\ calls' = calls + 1
    /\ \E r \in Ranges :
         IF mState = "START"
         THEN /\ app' = [op |-> "seek", at |-> "flush", to |-> r]
              /\ downstream' = "stop" /\ range' = range
         ELSE range' = r /\ UNCHANGED <<app, downstream>>
    /\ UNCHANGED <<threadVars, mState, connected, committed, readerVars, localVars, downVars, error>>

StopDownstream ==
    /\ app = Idle /\ downstream = "flow"
    /\ downstream' = "stop"
    /\ UNCHANGED <<threadVars, appVars, committed, readerVars, localVars, downVars, error>>

\* Inactive, and Disconnect, which lets the reader go whatever StopThread does.
\* What is downstream has been stopped before.
StopBegin ==
    /\ app = Idle /\ connected /\ downstream = "stop"
    /\ \E op \in {"stop", "disconnect"} :
         app' = [op |-> op, at |-> IF exists[Pull] THEN "flush" ELSE "stopped"]
    /\ UNCHANGED <<threadVars, mState, connected, range, calls, committed, readerVars, localVars,
                   downVars, downstream, error>>

\* PauseThread and StopThread: "need to flush to ensure the thread is not
\* blocked in WaitForNext".
FlushReader ==
    /\ At("flush")
    /\ \/ ReaderBeginFlush /\ AppGoto("call")
       \/ /\ FlushMayFail
          /\ AppGoto(IF app.op = "seek" THEN "move" ELSE "stopped")
          /\ UNCHANGED readerVars
    /\ UNCHANGED <<threadVars, mState, connected, range, calls, committed, localVars, downVars,
                   downstream, error>>

StopCall ==
    /\ At("call")
    /\ mState' = IF app.op = "seek" THEN "PAUSE" ELSE "EXIT"
    /\ Call(Pull, mState') /\ AppGoto("callWait")
    /\ UNCHANGED <<connected, range, calls, committed, readerVars, localVars, downVars, downstream,
                   error>>

StopReturned ==
    /\ At("callWait")
    /\ Returned(Pull)
    /\ ReaderEndFlush
    /\ AppGoto(IF app.op = "seek" THEN "move" ELSE "close")
    /\ UNCHANGED <<mState, connected, range, calls, committed, localVars, downVars, downstream, error>>

SeekMove ==
    /\ At("move")
    /\ range' = app.to
    /\ downstream' = "flow"
    /\ AppGoto("start")
    /\ UNCHANGED <<threadVars, mState, connected, calls, committed, readerVars, localVars, downVars,
                   error>>

StopClose ==
    /\ At("close")
    /\ CloseBegin(Pull) /\ AppGoto("join")
    /\ UNCHANGED <<mState, connected, range, calls, committed, readerVars, localVars, downVars,
                   downstream, error>>

StopJoin ==
    /\ At("join") /\ HasEnded(Pull)
    /\ committed' = FALSE
    /\ AppGoto("stopped")
    /\ UNCHANGED <<threadVars, mState, connected, range, calls, readerVars, localVars, downVars,
                   downstream, error>>

Stopped ==
    /\ At("stopped")
    /\ connected' = (connected /\ app.op # "disconnect")
    /\ app' = Idle
    /\ UNCHANGED <<threadVars, mState, range, calls, committed, readerVars, localVars, downVars,
                   downstream, error>>

App ==
    \/ StartThread \/ StartCall \/ StartDone
    \/ FlushReader \/ StopCall \/ StopReturned \/ SeekMove \/ StopClose \/ StopJoin \/ Stopped

-----------------------------------------------------------------------------
\* ThreadProc.  Whatever the request was, the reader is left without requests.
\* A thread whose reader has been released is followed up to its next use.

ServeRequest ==
    /\ worker[Pull] = "start" /\ ~replying[Pull] /\ CheckRequest(Pull)
    /\ Reply(Pull, "S_OK", CASE param[Pull] = "EXIT" -> "exit"
                              [] param[Pull] = "PAUSE" -> "flush"
                              [] param[Pull] = "START" -> "process")
    /\ UNCHANGED <<appVars, committed, readerVars, localVars, downVars, downstream, error>>

Exit ==
    /\ Step(Pull, "exit", "ended")
    /\ UNCHANGED <<appVars, committed, readerVars, localVars, downVars, downstream, error>>

Flush ==
    /\ connected
    /\ Step(Pull, "flush", "cleanup")
    /\ ReaderBeginFlush
    /\ UNCHANGED <<appVars, committed, localVars, downVars, downstream, error>>

Cleanup ==
    /\ Step(Pull, "cleanup", "endFlush")
    /\ requests' = CleanupCancelled(requests)
    /\ UNCHANGED <<appVars, committed, flushing, localVars, downVars, downstream, error>>

EndFlush ==
    /\ Step(Pull, "endFlush", "start")
    /\ ReaderEndFlush
    /\ UNCHANGED <<appVars, committed, localVars, downVars, downstream, error>>

-----------------------------------------------------------------------------
\* Process.

AlignDown(l) == l - (l % Align)
AlignUp(l) == AlignDown(l + Align - 1)

\* The bounds of the range, and whether there is anything to do.
Process ==
    LET start == AlignDown(range[1])
        stop == IF range[2] > Duration THEN Duration ELSE range[2]
        some == range[2] > range[1]
    IN  /\ Step(Pull, "process", IF some THEN "check" ELSE "flush")
        /\ current' = start
        /\ bounds' = [start |-> start, stop |-> stop, align |-> AlignUp(stop)]
        /\ fresh' = TRUE
        /\ delivered' = <<>> /\ eos' = (IF some THEN "no" ELSE "empty")
        /\ UNCHANGED <<appVars, committed, readerVars, sample, held, downstream, error>>

\* The loops' heads.
More == current < bounds.align

Check ==
    /\ worker[Pull] = "check" /\ More
    /\ Step(Pull, "check",
            IF CheckRequest(Pull) THEN "flush"
            ELSE IF ~Sync /\ Buffers > 1 THEN "prime" ELSE "queue")
    /\ UNCHANGED <<appVars, committed, readerVars, localVars, downVars, downstream, error>>

EndOfStream ==
    /\ worker[Pull] = "check" /\ ~More
    /\ Step(Pull, "check", "flush")
    /\ eos' = (IF eos = "refused" THEN eos ELSE "end")
    /\ UNCHANGED <<appVars, committed, readerVars, localVars, held, delivered, downstream, error>>

Inner ==
    /\ Step(Pull, "inner", IF More THEN "queue" ELSE IF Buffers > 1 THEN "last" ELSE "check")
    /\ UNCHANGED <<appVars, committed, readerVars, localVars, downVars, downstream, error>>

Used == Len(requests) + held + (IF sample = NoSample THEN 0 ELSE 1)

\* The end of the next sample.
StopThis == IF current + Size > bounds.align THEN bounds.align ELSE current + Size

\* GetBuffer waits for a buffer; the sample gets its times.
GetBuffer ==
    /\ worker[Pull] \in {"prime", "queue"} /\ Used < Buffers
    /\ Step(Pull, worker[Pull],
            IF worker[Pull] = "prime" THEN "primeRequest" ELSE IF Sync THEN "read" ELSE "request")
    /\ sample' = [t1 |-> current, t2 |-> StopThis, first |-> fresh, status |-> "wait"]
    /\ current' = StopThis
    /\ fresh' = FALSE
    /\ UNCHANGED <<appVars, committed, readerVars, bounds, downVars, downstream, error>>

\* Request, which the reader refuses while it flushes.
Request ==
    /\ connected
    /\ worker[Pull] \in {"primeRequest", "request"}
    /\ sample' = NoSample
    /\ IF flushing
       THEN /\ Step(Pull, worker[Pull], "flush")
            /\ requests' = CleanupCancelled(requests)
            /\ error' = "reader"
       ELSE /\ Step(Pull, worker[Pull], IF worker[Pull] = "primeRequest" THEN "inner" ELSE "collect")
            /\ requests' = Append(requests, sample)
            /\ error' = error
    /\ UNCHANGED <<appVars, committed, flushing, current, bounds, fresh, downVars, downstream>>

\* CollectAndDeliver up to the sample.  One that failed or was cancelled is
\* released, and all others that have ended with it.
WaitForNext ==
    /\ connected
    /\ worker[Pull] \in {"collect", "last"}
    /\ requests # <<>> /\ requests[1].status # "wait"
    /\ IF requests[1].status = "done"
       THEN /\ Step(Pull, worker[Pull], IF worker[Pull] = "collect" THEN "deliver" ELSE "lastDeliver")
            /\ requests' = Tail(requests) /\ sample' = requests[1]
            /\ error' = error
       ELSE /\ Step(Pull, worker[Pull], "flush")
            /\ requests' = CleanupCancelled(Tail(requests)) /\ sample' = sample
            /\ error' = "reader"
    /\ UNCHANGED <<appVars, committed, flushing, current, bounds, fresh, downVars, downstream>>

\* SyncReadAligned, which no flush cancels.
SyncRead ==
    /\ connected
    /\ \/ Step(Pull, "read", "deliver") /\ UNCHANGED <<sample, error>>
       \/ /\ ReadMayFail /\ Step(Pull, "read", "flush")
          /\ sample' = NoSample /\ error' = "reader"
    /\ UNCHANGED <<appVars, committed, readerVars, current, bounds, fresh, downVars, downstream>>

\* DeliverSample: the times become relative to the aligned start, the last one
\* is cut.  Downstream may keep the sample, refuse it or fail.
Relative(s) ==
    [t1 |-> s.t1 - bounds.start,
     t2 |-> (IF s.t2 > bounds.stop THEN bounds.stop ELSE s.t2) - bounds.start,
     first |-> s.first]

Results == IF downstream = "stop" THEN {"S_FALSE"}
           ELSE IF ReadMayFail THEN {"S_OK", "ERROR"} ELSE {"S_OK"}

\* After the last sample of the asynchronous loop only an error ends Process.
AfterDelivery(hr) ==
    IF worker[Pull] = "lastDeliver" THEN IF hr = "ERROR" THEN "flush" ELSE "check"
    ELSE IF hr # "S_OK" THEN "flush"
    ELSE IF Sync THEN "check" ELSE "inner"

DeliverSample ==
    /\ worker[Pull] \in {"deliver", "lastDeliver"}
    /\ \E hr \in Results, keep \in {0, 1} :
         /\ keep = 1 => hr = "S_OK"
         /\ held' = held + keep
         /\ delivered' = IF hr = "S_OK" THEN Append(delivered, Relative(sample)) ELSE delivered
         /\ Step(Pull, worker[Pull], AfterDelivery(hr))
         /\ eos' = IF hr = "S_OK" THEN eos ELSE "refused"
         /\ error' = IF hr = "ERROR" THEN "downstream" ELSE error
         /\ requests' = IF hr = "ERROR" THEN CleanupCancelled(requests) ELSE requests
    /\ sample' = NoSample
    /\ UNCHANGED <<appVars, committed, flushing, current, bounds, fresh, downstream>>

EndReply ==
    /\ ReplyEnd(Pull)
    /\ UNCHANGED <<appVars, committed, readerVars, localVars, downVars, downstream, error>>

Worker ==
    \/ ServeRequest \/ Exit \/ Flush \/ Cleanup \/ EndFlush \/ Process \/ Check \/ EndOfStream \/ Inner
    \/ GetBuffer \/ Request \/ WaitForNext \/ SyncRead \/ DeliverSample \/ EndReply

GiveBack ==
    /\ held > 0 /\ held' = held - 1
    /\ UNCHANGED <<threadVars, appVars, committed, readerVars, localVars, delivered, eos,
                   downstream, error>>

Next ==
    \/ Connect \/ Active \/ SeekBegin \/ StopDownstream \/ StopBegin \/ App
    \/ Worker \/ ReaderReads \/ GiveBack

\* A read may never end, and a buffer downstream need not come back before a
\* flush or a stop.
Fairness ==
    /\ WF_vars(App) /\ WF_vars(Worker)
    /\ WF_vars(GiveBack /\ downstream = "stop")
Spec == Init /\ [][Next]_vars /\ Fairness

-----------------------------------------------------------------------------
\* Every variable has its type.
TypeOK ==
    /\ ThreadTypeOK
    /\ mState \in {"START", "PAUSE", "EXIT"}
    /\ held \in 0..Buffers /\ Used \in 0..Buffers
    /\ \A i \in DOMAIN requests : requests[i].status \in {"wait", "done", "failed", "cancelled"}

\* The samples of a range follow each other from its aligned start without a
\* gap, the first one alone says so, and with the end of the stream the whole
\* range has been delivered unless what is downstream stopped it.
WholeRange ==
    /\ \A i \in DOMAIN delivered :
         /\ delivered[i].t1 = IF i = 1 THEN 0 ELSE delivered[i - 1].t2
         /\ delivered[i].first <=> i = 1
         /\ delivered[i].t2 <= bounds.stop - bounds.start
    /\ eos = "end" => /\ delivered # <<>>
                      /\ delivered[Len(delivered)].t2 = bounds.stop - bounds.start

\* "there should be no outstanding requests": when the worker waits for a
\* request the reader has none and no buffer is lost, and where the application
\* is in the middle of a flush, the worker's own EndFlush has not let a new
\* request in.
NothingOutstanding ==
    /\ worker[Pull] \in {"start", "exit", "ended"} => requests = <<>> /\ sample = NoSample
    /\ app.at = "callWait" /\ ~flushing => worker[Pull] \in {"start", "flush", "exit", "ended"}

\* While it reads, the worker's range is the one it was started with.
RangeIsStable ==
    worker[Pull] \notin {"start", "process", "flush", "cleanup", "endFlush", "exit", "ended"} =>
        bounds.start = AlignDown(range[1])

\* "these errors are all returned from the upstream filter"
ErrorsFromUpstream == error \in {"none", "reader"}

\* "stop pulling data": once Inactive has returned, nobody does.
InactiveStops == [][app.op = "stop" /\ app'.op = "idle" => ~exists[Pull] /\ HasEnded(Pull)]_vars

\* Every call returns: neither a wait for the reader nor one for a buffer holds
\* the worker up when it is asked to pause or to end.
CallsReturn == (app # Idle) ~> (app = Idle)
=============================================================================
