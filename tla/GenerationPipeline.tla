-------------------------- MODULE GenerationPipeline --------------------------
(***************************************************************************)
(* One run of Generator.Generate (internal/generator/generator.go) inside  *)
(* the goroutine of Server.handleGenerate (internal/api/handlers.go).      *)
(*                                                                         *)
(* A producer reserves memory for each file and queues it as a job, a pool *)
(* of workers turns jobs into results, and the calling goroutine writes    *)
(* the results in index order into a `.part' file, which it renames to the *)
(* final document.  Progress events flow through a bounded channel to the  *)
(* HTTP handler, whose request context cancels everything when the client  *)
(* disconnects.                                                            *)
(*                                                                         *)
(* A definition whose name ends in a capitalised fault (such as            *)
(* ReleaseWithoutWake) is a seeded fault: no behaviour of Spec uses it, it *)
(* shows which mistake the property next to it rules out.                  *)
(***************************************************************************)
EXTENDS Naturals, Sequences, FiniteSets, FiniteSetsExt

CONSTANTS
    NumFiles,     \* files found by the scanner
    Workers,      \* worker goroutines (workerCount)
    Limit,        \* workerMemoryBudget, the limit of the memory limiter
    Amounts,      \* reservations memoryReservation can compute, 0 for none
    EventsCap,    \* capacity of the event channel
    ReportEvery,  \* 5 in the code: report early results, then one in five
    NoItem        \* a worker's empty hands, a free slot of pending

ASSUME NumFilesAssumption == NumFiles \in Nat \ {0}
ASSUME WorkersAssumption  == IsFiniteSet(Workers) /\ Workers # {}
ASSUME LimitAssumption    == Limit \in Nat \ {0}
ASSUME AmountsAssumption  == Amounts \subseteq Nat /\ 0 \in Amounts
ASSUME ChannelAssumption  == EventsCap \in Nat \ {0} /\ ReportEvery \in Nat \ {0}

Index == 0 .. NumFiles - 1
Kinds == {"text", "marker", "cancelled"}
Job    == [index : Index, mem : Amounts]
Result == [index : Index, kind : Kinds, mem : Amounts]
ASSUME NoItemAssumption == NoItem \notin Job \cup Result

\* jobs and results are both made with capacity `workers'
ChanCap == Cardinality(Workers)

VARIABLES
    ctxDone,           \* the request context is cancelled
    workersCancelled,  \* cancelWorkers() was called: workCtx is cancelled
    main,              \* program point of the goroutine running Generate
    pipelineErr,       \* writeOrderedResults: an error was recorded
    pending,           \* results that arrived ahead of their turn, by index
    nextIndex,         \* the index to be written next
    processed,         \* results received
    written,           \* the results written to the document, in order
    sealed,            \* footer written, flushed, synced and closed
    file,              \* "none", "part" (only the .part exists), "published"
    outcome,           \* what Generate returns: "none" yet, "ok" or "error"
    history,           \* SaveHistoryResult was called for the document
    prod,              \* the producer: program point, next index, reservation
    used,              \* memoryLimiter.used
    snapshotClosed,    \* the channel a waiting acquire holds has been closed
    jobs, jobsClosed,
    worker,            \* per worker: program point and the item in its hands
    results, resultsClosed,
    events, eventsClosed,
    verdicts,          \* non-progress events the handler passed to the client
    handler            \* "draining" or "returned"

ctxVars    == <<ctxDone, workersCancelled>>
writerVars == <<pipelineErr, pending, nextIndex, processed>>
docVars    == <<written, sealed, file>>
callVars   == <<outcome, history>>
limVars    == <<used, snapshotClosed>>
jobVars    == <<jobs, jobsClosed>>
resultVars == <<results, resultsClosed>>
eventVars  == <<events, eventsClosed>>
clientVars == <<verdicts, handler>>
poolVars   == <<prod, limVars, jobVars, worker, resultVars>>
vars == <<ctxVars, main, writerVars, docVars, callVars, poolVars, eventVars, clientVars>>

EmitPhases == {"emitScan", "emitFound", "emitLog", "emitFinal"}
MainPhases == EmitPhases \cup {"validate", "scan", "open", "header", "receive", "order",
                "report", "drain", "check", "seal", "commit", "inspect", "emitComplete",
                "return", "save", "sendError", "close", "done"}

ProducerState == [pc   : {"idle", "stat", "acquire", "wait", "send", "done"},
                  next : Nat, mem : Amounts]
WorkerState == [pc   : {"idle", "recv", "process", "send", "exit"},
                item : Job \cup Result \cup {NoItem}]

TypeOK ==
    /\ ctxDone \in BOOLEAN /\ workersCancelled \in BOOLEAN
    /\ main \in MainPhases
    /\ pipelineErr \in BOOLEAN
    /\ pending \in [Index -> Result \cup {NoItem}]
    /\ nextIndex \in Nat /\ processed \in Nat
    /\ written \in Seq(Result) /\ sealed \in BOOLEAN
    /\ file \in {"none", "part", "published"}
    /\ outcome \in {"none", "ok", "error"} /\ history \in BOOLEAN
    /\ prod \in ProducerState
    /\ used \in 0 .. Limit /\ snapshotClosed \in BOOLEAN
    /\ jobs \in Seq(Job) /\ jobsClosed \in BOOLEAN
    /\ worker \in [Workers -> WorkerState]
    /\ results \in Seq(Result) /\ resultsClosed \in BOOLEAN
    /\ events \in Seq({"progress", "complete", "error"}) /\ eventsClosed \in BOOLEAN
    /\ verdicts \in Seq({"complete", "error"})
    /\ handler \in {"draining", "returned"}

Init ==
    /\ ctxDone = FALSE /\ workersCancelled = FALSE
    /\ main = "validate"
    /\ pipelineErr = FALSE /\ pending = [i \in Index |-> NoItem]
    /\ nextIndex = 0 /\ processed = 0
    /\ written = <<>> /\ sealed = FALSE /\ file = "none"
    /\ outcome = "none" /\ history = FALSE
    /\ prod = [pc |-> "idle", next |-> 0, mem |-> 0]
    /\ used = 0 /\ snapshotClosed = FALSE
    /\ jobs = <<>> /\ jobsClosed = FALSE
    /\ worker = [w \in Workers |-> [pc |-> "idle", item |-> NoItem]]
    /\ results = <<>> /\ resultsClosed = FALSE
    /\ events = <<>> /\ eventsClosed = FALSE
    /\ verdicts = <<>> /\ handler = "draining"

\* workCtx is derived from the request context
WorkDone == ctxDone \/ workersCancelled

-------------------------------------------------------------------------------
(* The memory limiter *)

\* a reservation above the limit counts as the whole limit
Clamp(amount) == IF amount > Limit THEN Limit ELSE amount

\* Fault: the test compares what is in use already, not what will be
FitsUnlessOver(amount) == used <= Limit
Fits(amount) == used + Clamp(amount) <= Limit

\* Fault: release gives the memory back and wakes nobody
ReleaseWithoutWake(amount) ==
    /\ used' = IF used < Clamp(amount) THEN 0 ELSE used - Clamp(amount)
    /\ UNCHANGED snapshotClosed
\* release: gives the amount back (never below 0) and closes the current
\* `changed' channel, the one a waiting acquire took its snapshot of
Release(amount) ==
    IF amount = 0
      THEN UNCHANGED limVars
      ELSE /\ used' = IF used < Clamp(amount) THEN 0 ELSE used - Clamp(amount)
           /\ snapshotClosed' = (snapshotClosed \/ prod.pc = "wait")

-------------------------------------------------------------------------------
(* The producer goroutine, produceJobs *)

ProducerFrame == UNCHANGED <<ctxVars, main, writerVars, docVars, callVars, worker,
                             resultVars, eventVars, clientVars>>

\* memoryReservation stats the next file: any amount, for the file system is
\* free to change between this stat and the read in processFile
StatFile ==
    /\ prod.pc = "stat"
    /\ \E amount \in Amounts : prod' = [prod EXCEPT !.pc = "acquire", !.mem = amount]
    /\ UNCHANGED <<limVars, jobVars>>
    /\ ProducerFrame

\* one pass through the loop of acquire, under the limiter's lock
Acquire ==
    /\ prod.pc = "acquire"
    /\ \/ /\ prod.mem = 0
          /\ prod' = [prod EXCEPT !.pc = "send"]
          /\ UNCHANGED limVars
       \/ /\ prod.mem > 0 /\ Fits(prod.mem)
          /\ used' = used + Clamp(prod.mem)
          /\ prod' = [prod EXCEPT !.pc = "send"]
          /\ UNCHANGED snapshotClosed
       \/ /\ prod.mem > 0 /\ ~Fits(prod.mem)
          /\ prod' = [prod EXCEPT !.pc = "wait"]
          /\ snapshotClosed' = FALSE
          /\ UNCHANGED used
    /\ UNCHANGED jobVars
    /\ ProducerFrame

\* acquire's select: the snapshot channel was closed, or workCtx is done
WakeAcquire ==
    /\ prod.pc = "wait"
    /\ \/ /\ snapshotClosed
          /\ prod' = [prod EXCEPT !.pc = "acquire"]
          /\ snapshotClosed' = FALSE
          /\ UNCHANGED <<used, jobVars>>
       \/ /\ WorkDone
          /\ prod' = [prod EXCEPT !.pc = "done"]
          /\ jobsClosed' = TRUE
          /\ UNCHANGED <<limVars, jobs>>
    /\ ProducerFrame

\* the producer's select: queue the job, or give its memory back and stop;
\* the deferred close(jobs) runs when the loop ends either way
SendJob ==
    /\ prod.pc = "send"
    /\ \/ /\ Len(jobs) < ChanCap
          /\ jobs' = Append(jobs, [index |-> prod.next, mem |-> prod.mem])
          /\ prod' = [pc   |-> IF prod.next + 1 < NumFiles THEN "stat" ELSE "done",
                      next |-> prod.next + 1, mem |-> 0]
          /\ jobsClosed' = (prod.next + 1 = NumFiles)
          /\ UNCHANGED limVars
       \/ /\ WorkDone
          /\ Release(prod.mem)
          /\ prod' = [prod EXCEPT !.pc = "done"]
          /\ jobsClosed' = TRUE
          /\ UNCHANGED jobs
    /\ ProducerFrame

Producer == StatFile \/ Acquire \/ WakeAcquire \/ SendJob

-------------------------------------------------------------------------------
(* The worker goroutines, and the goroutine that closes results after them *)

WorkerFrame == UNCHANGED <<ctxVars, main, writerVars, docVars, callVars, prod,
                           eventVars, clientVars>>

\* range over jobs: the next job, or the end of a closed and empty channel
TakeJob(w) ==
    /\ worker[w].pc = "recv"
    /\ \/ /\ jobs # <<>>
          /\ worker' = [worker EXCEPT ![w] = [pc |-> "process", item |-> Head(jobs)]]
          /\ jobs' = Tail(jobs)
       \/ /\ jobs = <<>> /\ jobsClosed
          /\ worker' = [worker EXCEPT ![w] = [pc |-> "exit", item |-> NoItem]]
          /\ UNCHANGED jobs
    /\ UNCHANGED <<jobsClosed, limVars, resultVars>>
    /\ WorkerFrame

\* Fault: the early return forgets that the job holds memory
ProcessFileLeaking(w) ==
    /\ worker[w].pc = "process"
    /\ \E kind \in IF WorkDone THEN {"cancelled"} ELSE {"text", "marker"} :
         worker' = [worker EXCEPT ![w] = [pc |-> "send",
                      item |-> [index |-> worker[w].item.index, kind |-> kind,
                                mem |-> IF kind = "text" THEN worker[w].item.mem ELSE 0]]]
    /\ UNCHANGED <<jobVars, limVars, resultVars>>
    /\ WorkerFrame
\* processFile: a placeholder once workCtx is done; otherwise the file's text,
\* which keeps its reservation, or a marker (binary, unreadable, too large),
\* which gives it back (a file that is binary by its name reserved nothing)
ProcessFile(w) ==
    /\ worker[w].pc = "process"
    /\ \E kind \in IF WorkDone THEN {"cancelled"} ELSE {"text", "marker"} :
         LET job  == worker[w].item
             kept == IF kind = "text" THEN job.mem ELSE 0
         IN  /\ worker' = [worker EXCEPT ![w] =
                  [pc   |-> "send",
                   item |-> [index |-> job.index, kind |-> kind, mem |-> kept]]]
             /\ Release(job.mem - kept)
    /\ UNCHANGED <<jobVars, resultVars>>
    /\ WorkerFrame

\* Fault: a worker that finds results full drops what it has
SendResultOrDrop(w) ==
    /\ worker[w].pc = "send"
    /\ results' = IF Len(results) < ChanCap THEN Append(results, worker[w].item)
                                            ELSE results
    /\ worker' = [worker EXCEPT ![w] = [pc |-> "recv", item |-> NoItem]]
    /\ UNCHANGED <<jobVars, limVars, resultsClosed>>
    /\ WorkerFrame
\* the worker's select: hand the result over, or drop it when workCtx is done
SendResult(w) ==
    /\ worker[w].pc = "send"
    /\ \/ /\ Len(results) < ChanCap
          /\ results' = Append(results, worker[w].item)
          /\ worker' = [worker EXCEPT ![w] = [pc |-> "recv", item |-> NoItem]]
          /\ UNCHANGED limVars
       \/ /\ WorkDone
          /\ Release(worker[w].item.mem)
          /\ worker' = [worker EXCEPT ![w] = [pc |-> "exit", item |-> NoItem]]
          /\ UNCHANGED results
    /\ UNCHANGED <<jobVars, resultsClosed>>
    /\ WorkerFrame

\* workerGroup.Wait(); close(results)
CloseResults ==
    /\ \A w \in Workers : worker[w].pc = "exit"
    /\ ~resultsClosed
    /\ resultsClosed' = TRUE
    /\ UNCHANGED <<jobVars, limVars, worker, results>>
    /\ WorkerFrame

Worker(w) == TakeJob(w) \/ ProcessFile(w) \/ SendResult(w)

-------------------------------------------------------------------------------
(* The calling goroutine: Generate up to the start of the pipeline *)

\* an early `return nil, err' of Generate: its deferred calls run next
Fail == main' = "return" /\ outcome' = "error"

Goto(phase) == main' = phase /\ UNCHANGED outcome

\* the path is made absolute and must be a directory
Validate ==
    /\ main = "validate"
    /\ Goto("emitScan") \/ Fail
    /\ UNCHANGED <<ctxVars, writerVars, docVars, history, poolVars, eventVars, clientVars>>

\* emitProgress outside the pipeline: send the event, or give up with ctx
EmitProgress ==
    /\ main \in EmitPhases
    /\ \/ /\ Len(events) < EventsCap
          /\ events' = Append(events, "progress")
          /\ Goto(CASE main = "emitScan"  -> "scan"
                    [] main = "emitFound" -> "emitLog"
                    [] main = "emitLog"   -> "open"
                    [] main = "emitFinal" -> "seal")
       \/ /\ ctxDone
          /\ Fail
          /\ UNCHANGED events
    /\ UNCHANGED <<ctxVars, writerVars, docVars, history, poolVars, eventsClosed, clientVars>>

\* ScanProjectFilesContext; it may fail, be cancelled, or find no file
Scan ==
    /\ main = "scan"
    /\ Goto("emitFound") \/ Fail
    /\ UNCHANGED <<ctxVars, writerVars, docVars, history, poolVars, eventVars, clientVars>>

\* MkdirAll, then the .part file is created exclusively (with one retry)
OpenPartial ==
    /\ main = "open"
    /\ \/ Goto("header") /\ file' = "part"
       \/ Fail /\ UNCHANGED file
    /\ UNCHANGED <<ctxVars, writerVars, written, sealed, history, poolVars, eventVars,
                   clientVars>>

\* header and directory tree, then the goroutines of the pipeline start
StartPipeline ==
    /\ main = "header"
    /\ \/ /\ Goto("receive")
          /\ prod' = [pc |-> "stat", next |-> 0, mem |-> 0]
          /\ worker' = [w \in Workers |-> [pc |-> "recv", item |-> NoItem]]
       \/ Fail /\ UNCHANGED <<prod, worker>>
    /\ UNCHANGED <<ctxVars, writerVars, docVars, history, limVars, jobVars, resultVars,
                   eventVars, clientVars>>

-------------------------------------------------------------------------------
(* writeOrderedResults, on the calling goroutine *)

WriterFrame == UNCHANGED <<prod, jobVars, worker, resultsClosed, history, sealed, file,
                           eventsClosed, clientVars>>

\* range over results: file a result under its index, discard it after an
\* error, or leave the loop when the channel is closed and empty
Receive ==
    /\ main = "receive"
    /\ \/ /\ results # <<>>
          /\ results' = Tail(results)
          /\ processed' = processed + 1
          /\ \/ /\ pipelineErr
                /\ Release(Head(results).mem)
                /\ UNCHANGED <<main, pending>>
             \/ /\ ~pipelineErr
                /\ pending' = [pending EXCEPT ![Head(results).index] = Head(results)]
                /\ main' = "order"
                /\ UNCHANGED limVars
       \/ /\ results = <<>> /\ resultsClosed
          /\ main' = "drain"
          /\ UNCHANGED <<results, processed, pending, limVars>>
    /\ UNCHANGED <<ctxVars, pipelineErr, nextIndex, written, outcome, events>>
    /\ WriterFrame

Turn == nextIndex \in Index /\ pending[nextIndex] # NoItem

Reports == processed <= ReportEvery \/ processed % ReportEvery = 0 \/ processed = NumFiles

\* the inner loop: write the result whose turn it is, release its memory,
\* step on; a failed write records the error, cancels the workers and stops
WriteNext ==
    /\ main = "order" /\ Turn
    /\ pending' = [pending EXCEPT ![nextIndex] = NoItem]
    /\ Release(pending[nextIndex].mem)
    /\ nextIndex' = nextIndex + 1
    /\ \/ /\ written' = Append(written, pending[nextIndex])
          /\ UNCHANGED <<main, pipelineErr, workersCancelled>>
       \/ /\ pipelineErr' = TRUE /\ workersCancelled' = TRUE
          /\ main' = "receive"
          /\ UNCHANGED written
    /\ UNCHANGED <<ctxDone, processed, results, outcome, events>>
    /\ WriterFrame

\* no result for the next index yet: report progress or receive on
OrderDone ==
    /\ main = "order" /\ ~Turn
    /\ main' = IF Reports THEN "report" ELSE "receive"
    /\ UNCHANGED <<ctxVars, writerVars, written, limVars, results, outcome, events>>
    /\ WriterFrame

\* emitProgress with workCtx: when it gives up the pipeline is cancelled
EmitReport ==
    /\ main = "report"
    /\ main' = "receive"
    /\ \/ /\ Len(events) < EventsCap
          /\ events' = Append(events, "progress")
          /\ UNCHANGED <<pipelineErr, workersCancelled>>
       \/ /\ WorkDone
          /\ pipelineErr' = TRUE /\ workersCancelled' = TRUE
          /\ UNCHANGED events
    /\ UNCHANGED <<ctxDone, pending, nextIndex, processed, written, limVars, results, outcome>>
    /\ WriterFrame

\* the memory of the results still pending is released one by one
DrainPending ==
    /\ main = "drain"
    /\ \E i \in Index :
         /\ pending[i] # NoItem
         /\ Release(pending[i].mem)
         /\ pending' = [pending EXCEPT ![i] = NoItem]
    /\ UNCHANGED <<ctxVars, main, pipelineErr, nextIndex, processed, written, results,
                   outcome, events>>
    /\ WriterFrame

\* Fault: counting the results stands in for asking about errors
PipelineIncompleteByCount == nextIndex # NumFiles
\* the three errors writeOrderedResults ends with
PipelineIncomplete == pipelineErr \/ WorkDone \/ nextIndex # NumFiles

PipelineEnd ==
    /\ main = "drain"
    /\ \A i \in Index : pending[i] = NoItem
    /\ \/ PipelineIncomplete /\ Fail
       \/ ~PipelineIncomplete /\ Goto("check")
    /\ UNCHANGED <<ctxVars, writerVars, written, limVars, results, events>>
    /\ WriterFrame

-------------------------------------------------------------------------------
(* The calling goroutine: from the end of the pipeline to the response *)

CheckContext ==
    /\ main = "check"
    /\ IF ctxDone THEN Fail ELSE Goto("emitFinal")
    /\ UNCHANGED <<ctxVars, writerVars, docVars, history, poolVars, eventVars, clientVars>>

\* footer, Flush, Sync and Close; each can fail
Seal ==
    /\ main = "seal"
    /\ \/ Goto("commit") /\ sealed' = TRUE
       \/ Fail /\ UNCHANGED sealed
    /\ UNCHANGED <<ctxVars, writerVars, written, file, history, poolVars, eventVars,
                   clientVars>>

\* os.Rename(partialPath, outputPath); committed = true
Commit ==
    /\ main = "commit"
    /\ \/ Goto("inspect") /\ file' = "published"
       \/ Fail /\ UNCHANGED file
    /\ UNCHANGED <<ctxVars, writerVars, written, sealed, history, poolVars, eventVars,
                   clientVars>>

\* os.Stat of the published document; its failure fails the call
Inspect ==
    /\ main = "inspect"
    /\ Goto("emitComplete") \/ Fail
    /\ UNCHANGED <<ctxVars, writerVars, docVars, history, poolVars, eventVars, clientVars>>

\* the complete event; a cancelled request no longer fails the call
EmitComplete ==
    /\ main = "emitComplete"
    /\ \/ Len(events) < EventsCap /\ events' = Append(events, "complete")
       \/ ctxDone /\ UNCHANGED events
    /\ main' = "return" /\ outcome' = "ok"
    /\ UNCHANGED <<ctxVars, writerVars, docVars, history, poolVars, eventsClosed, clientVars>>

\* Fault: the deferred cleanup ignores `committed'
CleanupAlways(f) == "none"
\* Fault: the .part is closed but not removed
CleanupNever(f) == f
\* the deferred cleanup of Generate: an uncommitted .part is removed
Cleanup(f) == IF f = "part" THEN "none" ELSE f

\* Fault: the result is saved whether or not there was an error
AfterGenerateUnchecked == "save"
\* the goroutine of handleGenerate, once Generate has returned
AfterGenerate == IF outcome = "ok" THEN "save" ELSE "sendError"

\* Generate returns, running its deferred calls
Return ==
    /\ main = "return"
    /\ workersCancelled' = TRUE
    /\ file' = Cleanup(file)
    /\ main' = AfterGenerate
    /\ UNCHANGED <<ctxDone, writerVars, written, sealed, callVars, poolVars, eventVars,
                   clientVars>>

\* SaveHistoryResult; its error is ignored (BookmarkStore models the save)
SaveHistory ==
    /\ main = "save"
    /\ history' = TRUE
    /\ main' = "close"
    /\ UNCHANGED <<ctxVars, writerVars, docVars, outcome, poolVars, eventVars, clientVars>>

\* the error event is sent without a select: only the handler makes room
SendError ==
    /\ main = "sendError"
    /\ Len(events) < EventsCap
    /\ events' = Append(events, "error")
    /\ main' = "close"
    /\ UNCHANGED <<ctxVars, writerVars, docVars, callVars, poolVars, eventsClosed, clientVars>>

\* the deferred close(events)
CloseEvents ==
    /\ main = "close"
    /\ eventsClosed' = TRUE
    /\ main' = "done"
    /\ UNCHANGED <<ctxVars, writerVars, docVars, callVars, poolVars, events, clientVars>>

Main ==
    \/ Validate \/ EmitProgress \/ Scan \/ OpenPartial \/ StartPipeline
    \/ Receive \/ WriteNext \/ OrderDone \/ EmitReport \/ DrainPending \/ PipelineEnd
    \/ CheckContext \/ Seal \/ Commit \/ Inspect \/ EmitComplete
    \/ Return \/ SaveHistory \/ SendError \/ CloseEvents

-------------------------------------------------------------------------------
(* The HTTP handler and the client *)

\* range over events: the handler writes until the channel is closed and
\* empty; a client that is gone does not stop it
HandlerReceive ==
    /\ handler = "draining"
    /\ \/ /\ events # <<>>
          /\ events' = Tail(events)
          /\ verdicts' = IF Head(events) = "progress" THEN verdicts
                         ELSE Append(verdicts, Head(events))
          /\ UNCHANGED handler
       \/ /\ events = <<>> /\ eventsClosed
          /\ handler' = "returned"
          /\ UNCHANGED <<events, verdicts>>
    /\ UNCHANGED <<ctxVars, main, writerVars, docVars, callVars, poolVars, eventsClosed>>

\* the client disconnects: net/http cancels the request context
Disconnect ==
    /\ handler = "draining" /\ ~ctxDone
    /\ ctxDone' = TRUE
    /\ UNCHANGED <<workersCancelled, main, writerVars, docVars, callVars, poolVars,
                   eventVars, clientVars>>

\* every goroutine that was started has returned
Quiescent ==
    /\ main = "done" /\ handler = "returned"
    /\ prod.pc \in {"idle", "done"}
    /\ \A w \in Workers : worker[w].pc \in {"idle", "exit"}
    /\ prod.pc = "done" => resultsClosed

\* the request is over: nothing is left to run
Finished == Quiescent /\ UNCHANGED vars

Next ==
    \/ Main \/ Producer \/ CloseResults \/ HandlerReceive \/ Disconnect \/ Finished
    \/ \E w \in Workers : Worker(w)

\* The Go scheduler runs every goroutine that can run; the handler drains as
\* long as there are events (its client reads, or its writes fail at once).
\* Nothing makes the client disconnect.
Fairness ==
    /\ WF_vars(Main) /\ WF_vars(Producer) /\ WF_vars(CloseResults)
    /\ WF_vars(HandlerReceive)
    /\ \A w \in Workers : WF_vars(Worker(w))

Spec == Init /\ [][Next]_vars /\ Fairness

-------------------------------------------------------------------------------
(* Properties *)

\* A published document is closed and holds every file of the project once,
\* in index order, and no placeholder of a cancelled run (generator.go:146-188).
PublishedComplete ==
    file = "published" =>
        /\ sealed
        /\ Len(written) = NumFiles
        /\ \A i \in 1 .. NumFiles :
              written[i].index = i - 1 /\ written[i].kind # "cancelled"

Places(i) ==
    LET in(seq) == {k \in DOMAIN seq : seq[k].index = i}
    IN  Cardinality(in(jobs)) + Cardinality(in(results)) + Cardinality(in(written))
        + Cardinality({w \in Workers : worker[w].item # NoItem /\ worker[w].item.index = i})
        + (IF pending[i] = NoItem THEN 0 ELSE 1)

\* No file is ever in two hands, and as long as nothing is cancelled none that
\* the producer has queued is lost on its way through jobs, a worker, results
\* and pending to the document (generator.go:119-140, 267-287).
OneOwner ==
    \A i \in Index :
        /\ Places(i) <= 1
        /\ ~WorkDone /\ i < prod.next => Places(i) = 1

HeldMemory ==
    LET sum(f(_), S) == MapThenSumSet(LAMBDA k : Clamp(f(k).mem), S)
    IN  sum(LAMBDA k : jobs[k], DOMAIN jobs)
        + sum(LAMBDA k : results[k], DOMAIN results)
        + sum(LAMBDA w : worker[w].item, {w \in Workers : worker[w].item # NoItem})
        + sum(LAMBDA i : pending[i], {i \in Index : pending[i] # NoItem})
        + (IF prod.pc = "send" THEN Clamp(prod.mem) ELSE 0)

\* The limiter's count is exactly what is reserved by the jobs and results in
\* flight, on every path (text, marker, cancellation, write error), and never
\* above the budget (processor.go:92-143).
MemoryAccounted == used = HeldMemory /\ HeldMemory <= Limit

\* The program points at which the calling goroutine can block: the bounded
\* channel of events, and the channel of results.
MainCanStep ==
    /\ main # "done"
    /\ main \in EmitPhases \cup {"emitComplete"} => Len(events) < EventsCap \/ ctxDone
    /\ main = "report" => Len(events) < EventsCap \/ WorkDone
    /\ main = "sendError" => Len(events) < EventsCap
    /\ main = "receive" => results # <<>> \/ resultsClosed

\* The producer blocks in acquire and on a full channel of jobs.
ProducerCanStep ==
    /\ prod.pc \notin {"idle", "done"}
    /\ prod.pc = "wait" => snapshotClosed \/ WorkDone
    /\ prod.pc = "send" => Len(jobs) < ChanCap \/ WorkDone

\* A worker blocks on the channel of jobs and on a full channel of results.
WorkerCanStep(w) ==
    /\ worker[w].pc \notin {"idle", "exit"}
    /\ worker[w].pc = "recv" => jobs # <<>> \/ jobsClosed
    /\ worker[w].pc = "send" => Len(results) < ChanCap \/ WorkDone

CloserCanStep  == ~resultsClosed /\ \A w \in Workers : worker[w].pc = "exit"
HandlerCanStep == handler = "draining" /\ (events # <<>> \/ eventsClosed)

\* The goroutines never all wait for each other, with a client that stays: as
\* long as one of them has not ended, one can take a step (generator.go:105-146,
\* 267-300, processor.go:103-130, handlers.go:344-366).
NeverStuck ==
    \/ Quiescent
    \/ MainCanStep \/ ProducerCanStep \/ CloserCanStep \/ HandlerCanStep
    \/ \E w \in Workers : WorkerCanStep(w)

Returned == main \in {"save", "sendError", "close", "done"}

\* When Generate has returned no .part file is left and no worker is running
\* (generator.go:96-102, 117-144).
ReturnLeavesNothing ==
    Returned =>
        /\ file # "part"
        /\ \A w \in Workers : worker[w].pc \in {"idle", "exit"}

\* The client hears one verdict, after which nothing follows, and it fits the
\* document: complete only for a published one, and the history is saved only
\* for one.  Only a client that left may hear none (handlers.go:344-366).
VerdictHonest ==
    /\ Len(verdicts) <= 1
    /\ verdicts = <<"complete">> \/ history => file = "published"
    /\ verdicts = <<"error">> => outcome = "error" /\ ~history
    /\ handler = "returned" /\ ~ctxDone => verdicts # <<>>

\* Generate publishes the document atomically (see AtomicDocument).
Document == INSTANCE AtomicDocument WITH
    document <- IF file = "published" /\ sealed
                  THEN [i \in 1 .. Len(written) |->
                          IF written[i].kind = "cancelled" THEN NumFiles
                                                           ELSE written[i].index]
                  ELSE <<>>,
    answer   <- outcome

ImplementsAtomicDocument == Document!Spec

\* Whatever fails and whenever the client leaves, Generate, the producer, every
\* worker and the handler end: the budget, the bounded channels and the
\* in-order writer never wait on each other for ever.
EveryGoroutineEnds == <>Quiescent
===============================================================================
