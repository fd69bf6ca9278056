----------------------- MODULE GenerationPipeline_proofs -----------------------
(***************************************************************************)
(* Proofs about GenerationPipeline for every number of files and workers,  *)
(* every budget, every set of reservations and every channel capacity.     *)
(***************************************************************************)
EXTENDS GenerationPipeline, FiniteSums, SequenceTheorems, FiniteSetTheorems, TLAPS

USE NumFilesAssumption, LimitAssumption, AmountsAssumption

-------------------------------------------------------------------------------
(* Type correctness.  TypeOK is not inductive: what a worker holds depends *)
(* on its program point, and the producer's index is in range only while   *)
(* it still has a file to queue.                                           *)

HandsTyped ==
    \A w \in Workers :
        /\ worker[w].pc = "process" => worker[w].item \in Job
        /\ worker[w].pc = "send" => worker[w].item \in Result

Typing ==
    /\ TypeOK
    /\ HandsTyped
    /\ prod.pc # "done" => prod.next \in Index

\* release keeps the limiter's count between 0 and the limit
LEMMA ReleaseTyped ==
    ASSUME TypeOK, NEW amount \in Nat, Release(amount)
    PROVE  used' \in 0 .. Limit /\ snapshotClosed' \in BOOLEAN
  <1>1. used' \in 0 .. Limit
    BY DEF TypeOK, Release, Clamp, limVars
  <1>2. snapshotClosed' \in BOOLEAN
    BY Zenon DEF TypeOK, Release, limVars
  <1>3. QED
    BY <1>1, <1>2

\* a worker that changes hands keeps the types of all of them
LEMMA HandsUpdate ==
    ASSUME TypeOK, HandsTyped, NEW w \in Workers, NEW state \in WorkerState,
           state.pc = "process" => state.item \in Job,
           state.pc = "send" => state.item \in Result,
           worker' = [worker EXCEPT ![w] = state]
    PROVE  worker' \in [Workers -> WorkerState] /\ HandsTyped'
  BY DEF TypeOK, HandsTyped

\* the initial state is well typed
LEMMA TypingInit == Init => Typing
  <1> SUFFICES ASSUME Init PROVE Typing
    OBVIOUS
  <1>1. worker \in [Workers -> WorkerState]
    BY DEF Init, WorkerState
  <1>2. HandsTyped
    BY DEF Init, HandsTyped
  <1>3. prod \in ProducerState /\ prod.next \in Index
    BY DEF Init, Index, ProducerState
  <1>4. pending \in [Index -> Result \cup {NoItem}]
    BY DEF Init
  <1>5. QED
    BY <1>1, <1>2, <1>3, <1>4 DEF Init, Typing, TypeOK, MainPhases

\* every step of the program keeps the types
LEMMA TypingStep == Typing /\ [Next]_vars => Typing'
  <1> SUFFICES ASSUME Typing, [Next]_vars PROVE Typing'
    OBVIOUS
  <1> USE DEF Typing
  <1>1. CASE StatFile
    <2>1. /\ prod' \in ProducerState
          /\ prod'.pc # "done" => prod'.next \in Index
      BY <1>1 DEF StatFile, TypeOK, ProducerState
    <2>2. QED
      BY <1>1, <2>1 DEF StatFile, ProducerFrame, TypeOK, HandsTyped, ctxVars, writerVars,
           docVars, callVars, limVars, jobVars, resultVars, eventVars, clientVars
  <1>2. CASE Acquire
    <2>1. /\ prod' \in ProducerState
          /\ prod'.pc # "done" => prod'.next \in Index
      BY <1>2 DEF Acquire, TypeOK, ProducerState
    <2>2. used' \in 0 .. Limit
      <3>1. used \in 0 .. Limit /\ prod.mem \in Nat
        BY DEF TypeOK, ProducerState
      <3>2. QED
        BY <1>2, <3>1 DEF Acquire, Fits, Clamp, limVars
    <2>3. snapshotClosed' \in BOOLEAN
      BY <1>2 DEF Acquire, TypeOK, limVars
    <2>4. QED
      BY <1>2, <2>1, <2>2, <2>3 DEF Acquire, ProducerFrame, TypeOK, HandsTyped, ctxVars,
           writerVars, docVars, callVars, jobVars, resultVars, eventVars, clientVars
  <1>3. CASE WakeAcquire
    <2>1. /\ prod' \in ProducerState
          /\ prod'.pc # "done" => prod'.next \in Index
      BY <1>3 DEF WakeAcquire, TypeOK, ProducerState
    <2>2. /\ used' \in 0 .. Limit /\ snapshotClosed' \in BOOLEAN
          /\ jobs' \in Seq(Job) /\ jobsClosed' \in BOOLEAN
      BY <1>3 DEF WakeAcquire, TypeOK, limVars, jobVars
    <2>3. QED
      BY <1>3, <2>1, <2>2 DEF WakeAcquire, ProducerFrame, TypeOK, HandsTyped, ctxVars,
           writerVars, docVars, callVars, resultVars, eventVars, clientVars
  <1>4. CASE SendJob
    <2>1. used' \in 0 .. Limit /\ snapshotClosed' \in BOOLEAN
      BY <1>4, ReleaseTyped DEF SendJob, TypeOK, ProducerState, limVars
    <2>2. jobs' \in Seq(Job)
      <3>1. jobs \in Seq(Job) /\ prod.mem \in Amounts
        BY DEF TypeOK, ProducerState
      <3>2. [index |-> prod.next, mem |-> prod.mem] \in Job
        BY <1>4, <3>1 DEF SendJob, Job
      <3>3. Append(jobs, [index |-> prod.next, mem |-> prod.mem]) \in Seq(Job)
        BY <3>1, <3>2, AppendProperties
      <3>4. QED
        BY <1>4, <3>1, <3>3 DEF SendJob
    <2>3. jobsClosed' \in BOOLEAN
      BY <1>4, Zenon DEF SendJob
    <2>4. /\ prod' \in ProducerState
          /\ prod'.pc # "done" => prod'.next \in Index
      <3>1. prod.next \in Index /\ prod.next \in Nat /\ prod.mem \in Amounts
        BY <1>4 DEF SendJob, TypeOK, ProducerState
      <3>2. CASE prod' = [pc   |-> IF prod.next + 1 < NumFiles THEN "stat" ELSE "done",
                          next |-> prod.next + 1, mem |-> 0]
        BY <3>1, <3>2 DEF Index, ProducerState
      <3>3. CASE prod' = [prod EXCEPT !.pc = "done"]
        BY <3>3 DEF TypeOK, ProducerState
      <3>4. QED
        BY <1>4, <3>2, <3>3 DEF SendJob
    <2>5. QED
      BY <1>4, <2>1, <2>2, <2>3, <2>4 DEF SendJob, ProducerFrame, TypeOK, HandsTyped,
           ctxVars, writerVars, docVars, callVars, resultVars, eventVars, clientVars
  <1>5. ASSUME NEW w \in Workers, TakeJob(w) PROVE Typing'
    <2>1. jobs \in Seq(Job)
      BY DEF TypeOK
    <2>2. jobs # <<>> => Head(jobs) \in Job /\ Tail(jobs) \in Seq(Job)
      BY <2>1, HeadTailProperties
    <2>3. jobs' \in Seq(Job)
      BY <1>5, <2>1, <2>2 DEF TakeJob
    <2>4. worker' \in [Workers -> WorkerState] /\ HandsTyped'
      <3>1. CASE /\ jobs # <<>>
                 /\ worker' = [worker EXCEPT ![w] = [pc |-> "process", item |-> Head(jobs)]]
        BY <2>2, <3>1, HandsUpdate DEF WorkerState
      <3>2. CASE worker' = [worker EXCEPT ![w] = [pc |-> "exit", item |-> NoItem]]
        BY <3>2, HandsUpdate DEF WorkerState
      <3>3. QED
        BY <1>5, <3>1, <3>2 DEF TakeJob
    <2>5. QED
      BY <1>5, <2>3, <2>4 DEF TakeJob, WorkerFrame, TypeOK, ctxVars, writerVars, docVars,
           callVars, limVars, resultVars, eventVars, clientVars
  <1>6. ASSUME NEW w \in Workers, ProcessFile(w) PROVE Typing'
    <2> DEFINE item(kind, mem) ==
          [index |-> worker[w].item.index, kind |-> kind, mem |-> mem]
    <2>1. PICK kind \in {"cancelled", "text", "marker"} :
            LET kept == IF kind = "text" THEN worker[w].item.mem ELSE 0
            IN  /\ worker' = [worker EXCEPT ![w] = [pc |-> "send", item |-> item(kind, kept)]]
                /\ Release(worker[w].item.mem - kept)
      BY <1>6 DEF ProcessFile
    <2>2. worker[w].item \in Job
      BY <1>6 DEF ProcessFile, HandsTyped
    <2>3. used' \in 0 .. Limit /\ snapshotClosed' \in BOOLEAN
      BY <2>1, <2>2, ReleaseTyped DEF Job
    <2>4. item(kind, IF kind = "text" THEN worker[w].item.mem ELSE 0) \in Result
      BY <2>2 DEF Job, Result, Kinds
    <2>5. worker' \in [Workers -> WorkerState] /\ HandsTyped'
      BY <2>1, <2>4, HandsUpdate DEF WorkerState
    <2>6. QED
      BY <1>6, <2>3, <2>5 DEF ProcessFile, WorkerFrame, TypeOK, ctxVars, writerVars,
           docVars, callVars, jobVars, resultVars, eventVars, clientVars
  <1>7. ASSUME NEW w \in Workers, SendResult(w) PROVE Typing'
    <2>1. worker[w].item \in Result
      BY <1>7 DEF SendResult, HandsTyped
    <2>2. used' \in 0 .. Limit /\ snapshotClosed' \in BOOLEAN
      BY <1>7, <2>1, ReleaseTyped DEF SendResult, Result, TypeOK, limVars
    <2>3. results \in Seq(Result)
      BY DEF TypeOK
    <2>4. results' \in Seq(Result)
      <3>1. Append(results, worker[w].item) \in Seq(Result)
        BY <2>1, <2>3, AppendProperties
      <3>2. results' \in {results, Append(results, worker[w].item)}
        BY <1>7 DEF SendResult
      <3>3. QED
        BY <2>3, <3>1, <3>2
    <2>5. worker' \in [Workers -> WorkerState] /\ HandsTyped'
      <3>1. CASE worker' = [worker EXCEPT ![w] = [pc |-> "recv", item |-> NoItem]]
        BY <3>1, HandsUpdate DEF WorkerState
      <3>2. CASE worker' = [worker EXCEPT ![w] = [pc |-> "exit", item |-> NoItem]]
        BY <3>2, HandsUpdate DEF WorkerState
      <3>3. QED
        BY <1>7, <3>1, <3>2 DEF SendResult
    <2>6. QED
      BY <1>7, <2>2, <2>4, <2>5 DEF SendResult, WorkerFrame, TypeOK, ctxVars, writerVars,
           docVars, callVars, jobVars, eventVars, clientVars
  <1>8. CASE CloseResults
    BY <1>8 DEF CloseResults, WorkerFrame, TypeOK, HandsTyped, ctxVars, writerVars, docVars,
         callVars, limVars, jobVars, eventVars, clientVars
  <1>9. CASE Validate \/ Scan \/ Inspect \/ CheckContext
    BY <1>9 DEF Validate, Scan, Inspect, CheckContext, Goto, Fail, MainPhases, EmitPhases,
         TypeOK, HandsTyped, ctxVars, writerVars, docVars, callVars, poolVars, limVars,
         jobVars, resultVars, eventVars, clientVars
  <1>10. CASE EmitProgress
    <2>1. events \in Seq({"progress", "complete", "error"})
      BY DEF TypeOK
    <2>2. events' \in Seq({"progress", "complete", "error"})
      BY <1>10, <2>1, AppendProperties DEF EmitProgress
    <2>3. main' \in MainPhases /\ outcome' \in {"none", "ok", "error"}
      BY <1>10 DEF EmitProgress, Goto, Fail, MainPhases, EmitPhases, TypeOK
    <2>4. QED
      BY <1>10, <2>2, <2>3 DEF EmitProgress, TypeOK, HandsTyped, ctxVars, writerVars,
           docVars, poolVars, limVars, jobVars, resultVars, clientVars
  <1>11. CASE OpenPartial \/ Seal \/ Commit
    <2>1. main' \in MainPhases /\ outcome' \in {"none", "ok", "error"}
      BY <1>11 DEF OpenPartial, Seal, Commit, Goto, Fail, MainPhases, TypeOK
    <2>2. file' \in {"none", "part", "published"} /\ sealed' \in BOOLEAN
      BY <1>11 DEF OpenPartial, Seal, Commit, TypeOK
    <2>3. QED
      BY <1>11, <2>1, <2>2 DEF OpenPartial, Seal, Commit, TypeOK, HandsTyped, ctxVars,
           writerVars, poolVars, limVars, jobVars, resultVars, eventVars, clientVars
  <1>12. CASE StartPipeline
    <2>1. prod' \in ProducerState /\ (prod'.pc # "done" => prod'.next \in Index)
      <3>1. prod \in ProducerState
        BY DEF TypeOK
      <3>2. QED
        BY <1>12, <3>1 DEF StartPipeline, ProducerState, Index
    <2>2. worker' \in [Workers -> WorkerState] /\ HandsTyped'
      BY <1>12 DEF StartPipeline, TypeOK, HandsTyped, WorkerState
    <2>3. main' \in MainPhases /\ outcome' \in {"none", "ok", "error"}
      BY <1>12 DEF StartPipeline, Goto, Fail, MainPhases, TypeOK
    <2>4. QED
      BY <1>12, <2>1, <2>2, <2>3 DEF StartPipeline, TypeOK, ctxVars, writerVars, docVars,
           limVars, jobVars, resultVars, eventVars, clientVars
  <1>13. CASE Receive
    <2>1. results \in Seq(Result)
      BY DEF TypeOK
    <2>2. results # <<>> => Head(results) \in Result /\ Tail(results) \in Seq(Result)
      BY <2>1, HeadTailProperties
    <2>3. used' \in 0 .. Limit /\ snapshotClosed' \in BOOLEAN
      BY <1>13, <2>2, ReleaseTyped DEF Receive, Result, TypeOK, limVars
    <2>4. results' \in Seq(Result)
      BY <1>13, <2>1, <2>2 DEF Receive
    <2>5. processed' \in Nat
      BY <1>13 DEF Receive, TypeOK
    <2>6. pending' \in [Index -> Result \cup {NoItem}]
      BY <1>13, <2>2 DEF Receive, TypeOK, Result
    <2>7. main' \in MainPhases
      BY <1>13 DEF Receive, TypeOK, MainPhases
    <2>8. QED
      BY <1>13, <2>3, <2>4, <2>5, <2>6, <2>7 DEF Receive, WriterFrame, TypeOK, HandsTyped,
           ctxVars, jobVars, clientVars
  <1>14. CASE WriteNext
    <2>1. /\ pending \in [Index -> Result \cup {NoItem}]
          /\ pending[nextIndex] \in Result
          /\ written \in Seq(Result)
      BY <1>14 DEF WriteNext, Turn, TypeOK
    <2>2. used' \in 0 .. Limit /\ snapshotClosed' \in BOOLEAN
      BY <1>14, <2>1, ReleaseTyped DEF WriteNext, Result
    <2>3. written' \in Seq(Result)
      BY <1>14, <2>1, AppendProperties DEF WriteNext
    <2>4. pending' \in [Index -> Result \cup {NoItem}]
      BY <1>14, <2>1 DEF WriteNext
    <2>5. main' \in MainPhases /\ nextIndex' \in Nat
      BY <1>14 DEF WriteNext, TypeOK, MainPhases
    <2>6. pipelineErr' \in BOOLEAN /\ workersCancelled' \in BOOLEAN
      BY <1>14 DEF WriteNext, TypeOK
    <2>7. QED
      BY <1>14, <2>2, <2>3, <2>4, <2>5, <2>6 DEF WriteNext, WriterFrame, TypeOK,
           HandsTyped, jobVars, clientVars
  <1>15. CASE OrderDone
    BY <1>15 DEF OrderDone, WriterFrame, MainPhases, TypeOK, HandsTyped, ctxVars, writerVars,
         limVars, jobVars, clientVars
  <1>16. CASE EmitReport
    <2>1. events \in Seq({"progress", "complete", "error"})
      BY DEF TypeOK
    <2>2. events' \in Seq({"progress", "complete", "error"})
      BY <1>16, <2>1, AppendProperties DEF EmitReport
    <2>3. /\ main' \in MainPhases
          /\ pipelineErr' \in BOOLEAN /\ workersCancelled' \in BOOLEAN
      BY <1>16 DEF EmitReport, MainPhases, TypeOK
    <2>4. QED
      BY <1>16, <2>2, <2>3 DEF EmitReport, WriterFrame, TypeOK, HandsTyped, limVars,
           jobVars, clientVars
  <1>17. CASE DrainPending
    <2>1. PICK i \in Index : /\ pending[i] # NoItem
                             /\ Release(pending[i].mem)
                             /\ pending' = [pending EXCEPT ![i] = NoItem]
      BY <1>17 DEF DrainPending
    <2>2. used' \in 0 .. Limit /\ snapshotClosed' \in BOOLEAN
      BY <2>1, ReleaseTyped DEF TypeOK, Result
    <2>3. QED
      BY <1>17, <2>1, <2>2 DEF DrainPending, WriterFrame, TypeOK, HandsTyped, ctxVars,
           jobVars, clientVars
  <1>18. CASE PipelineEnd
    BY <1>18 DEF PipelineEnd, WriterFrame, Goto, Fail, MainPhases, TypeOK, HandsTyped,
         ctxVars, writerVars, limVars, jobVars, clientVars
  <1>19. CASE EmitComplete \/ SendError
    <2>1. events \in Seq({"progress", "complete", "error"})
      BY DEF TypeOK
    <2>2. events' \in Seq({"progress", "complete", "error"})
      BY <1>19, <2>1, AppendProperties DEF EmitComplete, SendError
    <2>3. /\ main' \in MainPhases
          /\ outcome' \in {"none", "ok", "error"} /\ history' \in BOOLEAN
      BY <1>19 DEF EmitComplete, SendError, MainPhases, TypeOK, callVars
    <2>4. UNCHANGED <<ctxVars, writerVars, docVars, poolVars, eventsClosed, clientVars>>
      BY <1>19 DEF EmitComplete, SendError
    <2>5. QED
      BY <2>2, <2>3, <2>4 DEF TypeOK, HandsTyped, ctxVars, writerVars, docVars, poolVars,
           limVars, jobVars, resultVars, clientVars
  <1>20. CASE Return \/ SaveHistory \/ CloseEvents
    <2>1. main' \in MainPhases
      BY <1>20 DEF Return, AfterGenerate, SaveHistory, CloseEvents, MainPhases
    <2>2. file' \in {"none", "part", "published"}
      BY <1>20 DEF Return, Cleanup, SaveHistory, CloseEvents, TypeOK, docVars
    <2>3. /\ workersCancelled' \in BOOLEAN /\ history' \in BOOLEAN
          /\ eventsClosed' \in BOOLEAN /\ sealed' \in BOOLEAN
          /\ outcome' \in {"none", "ok", "error"}
      BY <1>20 DEF Return, SaveHistory, CloseEvents, TypeOK, ctxVars, docVars, callVars,
           eventVars
    <2>4. UNCHANGED <<ctxDone, writerVars, written, poolVars, events, clientVars>>
      BY <1>20 DEF Return, SaveHistory, CloseEvents, ctxVars, docVars, eventVars
    <2>5. QED
      BY <2>1, <2>2, <2>3, <2>4 DEF TypeOK, HandsTyped, writerVars, poolVars, limVars,
           jobVars, resultVars, clientVars
  <1>21. CASE HandlerReceive
    <2>1. /\ events \in Seq({"progress", "complete", "error"})
          /\ verdicts \in Seq({"complete", "error"})
      BY DEF TypeOK
    <2>2. events # <<>> => /\ Head(events) \in {"progress", "complete", "error"}
                          /\ Tail(events) \in Seq({"progress", "complete", "error"})
      BY <2>1, HeadTailProperties
    <2>3. events' \in Seq({"progress", "complete", "error"})
      BY <1>21, <2>1, <2>2 DEF HandlerReceive
    <2>4. verdicts' \in Seq({"complete", "error"})
      <3>1. CASE Head(events) \in {"complete", "error"}
        <4>1. Append(verdicts, Head(events)) \in Seq({"complete", "error"})
          BY <2>1, <3>1, AppendProperties
        <4>2. QED
          BY <1>21, <2>1, <3>1, <4>1 DEF HandlerReceive
      <3>2. CASE Head(events) = "progress" \/ events = <<>>
        BY <1>21, <2>1, <3>2 DEF HandlerReceive
      <3>3. QED
        BY <2>2, <3>1, <3>2
    <2>5. QED
      BY <1>21, <2>3, <2>4 DEF HandlerReceive, TypeOK, HandsTyped, ctxVars, writerVars,
           docVars, callVars, poolVars, limVars, jobVars, resultVars
  <1>22. CASE Disconnect
    BY <1>22 DEF Disconnect, TypeOK, HandsTyped, ctxVars, writerVars, docVars, callVars,
         poolVars, limVars, jobVars, resultVars, eventVars, clientVars
  <1>23. CASE UNCHANGED vars
    BY <1>23 DEF vars, TypeOK, HandsTyped, ctxVars, writerVars, docVars, callVars,
         poolVars, limVars, jobVars, resultVars, eventVars, clientVars
  <1>24. QED
    BY <1>1, <1>2, <1>3, <1>4, <1>5, <1>6, <1>7, <1>8, <1>9, <1>10, <1>11, <1>12, <1>13,
       <1>14, <1>15, <1>16, <1>17, <1>18, <1>19, <1>20, <1>21, <1>22, <1>23
       DEF Next, Main, Producer, Worker, Finished

\* Every variable of the pipeline keeps its type; in particular the limiter
\* never counts more than the budget (processor.go:103-143).
THEOREM TypeCorrect == Spec => []TypeOK
  <1>1. Spec => []Typing
    BY TypingInit, TypingStep, PTL DEF Spec
  <1>2. Typing => TypeOK
    BY DEF Typing
  <1>3. QED
    BY <1>1, <1>2, PTL

\* every state of a behaviour is well typed, and so is its successor
LEMMA AlwaysTyping == Spec => []Typing
  BY TypingInit, TypingStep, PTL DEF Spec

-------------------------------------------------------------------------------
(* The lives of the workers.  The workers run from StartPipeline until they *)
(* exit; results is closed after the last exit; the calling goroutine gets  *)
(* past writeOrderedResults only once results is closed.                    *)

EarlyPhases == {"validate", "emitScan", "scan", "emitFound", "emitLog", "open", "header"}
LatePhases  == {"check", "emitFinal", "seal", "commit", "inspect", "emitComplete"}
EndPhases   == {"return", "save", "sendError", "close", "done"}

Lifetimes ==
    /\ main \in EarlyPhases => ~resultsClosed /\ \A w \in Workers : worker[w].pc = "idle"
    /\ resultsClosed => \A w \in Workers : worker[w].pc = "exit"
    /\ main \in LatePhases \cup {"drain"} => resultsClosed
    /\ main \in EndPhases => resultsClosed \/ \A w \in Workers : worker[w].pc = "idle"
    /\ Returned => file # "part"

\* no worker has been started in the initial state
LEMMA LifetimesInit == Init => Lifetimes
  BY DEF Init, Lifetimes, EarlyPhases, LatePhases, EndPhases, Returned

\* a step of one worker, running before and after it or exiting
LEMMA WorkerLifetime ==
    ASSUME TypeOK, Lifetimes, NEW w \in Workers,
           worker[w].pc \in {"recv", "process", "send"},
           UNCHANGED <<main, resultsClosed, file>>
    PROVE  Lifetimes'
  <1>1. ~resultsClosed /\ main \notin EarlyPhases \cup LatePhases \cup EndPhases
    BY DEF Lifetimes
  <1>2. main # "drain"
    BY <1>1 DEF Lifetimes
  <1>3. QED
    BY <1>1, <1>2 DEF Lifetimes, Returned, EndPhases

\* no step lets the calling goroutine overtake the workers
LEMMA LifetimesStep == Typing /\ Lifetimes /\ [Next]_vars => Lifetimes'
  <1> SUFFICES ASSUME Typing, Lifetimes, [Next]_vars PROVE Lifetimes'
    OBVIOUS
  <1>1. CASE Producer
    <2>1. ProducerFrame
      BY <1>1 DEF Producer, StatFile, Acquire, WakeAcquire, SendJob
    <2>2. UNCHANGED <<main, worker, resultsClosed, file>>
      BY <2>1 DEF ProducerFrame, docVars, resultVars
    <2>3. QED
      BY <2>2 DEF Lifetimes, Returned
  <1>2. ASSUME NEW w \in Workers, Worker(w) PROVE Lifetimes'
    BY <1>2, WorkerLifetime DEF Worker, TakeJob, ProcessFile, SendResult, WorkerFrame,
         docVars, resultVars, Typing
  <1>3. CASE CloseResults
    BY <1>3, WorkersAssumption DEF CloseResults, WorkerFrame, docVars, Lifetimes, Returned,
         EarlyPhases
  <1>4. CASE Validate \/ Scan \/ EmitProgress
    BY <1>4 DEF Validate, Scan, EmitProgress, EmitPhases, Goto, Fail, docVars, poolVars,
         resultVars, Lifetimes, EarlyPhases, LatePhases, EndPhases, Returned
  <1>5. CASE OpenPartial
    BY <1>5 DEF OpenPartial, Goto, Fail, poolVars, resultVars, Lifetimes, EarlyPhases,
         LatePhases, EndPhases, Returned
  <1>6. CASE StartPipeline
    BY <1>6 DEF StartPipeline, Goto, Fail, docVars, resultVars, Lifetimes, EarlyPhases,
         LatePhases, EndPhases, Returned
  <1>7. CASE Receive \/ WriteNext \/ OrderDone \/ EmitReport
    BY <1>7 DEF Receive, WriteNext, OrderDone, EmitReport, WriterFrame, Lifetimes,
         EarlyPhases, LatePhases, EndPhases, Returned
  <1>8. CASE DrainPending \/ PipelineEnd
    BY <1>8 DEF DrainPending, PipelineEnd, WriterFrame, Goto, Fail, Lifetimes,
         EarlyPhases, LatePhases, EndPhases, Returned
  <1>9. CASE CheckContext \/ Inspect \/ EmitComplete
    BY <1>9 DEF CheckContext, Inspect, EmitComplete, Goto, Fail, docVars, poolVars,
         resultVars, Lifetimes, EarlyPhases, LatePhases, EndPhases, Returned
  <1>10. CASE Seal \/ Commit
    BY <1>10 DEF Seal, Commit, Goto, Fail, poolVars, resultVars, Lifetimes, EarlyPhases,
         LatePhases, EndPhases, Returned
  <1>11. CASE Return
    BY <1>11 DEF Return, Cleanup, AfterGenerate, poolVars, resultVars, Lifetimes,
         EarlyPhases, LatePhases, EndPhases, Returned
  <1>12. CASE SaveHistory \/ SendError \/ CloseEvents
    BY <1>12 DEF SaveHistory, SendError, CloseEvents, docVars, poolVars, resultVars,
         Lifetimes, EarlyPhases, LatePhases, EndPhases, Returned
  <1>13. CASE HandlerReceive \/ Disconnect \/ UNCHANGED vars
    BY <1>13 DEF HandlerReceive, Disconnect, vars, docVars, poolVars, resultVars,
         Lifetimes, Returned
  <1>14. QED
    BY <1>1, <1>2, <1>3, <1>4, <1>5, <1>6, <1>7, <1>8, <1>9, <1>10, <1>11, <1>12, <1>13
       DEF Next, Main, Finished

\* the lives of the workers, in every state
LEMMA AlwaysLifetimes == Spec => []Lifetimes
  BY AlwaysTyping, LifetimesInit, LifetimesStep, PTL DEF Spec

\* Once Generate has returned, for whatever reason, it left no .part file and
\* no worker is running (generator.go:96-102, 117-144).
THEOREM ReturnIsClean == Spec => []ReturnLeavesNothing
  <1>1. Lifetimes => ReturnLeavesNothing
    BY DEF Lifetimes, ReturnLeavesNothing, Returned, EndPhases
  <1>2. QED
    BY AlwaysLifetimes, <1>1, PTL

-------------------------------------------------------------------------------
(* Placeholders.  A worker that finds the pipeline cancelled answers with a *)
(* placeholder, and nothing stops such a result from being written: what    *)
(* keeps it out of a published document is that it only exists once workCtx *)
(* is done, which writeOrderedResults asks about at its end.                *)

Placeholder(r) == r.kind = "cancelled"

NoPlaceholder ==
    /\ \A w \in Workers : worker[w].pc = "send" => ~Placeholder(worker[w].item)
    /\ \A k \in 1 .. Len(results) : ~Placeholder(results[k])
    /\ \A i \in Index : pending[i] # NoItem => ~Placeholder(pending[i])
    /\ \A k \in 1 .. Len(written) : ~Placeholder(written[k])

PlaceholdersNeedCancel == WorkDone \/ NoPlaceholder

\* there are no results at all in the initial state
LEMMA PlaceholdersInit == Init => PlaceholdersNeedCancel
  BY DEF Init, PlaceholdersNeedCancel, NoPlaceholder

\* a cancelled pipeline stays cancelled
LEMMA WorkDoneStable == WorkDone /\ [Next]_vars => WorkDone'
  BY DEF WorkDone, Next, Main, Producer, Worker, Finished, vars, ctxVars, ProducerFrame,
       WorkerFrame, WriterFrame, StatFile, Acquire, WakeAcquire, SendJob, TakeJob,
       ProcessFile, SendResult, CloseResults, Validate, EmitProgress, Scan, OpenPartial,
       StartPipeline, Receive, WriteNext, OrderDone, EmitReport, DrainPending, PipelineEnd,
       CheckContext, Seal, Commit, Inspect, EmitComplete, Return, SaveHistory, SendError,
       CloseEvents, HandlerReceive, Disconnect

\* a step that makes a placeholder finds the pipeline cancelled
LEMMA PlaceholdersStep ==
    Typing /\ PlaceholdersNeedCancel /\ [Next]_vars => PlaceholdersNeedCancel'
  <1> SUFFICES ASSUME Typing, NoPlaceholder, ~WorkDone, [Next]_vars
               PROVE  WorkDone' \/ NoPlaceholder'
    BY WorkDoneStable DEF PlaceholdersNeedCancel
  <1> DEFINE Rest == <<worker, results, pending, written>>
  <1>1. CASE UNCHANGED Rest
    BY <1>1 DEF NoPlaceholder
  <1>2. ASSUME NEW w \in Workers, TakeJob(w) PROVE NoPlaceholder'
    <2>1. UNCHANGED <<results, pending, written>>
      BY <1>2 DEF TakeJob, WorkerFrame, writerVars, docVars, resultVars
    <2>2. worker \in [Workers -> WorkerState]
      BY DEF Typing, TypeOK
    <2>3. \A v \in Workers : worker'[v].pc = "send" => ~Placeholder(worker'[v].item)
      BY <1>2, <2>2 DEF TakeJob, NoPlaceholder
    <2>4. QED
      BY <2>1, <2>3 DEF NoPlaceholder
  <1>3. ASSUME NEW w \in Workers, ProcessFile(w) PROVE NoPlaceholder'
    <2>1. /\ UNCHANGED <<results, pending, written>>
          /\ \E mem : \E kind \in {"text", "marker"} :
               worker' = [worker EXCEPT ![w] =
                 [pc |-> "send", item |-> [index |-> worker[w].item.index,
                                           kind |-> kind, mem |-> mem]]]
      BY <1>3 DEF ProcessFile, WorkerFrame, writerVars, docVars, resultVars
    <2>2. QED
      BY <2>1 DEF NoPlaceholder, Placeholder, Typing, TypeOK
  <1>4. ASSUME NEW w \in Workers, SendResult(w) PROVE NoPlaceholder'
    <2>1. worker[w].item \in Result /\ ~Placeholder(worker[w].item)
      BY <1>4 DEF SendResult, Typing, HandsTyped, NoPlaceholder
    <2>2. results \in Seq(Result) /\ worker \in [Workers -> WorkerState]
      BY DEF Typing, TypeOK
    <2>3. UNCHANGED <<pending, written>>
      BY <1>4 DEF SendResult, WorkerFrame, writerVars, docVars
    <2>4. results' = Append(results, worker[w].item)
      BY <1>4 DEF SendResult
    <2>5. \A k \in 1 .. Len(results') : ~Placeholder(results'[k])
      BY <2>1, <2>2, <2>4, AppendProperties DEF NoPlaceholder
    <2>6. \A v \in Workers : worker'[v].pc = "send" => ~Placeholder(worker'[v].item)
      BY <1>4, <2>2 DEF SendResult, NoPlaceholder
    <2>7. QED
      BY <2>3, <2>5, <2>6 DEF NoPlaceholder
  <1>5. CASE StartPipeline
    <2>1. UNCHANGED <<results, pending, written>>
      BY <1>5 DEF StartPipeline, writerVars, docVars, resultVars
    <2>2. \A v \in Workers : worker'[v].pc = "send" => ~Placeholder(worker'[v].item)
      BY <1>5 DEF StartPipeline, NoPlaceholder
    <2>3. QED
      BY <2>1, <2>2 DEF NoPlaceholder
  <1>6. CASE Receive
    <2>1. results \in Seq(Result) /\ pending \in [Index -> Result \cup {NoItem}]
      BY DEF Typing, TypeOK
    <2>2. UNCHANGED <<worker, written>>
      BY <1>6 DEF Receive, WriterFrame
    <2>3. CASE results = <<>>
      BY <1>6, <2>2, <2>3 DEF Receive, NoPlaceholder
    <2>4. CASE results # <<>>
      <3>1. /\ Head(results) = results[1] /\ Head(results) \in Result
            /\ Len(results) \in Nat /\ Len(results) >= 1
        BY <2>1, <2>4
      <3>2. ~Placeholder(Head(results))
        BY <3>1 DEF NoPlaceholder
      <3>3. \A k \in 1 .. Len(results') : ~Placeholder(results'[k])
        <4>1. results' = Tail(results)
          BY <1>6, <2>4 DEF Receive
        <4>2. /\ Len(Tail(results)) = Len(results) - 1
              /\ \A k \in 1 .. Len(Tail(results)) : Tail(results)[k] = results[k + 1]
          BY <2>1, <2>4, HeadTailProperties
        <4>3. \A k \in 1 .. Len(Tail(results)) : k + 1 \in 1 .. Len(results)
          BY <3>1, <4>2
        <4>4. QED
          BY <4>1, <4>2, <4>3 DEF NoPlaceholder
      <3>4. \A i \in Index : pending'[i] # NoItem => ~Placeholder(pending'[i])
        BY <1>6, <2>1, <2>4, <3>1, <3>2 DEF Receive, NoPlaceholder, Result
      <3>5. QED
        BY <2>2, <3>3, <3>4 DEF NoPlaceholder
    <2>5. QED
      BY <2>3, <2>4
  <1>7. CASE WriteNext
    <2>1. /\ pending \in [Index -> Result \cup {NoItem}] /\ written \in Seq(Result)
          /\ pending[nextIndex] \in Result /\ ~Placeholder(pending[nextIndex])
      BY <1>7 DEF WriteNext, Turn, Typing, TypeOK, NoPlaceholder
    <2>2. UNCHANGED <<worker, results>>
      BY <1>7 DEF WriteNext, WriterFrame
    <2>3. \A i \in Index : pending'[i] # NoItem => ~Placeholder(pending'[i])
      BY <1>7, <2>1 DEF WriteNext, NoPlaceholder
    <2>4. \A k \in 1 .. Len(written') : ~Placeholder(written'[k])
      <3>1. CASE written' = written
        BY <3>1 DEF NoPlaceholder
      <3>2. CASE written' = Append(written, pending[nextIndex])
        <4>1. /\ Len(written) \in Nat
              /\ Len(written') = Len(written) + 1
              /\ \A k \in 1 .. Len(written) : written'[k] = written[k]
              /\ written'[Len(written) + 1] = pending[nextIndex]
          BY <2>1, <3>2, AppendProperties
        <4>2. \A k \in 1 .. Len(written') :
                 k \in 1 .. Len(written) \/ k = Len(written) + 1
          BY <4>1
        <4>3. QED
          BY <2>1, <4>1, <4>2 DEF NoPlaceholder
      <3>3. QED
        BY <1>7, <3>1, <3>2 DEF WriteNext
    <2>5. QED
      BY <2>2, <2>3, <2>4 DEF NoPlaceholder
  <1>8. CASE DrainPending
    BY <1>8 DEF DrainPending, WriterFrame, NoPlaceholder, Typing, TypeOK
  <1>9. CASE Producer \/ CloseResults
    BY <1>1, <1>9 DEF Producer, StatFile, Acquire, WakeAcquire, SendJob, CloseResults,
         ProducerFrame, WorkerFrame, writerVars, docVars, resultVars
  <1>10. CASE OrderDone \/ EmitReport \/ PipelineEnd
    BY <1>1, <1>10 DEF OrderDone, EmitReport, PipelineEnd, WriterFrame, writerVars
  <1>11. CASE \/ Validate \/ EmitProgress \/ Scan \/ OpenPartial \/ CheckContext
              \/ Seal \/ Commit \/ Inspect \/ EmitComplete
              \/ Return \/ SaveHistory \/ SendError \/ CloseEvents
    BY <1>1, <1>11 DEF Validate, EmitProgress, Scan, OpenPartial, CheckContext, Seal,
         Commit, Inspect, EmitComplete, Return, SaveHistory, SendError, CloseEvents,
         writerVars, docVars, poolVars, resultVars
  <1>12. CASE HandlerReceive \/ Disconnect \/ UNCHANGED vars
    BY <1>1, <1>12 DEF HandlerReceive, Disconnect, vars, writerVars, docVars, poolVars,
         resultVars
  <1>13. QED
    BY <1>2, <1>3, <1>4, <1>5, <1>6, <1>7, <1>8, <1>9, <1>10, <1>11, <1>12
       DEF Next, Main, Worker, Finished

\* placeholders need a cancelled pipeline, in every state
LEMMA AlwaysPlaceholders == Spec => []PlaceholdersNeedCancel
  BY AlwaysTyping, PlaceholdersInit, PlaceholdersStep, PTL DEF Spec

-------------------------------------------------------------------------------
(* Order.  As long as no error is recorded the document holds exactly the  *)
(* results below nextIndex, in order; after one it is never written again. *)

Ordered ==
    /\ \A i \in Index : pending[i] # NoItem => pending[i].index = i
    /\ \A k \in 1 .. Len(written) : written[k].index = k - 1
    /\ main = "order" => ~pipelineErr
    /\ ~pipelineErr => Len(written) = nextIndex

\* nothing is written in the initial state
LEMMA OrderedInit == Init => Ordered
  BY DEF Init, Ordered

\* the writer appends the result whose turn it is, and no other
LEMMA OrderedStep == Typing /\ Ordered /\ [Next]_vars => Ordered'
  <1> SUFFICES ASSUME Typing, Ordered, [Next]_vars PROVE Ordered'
    OBVIOUS
  <1> DEFINE Kept == UNCHANGED <<pending, written, pipelineErr, nextIndex>>
  <1>1. Kept /\ main' # "order" => Ordered'
    BY DEF Ordered
  <1>2. Kept /\ UNCHANGED main => Ordered'
    BY DEF Ordered
  <1>3. CASE Receive
    <2>1. pending \in [Index -> Result \cup {NoItem}] /\ results \in Seq(Result)
      BY DEF Typing, TypeOK
    <2>2. UNCHANGED <<written, pipelineErr, nextIndex>>
      BY <1>3 DEF Receive
    <2>3. CASE UNCHANGED pending /\ (main' # "order" \/ UNCHANGED main)
      BY <1>1, <1>2, <2>2, <2>3
    <2>4. CASE /\ results # <<>> /\ ~pipelineErr
               /\ pending' = [pending EXCEPT ![Head(results).index] = Head(results)]
      <3>1. Head(results) \in Result
        BY <2>1, <2>4, HeadTailProperties
      <3>2. \A i \in Index : pending'[i] # NoItem => pending'[i].index = i
        BY <2>1, <2>4, <3>1 DEF Ordered, Result
      <3>3. QED
        BY <2>2, <2>4, <3>2 DEF Ordered
    <2>5. QED
      BY <1>3, <2>3, <2>4 DEF Receive
  <1>4. CASE WriteNext
    <2>1. /\ pending \in [Index -> Result \cup {NoItem}] /\ written \in Seq(Result)
          /\ nextIndex \in Index /\ pending[nextIndex] \in Result
          /\ pending[nextIndex].index = nextIndex /\ Len(written) = nextIndex
          /\ pending' = [pending EXCEPT ![nextIndex] = NoItem]
          /\ nextIndex' = nextIndex + 1
      BY <1>4 DEF WriteNext, Turn, Typing, TypeOK, Ordered
    <2>2. \A i \in Index : pending'[i] # NoItem => pending'[i].index = i
      BY <2>1 DEF Ordered
    <2>3. CASE /\ written' = Append(written, pending[nextIndex])
               /\ UNCHANGED <<main, pipelineErr, workersCancelled>>
      <3>1. /\ Len(written') = nextIndex + 1
            /\ \A k \in 1 .. Len(written) : written'[k] = written[k]
            /\ written'[Len(written) + 1] = pending[nextIndex]
        BY <2>1, <2>3, AppendProperties
      <3>2. \A k \in 1 .. Len(written') : written'[k].index = k - 1
        <4> SUFFICES ASSUME NEW k \in 1 .. Len(written') PROVE written'[k].index = k - 1
          OBVIOUS
        <4>1. nextIndex \in Nat
          BY <2>1 DEF Index
        <4>2. k \in 1 .. Len(written) \/ k = Len(written) + 1
          BY <2>1, <3>1, <4>1
        <4>3. CASE k \in 1 .. Len(written)
          BY <3>1, <4>3 DEF Ordered
        <4>4. CASE k = Len(written) + 1
          BY <2>1, <3>1, <4>1, <4>4
        <4>5. QED
          BY <4>2, <4>3, <4>4
      <3>3. QED
        BY <2>1, <2>2, <2>3, <3>1, <3>2 DEF Ordered
    <2>4. CASE pipelineErr' = TRUE /\ main' = "receive" /\ UNCHANGED written
      BY <2>2, <2>4 DEF Ordered
    <2>5. QED
      BY <1>4, <2>3, <2>4 DEF WriteNext
  <1>5. CASE EmitReport
    BY <1>5 DEF EmitReport, Ordered
  <1>6. CASE DrainPending
    <2>1. pending \in [Index -> Result \cup {NoItem}]
      BY DEF Typing, TypeOK
    <2>2. PICK i \in Index : pending' = [pending EXCEPT ![i] = NoItem]
      BY <1>6 DEF DrainPending
    <2>3. UNCHANGED <<main, written, pipelineErr, nextIndex>>
      BY <1>6 DEF DrainPending, WriterFrame
    <2>4. QED
      BY <2>1, <2>2, <2>3 DEF Ordered
  <1>7. CASE OrderDone \/ PipelineEnd
    BY <1>1, <1>7 DEF OrderDone, PipelineEnd, Goto, Fail, WriterFrame, writerVars
  <1>8. CASE \/ Validate \/ Scan \/ OpenPartial \/ StartPipeline \/ CheckContext
             \/ Seal \/ Commit \/ Inspect
    BY <1>1, <1>8 DEF Validate, Scan, OpenPartial, StartPipeline, CheckContext, Seal,
         Commit, Inspect, Goto, Fail, writerVars, docVars
  <1>9. CASE EmitProgress
    BY <1>1, <1>9 DEF EmitProgress, EmitPhases, Goto, Fail, writerVars, docVars
  <1>10. CASE \/ EmitComplete \/ Return \/ SaveHistory \/ SendError \/ CloseEvents
    BY <1>1, <1>10 DEF EmitComplete, Return, AfterGenerate, SaveHistory, SendError,
         CloseEvents, writerVars, docVars
  <1>11. CASE Producer \/ CloseResults \/ \E w \in Workers : Worker(w)
    BY <1>2, <1>11 DEF Producer, StatFile, Acquire, WakeAcquire, SendJob, CloseResults,
         Worker, TakeJob, ProcessFile, SendResult, ProducerFrame, WorkerFrame, writerVars,
         docVars
  <1>12. CASE HandlerReceive \/ Disconnect \/ UNCHANGED vars
    BY <1>2, <1>12 DEF HandlerReceive, Disconnect, vars, writerVars, docVars
  <1>13. QED
    BY <1>3, <1>4, <1>5, <1>6, <1>7, <1>8, <1>9, <1>10, <1>11, <1>12
       DEF Next, Main, Finished

\* the document is in order, in every state
LEMMA AlwaysOrdered == Spec => []Ordered
  BY AlwaysTyping, OrderedInit, OrderedStep, PTL DEF Spec

-------------------------------------------------------------------------------
(* Publication.  Past its last check the pipeline has written everything;  *)
(* the rename comes after the document was closed; success is reported     *)
(* after the rename; and an end without the rename leaves no document.     *)

Complete ==
    /\ Len(written) = NumFiles
    /\ \A k \in 1 .. NumFiles : ~Placeholder(written[k])

Publication ==
    /\ main \in LatePhases => Complete
    /\ main \in {"commit", "inspect", "emitComplete"} => sealed
    /\ main \in {"inspect", "emitComplete"} => file = "published"
    /\ file = "published" =>
          Complete /\ sealed /\ main \in {"inspect", "emitComplete"} \cup EndPhases
    /\ outcome = "ok" => file = "published"
    /\ main \notin EndPhases => outcome = "none"

\* nothing is published in the initial state
LEMMA PublicationInit == Init => Publication
  BY DEF Init, Publication, LatePhases, EndPhases

\* the checks at the end of writeOrderedResults are passed only by a complete
\* document: no error, no cancellation, and as many results as files
LEMMA CheckedComplete ==
    Ordered /\ PlaceholdersNeedCancel /\ ~PipelineIncomplete => Complete
  BY DEF Ordered, PlaceholdersNeedCancel, NoPlaceholder, PipelineIncomplete, Complete

\* every step keeps what is published complete
LEMMA PublicationStep ==
    Ordered /\ PlaceholdersNeedCancel /\ Publication /\ [Next]_vars => Publication'
  <1> SUFFICES ASSUME Ordered, PlaceholdersNeedCancel, Publication, [Next]_vars
               PROVE  Publication'
    OBVIOUS
  <1> USE DEF Publication
  <1>1. CASE UNCHANGED <<main, written, sealed, file, outcome>>
    BY <1>1 DEF Complete
  <1>2. CASE Validate \/ Scan
    BY <1>2 DEF Validate, Scan, Goto, Fail, docVars, Complete, LatePhases, EndPhases
  <1>3. CASE EmitProgress
    BY <1>3 DEF EmitProgress, EmitPhases, Goto, Fail, docVars, Complete, LatePhases, EndPhases
  <1>4. CASE OpenPartial \/ StartPipeline
    BY <1>4 DEF OpenPartial, StartPipeline, Goto, Fail, docVars, Complete, LatePhases,
         EndPhases
  <1>5. CASE Receive \/ WriteNext \/ OrderDone \/ EmitReport
    BY <1>5 DEF Receive, WriteNext, OrderDone, EmitReport, WriterFrame, LatePhases, EndPhases
  <1>6. CASE DrainPending
    BY <1>1, <1>6 DEF DrainPending, WriterFrame
  <1>7. CASE PipelineEnd
    <2>1. UNCHANGED <<written, sealed, file>>
      BY <1>7 DEF PipelineEnd, WriterFrame
    <2>2. CASE PipelineIncomplete /\ Fail
      BY <1>7, <2>1, <2>2 DEF PipelineEnd, Fail, LatePhases, EndPhases
    <2>3. CASE ~PipelineIncomplete /\ Goto("check")
      <3>1. Complete'
        BY <2>1, <2>3, CheckedComplete DEF Complete
      <3>2. QED
        BY <1>7, <2>1, <2>3, <3>1 DEF PipelineEnd, Goto, LatePhases, EndPhases
    <2>4. QED
      BY <1>7, <2>2, <2>3 DEF PipelineEnd
  <1>8. CASE CheckContext \/ Inspect
    BY <1>8 DEF CheckContext, Inspect, Goto, Fail, docVars, Complete, LatePhases, EndPhases
  <1>9. CASE Seal \/ Commit
    BY <1>9 DEF Seal, Commit, Goto, Fail, Complete, LatePhases, EndPhases
  <1>10. CASE EmitComplete
    BY <1>10 DEF EmitComplete, docVars, Complete, LatePhases, EndPhases
  <1>11. CASE Return
    BY <1>11 DEF Return, AfterGenerate, Cleanup, callVars, Complete, LatePhases, EndPhases
  <1>12. CASE SaveHistory \/ SendError \/ CloseEvents
    BY <1>12 DEF SaveHistory, SendError, CloseEvents, docVars, callVars, Complete,
         LatePhases, EndPhases
  <1>13. CASE Producer \/ CloseResults \/ \E w \in Workers : Worker(w)
    BY <1>1, <1>13 DEF Producer, StatFile, Acquire, WakeAcquire, SendJob, CloseResults,
         Worker, TakeJob, ProcessFile, SendResult, ProducerFrame, WorkerFrame, docVars,
         callVars
  <1>14. CASE HandlerReceive \/ Disconnect \/ UNCHANGED vars
    BY <1>1, <1>14 DEF HandlerReceive, Disconnect, vars, docVars, callVars
  <1>15. QED
    BY <1>2, <1>3, <1>4, <1>5, <1>6, <1>7, <1>8, <1>9, <1>10, <1>11, <1>12, <1>13, <1>14
       DEF Next, Main, Finished

\* publication, in every state
LEMMA AlwaysPublication == Spec => []Publication
  BY AlwaysOrdered, AlwaysPlaceholders, PublicationInit, PublicationStep, PTL DEF Spec

\* A document under its final name is closed and holds every file of the
\* project once, in index order, and no placeholder of a cancelled run
\* (generator.go:146-188).
THEOREM PublishedIsComplete == Spec => []PublishedComplete
  <1>1. Ordered /\ Publication => PublishedComplete
    BY DEF Ordered, Publication, PublishedComplete, Complete, Placeholder
  <1>2. QED
    BY AlwaysOrdered, AlwaysPublication, <1>1, PTL

-------------------------------------------------------------------------------
(* Refinement.  The rename is Publish, the complete event (or its omission *)
(* when the client has left) is Succeed, an error return is GiveUp, and    *)
(* every other step stutters.                                              *)

\* what the refinement mapping shows of the document
Visible ==
    IF file = "published" /\ sealed
      THEN [i \in 1 .. Len(written) |->
              IF written[i].kind = "cancelled" THEN NumFiles ELSE written[i].index]
      ELSE <<>>

\* a published document is the whole of it
LEMMA VisibleWhole ==
    Ordered /\ Complete /\ file = "published" /\ sealed => Visible = Document!Whole
  BY DEF Ordered, Complete, Placeholder, Visible, Document!Whole

\* an initial state of the program is one of the abstract specification
LEMMA RefinesInit == Init => Document!Init
  BY DEF Init, Document!Init

\* what is visible changes with a published file only
LEMMA VisibleKept ==
    ASSUME \/ UNCHANGED <<written, sealed, file>>
           \/ file # "published" /\ file' # "published"
    PROVE  Visible' = Visible
  BY DEF Visible

\* a step that changes nothing visible and gives no answer is a stuttering
\* step, and one that answers with an error gives up
LEMMA QuietStep ==
    ASSUME Visible' = Visible,
           \/ UNCHANGED outcome
           \/ outcome = "none" /\ outcome' = "error"
    PROVE  [Document!Next]_(Document!vars)
  BY DEF Visible, Document!vars, Document!Next, Document!GiveUp

\* every step of the program is a step of the abstract specification
LEMMA RefinesStep ==
    Ordered /\ Publication /\ Publication' /\ [Next]_vars
      => [Document!Next]_(Document!vars)
  <1> SUFFICES ASSUME Ordered, Publication, Publication', [Next]_vars
               PROVE  [Document!Next]_(Document!vars)
    OBVIOUS
  <1> DEFINE Unpublished == file # "published" /\ file' # "published"
  <1> DEFINE Kept == UNCHANGED <<written, sealed, file>>
  <1> DEFINE Answer == UNCHANGED outcome \/ (outcome = "none" /\ outcome' = "error")
  <1>1. (Kept \/ Unpublished) /\ Answer => [Document!Next]_(Document!vars)
    BY VisibleKept, QuietStep
  <1> HIDE DEF Answer
  <1>2. CASE Validate \/ Scan \/ StartPipeline \/ CheckContext \/ Inspect
    BY <1>1, <1>2 DEF Validate, Scan, StartPipeline, CheckContext, Inspect, Goto, Fail,
         docVars, Publication, EndPhases, Answer
  <1>3. CASE EmitProgress
    BY <1>1, <1>3 DEF EmitProgress, EmitPhases, Goto, Fail, docVars, Publication, EndPhases,
         Answer
  <1>4. CASE OpenPartial \/ Seal
    BY <1>1, <1>4 DEF OpenPartial, Seal, Goto, Fail, Publication, EndPhases, Answer
  <1>5. CASE Receive \/ WriteNext \/ OrderDone \/ EmitReport \/ DrainPending
    BY <1>1, <1>5 DEF Receive, WriteNext, OrderDone, EmitReport, DrainPending, WriterFrame,
         Publication, EndPhases, Answer
  <1>6. CASE PipelineEnd
    BY <1>1, <1>6 DEF PipelineEnd, WriterFrame, Goto, Fail, Publication, EndPhases, Answer
  <1>7. CASE Commit
    <2>1. CASE Fail /\ UNCHANGED file
      BY <1>1, <1>7, <2>1 DEF Commit, Fail, Publication, EndPhases, Answer
    <2>2. CASE Goto("inspect") /\ file' = "published"
      <3>1. file # "published" /\ Complete /\ sealed /\ outcome = "none"
        BY <1>7 DEF Commit, Publication, LatePhases, EndPhases
      <3>2. UNCHANGED <<written, sealed, outcome>>
        BY <1>7, <2>2 DEF Commit, Goto
      <3>3. Visible = <<>>
        BY <3>1 DEF Visible
      <3>4. Visible' = Document!Whole
        <4>1. Visible' = [i \in 1 .. Len(written) |->
                IF written[i].kind = "cancelled" THEN NumFiles ELSE written[i].index]
          BY <2>2, <3>1, <3>2 DEF Visible
        <4>2. QED
          BY <3>1, <4>1 DEF Complete, Placeholder, Ordered, Document!Whole
      <3>5. Document!Publish
        BY <3>1, <3>2, <3>3, <3>4 DEF Document!Publish, Visible
      <3>6. QED
        BY <3>5 DEF Document!Next
    <2>3. QED
      BY <1>7, <2>1, <2>2 DEF Commit
  <1>8. CASE EmitComplete
    <2>1. file = "published" /\ Complete /\ sealed /\ outcome = "none"
      BY <1>8 DEF EmitComplete, Publication, LatePhases, EndPhases
    <2>2. Visible = Document!Whole /\ Visible' = Visible
      BY <1>8, <2>1, VisibleWhole, VisibleKept DEF EmitComplete, docVars
    <2>3. Document!Succeed
      BY <1>8, <2>1, <2>2 DEF EmitComplete, Document!Succeed, Visible
    <2>4. QED
      BY <2>3 DEF Document!Next
  <1>9. CASE Return
    <2>1. UNCHANGED outcome
      BY <1>9 DEF Return, callVars
    <2>2. Kept \/ Unpublished
      BY <1>9 DEF Return, Cleanup
    <2>3. QED
      BY <1>1, <2>1, <2>2 DEF Answer
  <1>10. CASE SaveHistory \/ SendError \/ CloseEvents
    BY <1>1, <1>10 DEF SaveHistory, SendError, CloseEvents, docVars, callVars, Answer
  <1>11. CASE Producer \/ CloseResults \/ \E w \in Workers : Worker(w)
    BY <1>1, <1>11 DEF Producer, StatFile, Acquire, WakeAcquire, SendJob, CloseResults,
         Worker, TakeJob, ProcessFile, SendResult, ProducerFrame, WorkerFrame, docVars,
         callVars, Answer
  <1>12. CASE HandlerReceive \/ Disconnect \/ UNCHANGED vars
    BY <1>1, <1>12 DEF HandlerReceive, Disconnect, vars, docVars, callVars, Answer
  <1>13. QED
    BY <1>2, <1>3, <1>4, <1>5, <1>6, <1>7, <1>8, <1>9, <1>10, <1>11, <1>12
       DEF Next, Main, Finished

\* Generate publishes its document atomically: whatever fails and whenever the
\* client leaves, what stands under the final name is nothing or the whole
\* document, and only a document that stands there is reported as a success.
THEOREM PublishesAtomically == Spec => ImplementsAtomicDocument
  <1>1. Ordered /\ Publication /\ Publication' /\ [Next]_vars
          => [Document!Next]_(Document!vars)
    BY RefinesStep
  <1>2. QED
    BY RefinesInit, <1>1, AlwaysOrdered, AlwaysPublication, PTL
       DEF Spec, ImplementsAtomicDocument, Document!Spec

-------------------------------------------------------------------------------
(* The verdict.  It is the last event, and it is queued once: by the        *)
(* complete event after the rename, or by the error event after a failure.  *)

\* neither sent to the client nor on the way to it
Undecided ==
    verdicts = <<>> /\ \A k \in 1 .. Len(events) : events[k] = "progress"

\* v was sent, or is the last event in the channel
Decided(v) ==
    \/ verdicts = <<v>> /\ \A k \in 1 .. Len(events) : events[k] = "progress"
    \/ /\ verdicts = <<>> /\ Len(events) > 0 /\ events[Len(events)] = v
       /\ \A k \in 1 .. (Len(events) - 1) : events[k] = "progress"

Verdict ==
    /\ main \in EndPhases <=> outcome # "none"
    /\ main = "save" => outcome = "ok"
    /\ main = "sendError" => outcome = "error"
    /\ outcome # "ok" => ~history
    /\ outcome = "none" \/ (outcome = "error" /\ main \in {"return", "sendError"}) => Undecided
    /\ outcome = "error" /\ main \in {"close", "done"} => Decided("error")
    /\ outcome = "ok" => Decided("complete") \/ (ctxDone /\ Undecided)
    /\ eventsClosed => main = "done"
    /\ handler = "returned" => eventsClosed /\ events = <<>>

\* another progress event decides nothing
LEMMA ProgressAppended ==
    ASSUME TypeOK, Undecided, events' = Append(events, "progress"), verdicts' = verdicts
    PROVE  Undecided'
  <1>1. /\ events \in Seq({"progress", "complete", "error"})
        /\ Len(events') = Len(events) + 1 /\ events'[Len(events) + 1] = "progress"
        /\ \A k \in 1 .. Len(events) : events'[k] = events[k]
    BY DEF TypeOK
  <1>2. Len(events) \in Nat
    BY <1>1
  <1>3. QED
    BY <1>1, <1>2 DEF Undecided

\* the first event that is not progress decides
LEMMA VerdictAppended ==
    ASSUME TypeOK, Undecided, NEW v \in {"complete", "error"},
           events' = Append(events, v), verdicts' = verdicts
    PROVE  Decided(v)'
  <1>1. /\ events \in Seq({"progress", "complete", "error"})
        /\ Len(events') = Len(events) + 1 /\ events'[Len(events) + 1] = v
        /\ \A k \in 1 .. Len(events) : events'[k] = events[k]
    BY DEF TypeOK
  <1>2. Len(events) \in Nat
    BY <1>1
  <1>3. QED
    BY <1>1, <1>2 DEF Undecided, Decided

\* what the handler passes on leaves the decision as it was
LEMMA Delivered ==
    ASSUME TypeOK, events # <<>>, events' = Tail(events),
           verdicts' = IF Head(events) = "progress" THEN verdicts
                       ELSE Append(verdicts, Head(events))
    PROVE  /\ Undecided => Undecided'
           /\ \A v \in {"complete", "error"} : Decided(v) => Decided(v)'
  <1>1. /\ events \in Seq({"progress", "complete", "error"})
        /\ Len(events) \in Nat \ {0} /\ Head(events) = events[1]
        /\ Len(events') = Len(events) - 1
        /\ \A k \in 1 .. Len(events') : events'[k] = events[k + 1]
    BY DEF TypeOK
  <1>2. Undecided => Undecided'
    BY <1>1 DEF Undecided
  <1>3. ASSUME NEW v \in {"complete", "error"}, Decided(v)
        PROVE  Decided(v)'
    <2>1. CASE verdicts = <<v>> /\ \A k \in 1 .. Len(events) : events[k] = "progress"
      BY <1>1, <2>1 DEF Decided
    <2>2. CASE /\ verdicts = <<>> /\ events[Len(events)] = v
               /\ \A k \in 1 .. (Len(events) - 1) : events[k] = "progress"
      <3>1. CASE Len(events) = 1
        <4>1. verdicts' = <<v>>
          BY <1>1, <2>2, <3>1
        <4>2. \A k \in 1 .. Len(events') : events'[k] = "progress"
          BY <1>1, <3>1
        <4>3. QED
          BY <4>1, <4>2, Zenon DEF Decided
      <3>2. CASE Len(events) > 1
        <4>1. verdicts' = <<>>
          BY <1>1, <2>2, <3>2
        <4>2. Len(events') > 0 /\ events'[Len(events')] = v
          BY <1>1, <2>2, <3>2
        <4>3. \A k \in 1 .. (Len(events') - 1) : events'[k] = "progress"
          BY <1>1, <2>2, <3>2
        <4>4. QED
          BY <4>1, <4>2, <4>3 DEF Decided
      <3>3. QED
        BY <1>1, <3>1, <3>2
    <2>3. QED
      BY <1>3, <2>1, <2>2 DEF Decided
  <1>4. QED
    BY <1>2, <1>3

\* nothing is decided in the initial state
LEMMA VerdictInit == Init => Verdict
  BY DEF Init, Verdict, Undecided, EndPhases

\* every step keeps the one verdict the one that fits
LEMMA VerdictStep == TypeOK /\ Verdict /\ [Next]_vars => Verdict'
  <1> SUFFICES ASSUME TypeOK, Verdict, [Next]_vars PROVE Verdict'
    OBVIOUS
  <1> DEFINE Wire == <<events, verdicts, eventsClosed, handler>>
  <1>0. ASSUME UNCHANGED Wire
        PROVE  /\ Undecided' <=> Undecided
               /\ \A v \in {"complete", "error"} : Decided(v)' <=> Decided(v)
    BY <1>0 DEF Undecided, Decided
  <1>1. CASE UNCHANGED Wire /\ UNCHANGED <<main, outcome, history, ctxDone>>
    BY <1>0, <1>1 DEF Verdict
\* phases before the end, without an event
  <1>2. ASSUME UNCHANGED Wire, UNCHANGED <<history, ctxDone>>, main \notin EndPhases,
               (Fail \/ (main' \notin EndPhases /\ UNCHANGED outcome))
        PROVE  Verdict'
    BY <1>0, <1>2 DEF Verdict, Fail, EndPhases
\* phases before the end that report progress
  <1>3. ASSUME events' = Append(events, "progress"), UNCHANGED <<verdicts, eventsClosed, handler>>,
               UNCHANGED <<history, ctxDone, outcome>>, main \notin EndPhases,
               main' \notin EndPhases
        PROVE  Verdict'
    <2>1. Undecided'
      BY <1>3, ProgressAppended DEF Verdict
    <2>2. QED
      BY <1>3, <2>1 DEF Verdict, EndPhases
  <1>4. CASE Validate \/ Scan \/ OpenPartial \/ StartPipeline
    BY <1>2, <1>4 DEF Validate, Scan, OpenPartial, StartPipeline, Goto, eventVars, clientVars,
         ctxVars, EndPhases
  <1>5. CASE EmitProgress
    BY <1>2, <1>3, <1>5 DEF EmitProgress, EmitPhases, Goto, clientVars, ctxVars, EndPhases
  <1>6. CASE Receive \/ WriteNext \/ OrderDone \/ DrainPending \/ PipelineEnd
    BY <1>2, <1>6 DEF Receive, WriteNext, OrderDone, DrainPending, PipelineEnd, Goto,
         WriterFrame, clientVars, ctxVars, EndPhases
  <1>7. CASE EmitReport
    BY <1>2, <1>3, <1>7 DEF EmitReport, WriterFrame, clientVars, EndPhases
  <1>8. CASE CheckContext \/ Seal \/ Commit \/ Inspect
    BY <1>2, <1>8 DEF CheckContext, Seal, Commit, Inspect, Goto, eventVars, clientVars, ctxVars,
         callVars, EndPhases
  <1>9. CASE EmitComplete
    <2>1. /\ outcome = "none" /\ Undecided /\ main' = "return" /\ outcome' = "ok"
          /\ UNCHANGED <<verdicts, eventsClosed, handler, history, ctxDone>>
      BY <1>9 DEF EmitComplete, Verdict, clientVars, ctxVars, EndPhases
    <2>2. Decided("complete")' \/ (ctxDone' /\ Undecided')
      BY <1>0, <1>9, <2>1, VerdictAppended DEF EmitComplete
    <2>3. QED
      BY <1>9, <2>1, <2>2 DEF EmitComplete, Verdict, EndPhases
  <1>10. CASE Return \/ SaveHistory \/ CloseEvents
    <2>1. CASE Return
      BY <1>0, <2>1 DEF Return, AfterGenerate, Verdict, EndPhases, callVars, eventVars,
           clientVars, TypeOK
    <2>2. CASE SaveHistory
      BY <1>0, <2>2 DEF SaveHistory, Verdict, EndPhases, eventVars, clientVars, ctxVars
    <2>3. CASE CloseEvents
      <3>1. /\ UNCHANGED <<events, verdicts, handler, history, outcome, ctxDone>>
            /\ main = "close" /\ main' = "done" /\ eventsClosed'
        BY <2>3 DEF CloseEvents, callVars, clientVars, ctxVars
      <3>2. /\ Undecided' <=> Undecided
            /\ \A v \in {"complete", "error"} : Decided(v)' <=> Decided(v)
        BY <3>1 DEF Undecided, Decided
      <3>3. QED
        BY <3>1, <3>2 DEF Verdict, EndPhases
    <2>4. QED
      BY <1>10, <2>1, <2>2, <2>3
  <1>11. CASE SendError
    <2>1. outcome = "error" /\ Undecided /\ main' = "close"
      BY <1>11 DEF SendError, Verdict
    <2>2. Decided("error")'
      BY <1>11, <2>1, VerdictAppended DEF SendError, clientVars
    <2>3. QED
      BY <1>11, <2>1, <2>2 DEF SendError, Verdict, EndPhases, callVars, clientVars, ctxVars
  <1>12. CASE HandlerReceive
    <2>1. UNCHANGED <<main, outcome, history, ctxDone, eventsClosed>>
      BY <1>12 DEF HandlerReceive, ctxVars, callVars
    <2>2. CASE events = <<>> /\ eventsClosed /\ UNCHANGED <<events, verdicts>>
      BY <2>1, <2>2 DEF Verdict, Undecided, Decided
    <2>3. CASE /\ events # <<>> /\ events' = Tail(events)
               /\ verdicts' = IF Head(events) = "progress" THEN verdicts
                              ELSE Append(verdicts, Head(events))
               /\ UNCHANGED handler
      BY <2>1, <2>3, Delivered DEF Verdict
    <2>4. QED
      BY <1>12, <2>2, <2>3 DEF HandlerReceive
  <1>13. CASE Disconnect
    BY <1>0, <1>13 DEF Disconnect, Verdict, eventVars, clientVars, callVars
  <1>14. CASE Producer \/ CloseResults \/ \E w \in Workers : Worker(w)
    BY <1>1, <1>14 DEF Producer, StatFile, Acquire, WakeAcquire, SendJob, CloseResults,
         Worker, TakeJob, ProcessFile, SendResult, ProducerFrame, WorkerFrame, ctxVars,
         callVars, eventVars, clientVars
  <1>15. CASE UNCHANGED vars
    BY <1>1, <1>15 DEF vars, ctxVars, callVars, eventVars, clientVars
  <1>16. QED
    BY <1>4, <1>5, <1>6, <1>7, <1>8, <1>9, <1>10, <1>11, <1>12, <1>13, <1>14, <1>15
       DEF Next, Main, Finished

\* the verdict, in every state
LEMMA AlwaysVerdict == Spec => []Verdict
  BY TypeCorrect, VerdictInit, VerdictStep, PTL DEF Spec

\* what the client hears is what the invariant says of the end of the call
LEMMA VerdictIsHonest ==
    ASSUME TypeOK, Verdict, Publication
    PROVE  VerdictHonest
  <1> DEFINE Heard(v) == verdicts = <<v>> \/ (verdicts = <<>> /\ events # <<>>)
  <1>1. /\ <<"complete">> # <<"error">> /\ <<"complete">> # <<>> /\ <<"error">> # <<>>
        /\ Len(<<"complete">>) = 1 /\ Len(<<"error">>) = 1 /\ Len(<<>>) = 0
    OBVIOUS
  <1>2. \A v \in {"complete", "error"} : Decided(v) => Heard(v)
    BY DEF Decided
  <1>3. Undecided => verdicts = <<>>
    BY DEF Undecided
  <1>4. handler = "returned" => main = "done" /\ outcome # "none" /\ events = <<>>
    BY DEF Verdict, EndPhases
  <1>5. CASE outcome = "none"
    BY <1>1, <1>3, <1>4, <1>5 DEF VerdictHonest, Verdict
  <1>6. CASE outcome = "ok"
    <2>1. file = "published" /\ (Decided("complete") \/ (ctxDone /\ Undecided))
      BY <1>6 DEF Verdict, Publication
    <2>2. verdicts \in {<<>>, <<"complete">>}
      BY <1>2, <1>3, <2>1
    <2>3. Len(verdicts) <= 1 /\ verdicts # <<"error">>
      <3>1. Len(verdicts) \in {0, 1} /\ verdicts # <<"error">>
        BY <1>1, <2>2, Zenon
      <3>2. \A n \in {0, 1} : n <= 1
        OBVIOUS
      <3>3. QED
        BY <3>1, <3>2, Zenon
    <2>4. handler = "returned" /\ ~ctxDone => verdicts # <<>>
      BY <1>1, <1>2, <1>4, <2>1
    <2>5. QED
      BY <2>1, <2>3, <2>4 DEF VerdictHonest
  <1>7. CASE outcome = "error"
    <2>1. main \in {"return", "sendError", "close", "done"} /\ ~history
      BY <1>7 DEF Verdict, EndPhases
    <2>2. Decided("error") \/ (main # "done" /\ Undecided)
      BY <1>7, <2>1 DEF Verdict
    <2>3. verdicts \in {<<>>, <<"error">>}
      BY <1>2, <1>3, <2>2
    <2>4. Len(verdicts) <= 1 /\ verdicts # <<"complete">>
      <3>1. Len(verdicts) \in {0, 1} /\ verdicts # <<"complete">>
        BY <1>1, <2>3, Zenon
      <3>2. \A n \in {0, 1} : n <= 1
        OBVIOUS
      <3>3. QED
        BY <3>1, <3>2, Zenon
    <2>5. handler = "returned" => verdicts # <<>>
      BY <1>1, <1>2, <1>4, <2>2
    <2>6. QED
      BY <1>7, <2>1, <2>4, <2>5 DEF VerdictHonest
  <1>8. QED
    BY <1>5, <1>6, <1>7 DEF TypeOK

\* The client hears one verdict that fits the document, and the history is
\* saved only for a published one (handlers.go:344-366).
THEOREM OneHonestVerdict == Spec => []VerdictHonest
  <1>1. TypeOK /\ Verdict /\ Publication => VerdictHonest
    BY VerdictIsHonest
  <1>2. QED
    BY TypeCorrect, AlwaysVerdict, AlwaysPublication, <1>1, PTL
-------------------------------------------------------------------------------
(* Custody.  A file's index lies in exactly one place on its way from the   *)
(* producer to the document, counted by Places: every step of the pipeline  *)
(* takes it out of one place and puts it into the next.                     *)

\* where the index i lies in a channel or in the document, and in whose hands
At(seq, i) == {k \in DOMAIN seq : seq[k].index = i}
Holders(i) == {w \in Workers : worker[w].item # NoItem /\ worker[w].item.index = i}
One(r, i)  == IF r.index = i THEN 1 ELSE 0

\* a channel holds an index finitely often
LEMMA AtFinite ==
    ASSUME NEW S, NEW seq \in Seq(S), NEW i
    PROVE  IsFiniteSet(At(seq, i)) /\ Cardinality(At(seq, i)) \in Nat
  <1>1. IsFiniteSet(1 .. Len(seq))
    BY FS_Interval
  <1>2. At(seq, i) \in SUBSET (1 .. Len(seq))
    BY DEF At
  <1>3. IsFiniteSet(At(seq, i))
    BY <1>1, <1>2, FS_Subset
  <1>4. QED
    BY <1>3, FS_CardinalityType

\* sending on a channel adds the index of what is sent
LEMMA CountAppend ==
    ASSUME NEW S, NEW seq \in Seq(S), NEW r \in S, NEW i
    PROVE  Cardinality(At(Append(seq, r), i)) = Cardinality(At(seq, i)) + One(r, i)
  <1> DEFINE n == Len(seq) + 1
  <1>1. /\ Len(seq) \in Nat /\ DOMAIN Append(seq, r) = 1 .. n /\ DOMAIN seq = 1 .. Len(seq)
        /\ Append(seq, r)[n] = r /\ \A k \in 1 .. Len(seq) : Append(seq, r)[k] = seq[k]
    BY AppendProperties
  <1>2. n \notin At(seq, i)
    BY <1>1 DEF At
  <1>3. At(Append(seq, r), i) = IF r.index = i THEN At(seq, i) \cup {n} ELSE At(seq, i)
    BY <1>1 DEF At
  <1>4. IsFiniteSet(At(seq, i)) /\ Cardinality(At(seq, i)) \in Nat
    BY AtFinite
  <1>5. Cardinality(At(seq, i) \cup {n}) = Cardinality(At(seq, i)) + 1
    BY <1>2, <1>4, FS_AddElement
  <1>6. QED
    BY <1>3, <1>4, <1>5 DEF One

\* receiving from a channel takes out the index of what is received
LEMMA CountTail ==
    ASSUME NEW S, NEW seq \in Seq(S), seq # <<>>, NEW i
    PROVE  Cardinality(At(seq, i)) = Cardinality(At(Tail(seq), i)) + One(Head(seq), i)
  <1> DEFINE Rest  == At(seq, i) \ {1}
             shift == [k \in At(Tail(seq), i) |-> k + 1]
  <1>1. /\ Len(seq) \in Nat \ {0} /\ DOMAIN seq = 1 .. Len(seq) /\ Head(seq) = seq[1]
        /\ Tail(seq) \in Seq(S)
        /\ DOMAIN Tail(seq) = 1 .. Len(seq) - 1
        /\ \A k \in 1 .. Len(seq) - 1 : Tail(seq)[k] = seq[k + 1]
    OBVIOUS
  <1>2. IsFiniteSet(At(seq, i)) /\ Cardinality(At(seq, i)) \in Nat
    BY AtFinite
  <1>3. IsFiniteSet(At(Tail(seq), i)) /\ Cardinality(At(Tail(seq), i)) \in Nat
    BY <1>1, AtFinite
  <1>4. \A k \in At(Tail(seq), i) : k \in Nat /\ k + 1 \in Rest
    BY <1>1 DEF At
  <1>5. \A k \in Rest : k - 1 \in At(Tail(seq), i) /\ shift[k - 1] = k
    BY <1>1 DEF At
  <1>6. shift \in Bijection(At(Tail(seq), i), Rest)
    <2>1. shift \in Injection(At(Tail(seq), i), Rest)
      BY <1>4 DEF Injection, IsInjective
    <2>2. shift \in Surjection(At(Tail(seq), i), Rest)
      BY <1>4, <1>5 DEF Surjection
    <2>3. QED
      BY <2>1, <2>2 DEF Bijection
  <1>7. Cardinality(Rest) = Cardinality(At(Tail(seq), i))
    BY <1>3, <1>6, FS_Bijection DEF ExistsBijection
  <1>8. Cardinality(Rest) = IF 1 \in At(seq, i) THEN Cardinality(At(seq, i)) - 1
                                               ELSE Cardinality(At(seq, i))
    BY <1>2, FS_RemoveElement
  <1>9. 1 \in At(seq, i) <=> Head(seq).index = i
    BY <1>1 DEF At
  <1>10. QED
    BY <1>2, <1>3, <1>7, <1>8, <1>9 DEF One

\* what a worker's hands count for
InHands(state, i) == IF state.item = NoItem THEN 0 ELSE One(state.item, i)

\* the hands of the workers are finitely many
LEMMA HoldersFinite ==
    ASSUME NEW i
    PROVE  IsFiniteSet(Holders(i)) /\ Cardinality(Holders(i)) \in Nat
  <1>1. Holders(i) \in SUBSET Workers
    BY DEF Holders
  <1>2. IsFiniteSet(Holders(i))
    BY <1>1, WorkersAssumption, FS_Subset
  <1>3. QED
    BY <1>2, FS_CardinalityType

\* a worker that changes hands changes the count by the difference
LEMMA CountHands ==
    ASSUME TypeOK, NEW w \in Workers, NEW state, worker' = [worker EXCEPT ![w] = state], NEW i
    PROVE  Cardinality(Holders(i)') + InHands(worker[w], i)
             = Cardinality(Holders(i)) + InHands(state, i)
  <1> DEFINE Others == Holders(i) \ {w}
  <1>1. worker \in [Workers -> WorkerState]
    BY DEF TypeOK
  <1>2. IsFiniteSet(Holders(i)) /\ Cardinality(Holders(i)) \in Nat
    BY HoldersFinite
  <1>3. /\ IsFiniteSet(Others) /\ Cardinality(Others) \in Nat
        /\ Cardinality(Others) = IF w \in Holders(i) THEN Cardinality(Holders(i)) - 1
                                                    ELSE Cardinality(Holders(i))
    BY <1>2, FS_RemoveElement, FS_CardinalityType
  <1>4. w \in Holders(i) <=> InHands(worker[w], i) = 1
    BY DEF Holders, InHands, One
  <1>5. Holders(i)' = IF InHands(state, i) = 1 THEN Others \cup {w} ELSE Others
    BY <1>1 DEF Holders, InHands, One
  <1>6. Cardinality(Others \cup {w}) = Cardinality(Others) + 1
    BY <1>3, FS_AddElement
  <1>7. InHands(state, i) \in {0, 1} /\ InHands(worker[w], i) \in {0, 1}
    BY DEF InHands, One
  <1>8. QED
    BY <1>2, <1>3, <1>4, <1>5, <1>6, <1>7

\* only a worker at work has something in its hands
EmptyHands ==
    \A w \in Workers : worker[w].pc \notin {"process", "send"} => worker[w].item = NoItem

\* how far the pipeline has got when nothing has been cancelled
Progress ==
    /\ pipelineErr => workersCancelled
    /\ main \in EarlyPhases => prod.pc = "idle" /\ prod.next = 0
    /\ jobsClosed <=> prod.pc = "done"
    /\ main = "drain" => results = <<>>
    /\ ~WorkDone =>
         /\ prod.pc = "done" => prod.next = NumFiles
         /\ \A w \in Workers : worker[w].pc = "exit" => jobsClosed /\ jobs = <<>>
         /\ main # "order" => ~Turn

\* no index has been queued in the initial state
LEMMA ProgressInit == Init => EmptyHands /\ Progress
  BY DEF Init, EmptyHands, Progress, Turn, WorkDone, Index

\* a worker that changes hands keeps the hands of those at rest empty
LEMMA EmptyHandsUpdate ==
    ASSUME TypeOK, EmptyHands, NEW w \in Workers, NEW state,
           state.pc \notin {"process", "send"} => state.item = NoItem,
           worker' = [worker EXCEPT ![w] = state]
    PROVE  EmptyHands'
  BY DEF TypeOK, EmptyHands

\* every step leaves the hands of the workers at rest empty
LEMMA EmptyHandsStep == Typing /\ EmptyHands /\ [Next]_vars => EmptyHands'
  <1> SUFFICES ASSUME Typing, EmptyHands, [Next]_vars PROVE EmptyHands'
    OBVIOUS
  <1>1. UNCHANGED worker => EmptyHands'
    BY DEF EmptyHands
  <1>2. ASSUME NEW w \in Workers, Worker(w) PROVE EmptyHands'
    <2>1. CASE TakeJob(w)
      BY <2>1, EmptyHandsUpdate DEF TakeJob, Typing
    <2>2. CASE ProcessFile(w)
      BY <2>2, EmptyHandsUpdate DEF ProcessFile, Typing
    <2>3. CASE SendResult(w)
      BY <2>3, EmptyHandsUpdate DEF SendResult, Typing
    <2>4. QED
      BY <1>2, <2>1, <2>2, <2>3 DEF Worker
  <1>3. CASE StartPipeline
    BY <1>1, <1>3 DEF StartPipeline, EmptyHands
  <1>4. CASE Producer \/ CloseResults
    BY <1>1, <1>4 DEF Producer, StatFile, Acquire, WakeAcquire, SendJob, CloseResults,
         ProducerFrame
  <1>5. CASE Receive \/ WriteNext \/ OrderDone \/ EmitReport \/ DrainPending \/ PipelineEnd
    BY <1>1, <1>5 DEF Receive, WriteNext, OrderDone, EmitReport, DrainPending, PipelineEnd,
         WriterFrame
  <1>6. CASE \/ Validate \/ EmitProgress \/ Scan \/ OpenPartial \/ CheckContext
             \/ Seal \/ Commit \/ Inspect \/ EmitComplete
             \/ Return \/ SaveHistory \/ SendError \/ CloseEvents
    BY <1>1, <1>6 DEF Validate, EmitProgress, Scan, OpenPartial, CheckContext, Seal, Commit,
         Inspect, EmitComplete, Return, SaveHistory, SendError, CloseEvents, poolVars
  <1>7. CASE HandlerReceive \/ Disconnect \/ UNCHANGED vars
    BY <1>1, <1>7 DEF HandlerReceive, Disconnect, vars, poolVars
  <1>8. QED
    BY <1>2, <1>3, <1>4, <1>5, <1>6, <1>7 DEF Next, Main, Finished

\* every step that cancels nothing keeps the account of the progress
LEMMA ProgressStep ==
    Typing /\ Lifetimes /\ Progress /\ [Next]_vars => Progress'
  <1> SUFFICES ASSUME Typing, Lifetimes, Progress, [Next]_vars PROVE Progress'
    OBVIOUS
  <1> DEFINE Kept   == UNCHANGED <<prod, jobs, jobsClosed, worker, results>>
             Writer == UNCHANGED <<ctxDone, workersCancelled, pipelineErr, nextIndex, pending>>
  <1>1. ASSUME Kept, Writer, main' \notin EarlyPhases \/ main \in EarlyPhases,
               main # "order", main' # "drain" \/ UNCHANGED main
        PROVE  Progress'
    BY <1>1 DEF Progress, WorkDone, Turn
  <1>2. CASE StatFile \/ Acquire
    <2>1. /\ UNCHANGED <<main, ctxDone, workersCancelled, pipelineErr, nextIndex, pending,
                         jobs, jobsClosed, worker, results>>
          /\ prod.pc \in {"stat", "acquire"} /\ prod'.pc # "done"
      BY <1>2 DEF StatFile, Acquire, ProducerFrame, ctxVars, writerVars, jobVars, resultVars,
           Typing, TypeOK, ProducerState
    <2>2. main \notin EarlyPhases
      BY <2>1 DEF Progress
    <2>3. QED
      BY <2>1, <2>2 DEF Progress, WorkDone, Turn
  <1>3. CASE WakeAcquire
    BY <1>3 DEF WakeAcquire, ProducerFrame, ctxVars, writerVars, jobVars, resultVars,
         Progress, WorkDone, Turn, Typing, TypeOK, ProducerState
  <1>4. CASE SendJob
    <2>1. /\ UNCHANGED <<main, ctxDone, workersCancelled, pipelineErr, nextIndex, pending,
                         worker, results>>
          /\ ~jobsClosed /\ prod.next \in Index /\ prod.pc = "send"
      BY <1>4 DEF SendJob, ProducerFrame, ctxVars, writerVars, resultVars, Progress, Typing
    <2>2. main \notin EarlyPhases
      BY <2>1 DEF Progress
    <2>3. (prod.next + 1 = NumFiles) <=> ~(prod.next + 1 < NumFiles)
      BY <2>1 DEF Index
    <2>4. CASE /\ jobsClosed' = (prod.next + 1 = NumFiles)
               /\ prod' = [pc   |-> IF prod.next + 1 < NumFiles THEN "stat" ELSE "done",
                           next |-> prod.next + 1, mem |-> 0]
      BY <2>1, <2>2, <2>3, <2>4 DEF Progress, WorkDone, Turn
    <2>5. CASE WorkDone /\ prod' = [prod EXCEPT !.pc = "done"] /\ jobsClosed' = TRUE
      BY <2>1, <2>2, <2>5 DEF Progress, WorkDone, Turn, Typing, TypeOK, ProducerState
    <2>6. QED
      BY <1>4, <2>4, <2>5 DEF SendJob
  <1>5. ASSUME NEW w \in Workers, Worker(w) PROVE Progress'
    <2>1. /\ UNCHANGED <<main, ctxDone, workersCancelled, pipelineErr, nextIndex, pending,
                         prod, jobsClosed>>
          /\ worker[w].pc # "exit" /\ worker \in [Workers -> WorkerState]
      BY <1>5 DEF Worker, TakeJob, ProcessFile, SendResult, WorkerFrame, ctxVars, writerVars,
           jobVars, Typing, TypeOK
    <2>2. main # "drain"
      BY <2>1 DEF Lifetimes
    <2>3. \A v \in Workers : worker'[v].pc = "exit" =>
             WorkDone \/ v # w \/ (jobs' = <<>> /\ jobsClosed')
      BY <1>5, <2>1 DEF Worker, TakeJob, ProcessFile, SendResult
    <2>4. \A v \in Workers : v # w => worker'[v] = worker[v]
      BY <1>5, <2>1 DEF Worker, TakeJob, ProcessFile, SendResult
    <2>5. jobs = <<>> => jobs' = jobs
      BY <1>5 DEF Worker, TakeJob, ProcessFile, SendResult, jobVars
    <2>6. QED
      BY <2>1, <2>2, <2>3, <2>4, <2>5 DEF Progress, WorkDone, Turn
  <1>6. CASE CloseResults
    BY <1>6 DEF CloseResults, WorkerFrame, ctxVars, writerVars, jobVars, Progress, WorkDone,
         Turn
  <1>7. CASE \/ Validate \/ Scan \/ EmitProgress \/ OpenPartial \/ CheckContext \/ Seal
             \/ Commit \/ Inspect \/ EmitComplete \/ SaveHistory \/ SendError \/ CloseEvents
    <2>1. Kept /\ Writer
      BY <1>7 DEF Validate, Scan, EmitProgress, OpenPartial, CheckContext, Seal, Commit,
           Inspect, EmitComplete, SaveHistory, SendError, CloseEvents, ctxVars, writerVars,
           poolVars, jobVars, resultVars
    <2>2. /\ main # "order" /\ main' # "drain"
          /\ main' \notin EarlyPhases \/ main \in EarlyPhases
      BY <1>7 DEF Validate, Scan, EmitProgress, OpenPartial, CheckContext, Seal, Commit,
           Inspect, EmitComplete, SaveHistory, SendError, CloseEvents, EmitPhases, Goto,
           Fail, EarlyPhases
    <2>3. QED
      BY <1>1, <2>1, <2>2
  <1>8. CASE StartPipeline
    BY <1>8 DEF StartPipeline, Goto, Fail, ctxVars, writerVars, jobVars, resultVars,
         EarlyPhases, Progress, WorkDone, Turn
  <1>9. CASE Return
    BY <1>9 DEF Return, AfterGenerate, writerVars, poolVars, jobVars, resultVars, EarlyPhases,
         Progress, WorkDone
  <1>10. CASE Receive
    <2>1. /\ UNCHANGED <<ctxDone, workersCancelled, pipelineErr, nextIndex, prod, jobs,
                         jobsClosed, worker>>
          /\ main = "receive" /\ main' \in {"receive", "order", "drain"}
          /\ main' = "receive" => UNCHANGED pending /\ pipelineErr
          /\ main' = "drain" => UNCHANGED pending /\ results' = <<>>
      BY <1>10 DEF Receive, WriterFrame, ctxVars, jobVars
    <2>2. QED
      BY <2>1 DEF Progress, WorkDone, Turn, EarlyPhases
  <1>11. CASE WriteNext
    <2>1. /\ UNCHANGED <<ctxDone, prod, jobs, jobsClosed, worker, results>>
          /\ main = "order"
      BY <1>11 DEF WriteNext, WriterFrame, jobVars
    <2>2. CASE UNCHANGED <<main, pipelineErr, workersCancelled>>
      BY <2>1, <2>2 DEF Progress, WorkDone, EarlyPhases
    <2>3. CASE pipelineErr' = TRUE /\ workersCancelled' = TRUE /\ main' = "receive"
      BY <2>1, <2>3 DEF Progress, WorkDone, EarlyPhases
    <2>4. QED
      BY <1>11, <2>2, <2>3 DEF WriteNext
  <1>12. CASE OrderDone
    BY <1>12 DEF OrderDone, WriterFrame, ctxVars, writerVars, jobVars, EarlyPhases, Progress,
         WorkDone, Turn
  <1>13. CASE EmitReport
    BY <1>13 DEF EmitReport, WriterFrame, jobVars, EarlyPhases, Progress, WorkDone, Turn
  <1>14. CASE DrainPending
    <2>1. /\ UNCHANGED <<ctxDone, workersCancelled, pipelineErr, nextIndex, prod, jobs,
                         jobsClosed, worker, results, main>>
          /\ main = "drain" /\ \E i \in Index : pending' = [pending EXCEPT ![i] = NoItem]
      BY <1>14 DEF DrainPending, WriterFrame, ctxVars, jobVars
    <2>2. Turn' => Turn
      BY <2>1 DEF Turn, Typing, TypeOK
    <2>3. QED
      BY <2>1, <2>2 DEF Progress, WorkDone
  <1>15. CASE PipelineEnd
    BY <1>15 DEF PipelineEnd, WriterFrame, Goto, Fail, ctxVars, writerVars, jobVars,
         EarlyPhases, Progress, WorkDone, Turn
  <1>16. CASE HandlerReceive
    BY <1>16 DEF HandlerReceive, ctxVars, writerVars, poolVars, jobVars, resultVars, Progress,
         WorkDone, Turn
  <1>17. CASE Disconnect
    BY <1>17 DEF Disconnect, writerVars, poolVars, jobVars, resultVars, Progress, WorkDone
  <1>18. CASE UNCHANGED vars
    BY <1>18 DEF vars, ctxVars, writerVars, poolVars, jobVars, resultVars, Progress, WorkDone,
         Turn
  <1>19. QED
    BY <1>2, <1>3, <1>4, <1>5, <1>6, <1>7, <1>8, <1>9, <1>10, <1>11, <1>12, <1>13, <1>14,
       <1>15, <1>16, <1>17, <1>18 DEF Next, Main, Producer, Finished

\* the places of an index before and after a step, in these terms
LEMMA PlacesOf ==
    ASSUME TypeOK, TypeOK', NEW i \in Index
    PROVE  /\ Places(i) = Cardinality(At(jobs, i)) + Cardinality(At(results, i))
                          + Cardinality(At(written, i)) + Cardinality(Holders(i))
                          + (IF pending[i] = NoItem THEN 0 ELSE 1)
           /\ Places(i)' = Cardinality(At(jobs', i)) + Cardinality(At(results', i))
                           + Cardinality(At(written', i)) + Cardinality(Holders(i)')
                           + (IF pending'[i] = NoItem THEN 0 ELSE 1)
           /\ \A q \in {jobs, results, written, jobs', results', written'} :
                 Cardinality(At(q, i)) \in Nat
           /\ Cardinality(Holders(i)) \in Nat /\ Cardinality(Holders(i)') \in Nat
  <1>1. /\ Cardinality(At(jobs, i)) \in Nat /\ Cardinality(At(jobs', i)) \in Nat
        /\ Cardinality(At(results, i)) \in Nat /\ Cardinality(At(results', i)) \in Nat
        /\ Cardinality(At(written, i)) \in Nat /\ Cardinality(At(written', i)) \in Nat
    BY AtFinite DEF TypeOK
  <1>2. Cardinality(Holders(i)) \in Nat
    BY HoldersFinite
  <1>3. Cardinality(Holders(i)') \in Nat
    <2>1. Holders(i)' \in SUBSET Workers
      BY DEF Holders
    <2>2. QED
      BY <2>1, WorkersAssumption, FS_Subset, FS_CardinalityType
  <1>4. Places(i) = Cardinality(At(jobs, i)) + Cardinality(At(results, i))
                    + Cardinality(At(written, i)) + Cardinality(Holders(i))
                    + (IF pending[i] = NoItem THEN 0 ELSE 1)
    BY Zenon DEF Places, At, Holders
  <1>5. Places(i)' = Cardinality(At(jobs', i)) + Cardinality(At(results', i))
                     + Cardinality(At(written', i)) + Cardinality(Holders(i)')
                     + (IF pending'[i] = NoItem THEN 0 ELSE 1)
    BY Zenon DEF Places, At, Holders
  <1>6. QED
    BY <1>1, <1>2, <1>3, <1>4, <1>5

Custody ==
    \A i \in Index :
        /\ Places(i) \in {0, 1}
        /\ i >= prod.next => Places(i) = 0
        /\ ~WorkDone /\ i < prod.next => Places(i) = 1

\* no index is anywhere in the initial state
LEMMA CustodyInit == Init => Custody
  <1> SUFFICES ASSUME Init PROVE Custody
    OBVIOUS
  <1>1. ASSUME NEW i \in Index PROVE Places(i) = 0
    <2>1. /\ At(jobs, i) = {} /\ At(results, i) = {} /\ At(written, i) = {}
          /\ Holders(i) = {} /\ pending[i] = NoItem
      BY DEF Init, At, Holders
    <2>2. Cardinality({}) = 0
      BY FS_EmptySet
    <2>3. Places(i) = Cardinality(At(jobs, i)) + Cardinality(At(results, i))
                      + Cardinality(At(written, i)) + Cardinality(Holders(i))
                      + (IF pending[i] = NoItem THEN 0 ELSE 1)
      BY Zenon DEF Places, At, Holders
    <2>4. QED
      BY <2>1, <2>2, <2>3
  <1>2. prod.next = 0 /\ \A i \in Index : i \in Nat
    BY DEF Init, Index
  <1>3. QED
    BY <1>1, <1>2 DEF Custody

\* when nothing was cancelled, nothing is left pending at the end of the loop
LEMMA NothingLeftPending ==
    ASSUME Typing, Lifetimes, Ordered, EmptyHands, Progress, Custody,
           main = "drain", ~WorkDone, NEW i \in Index
    PROVE  pending[i] = NoItem
  <1>1. \A w \in Workers : worker[w].pc = "exit"
    BY DEF Lifetimes
  <1>2. jobs = <<>> /\ results = <<>> /\ prod.next = NumFiles
    BY <1>1, WorkersAssumption DEF Progress
  <1>3. \A j : Holders(j) = {} /\ At(<<>>, j) = {}
    BY <1>1 DEF EmptyHands, Holders, At
  <1>4. ASSUME NEW j \in Index
        PROVE  /\ Cardinality(At(written, j)) \in Nat /\ IsFiniteSet(At(written, j))
               /\ Cardinality(At(written, j)) + (IF pending[j] = NoItem THEN 0 ELSE 1) = 1
    <2>1. Cardinality(At(written, j)) \in Nat /\ IsFiniteSet(At(written, j))
      BY AtFinite DEF Typing, TypeOK
    <2>2. Places(j) = Cardinality(At(jobs, j)) + Cardinality(At(results, j))
                      + Cardinality(At(written, j)) + Cardinality(Holders(j))
                      + (IF pending[j] = NoItem THEN 0 ELSE 1)
      BY Zenon DEF Places, At, Holders
    <2>3. Places(j) = 1
      BY <1>2 DEF Custody, Index
    <2>4. At(jobs, j) = {} /\ At(results, j) = {} /\ Holders(j) = {}
      BY <1>2, <1>3
    <2>5. Cardinality({}) = 0
      BY FS_EmptySet
    <2>6. QED
      BY <2>1, <2>2, <2>3, <2>4, <2>5
  <1>5. written \in Seq(Result) /\ Len(written) \in Nat /\ Len(written) = nextIndex
        /\ DOMAIN written = 1 .. Len(written)
    BY DEF Typing, TypeOK, Ordered, Progress, WorkDone
  <1>6. nextIndex >= NumFiles
    <2> SUFFICES ASSUME nextIndex < NumFiles PROVE FALSE
      BY <1>5
    <2>1. nextIndex \in Index /\ pending[nextIndex] = NoItem
      BY <1>5 DEF Progress, Turn, Index
    <2>2. At(written, nextIndex) = {}
      BY <1>5 DEF At, Ordered
    <2>3. QED
      BY <1>4, <2>1, <2>2, FS_EmptySet
  <1>7. i + 1 \in At(written, i)
    BY <1>5, <1>6 DEF At, Ordered, Index
  <1>8. Cardinality(At(written, i)) # 0
    BY <1>4, <1>7, FS_EmptySet
  <1>9. QED
    BY <1>4, <1>8

\* every step takes an index out of one place and puts it into the next
LEMMA CustodyStep ==
    Typing /\ Lifetimes /\ Ordered /\ EmptyHands /\ Progress /\ Custody /\ [Next]_vars
      => Custody'
  <1> SUFFICES ASSUME Typing, Lifetimes, Ordered, EmptyHands, Progress, Custody, [Next]_vars
               PROVE  Custody'
    OBVIOUS
  <1> DEFINE Chain == <<jobs, results, written, worker, pending>>
             Same(i) == Places(i)' = Places(i)
  <1>1. TypeOK /\ TypeOK' /\ (WorkDone => WorkDone') /\ prod.next \in Nat
    BY TypingStep, WorkDoneStable DEF Typing, TypeOK, ProducerState
  <1>2. ASSUME \A i \in Index : Same(i), prod'.next = prod.next PROVE Custody'
    BY <1>1, <1>2 DEF Custody
  <1>3. ASSUME UNCHANGED Chain, prod'.next = prod.next PROVE Custody'
    BY <1>2, <1>3 DEF Places
  \* something is given up, once the pipeline is cancelled
  <1>4. ASSUME WorkDone', prod'.next = prod.next, NEW r, Places(r.index) > 0,
               \A i \in Index : Places(i)' + One(r, i) = Places(i)
        PROVE  Custody'
    <2> SUFFICES ASSUME NEW i \in Index
                 PROVE  Places(i)' \in {0, 1} /\ (i >= prod.next => Places(i)' = 0)
      BY <1>4 DEF Custody
    <2>1. /\ Places(i) \in {0, 1} /\ (i >= prod.next => Places(i) = 0)
          /\ Places(i)' \in Int
          /\ Places(i)' + One(r, i) = Places(i)
      BY <1>1, <1>4, PlacesOf DEF Custody
    <2>2. One(r, i) = 1 => Places(i) = 1
      BY <1>4, <2>1 DEF One
    <2>3. One(r, i) \in {0, 1}
      BY DEF One
    <2>4. QED
      BY <2>1, <2>2, <2>3
  <1>5. CASE StatFile \/ Acquire \/ WakeAcquire
    BY <1>1, <1>3, <1>5 DEF StatFile, Acquire, WakeAcquire, ProducerFrame, writerVars, docVars,
         jobVars, resultVars, TypeOK, ProducerState
  <1>6. CASE SendJob
    <2>1. UNCHANGED <<results, written, worker, pending>> /\ prod.next \in Index
      BY <1>6 DEF SendJob, ProducerFrame, writerVars, docVars, resultVars, Typing
    <2>2. CASE UNCHANGED jobs /\ prod' = [prod EXCEPT !.pc = "done"]
      BY <1>1, <1>3, <2>1, <2>2 DEF TypeOK, ProducerState
    <2> DEFINE job == [index |-> prod.next, mem |-> prod.mem]
    <2>3. CASE jobs' = Append(jobs, job) /\ prod'.next = prod.next + 1
      <3>1. jobs \in Seq(Job) /\ job \in Job /\ job.index = prod.next
        BY <2>1 DEF TypeOK, ProducerState, Job, Typing
      <3> HIDE DEF job
      <3>2. ASSUME NEW i \in Index
            PROVE  Places(i)' = Places(i) + One(job, i)
        <4>1. Cardinality(At(jobs', i)) = Cardinality(At(jobs, i)) + One(job, i)
          BY <2>3, <3>1, CountAppend
        <4>2. Holders(i)' = Holders(i)
          BY <2>1 DEF Holders
        <4>3. One(job, i) \in Nat
          BY DEF One
        <4>4. QED
          BY <1>1, <2>1, <4>1, <4>2, <4>3, PlacesOf
      <3>3. SUFFICES ASSUME NEW i \in Index
                     PROVE  /\ Places(i)' \in {0, 1}
                            /\ i >= prod.next + 1 => Places(i)' = 0
                            /\ ~WorkDone' /\ i < prod.next + 1 => Places(i)' = 1
        BY <2>3 DEF Custody
      <3>4. /\ Places(i)' = Places(i) + One(job, i) /\ i \in Nat /\ prod.next \in Nat
            /\ One(job, i) = IF i = prod.next THEN 1 ELSE 0
        BY <2>1, <3>1, <3>2 DEF One, Index
      <3>5. /\ Places(i) \in {0, 1} /\ (i >= prod.next => Places(i) = 0)
            /\ (~WorkDone' /\ i < prod.next => Places(i) = 1)
        BY <1>1 DEF Custody
      <3>6. QED
        BY <3>4, <3>5
    <2>4. QED
      BY <1>6, <2>2, <2>3 DEF SendJob
  <1>7. ASSUME NEW w \in Workers, TakeJob(w) PROVE Custody'
    <2>1. UNCHANGED <<results, written, pending, prod>> /\ worker[w].item = NoItem
      BY <1>7 DEF TakeJob, WorkerFrame, writerVars, docVars, resultVars, EmptyHands
    <2>2. PICK pc, item : /\ worker' = [worker EXCEPT ![w] = [pc |-> pc, item |-> item]]
                          /\ \/ jobs # <<>> /\ jobs' = Tail(jobs) /\ item = Head(jobs)
                             \/ UNCHANGED jobs /\ item = NoItem
      <3>1. CASE jobs = <<>>
        BY <1>7, <3>1 DEF TakeJob
      <3>2. CASE jobs # <<>>
        BY <1>7, <3>2 DEF TakeJob
      <3>3. QED
        BY <3>1, <3>2
    <2> DEFINE state == [pc |-> pc, item |-> item]
    <2>3. ASSUME NEW i \in Index PROVE Same(i)
      <3>1. Cardinality(Holders(i)') = Cardinality(Holders(i)) + InHands(state, i)
        <4>1. Cardinality(Holders(i)') + InHands(worker[w], i)
                = Cardinality(Holders(i)) + InHands(state, i)
          BY <1>1, <2>2, CountHands
        <4>2. QED
          BY <1>1, <2>1, <4>1, PlacesOf DEF InHands
      <3>2. Cardinality(At(jobs', i)) + InHands(state, i) = Cardinality(At(jobs, i))
        <4>1. CASE UNCHANGED jobs /\ state.item = NoItem
          BY <1>1, <4>1, PlacesOf DEF InHands
        <4>2. CASE jobs # <<>> /\ jobs' = Tail(jobs) /\ state.item = Head(jobs)
          <5>1. jobs \in Seq(Job) /\ Head(jobs) # NoItem
            BY <4>2, NoItemAssumption DEF TypeOK, Typing
          <5>2. Cardinality(At(jobs, i)) = Cardinality(At(jobs', i)) + One(Head(jobs), i)
            BY <4>2, <5>1, CountTail
          <5>3. QED
            BY <4>2, <5>1, <5>2 DEF InHands
        <4>3. QED
          BY <2>2, <4>1, <4>2
      <3>3. InHands(state, i) \in Nat
        BY DEF InHands, One
      <3>4. QED
        BY <1>1, <2>1, <3>1, <3>2, <3>3, PlacesOf
    <2>4. QED
      BY <1>2, <2>1, <2>3
  <1>8. ASSUME NEW w \in Workers, ProcessFile(w) PROVE Custody'
    <2>1. UNCHANGED <<jobs, results, written, pending, prod>> /\ worker[w].item \in Job
      BY <1>8 DEF ProcessFile, WorkerFrame, writerVars, docVars, jobVars, resultVars, Typing,
           HandsTyped
    <2>2. PICK state : /\ worker' = [worker EXCEPT ![w] = state]
                       /\ state.item.index = worker[w].item.index
                       /\ state.item \in Result
      <3>1. PICK kind \in Kinds, kept \in {worker[w].item.mem, 0} :
               worker' = [worker EXCEPT ![w] =
                 [pc |-> "send", item |-> [index |-> worker[w].item.index,
                                           kind |-> kind, mem |-> kept]]]
        BY <1>8 DEF ProcessFile, Kinds
      <3> DEFINE state == [pc |-> "send", item |-> [index |-> worker[w].item.index,
                                                    kind |-> kind, mem |-> kept]]
      <3>2. state.item.index = worker[w].item.index /\ state.item \in Result
        BY <2>1 DEF Job, Result
      <3> HIDE DEF state
      <3>3. worker' = [worker EXCEPT ![w] = state]
        BY <3>1 DEF state
      <3>4. QED
        BY <3>2, <3>3
    <2>3. ASSUME NEW i \in Index PROVE Same(i)
      <3>1. Cardinality(Holders(i)') + InHands(worker[w], i)
              = Cardinality(Holders(i)) + InHands(state, i)
        BY <1>1, <2>2, CountHands
      <3>2. InHands(state, i) = InHands(worker[w], i) /\ InHands(state, i) \in Nat
        BY <2>1, <2>2, NoItemAssumption DEF InHands, One
      <3>3. QED
        BY <1>1, <2>1, <3>1, <3>2, PlacesOf
    <2>4. QED
      BY <1>2, <2>1, <2>3
  <1>9. ASSUME NEW w \in Workers, SendResult(w) PROVE Custody'
    <2> DEFINE item == worker[w].item
    <2>1. UNCHANGED <<jobs, written, pending, prod>> /\ item \in Result /\ item # NoItem
      BY <1>9, NoItemAssumption DEF SendResult, WorkerFrame, writerVars, docVars, jobVars,
           Typing, HandsTyped
    <2>2. PICK pc \in {"recv", "exit"} :
             worker' = [worker EXCEPT ![w] = [pc |-> pc, item |-> NoItem]]
      BY <1>9 DEF SendResult
    <2> DEFINE state == [pc |-> pc, item |-> NoItem]
    <2>3. ASSUME NEW i \in Index
          PROVE  Cardinality(Holders(i)') + One(item, i) = Cardinality(Holders(i))
      <3>1. Cardinality(Holders(i)') + InHands(worker[w], i)
              = Cardinality(Holders(i)) + InHands(state, i)
        BY <1>1, <2>2, CountHands
      <3>2. InHands(state, i) = 0 /\ InHands(worker[w], i) = One(item, i)
        BY <2>1, <2>2 DEF InHands
      <3>3. QED
        BY <1>1, <3>1, <3>2, PlacesOf
    <2>4. \A i \in Index : One(item, i) \in {0, 1}
      BY DEF One
    <2> HIDE DEF item
    <2>5. CASE results' = Append(results, item)
      <3>1. ASSUME NEW i \in Index PROVE Same(i)
        <4>1. Cardinality(At(results', i)) = Cardinality(At(results, i)) + One(item, i)
          BY <1>1, <2>1, <2>5, CountAppend DEF TypeOK
        <4>2. QED
          BY <1>1, <2>1, <2>3, <2>4, <4>1, PlacesOf
      <3>2. QED
        BY <1>2, <2>1, <3>1
    <2>6. CASE UNCHANGED results /\ WorkDone
      <3>1. ASSUME NEW i \in Index PROVE Places(i)' + One(item, i) = Places(i)
        BY <1>1, <2>1, <2>3, <2>4, <2>6, PlacesOf
      <3>2. Places(item.index) > 0
        <4>1. item.index \in Index /\ One(item, item.index) = 1
          BY <2>1 DEF Result, One
        <4>2. QED
          BY <1>1, <2>3, <4>1, PlacesOf
      <3>3. QED
        BY <1>1, <1>4, <2>1, <2>6, <3>1, <3>2
    <2>7. QED
      BY <1>9, <2>5, <2>6 DEF SendResult, item
  <1>10. CASE StartPipeline
    <2>1. /\ UNCHANGED <<jobs, results, written, pending>> /\ prod'.next = prod.next
          /\ \A w \in Workers : worker[w].item = NoItem /\ worker'[w].item = NoItem
      BY <1>10 DEF StartPipeline, writerVars, docVars, jobVars, resultVars, EarlyPhases,
           Lifetimes, EmptyHands, Progress
    <2>2. ASSUME NEW i \in Index PROVE Same(i)
      <3>1. Holders(i)' = Holders(i)
        BY <2>1 DEF Holders
      <3>2. QED
        BY <1>1, <2>1, <3>1, PlacesOf
    <2>3. QED
      BY <1>2, <2>1, <2>2
  <1>11. CASE Receive
    <2> DEFINE head == Head(results)
    <2>1. UNCHANGED <<jobs, written, worker, prod>>
      BY <1>11 DEF Receive, WriterFrame, jobVars
    <2>2. CASE UNCHANGED <<results, pending>>
      BY <1>3, <2>1, <2>2
    <2>3. CASE results # <<>> /\ results' = Tail(results)
      <3>1. results \in Seq(Result) /\ head \in Result
        BY <2>3 DEF Typing, TypeOK
      <3>2. ASSUME NEW i \in Index
            PROVE  /\ Cardinality(At(results, i)) = Cardinality(At(results', i)) + One(head, i)
                   /\ Holders(i)' = Holders(i) /\ One(head, i) \in {0, 1}
        <4>1. Cardinality(At(results, i)) = Cardinality(At(results', i)) + One(head, i)
          BY <2>3, <3>1, CountTail
        <4>2. QED
          BY <2>1, <4>1 DEF Holders, One
      <3>3. head.index \in Index /\ One(head, head.index) = 1
        BY <3>1 DEF Result, One
      <3>4. Places(head.index) > 0
        BY <1>1, <3>2, <3>3, PlacesOf
      <3> HIDE DEF head
      <3>5. CASE pipelineErr /\ UNCHANGED pending
        <4>1. WorkDone'
          BY <1>1, <3>5 DEF Progress, WorkDone
        <4>2. \A i \in Index : Places(i)' + One(head, i) = Places(i)
          BY <1>1, <2>1, <3>2, <3>5, PlacesOf
        <4>3. QED
          BY <1>4, <2>1, <3>4, <4>1, <4>2
      <3>6. CASE pending' = [pending EXCEPT ![head.index] = head]
        <4>1. pending[head.index] = NoItem
          <5>1. Places(head.index) \in {0, 1}
            BY <3>3 DEF Custody
          <5>2. QED
            BY <1>1, <3>2, <3>3, <5>1, PlacesOf
        <4>2. head # NoItem /\ pending \in [Index -> Result \cup {NoItem}]
          BY <1>1, <3>1, NoItemAssumption DEF TypeOK
        <4>3. ASSUME NEW i \in Index PROVE Same(i)
          <5>1. CASE i = head.index
            BY <1>1, <2>1, <3>2, <3>3, <3>6, <4>1, <4>2, <5>1, PlacesOf
          <5>2. CASE i # head.index
            <6>1. One(head, i) = 0 /\ pending'[i] = pending[i]
              BY <3>6, <4>2, <5>2 DEF One
            <6>2. QED
              BY <1>1, <2>1, <3>2, <6>1, PlacesOf
          <5>3. QED
            BY <5>1, <5>2
        <4>4. QED
          BY <1>2, <2>1, <4>3
      <3>7. QED
        BY <1>11, <2>3, <3>5, <3>6 DEF Receive, head
    <2>4. QED
      BY <1>11, <2>2, <2>3 DEF Receive
  <1>12. CASE WriteNext
    <2> DEFINE next == pending[nextIndex]
    <2>1. /\ UNCHANGED <<jobs, results, worker, prod>> /\ nextIndex \in Index
          /\ pending \in [Index -> Result \cup {NoItem}]
          /\ next # NoItem /\ next \in Result /\ next.index = nextIndex
          /\ pending' = [pending EXCEPT ![nextIndex] = NoItem]
      BY <1>12 DEF WriteNext, WriterFrame, jobVars, Turn, Typing, TypeOK, Ordered
    <2>2. ASSUME NEW i \in Index
          PROVE  /\ (IF pending[i] = NoItem THEN 0 ELSE 1)
                      = (IF pending'[i] = NoItem THEN 0 ELSE 1) + One(next, i)
                 /\ Holders(i)' = Holders(i) /\ One(next, i) \in {0, 1}
      BY <2>1 DEF Holders, One
    <2> HIDE DEF next
    <2>3. CASE written' = Append(written, next)
      <3>1. ASSUME NEW i \in Index PROVE Same(i)
        <4>1. Cardinality(At(written', i)) = Cardinality(At(written, i)) + One(next, i)
          BY <1>1, <2>1, <2>3, CountAppend DEF TypeOK
        <4>2. QED
          BY <1>1, <2>1, <2>2, <4>1, PlacesOf
      <3>2. QED
        BY <1>2, <2>1, <3>1
    <2>4. CASE workersCancelled' = TRUE /\ UNCHANGED written
      <3>1. \A i \in Index : Places(i)' + One(next, i) = Places(i)
        BY <1>1, <2>1, <2>2, <2>4, PlacesOf
      <3>2. Places(next.index) > 0
        BY <1>1, <2>1, PlacesOf DEF next
      <3>3. QED
        BY <1>4, <2>1, <2>4, <3>1, <3>2 DEF WorkDone
    <2>5. QED
      BY <1>12, <2>3, <2>4 DEF WriteNext, next
  <1>13. CASE DrainPending
    <2>1. PICK j \in Index : pending[j] # NoItem /\ pending' = [pending EXCEPT ![j] = NoItem]
      BY <1>13 DEF DrainPending
    <2> DEFINE left == pending[j]
    <2>2. /\ UNCHANGED <<jobs, results, written, worker, prod>> /\ main = "drain"
          /\ pending \in [Index -> Result \cup {NoItem}] /\ left.index = j
      BY <1>13, <2>1 DEF DrainPending, WriterFrame, jobVars, Typing, TypeOK, Ordered
    <2>3. WorkDone'
      BY <1>1, <2>1, <2>2, NothingLeftPending
    <2>4. ASSUME NEW i \in Index
          PROVE  /\ (IF pending[i] = NoItem THEN 0 ELSE 1)
                      = (IF pending'[i] = NoItem THEN 0 ELSE 1) + One(left, i)
                 /\ Holders(i)' = Holders(i) /\ One(left, i) \in {0, 1}
      BY <2>1, <2>2 DEF Holders, One
    <2>5. Places(left.index) > 0
      BY <1>1, <2>1, <2>2, PlacesOf
    <2> HIDE DEF left
    <2>6. \A i \in Index : Places(i)' + One(left, i) = Places(i)
      BY <1>1, <2>2, <2>4, PlacesOf
    <2>7. QED
      BY <1>4, <2>2, <2>3, <2>5, <2>6
  <1>14. CASE CloseResults \/ OrderDone \/ EmitReport \/ PipelineEnd
    BY <1>3, <1>14 DEF CloseResults, WorkerFrame, OrderDone, EmitReport, PipelineEnd,
         WriterFrame, writerVars, docVars, jobVars
  <1>15. CASE \/ Validate \/ EmitProgress \/ Scan \/ OpenPartial \/ CheckContext
              \/ Seal \/ Commit \/ Inspect \/ EmitComplete
              \/ Return \/ SaveHistory \/ SendError \/ CloseEvents
    BY <1>3, <1>15 DEF Validate, EmitProgress, Scan, OpenPartial, CheckContext, Seal,
         Commit, Inspect, EmitComplete, Return, SaveHistory, SendError, CloseEvents,
         writerVars, docVars, poolVars, jobVars, resultVars
  <1>16. CASE HandlerReceive \/ Disconnect \/ UNCHANGED vars
    BY <1>3, <1>16 DEF HandlerReceive, Disconnect, vars, writerVars, docVars, poolVars,
         jobVars, resultVars
  <1>17. QED
    BY <1>5, <1>6, <1>7, <1>8, <1>9, <1>10, <1>11, <1>12, <1>13, <1>14, <1>15, <1>16
       DEF Next, Main, Producer, Worker, Finished

\* every state of a behaviour keeps the account of the indexes
LEMMA AlwaysCustody == Spec => []Custody
  <1>1. Spec => [](EmptyHands /\ Progress)
    BY AlwaysTyping, AlwaysLifetimes, ProgressInit, EmptyHandsStep, ProgressStep, PTL DEF Spec
  <1>2. QED
    BY AlwaysTyping, AlwaysLifetimes, AlwaysOrdered, <1>1, CustodyInit, CustodyStep, PTL
       DEF Spec

\* No file is ever in two hands, and as long as nothing is cancelled every file
\* that the producer has queued is in one: no result is lost between jobs, a
\* worker, results and pending (generator.go:119-140, 267-287).
THEOREM OneOwnerOfEveryFile == Spec => []OneOwner
  <1>1. Custody => OneOwner
    BY DEF Custody, OneOwner
  <1>2. QED
    BY AlwaysCustody, <1>1, PTL

-------------------------------------------------------------------------------
(* Memory.  What is reserved is the sum over everything in flight: every    *)
(* step moves a reservation along with its job or result, or releases it.   *)

\* what a job or result holds, and what nothing holds
Held(item) == IF item = NoItem THEN 0 ELSE Clamp(item.mem)

InChannel(seq) == [k \in DOMAIN seq |-> Clamp(seq[k].mem)]
InWorkers == [w \in Workers |-> Held(worker[w].item)]
InPending == [i \in Index |-> Held(pending[i])]

Queued(seq) == Total(InChannel(seq), DOMAIN seq)
Carried     == Total(InWorkers, Workers)
Parked      == Total(InPending, Index)
AtProducer  == IF prod.pc = "send" THEN Clamp(prod.mem) ELSE 0

\* what a reservation counts for is a number up to the limit
LEMMA ClampType ==
    /\ \A amount \in Nat : Clamp(amount) \in 0 .. Limit
    /\ Clamp(0) = 0
  BY DEF Clamp

\* so is what an item holds
LEMMA HeldType ==
    ASSUME NEW item \in Job \cup Result \cup {NoItem}
    PROVE  Held(item) \in 0 .. Limit
  BY ClampType DEF Held, Job, Result

\* The amounts that are summed up are numbers.
LEMMA AmountsInFlight ==
    ASSUME TypeOK
    PROVE  /\ InWorkers \in [Workers -> Nat] /\ InPending \in [Index -> Nat]
           /\ IsFiniteSet(Workers) /\ IsFiniteSet(Index)
           /\ Carried \in Nat /\ Parked \in Nat /\ AtProducer \in Nat
  <1>1. InWorkers \in [Workers -> Nat]
    BY HeldType DEF TypeOK, InWorkers, WorkerState
  <1>2. InPending \in [Index -> Nat]
    BY HeldType DEF TypeOK, InPending
  <1>3. IsFiniteSet(Workers) /\ IsFiniteSet(Index)
    BY WorkersAssumption, FS_Interval DEF Index
  <1>4. Carried \in Nat /\ Parked \in Nat
    BY <1>1, <1>2, <1>3, TotalType DEF Carried, Parked
  <1>5. AtProducer \in Nat
    <2>1. prod.mem \in Nat
      BY DEF TypeOK, ProducerState
    <2>2. Clamp(prod.mem) \in Nat
      BY <2>1, ClampType
    <2>3. QED
      BY <2>2 DEF AtProducer
  <1>6. QED
    BY <1>1, <1>2, <1>3, <1>4, <1>5

\* So are those in a channel.
LEMMA AmountsInChannel ==
    ASSUME NEW seq \in Seq(Job \cup Result)
    PROVE  /\ InChannel(seq) \in [1 .. Len(seq) -> Nat] /\ DOMAIN seq = 1 .. Len(seq)
           /\ Len(seq) \in Nat /\ IsFiniteSet(1 .. Len(seq)) /\ Queued(seq) \in Nat
  <1>1. DOMAIN seq = 1 .. Len(seq) /\ Len(seq) \in Nat
        /\ \A k \in 1 .. Len(seq) : seq[k].mem \in Nat
    <2>1. \A r \in Job \cup Result : r.mem \in Nat
      BY DEF Job, Result
    <2>2. QED
      BY <2>1
  <1>2. InChannel(seq) \in [1 .. Len(seq) -> Nat]
    <2>1. \A k \in 1 .. Len(seq) : Clamp(seq[k].mem) \in Nat
      <3>1. \A amount \in Nat : Clamp(amount) \in Nat
        BY ClampType
      <3>2. QED
        BY ONLY <1>1, <3>1
    <2>2. InChannel(seq) = [k \in 1 .. Len(seq) |-> Clamp(seq[k].mem)]
      BY <1>1 DEF InChannel
    <2>3. QED
      BY <2>1, <2>2
  <1>3. IsFiniteSet(1 .. Len(seq))
    BY <1>1, FS_Interval
  <1>4. Total(InChannel(seq), 1 .. Len(seq)) \in Nat
    BY <1>2, <1>3, TotalType
  <1>5. QED
    BY <1>1, <1>2, <1>3, <1>4 DEF Queued

\* Sending on a channel adds what is sent.
LEMMA QueuedAppend ==
    ASSUME NEW seq \in Seq(Job \cup Result), NEW r \in Job \cup Result
    PROVE  Queued(Append(seq, r)) = Queued(seq) + Clamp(r.mem)
  <1> DEFINE longer == Append(seq, r)
             n == Len(seq)
  <1>1. /\ n \in Nat /\ longer \in Seq(Job \cup Result) /\ Len(longer) = n + 1
        /\ longer[n + 1] = r /\ \A k \in 1 .. n : longer[k] = seq[k]
    BY AppendProperties
  <1>2. /\ InChannel(seq) \in [1 .. n -> Nat] /\ DOMAIN seq = 1 .. n
        /\ InChannel(longer) \in [1 .. (n + 1) -> Nat] /\ DOMAIN longer = 1 .. (n + 1)
    BY <1>1, AmountsInChannel
  <1> HIDE DEF longer, n
  <1>3. /\ \A k \in 1 .. n : InChannel(longer)[k] = InChannel(seq)[k]
        /\ InChannel(longer)[n + 1] = Clamp(r.mem)
    BY <1>1, <1>2 DEF InChannel
  <1>4. Total(InChannel(longer), 1 .. (n + 1))
          = Total(InChannel(seq), 1 .. n) + InChannel(longer)[n + 1]
    BY <1>1, <1>2, <1>3, TotalAppend
  <1>5. QED
    BY <1>2, <1>3, <1>4 DEF Queued, longer

\* Receiving from a channel takes away what is received.
LEMMA QueuedTail ==
    ASSUME NEW seq \in Seq(Job \cup Result), seq # <<>>
    PROVE  Queued(seq) = Queued(Tail(seq)) + Clamp(Head(seq).mem)
  <1> DEFINE rest == Tail(seq)
             n == Len(rest)
  <1>1. /\ n \in Nat /\ rest \in Seq(Job \cup Result) /\ Len(seq) = n + 1
        /\ seq[1] = Head(seq) /\ \A k \in 1 .. n : rest[k] = seq[k + 1]
    OBVIOUS
  <1>2. /\ InChannel(rest) \in [1 .. n -> Nat] /\ DOMAIN rest = 1 .. n
        /\ InChannel(seq) \in [1 .. (n + 1) -> Nat] /\ DOMAIN seq = 1 .. (n + 1)
    BY <1>1, AmountsInChannel
  <1> HIDE DEF rest, n
  <1>3. /\ \A k \in 1 .. n : InChannel(rest)[k] = InChannel(seq)[k + 1]
        /\ InChannel(seq)[1] = Clamp(Head(seq).mem)
    BY <1>1, <1>2 DEF InChannel
  <1>4. Total(InChannel(seq), 1 .. (n + 1))
          = Total(InChannel(rest), 1 .. n) + InChannel(seq)[1]
    BY <1>1, <1>2, <1>3, TotalTail
  <1>5. QED
    BY <1>2, <1>3, <1>4 DEF Queued, rest

\* A worker that changes hands changes the sum by the difference.
LEMMA CarriedUpdate ==
    ASSUME TypeOK, TypeOK', NEW w \in Workers, NEW state, worker' = [worker EXCEPT ![w] = state]
    PROVE  Carried' + Held(worker[w].item) = Carried + Held(state.item)
  <1>1. worker \in [Workers -> WorkerState] /\ IsFiniteSet(Workers)
        /\ InWorkers \in [Workers -> Nat]
    BY AmountsInFlight DEF TypeOK
  <1>2. InWorkers' \in [Workers -> Nat]
    BY HeldType DEF TypeOK, InWorkers, WorkerState
  <1>3. /\ \A v \in Workers \ {w} : InWorkers'[v] = InWorkers[v]
        /\ InWorkers[w] = Held(worker[w].item) /\ InWorkers'[w] = Held(state.item)
    BY <1>1 DEF InWorkers
  <1>4. Total(InWorkers', Workers) + InWorkers[w] = Total(InWorkers, Workers) + InWorkers'[w]
    BY ONLY <1>1, <1>2, <1>3, TotalUpdate
  <1>5. QED
    BY <1>3, <1>4 DEF Carried

\* So does a slot of pending that is filled or emptied.
LEMMA ParkedUpdate ==
    ASSUME TypeOK, TypeOK', NEW i \in Index, NEW item, pending' = [pending EXCEPT ![i] = item]
    PROVE  Parked' + Held(pending[i]) = Parked + Held(item)
  <1>1. pending \in [Index -> Result \cup {NoItem}] /\ IsFiniteSet(Index)
        /\ InPending \in [Index -> Nat]
    BY AmountsInFlight DEF TypeOK
  <1>2. InPending' \in [Index -> Nat]
    BY HeldType DEF TypeOK, InPending
  <1>3. /\ \A j \in Index \ {i} : InPending'[j] = InPending[j]
        /\ InPending[i] = Held(pending[i]) /\ InPending'[i] = Held(item)
    BY <1>1 DEF InPending
  <1>4. Total(InPending', Index) + InPending[i] = Total(InPending, Index) + InPending'[i]
    BY ONLY <1>1, <1>2, <1>3, TotalUpdate
  <1>5. QED
    BY <1>3, <1>4 DEF Parked

\* the recursions that HeldMemory expands to
QueueSum(sum, seq) ==
    sum = [s \in SUBSET DOMAIN seq |->
             IF s = {} THEN 0
             ELSE Clamp(seq[CHOOSE x \in s : TRUE].mem) + sum[s \ {CHOOSE x \in s : TRUE}]]
WorkerSum(sum, S) ==
    sum = [s \in SUBSET S |->
             IF s = {} THEN 0
             ELSE Clamp(worker[CHOOSE x \in s : TRUE].item.mem)
                  + sum[s \ {CHOOSE x \in s : TRUE}]]
PendingSum(sum, S) ==
    sum = [s \in SUBSET S |->
             IF s = {} THEN 0
             ELSE Clamp(pending[CHOOSE x \in s : TRUE].mem) + sum[s \ {CHOOSE x \in s : TRUE}]]

Laden  == {w \in Workers : worker[w].item # NoItem}
Filled == {i \in Index : pending[i] # NoItem}

\* The recursion over a channel yields the total of what is queued in it.
LEMMA QueueSumIsTotal ==
    ASSUME NEW seq \in Seq(Job \cup Result)
    PROVE  (CHOOSE sum : QueueSum(sum, seq))[DOMAIN seq] = Queued(seq)
  <1> DEFINE S == DOMAIN seq
             a == InChannel(seq)
  <1>1. IsFiniteSet(S) /\ a \in [S -> Nat]
    BY AmountsInChannel
  <1>2. ASSUME NEW sum PROVE QueueSum(sum, seq) <=> SumsSets(sum, a, S)
    <2>1. \A s \in SUBSET S : s # {} =>
             Clamp(seq[CHOOSE x \in s : TRUE].mem) = a[CHOOSE x \in s : TRUE]
      BY DEF InChannel
    <2> HIDE DEF a
    <2>2. QED
      BY <2>1 DEF QueueSum, SumsSets, Chosen
  <1> HIDE DEF a
  <1>3. \E sum : QueueSum(sum, seq)
    BY <1>1, <1>2, SumOverSet
  <1>4. \A sum : QueueSum(sum, seq) => sum[S] = Total(a, S)
    BY <1>1, <1>2, SumOverSet
  <1>5. QED
    BY <1>3, <1>4 DEF Queued, a

\* The recursion over the workers that hold something yields what is carried.
LEMMA WorkerSumIsTotal ==
    ASSUME TypeOK
    PROVE  (CHOOSE sum : WorkerSum(sum, Laden))[Laden] = Carried
  <1> DEFINE a == [w \in Laden |-> Clamp(worker[w].item.mem)]
  <1>1. InWorkers \in [Workers -> Nat] /\ IsFiniteSet(Laden) /\ Laden \in SUBSET Workers
    BY AmountsInFlight, FS_Subset DEF Laden
  <1>2. \A w \in Laden : a[w] = InWorkers[w]
    BY DEF InWorkers, Held, Laden
  <1>3. a \in [Laden -> Nat]
    BY <1>1, <1>2
  <1>4. ASSUME NEW sum PROVE WorkerSum(sum, Laden) <=> SumsSets(sum, a, Laden)
    <2>1. \A s \in SUBSET Laden : s # {} =>
             Clamp(worker[CHOOSE x \in s : TRUE].item.mem) = a[CHOOSE x \in s : TRUE]
      OBVIOUS
    <2> HIDE DEF a
    <2>2. QED
      BY <2>1 DEF WorkerSum, SumsSets, Chosen
  <1>5. \A w \in Workers \ Laden : InWorkers[w] = 0
    BY DEF InWorkers, Held, Laden
  <1> HIDE DEF a
  <1>6. Carried = Total(a, Laden)
    BY <1>1, <1>2, <1>5, TotalAgrees DEF Carried
  <1>7. \E sum : WorkerSum(sum, Laden)
    BY <1>1, <1>3, <1>4, SumOverSet
  <1>8. \A sum : WorkerSum(sum, Laden) => sum[Laden] = Total(a, Laden)
    BY <1>1, <1>3, <1>4, SumOverSet
  <1>9. QED
    BY <1>6, <1>7, <1>8

\* The recursion over the filled slots of pending yields what is parked there.
LEMMA PendingSumIsTotal ==
    ASSUME TypeOK
    PROVE  (CHOOSE sum : PendingSum(sum, Filled))[Filled] = Parked
  <1> DEFINE a == [i \in Filled |-> Clamp(pending[i].mem)]
  <1>1. InPending \in [Index -> Nat] /\ IsFiniteSet(Filled) /\ Filled \in SUBSET Index
    BY AmountsInFlight, FS_Subset DEF Filled
  <1>2. \A i \in Filled : a[i] = InPending[i]
    BY DEF InPending, Held, Filled
  <1>3. a \in [Filled -> Nat]
    BY <1>1, <1>2
  <1>4. ASSUME NEW sum PROVE PendingSum(sum, Filled) <=> SumsSets(sum, a, Filled)
    <2>1. \A s \in SUBSET Filled : s # {} =>
             Clamp(pending[CHOOSE x \in s : TRUE].mem) = a[CHOOSE x \in s : TRUE]
      OBVIOUS
    <2> HIDE DEF a
    <2>2. QED
      BY <2>1 DEF PendingSum, SumsSets, Chosen
  <1>5. \A i \in Index \ Filled : InPending[i] = 0
    BY DEF InPending, Held, Filled
  <1> HIDE DEF a
  <1>6. Parked = Total(a, Filled)
    BY <1>1, <1>2, <1>5, TotalAgrees DEF Parked
  <1>7. \E sum : PendingSum(sum, Filled)
    BY <1>1, <1>3, <1>4, SumOverSet
  <1>8. \A sum : PendingSum(sum, Filled) => sum[Filled] = Total(a, Filled)
    BY <1>1, <1>3, <1>4, SumOverSet
  <1>9. QED
    BY <1>6, <1>7, <1>8

\* What is held is the sum of these totals.
LEMMA HeldMemoryIs ==
    ASSUME TypeOK
    PROVE  HeldMemory = Queued(jobs) + Queued(results) + Carried + Parked + AtProducer
  <1>1. jobs \in Seq(Job \cup Result) /\ results \in Seq(Job \cup Result)
    BY DEF TypeOK
  <1>2. HeldMemory = (CHOOSE sum : QueueSum(sum, jobs))[DOMAIN jobs]
                     + (CHOOSE sum : QueueSum(sum, results))[DOMAIN results]
                     + (CHOOSE sum : WorkerSum(sum, Laden))[Laden]
                     + (CHOOSE sum : PendingSum(sum, Filled))[Filled]
                     + AtProducer
    BY DEF HeldMemory, MapThenSumSet, MapThenFoldSet, QueueSum, WorkerSum, PendingSum, Laden,
         Filled, AtProducer
  <1>3. QED
    BY <1>1, <1>2, QueueSumIsTotal, WorkerSumIsTotal, PendingSumIsTotal

\* What the limiter counts is in flight.
Accounted == used = Queued(jobs) + Queued(results) + Carried + Parked + AtProducer

\* Nothing is in flight in the initial state.
LEMMA AccountedInit == Init => Accounted
  <1> SUFFICES ASSUME Init PROVE Accounted
    OBVIOUS
  <1>1. DOMAIN jobs = {} /\ DOMAIN results = {}
    BY DEF Init
  <1>2. Queued(jobs) = 0 /\ Queued(results) = 0
    BY <1>1, TotalEmpty DEF Queued
  <1>3. \A w \in Workers : InWorkers[w] = 0
    BY DEF Init, InWorkers, Held
  <1>4. \A i \in Index : InPending[i] = 0
    BY DEF Init, InPending, Held
  <1>5. Total(InWorkers, Workers) = Total(InWorkers, {})
    BY <1>3, TotalAgrees
  <1>6. Total(InPending, Index) = Total(InPending, {})
    BY <1>4, TotalAgrees
  <1>7. Carried = 0 /\ Parked = 0
    BY <1>5, <1>6, TotalEmpty DEF Carried, Parked
  <1>8. used = 0 /\ AtProducer = 0
    BY DEF Init, AtProducer
  <1>9. QED
    BY <1>2, <1>7, <1>8 DEF Accounted

\* Releasing what is in use takes it off the count.
LEMMA ReleaseCounts ==
    ASSUME used \in Nat, NEW amount \in Nat, Clamp(amount) <= used, Release(amount)
    PROVE  used' = used - Clamp(amount)
  <1>1. CASE amount = 0
    BY <1>1, ClampType DEF Release, limVars
  <1>2. CASE amount # 0
    <2>1. Clamp(amount) \in Nat
      BY ClampType
    <2>2. used' = IF used < Clamp(amount) THEN 0 ELSE used - Clamp(amount)
      BY <1>2 DEF Release
    <2>3. QED
      BY <2>1, <2>2
  <1>3. QED
    BY <1>1, <1>2

\* The slot of a result that arrives is free.
LEMMA SlotIsFree ==
    ASSUME TypeOK, Custody, results # <<>>
    PROVE  Head(results).index \in Index /\ pending[Head(results).index] = NoItem
  <1> DEFINE i == Head(results).index
  <1>1. /\ i \in Index /\ jobs \in Seq(Job) /\ results \in Seq(Result)
        /\ written \in Seq(Result) /\ Tail(results) \in Seq(Result)
    <2>1. /\ jobs \in Seq(Job) /\ results \in Seq(Result) /\ written \in Seq(Result)
      BY DEF TypeOK
    <2>2. Head(results) \in Result /\ Tail(results) \in Seq(Result)
      BY <2>1
    <2>3. i \in Index
      BY <2>2 DEF Result
    <2>4. QED
      BY <2>1, <2>2, <2>3
  <1>2. Cardinality(At(results, i)) = Cardinality(At(Tail(results), i)) + 1
    BY <1>1, CountTail DEF One
  <1>3. /\ Cardinality(At(jobs, i)) \in Nat /\ Cardinality(At(Tail(results), i)) \in Nat
        /\ Cardinality(At(written, i)) \in Nat /\ Cardinality(Holders(i)) \in Nat
    <2> HIDE DEF i
    <2>1. Cardinality(At(jobs, i)) \in Nat
      BY ONLY <1>1, AtFinite
    <2>2. Cardinality(At(written, i)) \in Nat
      BY ONLY <1>1, AtFinite
    <2>3. Cardinality(At(Tail(results), i)) \in Nat
      BY ONLY <1>1, AtFinite
    <2>4. QED
      BY <2>1, <2>2, <2>3, HoldersFinite
  <1>4. Places(i) = Cardinality(At(jobs, i)) + Cardinality(At(results, i))
                    + Cardinality(At(written, i)) + Cardinality(Holders(i))
                    + (IF pending[i] = NoItem THEN 0 ELSE 1)
    BY Zenon DEF Places, At, Holders
  <1>5. Places(i) \in {0, 1}
    BY <1>1 DEF Custody
  <1> HIDE DEF i
  <1>6. pending[i] = NoItem
    BY <1>2, <1>3, <1>4, <1>5
  <1>7. QED
    BY <1>1, <1>6 DEF i

\* Every step moves a reservation along with what it is for, or releases it.
LEMMA AccountedStep ==
    Typing /\ Lifetimes /\ Ordered /\ EmptyHands /\ Progress /\ Custody /\ Accounted
      /\ [Next]_vars => Accounted'
  <1> SUFFICES ASSUME Typing, Lifetimes, Ordered, EmptyHands, Progress, Custody, Accounted,
                      [Next]_vars
               PROVE  Accounted'
    OBVIOUS
  <1>1. /\ TypeOK /\ TypeOK'
        /\ jobs \in Seq(Job \cup Result) /\ results \in Seq(Job \cup Result)
    <2>1. TypeOK /\ TypeOK'
      BY TypingStep DEF Typing
    <2>2. jobs \in Seq(Job) /\ results \in Seq(Result)
      BY <2>1 DEF TypeOK
    <2>3. QED
      BY <2>1, <2>2
  <1>2. /\ used \in Nat /\ Carried \in Nat /\ Parked \in Nat /\ AtProducer \in Nat
        /\ Queued(jobs) \in Nat /\ Queued(results) \in Nat
    <2>1. used \in 0 .. Limit /\ 0 .. Limit \subseteq Nat
      BY <1>1, LimitAssumption DEF TypeOK
    <2>2. Queued(jobs) \in Nat /\ Queued(results) \in Nat
      BY <1>1, AmountsInChannel
    <2>3. QED
      BY <1>1, <2>1, <2>2, AmountsInFlight
  <1>3. Carried' \in Nat /\ Parked' \in Nat
    <2>1. InWorkers' \in [Workers -> Nat] /\ InPending' \in [Index -> Nat]
      BY <1>1, HeldType DEF TypeOK, InWorkers, InPending, WorkerState
    <2>2. IsFiniteSet(Workers) /\ IsFiniteSet(Index)
      BY <1>1, AmountsInFlight
    <2>3. QED
      BY <2>1, <2>2, TotalType DEF Carried, Parked
  <1>4. used = Queued(jobs) + Queued(results) + Carried + Parked + AtProducer
    BY DEF Accounted
  <1>5. UNCHANGED worker => Carried' = Carried
    BY DEF Carried, InWorkers
  <1>6. UNCHANGED pending => Parked' = Parked
    BY DEF Parked, InPending
  <1>7. UNCHANGED prod => AtProducer' = AtProducer
    BY DEF AtProducer
  <1>8. ASSUME UNCHANGED <<used, jobs, results, worker, pending>>, AtProducer' = AtProducer
        PROVE  Accounted'
    BY <1>4, <1>5, <1>6, <1>8 DEF Accounted
  <1>9. CASE StatFile \/ WakeAcquire
    <2>1. AtProducer' = 0 /\ AtProducer = 0
      BY <1>1, <1>9 DEF StatFile, WakeAcquire, AtProducer, TypeOK, ProducerState
    <2>2. QED
      BY <1>8, <1>9, <2>1 DEF StatFile, WakeAcquire, ProducerFrame, writerVars, jobVars,
           resultVars, limVars
  <1>10. CASE Acquire
    <2>1. UNCHANGED <<jobs, results, worker, pending>> /\ AtProducer = 0 /\ prod.mem \in Nat
      BY <1>1, <1>10 DEF Acquire, ProducerFrame, writerVars, jobVars, resultVars, AtProducer,
           TypeOK, ProducerState
    <2>2. prod \in ProducerState /\ prod = [pc |-> prod.pc, next |-> prod.next, mem |-> prod.mem]
      BY <1>1 DEF TypeOK, ProducerState
    <2>3. used' = used + AtProducer'
      <3>1. CASE prod.mem = 0 /\ prod' = [prod EXCEPT !.pc = "send"] /\ UNCHANGED used
        <4>1. prod'.pc = "send" /\ prod'.mem = 0
          BY <2>2, <3>1
        <4>2. AtProducer' = 0
          BY <4>1, ClampType DEF AtProducer
        <4>3. QED
          BY <1>2, <3>1, <4>2
      <3>2. CASE used' = used + Clamp(prod.mem) /\ prod' = [prod EXCEPT !.pc = "send"]
        <4>1. prod'.pc = "send" /\ prod'.mem = prod.mem
          BY <2>2, <3>2
        <4>2. AtProducer' = Clamp(prod.mem)
          BY <4>1 DEF AtProducer
        <4>3. QED
          BY <3>2, <4>2
      <3>3. CASE prod' = [prod EXCEPT !.pc = "wait"] /\ UNCHANGED used
        <4>1. prod'.pc = "wait"
          BY <2>2, <3>3
        <4>2. QED
          BY <1>2, <3>3, <4>1 DEF AtProducer
      <3>4. QED
        BY <1>10, <3>1, <3>2, <3>3 DEF Acquire, limVars
    <2>4. Carried' = Carried /\ Parked' = Parked /\ Queued(jobs') = Queued(jobs)
          /\ Queued(results') = Queued(results)
      BY <1>5, <1>6, <2>1
    <2>5. AtProducer' \in Nat
      <3>1. prod'.mem \in Nat
        BY <1>1 DEF TypeOK, ProducerState
      <3>2. Clamp(prod'.mem) \in Nat
        BY <3>1, ClampType
      <3>3. QED
        BY <3>2 DEF AtProducer
    <2>6. QED
      BY <1>2, <1>4, <2>1, <2>3, <2>4, <2>5 DEF Accounted
  <1>11. CASE SendJob
    <2>1. /\ UNCHANGED <<results, worker, pending>> /\ prod.mem \in Nat /\ prod.pc = "send"
          /\ AtProducer = Clamp(prod.mem)
      BY <1>1, <1>11 DEF SendJob, ProducerFrame, writerVars, resultVars, AtProducer, TypeOK,
           ProducerState
    <2>2. AtProducer' = 0
      <3>1. prod'.pc \in {"stat", "done"}
        <4>1. CASE prod' = [prod EXCEPT !.pc = "done"]
          BY <1>1, <4>1 DEF TypeOK, ProducerState
        <4>2. CASE prod' = [pc |-> IF prod.next + 1 < NumFiles THEN "stat" ELSE "done",
                            next |-> prod.next + 1, mem |-> 0]
          BY <4>2
        <4>3. QED
          BY <1>11, <4>1, <4>2 DEF SendJob
      <3>2. QED
        BY <3>1 DEF AtProducer
    <2>3. CASE jobs' = Append(jobs, [index |-> prod.next, mem |-> prod.mem]) /\ UNCHANGED used
      <3> DEFINE job == [index |-> prod.next, mem |-> prod.mem]
      <3>1. job \in Job /\ job.mem = prod.mem
        <4>1. prod.next \in Index
          BY <2>1 DEF Typing
        <4>2. jobs' \in Seq(Job)
          BY <1>1 DEF TypeOK
        <4>3. jobs'[Len(jobs) + 1] = job /\ Len(jobs') = Len(jobs) + 1 /\ Len(jobs) \in Nat
          BY <1>1, <2>3, AppendProperties
        <4>4. QED
          BY <4>2, <4>3
      <3>2. Queued(jobs') = Queued(jobs) + Clamp(prod.mem)
        <4> HIDE DEF job
        <4>1. Queued(Append(jobs, job)) = Queued(jobs) + Clamp(job.mem)
          BY <1>1, <3>1, QueuedAppend
        <4>2. QED
          BY <2>3, <3>1, <4>1 DEF job
      <3>3. QED
        BY <1>2, <1>4, <1>5, <1>6, <2>1, <2>2, <2>3, <3>2 DEF Accounted
    <2>4. CASE Release(prod.mem) /\ UNCHANGED jobs
      <3>1. used' = used - Clamp(prod.mem)
        BY <1>2, <1>4, <2>1, <2>4, ReleaseCounts
      <3>2. QED
        BY <1>2, <1>4, <1>5, <1>6, <2>1, <2>2, <2>4, <3>1 DEF Accounted
    <2>5. QED
      BY <1>11, <2>3, <2>4 DEF SendJob, limVars
  <1>12. ASSUME NEW w \in Workers, TakeJob(w) PROVE Accounted'
    <2>1. UNCHANGED <<used, results, pending, prod>> /\ Held(worker[w].item) = 0
      BY <1>12 DEF TakeJob, WorkerFrame, writerVars, resultVars, limVars, EmptyHands, Held
    <2>2. CASE jobs = <<>>
      <3> DEFINE state == [pc |-> "exit", item |-> NoItem]
      <3>1. worker' = [worker EXCEPT ![w] = state] /\ UNCHANGED jobs /\ Held(state.item) = 0
        BY <1>12, <2>2 DEF TakeJob, Held
      <3> HIDE DEF state
      <3>2. Carried' + Held(worker[w].item) = Carried + Held(state.item)
        BY <1>1, <3>1, CarriedUpdate
      <3>3. Carried' = Carried
        <4>1. Held(worker[w].item) = 0
          BY <2>1
        <4>2. Held(state.item) = 0
          BY <3>1
        <4>3. Carried' + 0 = Carried + 0
          BY <3>2, <4>1, <4>2, Zenon
        <4>4. \A p, q \in Nat : p + 0 = q + 0 => p = q
          OBVIOUS
        <4>5. QED
          BY <1>2, <1>3, <4>3, <4>4, Zenon
      <3>4. QED
        BY <1>4, <1>6, <1>7, <2>1, <3>1, <3>3 DEF Accounted
    <2>3. CASE jobs # <<>>
      <3> DEFINE state == [pc |-> "process", item |-> Head(jobs)]
      <3>1. worker' = [worker EXCEPT ![w] = state] /\ jobs' = Tail(jobs)
        BY <1>12, <2>3 DEF TakeJob
      <3>2. Held(state.item) = Clamp(Head(jobs).mem) /\ Held(state.item) \in Nat
        <4>1. Head(jobs) \in Job /\ Head(jobs) # NoItem
          BY <1>1, <2>3, NoItemAssumption DEF TypeOK
        <4>2. QED
          BY <4>1, HeldType DEF Held
      <3> HIDE DEF state
      <3>3. Carried' + Held(worker[w].item) = Carried + Held(state.item)
        BY <1>1, <3>1, CarriedUpdate
      <3>4. Queued(jobs) = Queued(jobs') + Held(state.item)
        BY <1>1, <2>3, <3>1, <3>2, QueuedTail
      <3>5. Queued(jobs') \in Nat
        BY <1>1, AmountsInChannel DEF TypeOK
      <3>6. QED
        BY <1>2, <1>3, <1>4, <1>6, <1>7, <2>1, <3>2, <3>3, <3>4, <3>5 DEF Accounted
    <2>4. QED
      BY <2>2, <2>3
  <1>13. ASSUME NEW w \in Workers, ProcessFile(w) PROVE Accounted'
    <2> DEFINE job == worker[w].item
    <2>1. UNCHANGED <<jobs, results, pending, prod>> /\ job \in Job /\ job.mem \in Nat
      BY <1>13 DEF ProcessFile, WorkerFrame, writerVars, jobVars, resultVars, Typing,
           HandsTyped, Job
    <2>2. Held(job) = Clamp(job.mem) /\ Held(job) \in Nat
      BY <2>1, HeldType, NoItemAssumption DEF Held
    <2>3. PICK kind \in Kinds, kept \in {job.mem, 0} :
             /\ worker' = [worker EXCEPT ![w] =
                  [pc |-> "send", item |-> [index |-> job.index, kind |-> kind, mem |-> kept]]]
             /\ Release(job.mem - kept)
      BY <1>13 DEF ProcessFile, Kinds
    <2> DEFINE state == [pc |-> "send",
                         item |-> [index |-> job.index, kind |-> kind, mem |-> kept]]
    <2>4. worker' = [worker EXCEPT ![w] = state] /\ state.item \in Result
          /\ state.item.mem = kept
      BY <2>1, <2>3 DEF Job, Result
    <2>5. Held(state.item) = Clamp(kept)
      BY <2>4, NoItemAssumption DEF Held
    <2> HIDE DEF state, job
    <2>6. Carried' + Held(job) = Carried + Clamp(kept)
      <3>1. Carried' + Held(worker[w].item) = Carried + Held(state.item)
        BY <1>1, <2>4, CarriedUpdate
      <3>2. QED
        BY <2>5, <3>1 DEF job
    <2>7. used' = used - Held(job) + Clamp(kept)
      <3>1. CASE kept = job.mem
        <4>1. Release(0)
          BY <2>1, <2>3, <3>1
        <4>2. used' = used - Clamp(0)
          BY <1>2, <4>1, ClampType, ReleaseCounts
        <4>3. QED
          BY <1>2, <2>2, <3>1, <4>2, ClampType
      <3>2. CASE kept = 0
        <4>1. Release(job.mem)
          BY <2>1, <2>3, <3>2
        <4>2. Clamp(job.mem) <= used
          BY <1>2, <1>3, <1>4, <2>2, <2>6, <3>2, ClampType
        <4>3. used' = used - Clamp(job.mem)
          BY <1>2, <2>1, <4>1, <4>2, ReleaseCounts
        <4>4. QED
          BY <1>2, <2>2, <3>2, <4>3, ClampType
      <3>3. QED
        BY <2>3, <3>1, <3>2
    <2>8. Clamp(kept) \in Nat
      BY <2>1, <2>3, ClampType
    <2>9. QED
      BY <1>2, <1>3, <1>4, <1>6, <1>7, <2>1, <2>2, <2>6, <2>7, <2>8 DEF Accounted
  <1>14. ASSUME NEW w \in Workers, SendResult(w) PROVE Accounted'
    <2> DEFINE item == worker[w].item
    <2>1. UNCHANGED <<jobs, pending, prod>> /\ item \in Result /\ item.mem \in Nat
      BY <1>14 DEF SendResult, WorkerFrame, writerVars, jobVars, Typing, HandsTyped, Result
    <2>2. Held(item) = Clamp(item.mem) /\ Held(item) \in Nat
      BY <2>1, HeldType, NoItemAssumption DEF Held
    <2>3. PICK pc \in {"recv", "exit"} :
             worker' = [worker EXCEPT ![w] = [pc |-> pc, item |-> NoItem]]
      BY <1>14 DEF SendResult
    <2> DEFINE state == [pc |-> pc, item |-> NoItem]
    <2>4. worker' = [worker EXCEPT ![w] = state] /\ Held(state.item) = 0
      BY <2>3 DEF Held
    <2> HIDE DEF item, state
    <2>5. Carried' + Held(item) = Carried
      <3>1. Carried' + Held(worker[w].item) = Carried + Held(state.item)
        BY <1>1, <2>4, CarriedUpdate
      <3>2. QED
        BY <1>2, <2>4, <3>1 DEF item
    <2>6. CASE results' = Append(results, item) /\ UNCHANGED used
      <3>1. Queued(results') = Queued(results) + Held(item)
        BY <1>1, <2>1, <2>2, <2>6, QueuedAppend
      <3>2. QED
        BY <1>2, <1>3, <1>4, <1>6, <1>7, <2>1, <2>2, <2>5, <2>6, <3>1 DEF Accounted
    <2>7. CASE Release(item.mem) /\ UNCHANGED results
      <3>1. used' = used - Held(item)
        <4>1. Clamp(item.mem) <= used
          BY <1>2, <1>3, <1>4, <2>2, <2>5
        <4>2. QED
          BY <1>2, <2>1, <2>2, <2>7, <4>1, ReleaseCounts
      <3>2. QED
        BY <1>2, <1>3, <1>4, <1>6, <1>7, <2>1, <2>2, <2>5, <2>7, <3>1 DEF Accounted
    <2>8. QED
      BY <1>14, <2>6, <2>7 DEF SendResult, limVars, item
  <1>15. CASE StartPipeline
    <2>1. /\ UNCHANGED <<used, jobs, results, pending>>
          /\ \A w \in Workers : worker[w].item = NoItem /\ worker'[w].item = NoItem
          /\ prod.pc = "idle" /\ prod'.pc \in {"idle", "stat"}
      BY <1>15 DEF StartPipeline, writerVars, limVars, jobVars, resultVars, EarlyPhases,
           Lifetimes, EmptyHands, Progress
    <2>2. AtProducer = 0 /\ AtProducer' = 0
      BY <2>1 DEF AtProducer
    <2>3. InWorkers' = InWorkers
      BY <2>1 DEF InWorkers
    <2>4. Carried' = Carried
      BY <2>3 DEF Carried
    <2>5. QED
      BY <1>4, <1>6, <2>1, <2>2, <2>4 DEF Accounted
  <1>16. CASE Receive
    <2>1. UNCHANGED <<jobs, worker, prod>>
      BY <1>16 DEF Receive, WriterFrame, jobVars
    <2>2. CASE UNCHANGED <<used, results, pending>>
      BY <1>7, <1>8, <2>1, <2>2
    <2>3. CASE results # <<>> /\ results' = Tail(results)
      <3> DEFINE head == Head(results)
      <3>1. head \in Result /\ head # NoItem /\ head.mem \in Nat
        <4>1. results \in Seq(Result)
          BY <1>1 DEF TypeOK
        <4>2. Head(results) \in Result
          BY <2>3, <4>1
        <4>3. QED
          BY <4>2, NoItemAssumption DEF Result
      <3>2. Held(head) = Clamp(head.mem) /\ Held(head) \in Nat
        BY <3>1, HeldType DEF Held
      <3>3. Queued(results) = Queued(results') + Held(head) /\ Queued(results') \in Nat
        <4>1. Tail(results) \in Seq(Job \cup Result)
          BY <1>1, <2>3
        <4>2. QED
          BY <1>1, <2>3, <3>2, <4>1, QueuedTail, AmountsInChannel
      <3>4. head.index \in Index /\ pending[head.index] = NoItem
        BY <1>1, <2>3, SlotIsFree
      <3> HIDE DEF head
      <3>5. CASE Release(head.mem) /\ UNCHANGED pending
        <4>1. Clamp(head.mem) <= used
          BY <1>2, <1>4, <3>2, <3>3
        <4>2. used' = used - Held(head)
          BY <1>2, <3>1, <3>2, <3>5, <4>1, ReleaseCounts
        <4>3. QED
          BY <1>2, <1>4, <1>5, <1>6, <1>7, <2>1, <3>2, <3>3, <3>5, <4>2 DEF Accounted
      <3>6. CASE pending' = [pending EXCEPT ![head.index] = head] /\ UNCHANGED used
        <4>1. Parked' + Held(pending[head.index]) = Parked + Held(head)
          BY <1>1, <3>4, <3>6, ParkedUpdate
        <4>2. Parked' = Parked + Held(head)
          BY <1>2, <1>3, <3>2, <3>4, <4>1 DEF Held
        <4>3. QED
          BY <1>2, <1>4, <1>5, <1>7, <2>1, <3>2, <3>3, <3>6, <4>2 DEF Accounted
      <3>7. QED
        BY <1>16, <2>3, <3>5, <3>6 DEF Receive, limVars, head
    <2>4. QED
      BY <1>16, <2>2, <2>3 DEF Receive, limVars
  <1>17. ASSUME NEW i \in Index, pending[i] # NoItem, pending' = [pending EXCEPT ![i] = NoItem],
                Release(pending[i].mem), UNCHANGED <<jobs, results, worker, prod>>
         PROVE  Accounted'
    <2> DEFINE item == pending[i]
    <2>1. item \in Result /\ item.mem \in Nat
      BY <1>1, <1>17 DEF TypeOK, Result
    <2>2. Held(item) = Clamp(item.mem) /\ Held(item) \in Nat /\ Held(NoItem) = 0
      BY <1>17, <2>1, HeldType DEF Held
    <2>3. Parked' + Held(item) = Parked
      <3>1. Parked' + Held(pending[i]) = Parked + Held(NoItem)
        BY <1>1, <1>17, ParkedUpdate
      <3>2. QED
        BY <1>2, <2>2, <3>1
    <2> HIDE DEF item
    <2>4. used' = used - Held(item)
      <3>1. Clamp(item.mem) <= used
        BY <1>2, <1>3, <1>4, <2>2, <2>3
      <3>2. QED
        BY <1>2, <1>17, <2>1, <2>2, <3>1, ReleaseCounts DEF item
    <2>5. QED
      BY <1>2, <1>3, <1>4, <1>5, <1>7, <1>17, <2>2, <2>3, <2>4 DEF Accounted
  <1>18. CASE WriteNext
    BY <1>17, <1>18 DEF WriteNext, WriterFrame, jobVars, Turn
  <1>19. CASE DrainPending
    BY <1>17, <1>19 DEF DrainPending, WriterFrame, jobVars
  <1>20. CASE CloseResults \/ OrderDone \/ EmitReport \/ PipelineEnd
    BY <1>7, <1>8, <1>20 DEF CloseResults, WorkerFrame, OrderDone, EmitReport, PipelineEnd,
         WriterFrame, writerVars, limVars, jobVars
  <1>21. CASE \/ Validate \/ EmitProgress \/ Scan \/ OpenPartial \/ CheckContext
              \/ Seal \/ Commit \/ Inspect \/ EmitComplete
              \/ Return \/ SaveHistory \/ SendError \/ CloseEvents
    BY <1>7, <1>8, <1>21 DEF Validate, EmitProgress, Scan, OpenPartial, CheckContext, Seal,
         Commit, Inspect, EmitComplete, Return, SaveHistory, SendError, CloseEvents,
         writerVars, poolVars, limVars, jobVars, resultVars
  <1>22. CASE HandlerReceive \/ Disconnect \/ UNCHANGED vars
    BY <1>7, <1>8, <1>22 DEF HandlerReceive, Disconnect, vars, writerVars, poolVars, limVars,
         jobVars, resultVars
  <1>23. QED
    BY <1>9, <1>10, <1>11, <1>12, <1>13, <1>14, <1>15, <1>16, <1>18, <1>19, <1>20, <1>21,
       <1>22 DEF Next, Main, Producer, Worker, Finished

\* The limiter's count is exactly what is reserved by the jobs and results in
\* flight, on every path, and never above the budget (processor.go:92-143).
THEOREM MemoryIsAccounted == Spec => []MemoryAccounted
  <1>1. Spec => [](EmptyHands /\ Progress)
    BY AlwaysTyping, AlwaysLifetimes, ProgressInit, EmptyHandsStep, ProgressStep, PTL DEF Spec
  <1>2. Spec => []Accounted
    BY AlwaysTyping, AlwaysLifetimes, AlwaysOrdered, AlwaysCustody, <1>1, AccountedInit,
       AccountedStep, PTL DEF Spec
  <1>3. TypeOK /\ Accounted => MemoryAccounted
    <2>1. SUFFICES ASSUME TypeOK, Accounted PROVE MemoryAccounted
      OBVIOUS
    <2>2. used = HeldMemory /\ used <= Limit
      BY <2>1, HeldMemoryIs DEF Accounted, TypeOK
    <2>3. QED
      BY <2>2 DEF MemoryAccounted
  <1>4. QED
    BY TypeCorrect, <1>2, <1>3, PTL

-------------------------------------------------------------------------------
(* No lost wakeup.  A producer that waits with its snapshot still open does *)
(* not fit: what it waits for is held by something that will release it.    *)

\* A waiting producer that no release has woken does not fit.
Waiting == prod.pc = "wait" /\ ~snapshotClosed => prod.mem > 0 /\ ~Fits(prod.mem)

\* a release wakes the producer, or gives nothing back
LEMMA ReleaseWakes ==
    ASSUME Waiting, NEW amount, Release(amount), UNCHANGED prod
    PROVE  Waiting'
  <1>1. CASE amount = 0
    BY <1>1 DEF Waiting, Release, limVars, Fits
  <1>2. CASE amount # 0
    BY <1>2 DEF Waiting, Release
  <1>3. QED
    BY <1>1, <1>2

\* The test and the snapshot of acquire are one step, and a release between the
\* snapshot and the wait closes the snapshot.
LEMMA WaitingStep == TypeOK /\ Waiting /\ [Next]_vars => Waiting'
  <1> SUFFICES ASSUME TypeOK, Waiting, [Next]_vars PROVE Waiting'
    OBVIOUS
  <1>1. ASSUME UNCHANGED <<prod, used, snapshotClosed>> PROVE Waiting'
    BY <1>1 DEF Waiting, Fits
  <1>2. ASSUME NEW amount, Release(amount), UNCHANGED prod PROVE Waiting'
    BY <1>2, ReleaseWakes
  <1>3. prod = [pc |-> prod.pc, next |-> prod.next, mem |-> prod.mem]
    BY DEF TypeOK, ProducerState
  <1>4. CASE StatFile \/ WakeAcquire \/ SendJob
    <2>1. prod'.pc # "wait"
      <3>1. CASE \E amount \in Amounts : prod' = [prod EXCEPT !.pc = "acquire", !.mem = amount]
        BY <1>3, <3>1
      <3>2. CASE prod' = [prod EXCEPT !.pc = "acquire"] \/ prod' = [prod EXCEPT !.pc = "done"]
        BY <1>3, <3>2
      <3>3. CASE prod' = [pc |-> IF prod.next + 1 < NumFiles THEN "stat" ELSE "done",
                          next |-> prod.next + 1, mem |-> 0]
        BY <3>3
      <3>4. QED
        BY <1>4, <3>1, <3>2, <3>3 DEF StatFile, WakeAcquire, SendJob
    <2>2. QED
      BY <2>1 DEF Waiting
  <1>5. CASE Acquire
    <2>1. CASE prod' = [prod EXCEPT !.pc = "send"]
      BY <1>3, <2>1 DEF Waiting
    <2>2. CASE /\ prod.mem > 0 /\ ~Fits(prod.mem)
               /\ prod' = [prod EXCEPT !.pc = "wait"] /\ UNCHANGED used
      BY <1>3, <2>2 DEF Waiting, Fits
    <2>3. QED
      BY <1>5, <2>1, <2>2 DEF Acquire
  <1>6. CASE StartPipeline
    <2>1. prod'.pc = "stat" \/ UNCHANGED <<prod, used, snapshotClosed>>
      BY <1>6 DEF StartPipeline, limVars
    <2>2. QED
      BY <1>1, <2>1 DEF Waiting
  <1>7. ASSUME NEW w \in Workers, Worker(w) PROVE Waiting'
    BY <1>1, <1>2, <1>7 DEF Worker, TakeJob, ProcessFile, SendResult, WorkerFrame, limVars
  <1>8. CASE Receive \/ WriteNext \/ DrainPending
    BY <1>1, <1>2, <1>8 DEF Receive, WriteNext, DrainPending, WriterFrame, limVars
  <1>9. CASE CloseResults \/ OrderDone \/ EmitReport \/ PipelineEnd
    BY <1>1, <1>9 DEF CloseResults, WorkerFrame, OrderDone, EmitReport, PipelineEnd,
         WriterFrame, limVars
  <1>10. CASE \/ Validate \/ EmitProgress \/ Scan \/ OpenPartial \/ CheckContext
              \/ Seal \/ Commit \/ Inspect \/ EmitComplete
              \/ Return \/ SaveHistory \/ SendError \/ CloseEvents
    BY <1>1, <1>10 DEF Validate, EmitProgress, Scan, OpenPartial, CheckContext, Seal,
         Commit, Inspect, EmitComplete, Return, SaveHistory, SendError, CloseEvents,
         poolVars, limVars
  <1>11. CASE HandlerReceive \/ Disconnect \/ UNCHANGED vars
    BY <1>1, <1>11 DEF HandlerReceive, Disconnect, vars, poolVars, limVars
  <1>12. QED
    BY <1>4, <1>5, <1>6, <1>7, <1>8, <1>9, <1>10, <1>11 DEF Next, Main, Producer, Finished

\* A producer that waits has not missed the release it waits for: its snapshot
\* is closed already, or what the jobs and results in flight hold leaves no room
\* for it, and that is not nothing: their release will wake it
\* (processor.go:92-143).
NoLostWakeup ==
    prod.pc = "wait" /\ ~snapshotClosed =>
        /\ HeldMemory + Clamp(prod.mem) > Limit
        /\ HeldMemory > 0

\* Between a release and a waiting acquire no wakeup is lost (processor.go:92-143).
THEOREM NoWakeupIsLost == Spec => []NoLostWakeup
  <1>1. Init => Waiting
    BY DEF Init, Waiting
  <1>2. Spec => []Waiting
    BY TypeCorrect, <1>1, WaitingStep, PTL DEF Spec
  <1>3. TypeOK /\ MemoryAccounted /\ Waiting => NoLostWakeup
    <2>1. SUFFICES ASSUME TypeOK, MemoryAccounted, Waiting, prod.pc = "wait", ~snapshotClosed
                   PROVE  HeldMemory + Clamp(prod.mem) > Limit /\ HeldMemory > 0
      BY DEF NoLostWakeup
    <2>2. used \in Nat /\ Limit \in Nat /\ Clamp(prod.mem) \in 0 .. Limit
      <3>1. prod.mem \in Nat /\ used \in 0 .. Limit
        BY <2>1, AmountsAssumption DEF TypeOK, ProducerState
      <3>2. QED
        BY <3>1, LimitAssumption, ClampType
    <2>3. ~(used + Clamp(prod.mem) <= Limit) /\ used = HeldMemory
      BY <2>1 DEF Waiting, Fits, MemoryAccounted
    <2>4. QED
      BY <2>2, <2>3
  <1>4. QED
    BY TypeCorrect, MemoryIsAccounted, <1>2, <1>3, PTL

-------------------------------------------------------------------------------
(* No deadlock.  Memory is reserved in index order and written in index     *)
(* order, so when the producer waits for memory the index whose turn it is  *)
(* has its reservation already and is on its way to the writer.             *)

\* The pipeline starts as a whole, and the call ends in order.
Underway ==
    /\ prod.pc = "idle" => \A w \in Workers : worker[w].pc = "idle"
    /\ prod.pc # "idle" => \A w \in Workers : worker[w].pc # "idle"
    /\ main \in {"receive", "order", "report", "drain"} => prod.pc # "idle"
    /\ Returned => workersCancelled
    /\ main = "done" => eventsClosed

\* nothing has started in the initial state
LEMMA UnderwayInit == Init => Underway
  BY DEF Init, Underway, Returned

\* a step of the producer keeps it started
LEMMA UnderwayProducer ==
    ASSUME TypeOK, Underway, Producer
    PROVE  Underway'
  <1>1. prod.pc # "idle" /\ prod'.pc # "idle"
    <2>1. prod = [pc |-> prod.pc, next |-> prod.next, mem |-> prod.mem]
      BY DEF TypeOK, ProducerState
    <2>2. CASE StatFile
      BY <2>1, <2>2 DEF StatFile
    <2>3. CASE Acquire
      BY <2>1, <2>3 DEF Acquire
    <2>4. CASE WakeAcquire
      BY <2>1, <2>4 DEF WakeAcquire
    <2>5. CASE SendJob
      <3>1. CASE prod' = [prod EXCEPT !.pc = "done"]
        BY <2>1, <2>5, <3>1 DEF SendJob
      <3>2. CASE prod' = [pc   |-> IF prod.next + 1 < NumFiles THEN "stat" ELSE "done",
                          next |-> prod.next + 1, mem |-> 0]
        BY <2>5, <3>2 DEF SendJob
      <3>3. QED
        BY <2>5, <3>1, <3>2 DEF SendJob
    <2>6. QED
      BY <2>2, <2>3, <2>4, <2>5 DEF Producer
  <1>2. UNCHANGED <<worker, main, workersCancelled, eventsClosed>>
    BY DEF Producer, StatFile, Acquire, WakeAcquire, SendJob, ProducerFrame, ctxVars, eventVars
  <1>3. QED
    BY <1>1, <1>2 DEF Underway, Returned

\* a step of a worker keeps it started
LEMMA UnderwayWorker ==
    ASSUME TypeOK, Underway, NEW w \in Workers, Worker(w)
    PROVE  Underway'
  <1>1. PICK state \in [pc : {"recv", "process", "send", "exit"},
                        item : {worker'[w].item}] : worker' = [worker EXCEPT ![w] = state]
    BY DEF TypeOK, Worker, TakeJob, ProcessFile, SendResult
  <1>2. worker[w].pc # "idle" /\ state.pc # "idle"
    BY <1>1 DEF Worker, TakeJob, ProcessFile, SendResult
  <1>3. \A v \in Workers : worker[v].pc # "idle" => worker'[v].pc # "idle"
    BY <1>1, <1>2 DEF TypeOK
  <1>4. UNCHANGED <<prod, main, workersCancelled, eventsClosed>>
    BY DEF Worker, TakeJob, ProcessFile, SendResult, WorkerFrame, ctxVars, eventVars
  <1>5. QED
    BY <1>2, <1>3, <1>4 DEF Underway, Returned

\* Every step keeps this order.
LEMMA UnderwayStep == TypeOK /\ Underway /\ [Next]_vars => Underway'
  <1> SUFFICES ASSUME TypeOK, Underway, [Next]_vars PROVE Underway'
    OBVIOUS
  <1>1. CASE Producer
    BY <1>1, UnderwayProducer
  <1>2. ASSUME NEW w \in Workers, Worker(w) PROVE Underway'
    BY <1>2, UnderwayWorker
  <1>3. CASE CloseResults \/ HandlerReceive \/ Disconnect \/ UNCHANGED vars
    BY <1>3 DEF CloseResults, HandlerReceive, Disconnect, vars, WorkerFrame, ctxVars, poolVars,
         eventVars, Underway, Returned
  <1>4. CASE StartPipeline
    <2>1. CASE UNCHANGED <<prod, worker>>
      BY <1>4, <2>1 DEF StartPipeline, Goto, Fail, ctxVars, eventVars, Underway, Returned
    <2>2. CASE /\ prod' = [pc |-> "stat", next |-> 0, mem |-> 0]
               /\ worker' = [w \in Workers |-> [pc |-> "recv", item |-> NoItem]]
      BY <1>4, <2>2 DEF StartPipeline, Goto, Fail, ctxVars, eventVars, Underway, Returned
    <2>3. QED
      BY <1>4, <2>1, <2>2 DEF StartPipeline
  <1>5. CASE Validate \/ Scan \/ EmitProgress \/ OpenPartial
    BY <1>5 DEF Validate, Scan, EmitProgress, EmitPhases, OpenPartial, Goto, Fail, ctxVars,
         poolVars, eventVars, Underway, Returned
  <1>6. CASE Receive \/ WriteNext \/ OrderDone \/ EmitReport
    BY <1>6 DEF Receive, WriteNext, OrderDone, EmitReport, WriterFrame, ctxVars, writerVars,
         Underway, Returned
  <1>7. CASE DrainPending \/ PipelineEnd
    BY <1>7 DEF DrainPending, PipelineEnd, WriterFrame, Goto, Fail, ctxVars, writerVars,
         Underway, Returned
  <1>8. CASE CheckContext \/ Seal \/ Commit \/ Inspect \/ EmitComplete
    BY <1>8 DEF CheckContext, Seal, Commit, Inspect, EmitComplete, Goto, Fail, ctxVars,
         poolVars, eventVars, Underway, Returned
  <1>9. CASE Return \/ SaveHistory \/ SendError \/ CloseEvents
    BY <1>9 DEF Return, AfterGenerate, SaveHistory, SendError, CloseEvents, ctxVars, callVars,
         poolVars, eventVars, Underway, Returned
  <1>10. QED
    BY <1>1, <1>2, <1>3, <1>4, <1>5, <1>6, <1>7, <1>8, <1>9 DEF Next, Main, Finished

\* what memory is in use although the channels and hands are empty is parked
LEMMA ParkedResult ==
    ASSUME TypeOK, EmptyHands, HeldMemory > 0, prod.pc = "wait", jobs = <<>>, results = <<>>,
           \A w \in Workers : worker[w].pc \notin {"process", "send"}
    PROVE  \E i \in Index : pending[i] # NoItem
  <1> SUFFICES ASSUME \A i \in Index : pending[i] = NoItem PROVE FALSE
    OBVIOUS
  <1>1. Queued(jobs) = 0 /\ Queued(results) = 0
    <2>1. DOMAIN jobs = {} /\ DOMAIN results = {}
      OBVIOUS
    <2>2. QED
      BY <2>1, TotalEmpty DEF Queued
  <1>2. \A w \in Workers : InWorkers[w] = 0
    BY DEF EmptyHands, InWorkers, Held
  <1>3. \A i \in Index : InPending[i] = 0
    BY DEF InPending, Held
  <1>4. Total(InWorkers, Workers) = Total(InWorkers, {})
    BY <1>2, TotalAgrees
  <1>5. Total(InPending, Index) = Total(InPending, {})
    BY <1>3, TotalAgrees
  <1>6. Carried = 0 /\ Parked = 0
    BY <1>4, <1>5, TotalEmpty DEF Carried, Parked
  <1>7. AtProducer = 0
    BY DEF AtProducer
  <1>8. HeldMemory = 0
    BY <1>1, <1>6, <1>7, HeldMemoryIs
  <1>9. QED
    BY <1>8

\* A producer that waits for parked memory, with nothing on the way, would have
\* to have skipped the index whose turn it is.
LEMMA TurnIsOnItsWay ==
    ASSUME Typing, Ordered, EmptyHands, Progress, Custody, ~WorkDone, main = "receive",
           jobs = <<>>, results = <<>>,
           \A w \in Workers : worker[w].pc \notin {"process", "send"},
           NEW i \in Index, pending[i] # NoItem
    PROVE  FALSE
  <1>1. \A j : Holders(j) = {} /\ At(<<>>, j) = {}
    BY DEF EmptyHands, Holders, At
  <1>2. ASSUME NEW j \in Index
        PROVE  /\ Cardinality(At(written, j)) \in Nat /\ IsFiniteSet(At(written, j))
               /\ Places(j) = Cardinality(At(written, j))
                              + (IF pending[j] = NoItem THEN 0 ELSE 1)
    <2>1. Cardinality(At(written, j)) \in Nat /\ IsFiniteSet(At(written, j))
      BY AtFinite DEF Typing, TypeOK
    <2>2. Places(j) = Cardinality(At(jobs, j)) + Cardinality(At(results, j))
                      + Cardinality(At(written, j)) + Cardinality(Holders(j))
                      + (IF pending[j] = NoItem THEN 0 ELSE 1)
      BY Zenon DEF Places, At, Holders
    <2>3. At(jobs, j) = {} /\ At(results, j) = {} /\ Holders(j) = {}
      BY <1>1
    <2>4. Cardinality(At(jobs, j)) = 0 /\ Cardinality(At(results, j)) = 0
          /\ Cardinality(Holders(j)) = 0
      BY <2>3, FS_EmptySet
    <2>5. Places(j) = Cardinality(At(written, j)) + (IF pending[j] = NoItem THEN 0 ELSE 1)
      BY <2>1, <2>2, <2>4
    <2>6. QED
      BY <2>1, <2>5
  <1>3. /\ written \in Seq(Result) /\ Len(written) \in Nat /\ Len(written) = nextIndex
        /\ DOMAIN written = 1 .. Len(written)
    BY DEF Typing, TypeOK, Ordered, Progress, WorkDone
  <1>4. /\ i \in Nat /\ i < NumFiles /\ NumFiles \in Nat /\ prod.next \in Nat
        /\ nextIndex \in Nat
    BY NumFilesAssumption DEF Index, Typing, TypeOK, ProducerState
  <1>5. i < prod.next
    <2>1. Places(i) # 0
      BY <1>2
    <2>2. QED
      BY <1>4, <2>1 DEF Custody
  <1>6. nextIndex <= i
    <2> SUFFICES ASSUME i < nextIndex PROVE FALSE
      BY <1>4
    <2>1. i + 1 \in At(written, i)
      BY <1>3, <1>4 DEF At, Ordered
    <2>2. Cardinality(At(written, i)) # 0
      BY <1>2, <2>1, FS_EmptySet
    <2>3. Places(i) \in {0, 1}
      BY DEF Custody
    <2>4. QED
      BY <1>2, <2>2, <2>3
  <1>7. nextIndex \in Index /\ pending[nextIndex] = NoItem /\ nextIndex < prod.next
    <2>1. nextIndex \in Index /\ nextIndex < prod.next
      BY <1>4, <1>5, <1>6 DEF Index
    <2>2. QED
      BY <2>1 DEF Progress, Turn
  <1>8. At(written, nextIndex) = {}
    BY <1>3 DEF At, Ordered
  <1>9. Places(nextIndex) = 0
    BY <1>2, <1>7, <1>8, FS_EmptySet
  <1>10. QED
    BY <1>7, <1>9 DEF Custody

\* There is a worker, and so there is room in the empty channels.
LEMMA ChannelsHaveRoom == Len(<<>>) < ChanCap /\ Len(<<>>) < EventsCap
  <1>1. Cardinality(Workers) \in Nat /\ Cardinality(Workers) # 0
    BY WorkersAssumption, FS_CardinalityType, FS_EmptySet
  <1>2. EventsCap \in Nat \ {0}
    BY ChannelAssumption
  <1>3. QED
    BY <1>1, <1>2 DEF ChanCap

\* While Generate runs somebody can step.
LEMMA RunningCanStep ==
    ASSUME Typing, Lifetimes, Ordered, EmptyHands, Progress, Custody, Verdict, NoLostWakeup,
           Underway, main # "done"
    PROVE  NeverStuck
  <1> SUFFICES ASSUME ~MainCanStep, ~ProducerCanStep, ~CloserCanStep, ~HandlerCanStep,
                      \A w \in Workers : ~WorkerCanStep(w)
               PROVE  FALSE
    BY DEF NeverStuck
  <1>1. events = <<>> /\ handler = "draining"
    BY DEF Verdict, HandlerCanStep, Typing, TypeOK
  <1>2. main = "receive" /\ results = <<>> /\ ~resultsClosed
    BY <1>1, ChannelsHaveRoom DEF MainCanStep
  <1>3. \A w \in Workers : worker[w].pc \in {"recv", "exit"}
    BY <1>2, ChannelsHaveRoom DEF WorkerCanStep, Underway, Typing, TypeOK, WorkerState
  <1>4. jobs = <<>> /\ ~jobsClosed
    BY <1>2, <1>3 DEF WorkerCanStep, CloserCanStep
  <1>5. prod.pc = "wait" /\ ~snapshotClosed /\ ~WorkDone
    BY <1>2, <1>4, ChannelsHaveRoom
       DEF ProducerCanStep, Underway, Progress, Typing, TypeOK, ProducerState
  <1>6. PICK i \in Index : pending[i] # NoItem
    BY <1>2, <1>3, <1>4, <1>5, ParkedResult DEF NoLostWakeup, Typing
  <1>7. QED
    BY <1>2, <1>3, <1>4, <1>5, <1>6, TurnIsOnItsWay

\* After it everybody else can, until nobody is left.
LEMMA RestCanStep ==
    ASSUME Typing, Lifetimes, Underway, Verdict, main = "done"
    PROVE  NeverStuck
  <1>1. eventsClosed /\ WorkDone
    BY DEF Underway, Returned, WorkDone
  <1>2. CASE handler = "draining"
    BY <1>1, <1>2 DEF NeverStuck, HandlerCanStep
  <1>3. CASE prod.pc \notin {"idle", "done"}
    BY <1>1, <1>3 DEF NeverStuck, ProducerCanStep
  <1>4. CASE handler = "returned" /\ prod.pc \in {"idle", "done"}
    <2>1. resultsClosed \/ \A w \in Workers : worker[w].pc = "idle"
      BY DEF Lifetimes, EndPhases
    <2>2. \A w \in Workers : worker[w].pc \in {"idle", "exit"}
      BY <2>1 DEF Lifetimes
    <2>3. prod.pc = "done" => resultsClosed
      BY <2>1, WorkersAssumption DEF Underway
    <2>4. QED
      BY <1>4, <2>2, <2>3 DEF NeverStuck, Quiescent
  <1>5. QED
    BY <1>2, <1>3, <1>4 DEF Typing, TypeOK

\* Neither the budget, nor the bounded channels, nor the order of writing, nor a
\* cancellation can make the goroutines of a request wait for each other
\* (generator.go:105-146, 267-300, processor.go:103-130, handlers.go:344-366).
THEOREM NoDeadlock == Spec => []NeverStuck
  <1>1. Spec => [](EmptyHands /\ Progress)
    BY AlwaysTyping, AlwaysLifetimes, ProgressInit, EmptyHandsStep, ProgressStep, PTL DEF Spec
  <1>2. Spec => []Underway
    BY TypeCorrect, UnderwayInit, UnderwayStep, PTL DEF Spec
  <1>3. /\ Typing /\ Lifetimes /\ Ordered /\ EmptyHands /\ Progress /\ Custody /\ Verdict
        /\ NoLostWakeup /\ Underway
        => NeverStuck
    BY RunningCanStep, RestCanStep
  <1>4. QED
    BY AlwaysTyping, AlwaysLifetimes, AlwaysOrdered, AlwaysCustody, AlwaysVerdict,
       NoWakeupIsLost, <1>1, <1>2, <1>3, PTL

-------------------------------------------------------------------------------
(* Termination.  Every step, the client's leaving included, makes Remaining  *)
(* smaller: the steps that every file, goroutine and event can still take.   *)
(* A file costs one step of the producer for its stat, one or two for its    *)
(* reservation, and so on to its place in the document; what each release    *)
(* of memory costs is that the waiting producer tests again, two steps.      *)

\* the calling goroutine; emitting an event costs the handler one step
MainLeft ==
    CASE main = "validate" -> 27 [] main = "emitScan" -> 26 [] main = "scan" -> 24
      [] main = "emitFound" -> 23 [] main = "emitLog" -> 21 [] main = "open" -> 19
      [] main = "header" -> 18 [] main = "order" -> 17 [] main = "report" -> 16
      [] main = "receive" -> 14 [] main = "drain" -> 13 [] main = "check" -> 12
      [] main = "emitFinal" -> 11 [] main = "seal" -> 9 [] main = "commit" -> 8
      [] main = "inspect" -> 7 [] main = "emitComplete" -> 6 [] main = "return" -> 4
      [] main = "sendError" -> 3 [] main = "save" -> 2 [] main = "close" -> 1
      [] main = "done" -> 0

\* the producer, with the file in its hands
ProducerLeft ==
    CASE prod.pc = "idle" -> 3 [] prod.pc = "stat" -> 3 [] prod.pc = "acquire" -> 2
      [] prod.pc = "wait" -> (IF snapshotClosed THEN 3 ELSE 1) [] prod.pc = "send" -> 1
      [] prod.pc = "done" -> 0

\* the files the producer has not queued
Unsent == IF prod.pc = "done" THEN 0 ELSE NumFiles - prod.next

\* a worker: its exit, and what the file in its hands still takes up to its place
\* in the document
StageLeft(pc) ==
    CASE pc = "idle" -> 1 [] pc = "recv" -> 1 [] pc = "process" -> 12 [] pc = "send" -> 9
      [] pc = "exit" -> 0

InStages    == [w \in Workers |-> StageLeft(worker[w].pc)]
WorkersLeft == Total(InStages, Workers)

\* the results out of turn, each with the step that writes it and a release
InSlots   == [i \in Index |-> IF pending[i] = NoItem THEN 0 ELSE 3]
SlotsLeft == Total(InSlots, Index)

Flag(condition) == IF condition THEN 1 ELSE 0
\* the client may leave, results be closed and the handler return, once each
OnceLeft == Flag(~ctxDone) + Flag(~resultsClosed) + Flag(handler = "draining")

\* A file weighs 15 before the producer takes it, 12 in the queue of jobs, 7 in that
\* of results; what has not begun weighs what it will take.
Remaining ==
    MainLeft + ProducerLeft + 15 * Unsent + 12 * Len(jobs) + WorkersLeft
    + 7 * Len(results) + SlotsLeft + Len(events) + OnceLeft

\* The parts of Remaining are numbers.
LEMMA PartsAreNumbers ==
    ASSUME Typing
    PROVE  /\ MainLeft \in Nat /\ ProducerLeft \in Nat /\ Unsent \in Nat /\ Len(jobs) \in Nat
           /\ WorkersLeft \in Nat /\ Len(results) \in Nat /\ SlotsLeft \in Nat
           /\ Len(events) \in Nat /\ OnceLeft \in Nat
           /\ InStages \in [Workers -> Nat] /\ InSlots \in [Index -> Nat]
           /\ IsFiniteSet(Workers) /\ IsFiniteSet(Index)
  <1>1. MainLeft \in Nat
    BY DEF Typing, TypeOK, MainPhases, EmitPhases, MainLeft
  <1>2. ProducerLeft \in Nat
    BY DEF Typing, TypeOK, ProducerState, ProducerLeft
  <1>3. Unsent \in Nat
    BY DEF Typing, TypeOK, ProducerState, Index, Unsent
  <1>4. Len(jobs) \in Nat /\ Len(results) \in Nat /\ Len(events) \in Nat
    BY DEF Typing, TypeOK
  <1>5. InStages \in [Workers -> Nat]
    BY DEF Typing, TypeOK, WorkerState, InStages, StageLeft
  <1>6. InSlots \in [Index -> Nat]
    BY DEF InSlots
  <1>7. IsFiniteSet(Workers) /\ IsFiniteSet(Index)
    BY WorkersAssumption, FS_Interval DEF Index
  <1>8. WorkersLeft \in Nat /\ SlotsLeft \in Nat
    BY <1>5, <1>6, <1>7, TotalType DEF WorkersLeft, SlotsLeft
  <1>9. OnceLeft \in Nat
    BY DEF OnceLeft, Flag
  <1>10. QED
    BY <1>1, <1>2, <1>3, <1>4, <1>5, <1>6, <1>7, <1>8, <1>9

\* A part whose variables do not change does not change.
LEMMA PartsKept ==
    /\ UNCHANGED main => MainLeft' = MainLeft
    /\ UNCHANGED <<prod, snapshotClosed>> => ProducerLeft' = ProducerLeft
    /\ UNCHANGED prod => Unsent' = Unsent
    /\ UNCHANGED worker => WorkersLeft' = WorkersLeft
    /\ UNCHANGED pending => SlotsLeft' = SlotsLeft
    /\ UNCHANGED <<ctxDone, resultsClosed, handler>> => OnceLeft' = OnceLeft
  <1>1. UNCHANGED main => MainLeft' = MainLeft
    BY DEF MainLeft
  <1>2. UNCHANGED <<prod, snapshotClosed>> => ProducerLeft' = ProducerLeft
    BY DEF ProducerLeft
  <1>3. UNCHANGED prod => Unsent' = Unsent
    BY DEF Unsent
  <1>4. UNCHANGED worker => WorkersLeft' = WorkersLeft
    BY DEF WorkersLeft, InStages
  <1>5. UNCHANGED pending => SlotsLeft' = SlotsLeft
    BY DEF SlotsLeft, InSlots
  <1>6. UNCHANGED <<ctxDone, resultsClosed, handler>> => OnceLeft' = OnceLeft
    BY DEF OnceLeft, Flag
  <1>7. QED
    BY <1>1, <1>2, <1>3, <1>4, <1>5, <1>6

\* Differences, for the sums below.
LEMMA LessBy ==
    \A p, q \in Nat : /\ p < q => \E d \in Nat \ {0} : p = q - d
                      /\ p < q - 1 => \E d \in Nat \ {0} : p = q - 1 - d
  <1>1. ASSUME NEW p \in Nat, NEW q \in Nat, p < q
        PROVE  q - p \in Nat \ {0} /\ p = q - (q - p)
    BY <1>1
  <1>2. ASSUME NEW p \in Nat, NEW q \in Nat, p < q - 1
        PROVE  q - 1 - p \in Nat \ {0} /\ p = q - 1 - (q - 1 - p)
    BY <1>2
  <1>3. QED
    BY <1>1, <1>2

\* A release costs at most another test of the waiting producer.
LEMMA ReleaseLeft ==
    ASSUME Typing, NEW amount, Release(amount), UNCHANGED prod
    PROVE  /\ Unsent' = Unsent
           /\ ProducerLeft' = ProducerLeft \/ ProducerLeft' = ProducerLeft + 2
  <1>1. Unsent' = Unsent
    BY PartsKept
  <1>2. snapshotClosed' = snapshotClosed \/ (snapshotClosed' /\ prod.pc = "wait")
    BY Zenon DEF Release, limVars, Typing, TypeOK
  <1>3. ProducerLeft' = ProducerLeft \/ ProducerLeft' = ProducerLeft + 2
    BY <1>2 DEF ProducerLeft, Typing, TypeOK, ProducerState
  <1>4. QED
    BY <1>1, <1>3

\* The steps that a worker at each stage still takes with its file.
LEMMA StageValues ==
    /\ StageLeft("idle") = 1 /\ StageLeft("recv") = 1 /\ StageLeft("process") = 12
    /\ StageLeft("send") = 9 /\ StageLeft("exit") = 0
  BY DEF StageLeft

\* A worker that changes its stage changes the sum by the difference.
LEMMA StageUpdate ==
    ASSUME Typing, Typing', NEW w \in Workers, NEW stage, NEW item,
           worker' = [worker EXCEPT ![w] = [pc |-> stage, item |-> item]]
    PROVE  /\ worker[w].pc = "recv" /\ stage = "process" => WorkersLeft' = WorkersLeft + 11
           /\ worker[w].pc = "recv" /\ stage = "exit" => WorkersLeft' = WorkersLeft - 1
           /\ worker[w].pc = "process" /\ stage = "send" => WorkersLeft' = WorkersLeft - 3
           /\ worker[w].pc = "send" /\ stage = "exit" => WorkersLeft' = WorkersLeft - 9
           /\ worker[w].pc = "send" /\ stage = "recv" => WorkersLeft' = WorkersLeft - 8
  <1>1. worker \in [Workers -> WorkerState] /\ IsFiniteSet(Workers)
        /\ InStages \in [Workers -> Nat]
    BY PartsAreNumbers DEF Typing, TypeOK
  <1>2. InStages' \in [Workers -> Nat]
    BY DEF Typing, TypeOK, WorkerState, InStages, StageLeft
  <1>3. /\ \A v \in Workers \ {w} : InStages'[v] = InStages[v]
        /\ InStages[w] = StageLeft(worker[w].pc) /\ InStages'[w] = StageLeft(stage)
    BY <1>1 DEF InStages
  <1>4. Total(InStages', Workers) + InStages[w] = Total(InStages, Workers) + InStages'[w]
    BY ONLY <1>1, <1>2, <1>3, TotalUpdate
  <1>5. Total(InStages', Workers) \in Nat /\ Total(InStages, Workers) \in Nat
    BY <1>1, <1>2, TotalType
  <1>6. CASE worker[w].pc = "recv" /\ stage = "process"
    <2>1. InStages[w] = 1 /\ InStages'[w] = 12
      BY <1>3, <1>6, StageValues
    <2>2. WorkersLeft' = WorkersLeft + 11
      BY ONLY <1>4, <1>5, <2>1 DEF WorkersLeft
    <2>3. QED
      BY <1>6, <2>2
  <1>7. CASE worker[w].pc = "recv" /\ stage = "exit"
    <2>1. InStages[w] = 1 /\ InStages'[w] = 0
      BY <1>3, <1>7, StageValues
    <2>2. WorkersLeft' = WorkersLeft - 1
      BY ONLY <1>4, <1>5, <2>1 DEF WorkersLeft
    <2>3. QED
      BY <1>7, <2>2
  <1>8. CASE worker[w].pc = "process" /\ stage = "send"
    <2>1. InStages[w] = 12 /\ InStages'[w] = 9
      BY <1>3, <1>8, StageValues
    <2>2. WorkersLeft' = WorkersLeft - 3
      BY ONLY <1>4, <1>5, <2>1 DEF WorkersLeft
    <2>3. QED
      BY <1>8, <2>2
  <1>9. CASE worker[w].pc = "send" /\ stage = "exit"
    <2>1. InStages[w] = 9 /\ InStages'[w] = 0
      BY <1>3, <1>9, StageValues
    <2>2. WorkersLeft' = WorkersLeft - 9
      BY ONLY <1>4, <1>5, <2>1 DEF WorkersLeft
    <2>3. QED
      BY <1>9, <2>2
  <1>10. CASE worker[w].pc = "send" /\ stage = "recv"
    <2>1. InStages[w] = 9 /\ InStages'[w] = 1
      BY <1>3, <1>10, StageValues
    <2>2. WorkersLeft' = WorkersLeft - 8
      BY ONLY <1>4, <1>5, <2>1 DEF WorkersLeft
    <2>3. QED
      BY <1>10, <2>2
  <1>11. QED
    BY <1>6, <1>7, <1>8, <1>9, <1>10

\* The sum of the slots follows the slot that changes.
LEMMA SlotUpdate ==
    ASSUME Typing, Typing', NEW i \in Index, \A j \in Index \ {i} : pending'[j] = pending[j],
           NEW a \in Nat, NEW b \in Nat, InSlots[i] = a, InSlots'[i] = b
    PROVE  SlotsLeft' = SlotsLeft + b - a
  <1>1. IsFiniteSet(Index) /\ InSlots \in [Index -> Nat]
    BY PartsAreNumbers
  <1>2. InSlots' \in [Index -> Nat]
    BY DEF InSlots
  <1>3. \A j \in Index \ {i} : InSlots'[j] = InSlots[j]
    BY DEF InSlots
  <1>4. Total(InSlots', Index) + InSlots[i] = Total(InSlots, Index) + InSlots'[i]
    BY ONLY <1>1, <1>2, <1>3, TotalUpdate
  <1>5. Total(InSlots', Index) \in Nat /\ Total(InSlots, Index) \in Nat
    BY <1>1, <1>2, TotalType
  <1>6. InSlots[i] = a /\ InSlots'[i] = b /\ a \in Nat /\ b \in Nat
    OBVIOUS
  <1>7. QED
    BY ONLY <1>4, <1>5, <1>6 DEF SlotsLeft

\* A result that is filed adds three, or takes the place of another.
LEMMA SlotFilled ==
    ASSUME Typing, Typing', NEW i \in Index, pending'[i] # NoItem,
           \A j \in Index \ {i} : pending'[j] = pending[j]
    PROVE  SlotsLeft' = SlotsLeft \/ SlotsLeft' = SlotsLeft + 3
  <1>1. SlotsLeft \in Nat
    BY PartsAreNumbers
  <1>2. InSlots'[i] = 3 /\ (InSlots[i] = 3 \/ InSlots[i] = 0)
    BY DEF InSlots
  <1>3. CASE InSlots[i] = 3
    <2>1. SlotsLeft' = SlotsLeft + 3 - 3
      BY <1>2, <1>3, SlotUpdate
    <2>2. QED
      BY ONLY <1>1, <2>1
  <1>4. CASE InSlots[i] = 0
    <2>1. SlotsLeft' = SlotsLeft + 3 - 0
      BY <1>2, <1>4, SlotUpdate
    <2>2. QED
      BY ONLY <1>1, <2>1
  <1>5. QED
    BY <1>2, <1>3, <1>4

\* A result that is taken out subtracts three.
LEMMA SlotEmptied ==
    ASSUME Typing, Typing', NEW i \in Index, pending[i] # NoItem,
           pending' = [pending EXCEPT ![i] = NoItem]
    PROVE  SlotsLeft' = SlotsLeft - 3
  <1>1. SlotsLeft \in Nat /\ pending \in [Index -> Result \cup {NoItem}]
    BY PartsAreNumbers DEF Typing, TypeOK
  <1>2. InSlots'[i] = 0 /\ InSlots[i] = 3
    BY <1>1 DEF InSlots
  <1>3. \A j \in Index \ {i} : pending'[j] = pending[j]
    BY <1>1
  <1>4. SlotsLeft' = SlotsLeft + 0 - 3
    BY <1>2, <1>3, SlotUpdate
  <1>5. QED
    BY ONLY <1>1, <1>4

\* The parts of Remaining are numbers, as a formula that can be primed.
Numbers ==
    /\ MainLeft \in Nat /\ ProducerLeft \in Nat /\ Unsent \in Nat /\ Len(jobs) \in Nat
    /\ WorkersLeft \in Nat /\ Len(results) \in Nat /\ SlotsLeft \in Nat
    /\ Len(events) \in Nat /\ OnceLeft \in Nat

\* They are in every state.
LEMMA NumbersAlways == Typing => Numbers
  BY PartsAreNumbers DEF Numbers

\* They are after a step.
LEMMA NumbersLater == Typing' => Numbers'
  BY NumbersAlways, PTL

\* Their weighted sum is a number.
LEMMA RemainingIsNumber == Typing => Remaining \in Nat
  <1>1. SUFFICES ASSUME Numbers PROVE Remaining \in Nat
    BY NumbersAlways
  <1>2. 15 * Unsent \in Nat /\ 12 * Len(jobs) \in Nat /\ 7 * Len(results) \in Nat
    BY ONLY <1>1 DEF Numbers
  <1>3. QED
    BY ONLY <1>1, <1>2 DEF Numbers, Remaining

\* It is after a step.
LEMMA RemainingIsNumberLater == Typing' => (Remaining \in Nat)'
  BY RemainingIsNumber, PTL

\* A step of the producer makes Remaining smaller.
LEMMA ProducerRunsOut ==
    ASSUME Typing, Typing', Producer
    PROVE  Remaining' < Remaining
  <1>1. Numbers /\ Numbers'
    BY NumbersAlways, NumbersLater
  <1>2. /\ MainLeft' = MainLeft /\ WorkersLeft' = WorkersLeft /\ SlotsLeft' = SlotsLeft
        /\ OnceLeft' = OnceLeft /\ Len(results') = Len(results) /\ Len(events') = Len(events)
    <2>1. UNCHANGED <<main, worker, pending, ctxDone, resultsClosed, handler, results, events>>
      BY DEF Producer, StatFile, Acquire, WakeAcquire, SendJob, ProducerFrame, ctxVars,
         writerVars, resultVars, eventVars, clientVars
    <2>2. QED
      BY <2>1, PartsKept
  <1>3. prod = [pc |-> prod.pc, next |-> prod.next, mem |-> prod.mem]
        /\ prod.next \in Nat /\ (prod.pc # "done" => prod.next < NumFiles)
    BY DEF Typing, TypeOK, ProducerState, Index
  <1>4. CASE UNCHANGED jobs
    <2>1. ProducerLeft' < ProducerLeft /\ (Unsent' = Unsent \/ Unsent' = 0)
      <3>1. CASE StatFile
        BY <1>3, <3>1 DEF StatFile, ProducerLeft, Unsent
      <3>2. CASE Acquire
        BY <1>3, <3>2 DEF Acquire, ProducerLeft, Unsent
      <3>3. CASE WakeAcquire
        BY <1>3, <3>3 DEF WakeAcquire, ProducerLeft, Unsent
      <3>4. CASE SendJob
        <4>1. jobs' # Append(jobs, [index |-> prod.next, mem |-> prod.mem])
          BY <1>4 DEF Typing, TypeOK
        <4>2. QED
          BY <1>3, <3>4, <4>1 DEF SendJob, ProducerLeft, Unsent
      <3>5. QED
        BY <3>1, <3>2, <3>3, <3>4 DEF Producer
    <2>2. PICK d \in Nat \ {0} : ProducerLeft' = ProducerLeft - d
      BY <1>1, <2>1, LessBy DEF Numbers
    <2>3. Len(jobs') = Len(jobs)
      BY <1>4
    <2>4. CASE Unsent' = Unsent
      BY ONLY <1>1, <1>2, <2>2, <2>3, <2>4 DEF Numbers, Remaining
    <2>5. CASE Unsent' = 0
      BY ONLY <1>1, <1>2, <2>2, <2>3, <2>5 DEF Numbers, Remaining
    <2>6. QED
      BY <2>1, <2>4, <2>5
  <1>5. CASE ~UNCHANGED jobs
    <2>1. /\ prod.pc = "send"
          /\ jobs' = Append(jobs, [index |-> prod.next, mem |-> prod.mem])
          /\ prod' = [pc   |-> IF prod.next + 1 < NumFiles THEN "stat" ELSE "done",
                      next |-> prod.next + 1, mem |-> 0]
      BY <1>5 DEF Producer, StatFile, Acquire, WakeAcquire, SendJob, jobVars
    <2>2. Len(jobs') = Len(jobs) + 1
      BY <2>1 DEF Typing, TypeOK
    <2>3. ProducerLeft = 1 /\ (ProducerLeft' = 3 \/ ProducerLeft' = 0)
      BY <1>3, <2>1 DEF ProducerLeft
    <2>4. Unsent' = Unsent - 1
      BY <1>3, <2>1 DEF Unsent
    <2>5. CASE ProducerLeft' = 3
      BY ONLY <1>1, <1>2, <2>2, <2>3, <2>4, <2>5 DEF Numbers, Remaining
    <2>6. CASE ProducerLeft' = 0
      BY ONLY <1>1, <1>2, <2>2, <2>3, <2>4, <2>6 DEF Numbers, Remaining
    <2>7. QED
      BY <2>3, <2>5, <2>6
  <1>6. QED
    BY <1>4, <1>5

\* So does a step of a worker.
LEMMA WorkerRunsOut ==
    ASSUME Typing, Typing', NEW w \in Workers, Worker(w)
    PROVE  Remaining' < Remaining
  <1>1. Numbers /\ Numbers'
    BY NumbersAlways, NumbersLater
  <1>2. /\ MainLeft' = MainLeft /\ SlotsLeft' = SlotsLeft /\ Unsent' = Unsent
        /\ OnceLeft' = OnceLeft /\ Len(events') = Len(events) /\ UNCHANGED prod
    <2>1. UNCHANGED <<main, prod, pending, ctxDone, resultsClosed, handler, events>>
      BY DEF Worker, TakeJob, ProcessFile, SendResult, WorkerFrame, ctxVars, writerVars,
         resultVars, eventVars, clientVars
    <2>2. QED
      BY <2>1, PartsKept
  <1>3. UNCHANGED limVars => ProducerLeft' = ProducerLeft
    BY <1>2, PartsKept DEF limVars
  <1>4. CASE TakeJob(w) /\ jobs # <<>>
    <2>1. WorkersLeft' = WorkersLeft + 11
      <3>1. worker' = [worker EXCEPT ![w] = [pc |-> "process", item |-> Head(jobs)]]
            /\ worker[w].pc = "recv"
        BY <1>4 DEF TakeJob
      <3>2. QED
        BY <3>1, StageUpdate
    <2>2. Len(jobs') = Len(jobs) - 1 /\ Len(results') = Len(results) /\ UNCHANGED limVars
      BY <1>4 DEF TakeJob, resultVars, Typing, TypeOK
    <2>3. ProducerLeft' = ProducerLeft
      BY <1>3, <2>2
    <2>4. QED
      BY ONLY <1>1, <1>2, <2>1, <2>2, <2>3 DEF Numbers, Remaining
  <1>5. CASE TakeJob(w) /\ jobs = <<>>
    <2>1. WorkersLeft' = WorkersLeft - 1
      <3>1. worker' = [worker EXCEPT ![w] = [pc |-> "exit", item |-> NoItem]]
            /\ worker[w].pc = "recv"
        BY <1>5 DEF TakeJob
      <3>2. QED
        BY <3>1, StageUpdate
    <2>2. Len(jobs') = Len(jobs) /\ Len(results') = Len(results) /\ UNCHANGED limVars
      BY <1>5 DEF TakeJob, resultVars
    <2>3. ProducerLeft' = ProducerLeft
      BY <1>3, <2>2
    <2>4. QED
      BY ONLY <1>1, <1>2, <2>1, <2>2, <2>3 DEF Numbers, Remaining
  <1>6. CASE ProcessFile(w)
    <2>1. WorkersLeft' = WorkersLeft - 3
      <3>1. PICK item : worker' = [worker EXCEPT ![w] = [pc |-> "send", item |-> item]]
                        /\ worker[w].pc = "process"
        BY <1>6 DEF ProcessFile
      <3>2. QED
        BY <3>1, StageUpdate
    <2>2. ProducerLeft' = ProducerLeft \/ ProducerLeft' = ProducerLeft + 2
      BY <1>2, <1>6, ReleaseLeft DEF ProcessFile
    <2>3. Len(jobs') = Len(jobs) /\ Len(results') = Len(results)
      BY <1>6 DEF ProcessFile, jobVars, resultVars
    <2>4. CASE ProducerLeft' = ProducerLeft
      BY ONLY <1>1, <1>2, <2>1, <2>3, <2>4 DEF Numbers, Remaining
    <2>5. CASE ProducerLeft' = ProducerLeft + 2
      BY ONLY <1>1, <1>2, <2>1, <2>3, <2>5 DEF Numbers, Remaining
    <2>6. QED
      BY <2>2, <2>4, <2>5
  <1>7. CASE SendResult(w) /\ UNCHANGED results
    <2>1. worker' = [worker EXCEPT ![w] = [pc |-> "exit", item |-> NoItem]]
          /\ worker[w].pc = "send" /\ Release(worker[w].item.mem)
      <3>1. results' # Append(results, worker[w].item)
        BY <1>7 DEF Typing, TypeOK
      <3>2. QED
        BY <1>7, <3>1 DEF SendResult
    <2>2. WorkersLeft' = WorkersLeft - 9
      BY <2>1, StageUpdate
    <2>3. ProducerLeft' = ProducerLeft \/ ProducerLeft' = ProducerLeft + 2
      BY <1>2, <2>1, ReleaseLeft
    <2>4. Len(jobs') = Len(jobs) /\ Len(results') = Len(results)
      BY <1>7 DEF SendResult, jobVars
    <2>5. CASE ProducerLeft' = ProducerLeft
      BY ONLY <1>1, <1>2, <2>2, <2>4, <2>5 DEF Numbers, Remaining
    <2>6. CASE ProducerLeft' = ProducerLeft + 2
      BY ONLY <1>1, <1>2, <2>2, <2>4, <2>6 DEF Numbers, Remaining
    <2>7. QED
      BY <2>3, <2>5, <2>6
  <1>8. CASE SendResult(w) /\ ~UNCHANGED results
    <2>1. worker' = [worker EXCEPT ![w] = [pc |-> "recv", item |-> NoItem]]
          /\ worker[w].pc = "send" /\ results' = Append(results, worker[w].item)
          /\ UNCHANGED <<limVars, jobs>>
      BY <1>8 DEF SendResult, jobVars
    <2>2. WorkersLeft' = WorkersLeft - 8
      BY <2>1, StageUpdate
    <2>3. Len(results') = Len(results) + 1 /\ Len(jobs') = Len(jobs)
      BY <2>1 DEF Typing, TypeOK
    <2>4. ProducerLeft' = ProducerLeft
      BY <1>3, <2>1
    <2>5. QED
      BY ONLY <1>1, <1>2, <2>2, <2>3, <2>4 DEF Numbers, Remaining
  <1>9. QED
    BY <1>4, <1>5, <1>6, <1>7, <1>8 DEF Worker

\* So does a step of the calling goroutine that touches nothing but the channel
\* of events, if it gets ahead by more than the event it sends.
LEMMA CallerRunsOut ==
    ASSUME Typing, Typing', UNCHANGED <<poolVars, pending, ctxDone, handler>>,
           \/ MainLeft' < MainLeft /\ UNCHANGED events
           \/ MainLeft' < MainLeft - 1 /\ events' = Append(events, "progress")
           \/ MainLeft' < MainLeft - 1 /\ events' = Append(events, "complete")
           \/ MainLeft' < MainLeft - 1 /\ events' = Append(events, "error")
    PROVE  Remaining' < Remaining
  <1>1. Numbers /\ Numbers'
    BY NumbersAlways, NumbersLater
  <1>2. /\ ProducerLeft' = ProducerLeft /\ Unsent' = Unsent /\ WorkersLeft' = WorkersLeft
        /\ SlotsLeft' = SlotsLeft /\ OnceLeft' = OnceLeft
        /\ Len(jobs') = Len(jobs) /\ Len(results') = Len(results)
    BY PartsKept DEF poolVars, limVars, jobVars, resultVars
  <1>3. CASE MainLeft' < MainLeft /\ UNCHANGED events
    <2>1. PICK d \in Nat \ {0} : MainLeft' = MainLeft - d
      BY <1>1, <1>3, LessBy DEF Numbers
    <2>2. Len(events') = Len(events)
      BY <1>3
    <2>3. QED
      BY ONLY <1>1, <1>2, <2>1, <2>2 DEF Numbers, Remaining
  <1>4. CASE MainLeft' < MainLeft - 1 /\ \E event : events' = Append(events, event)
    <2>1. PICK d \in Nat \ {0} : MainLeft' = MainLeft - 1 - d
      BY <1>1, <1>4, LessBy DEF Numbers
    <2>2. Len(events') = Len(events) + 1
      BY <1>4 DEF Typing, TypeOK
    <2>3. QED
      BY ONLY <1>1, <1>2, <2>1, <2>2 DEF Numbers, Remaining
  <1>5. QED
    BY <1>3, <1>4

\* So does the step that starts the pipeline: it hands its own steps over.
LEMMA StartRunsOut ==
    ASSUME Typing, Typing', Lifetimes, Progress, StartPipeline
    PROVE  Remaining' < Remaining
  <1>1. CASE UNCHANGED <<prod, worker>>
    <2>1. MainLeft' < MainLeft /\ UNCHANGED events
      BY <1>1 DEF StartPipeline, Goto, Fail, MainLeft, eventVars
    <2>2. QED
      BY <1>1, <2>1, CallerRunsOut
         DEF StartPipeline, poolVars, ctxVars, writerVars, clientVars
  <1>2. CASE /\ Goto("receive")
             /\ prod' = [pc |-> "stat", next |-> 0, mem |-> 0]
             /\ worker' = [w \in Workers |-> [pc |-> "recv", item |-> NoItem]]
    <2>1. Numbers /\ Numbers'
      BY NumbersAlways, NumbersLater
    <2>2. prod.pc = "idle" /\ prod.next = 0 /\ \A w \in Workers : worker[w].pc = "idle"
      BY DEF StartPipeline, Progress, Lifetimes, EarlyPhases
    <2>3. MainLeft = 18 /\ MainLeft' = 14
      BY <1>2 DEF StartPipeline, Goto, MainLeft
    <2>4. ProducerLeft' = ProducerLeft /\ Unsent' = Unsent
      BY <1>2, <2>2 DEF ProducerLeft, Unsent
    <2>5. WorkersLeft' = WorkersLeft
      <3>1. InStages' = InStages
        BY <1>2, <2>2, StageValues DEF InStages
      <3>2. QED
        BY <3>1 DEF WorkersLeft
    <2>6. /\ SlotsLeft' = SlotsLeft /\ OnceLeft' = OnceLeft /\ Len(jobs') = Len(jobs)
          /\ Len(results') = Len(results) /\ Len(events') = Len(events)
      BY PartsKept
         DEF StartPipeline, ctxVars, writerVars, jobVars, resultVars, eventVars, clientVars
    <2>7. QED
      BY ONLY <2>1, <2>3, <2>4, <2>5, <2>6 DEF Numbers, Remaining
  <1>3. QED
    BY <1>1, <1>2 DEF StartPipeline

\* So does a step of writeOrderedResults.
LEMMA WriterRunsOut ==
    ASSUME Typing, Typing',
           Receive \/ WriteNext \/ OrderDone \/ EmitReport \/ DrainPending \/ PipelineEnd
    PROVE  Remaining' < Remaining
  <1>1. Numbers /\ Numbers'
    BY NumbersAlways, NumbersLater
  <1>2. WriterFrame /\ UNCHANGED ctxDone
    BY DEF Receive, WriteNext, OrderDone, EmitReport, DrainPending, PipelineEnd, ctxVars
  <1>3. /\ Unsent' = Unsent /\ WorkersLeft' = WorkersLeft /\ OnceLeft' = OnceLeft
        /\ Len(jobs') = Len(jobs) /\ UNCHANGED prod
    BY <1>2, PartsKept DEF WriterFrame, jobVars, clientVars
  <1>4. UNCHANGED limVars => ProducerLeft' = ProducerLeft
    BY <1>3, PartsKept DEF limVars
  <1>5. CASE Receive /\ results # <<>>
    <2>1. /\ Head(results) \in Result /\ Len(results') = Len(results) - 1
          /\ Len(events') = Len(events) /\ MainLeft = 14
      <3>1. MainLeft = 14 /\ results' = Tail(results) /\ UNCHANGED events
        BY <1>5 DEF Receive, MainLeft
      <3>2. results \in Seq(Result)
        BY DEF Typing, TypeOK
      <3>3. QED
        BY <1>5, <3>1, <3>2
    <2>2. CASE pipelineErr
      <3>1. /\ Release(Head(results).mem) /\ MainLeft' = MainLeft /\ SlotsLeft' = SlotsLeft
        BY <1>5, <2>2, PartsKept DEF Receive
      <3>2. CASE ProducerLeft' = ProducerLeft
        BY ONLY <1>1, <1>3, <2>1, <3>1, <3>2 DEF Numbers, Remaining
      <3>3. CASE ProducerLeft' = ProducerLeft + 2
        BY ONLY <1>1, <1>3, <2>1, <3>1, <3>3 DEF Numbers, Remaining
      <3>4. QED
        BY <1>3, <3>1, <3>2, <3>3, ReleaseLeft
    <2>3. CASE ~pipelineErr
      <3>1. /\ pending' = [pending EXCEPT ![Head(results).index] = Head(results)]
            /\ main' = "order" /\ UNCHANGED limVars
        BY <1>5, <2>3 DEF Receive
      <3>2. MainLeft' = 17
        BY <3>1 DEF MainLeft
      <3>3. ProducerLeft' = ProducerLeft
        BY <1>4, <3>1
      <3>4. SlotsLeft' = SlotsLeft \/ SlotsLeft' = SlotsLeft + 3
        <4>1. Head(results).index \in Index /\ Head(results) # NoItem
          BY <2>1, NoItemAssumption DEF Result
        <4>2. PICK i \in Index : i = Head(results).index
          BY <4>1
        <4>3. pending \in [Index -> Result \cup {NoItem}]
          BY DEF Typing, TypeOK
        <4>4. pending'[i] # NoItem /\ \A j \in Index \ {i} : pending'[j] = pending[j]
          BY <3>1, <4>1, <4>2, <4>3
        <4>5. QED
          BY <4>4, SlotFilled
      <3>5. CASE SlotsLeft' = SlotsLeft
        BY ONLY <1>1, <1>3, <2>1, <3>2, <3>3, <3>5 DEF Numbers, Remaining
      <3>6. CASE SlotsLeft' = SlotsLeft + 3
        BY ONLY <1>1, <1>3, <2>1, <3>2, <3>3, <3>6 DEF Numbers, Remaining
      <3>7. QED
        BY <3>4, <3>5, <3>6
    <2>4. QED
      BY <2>2, <2>3
  <1>6. CASE Receive /\ results = <<>>
    <2>1. MainLeft = 14 /\ MainLeft' = 13
      BY <1>6 DEF Receive, MainLeft
    <2>2. /\ Len(results') = Len(results) /\ Len(events') = Len(events)
          /\ UNCHANGED <<limVars, pending>>
      BY <1>6 DEF Receive
    <2>3. ProducerLeft' = ProducerLeft /\ SlotsLeft' = SlotsLeft
      BY <1>4, <2>2, PartsKept
    <2>4. QED
      BY ONLY <1>1, <1>3, <2>1, <2>2, <2>3 DEF Numbers, Remaining
  <1>7. ASSUME NEW i \in Index, pending[i] # NoItem, Release(pending[i].mem),
               pending' = [pending EXCEPT ![i] = NoItem], UNCHANGED <<results, events>>,
               MainLeft' = MainLeft \/ (MainLeft = 17 /\ MainLeft' = 14)
        PROVE  Remaining' < Remaining
    <2>1. SlotsLeft' = SlotsLeft - 3
      BY <1>7, SlotEmptied
    <2>2. Len(results') = Len(results) /\ Len(events') = Len(events)
      BY <1>7
    <2>3. ProducerLeft' = ProducerLeft \/ ProducerLeft' = ProducerLeft + 2
      BY <1>3, <1>7, ReleaseLeft
    <2>4. CASE MainLeft' = MainLeft
      <3>1. CASE ProducerLeft' = ProducerLeft
        BY ONLY <1>1, <1>3, <2>1, <2>2, <2>4, <3>1 DEF Numbers, Remaining
      <3>2. CASE ProducerLeft' = ProducerLeft + 2
        BY ONLY <1>1, <1>3, <2>1, <2>2, <2>4, <3>2 DEF Numbers, Remaining
      <3>3. QED
        BY <2>3, <3>1, <3>2
    <2>5. CASE MainLeft = 17 /\ MainLeft' = 14
      <3>1. CASE ProducerLeft' = ProducerLeft
        BY ONLY <1>1, <1>3, <2>1, <2>2, <2>5, <3>1 DEF Numbers, Remaining
      <3>2. CASE ProducerLeft' = ProducerLeft + 2
        BY ONLY <1>1, <1>3, <2>1, <2>2, <2>5, <3>2 DEF Numbers, Remaining
      <3>3. QED
        BY <2>3, <3>1, <3>2
    <2>6. QED
      BY <1>7, <2>4, <2>5
  <1>8. CASE WriteNext
    <2>1. /\ nextIndex \in Index /\ pending[nextIndex] # NoItem
          /\ Release(pending[nextIndex].mem) /\ UNCHANGED <<results, events>>
          /\ pending' = [pending EXCEPT ![nextIndex] = NoItem]
      BY <1>8 DEF WriteNext, Turn
    <2>2. MainLeft' = MainLeft \/ (MainLeft = 17 /\ MainLeft' = 14)
      BY <1>8 DEF WriteNext, MainLeft
    <2>3. QED
      BY <1>7, <2>1, <2>2
  <1>9. CASE DrainPending
    <2>1. PICK i \in Index : /\ pending[i] # NoItem /\ Release(pending[i].mem)
                             /\ pending' = [pending EXCEPT ![i] = NoItem]
      BY <1>9 DEF DrainPending
    <2>2. MainLeft' = MainLeft /\ UNCHANGED <<results, events>>
      BY <1>9, PartsKept DEF DrainPending
    <2>3. QED
      BY <1>7, <2>1, <2>2
  <1>10. CASE OrderDone \/ EmitReport \/ PipelineEnd
    <2>1. UNCHANGED <<poolVars, pending, handler>>
      BY <1>2, <1>10 DEF OrderDone, EmitReport, PipelineEnd, WriterFrame, writerVars, poolVars,
           resultVars, clientVars
    <2>2. \/ MainLeft' < MainLeft /\ UNCHANGED events
          \/ MainLeft' < MainLeft - 1 /\ events' = Append(events, "progress")
      BY <1>10 DEF OrderDone, EmitReport, PipelineEnd, Goto, Fail, MainLeft
    <2>3. QED
      BY <1>2, <2>1, <2>2, CallerRunsOut
  <1>11. QED
    BY <1>5, <1>6, <1>8, <1>9, <1>10

\* So does every other step of the calling goroutine.
LEMMA MainRunsOut ==
    ASSUME Typing, Typing', Lifetimes, Progress, Main
    PROVE  Remaining' < Remaining
  <1>1. CASE StartPipeline
    BY <1>1, StartRunsOut
  <1>2. CASE Receive \/ WriteNext \/ OrderDone \/ EmitReport \/ DrainPending \/ PipelineEnd
    BY <1>2, WriterRunsOut
  <1>3. CASE Validate \/ Scan \/ OpenPartial \/ CheckContext \/ Seal \/ Commit \/ Inspect
             \/ Return \/ SaveHistory \/ CloseEvents
    <2>1. UNCHANGED <<poolVars, pending, ctxDone, handler, events>>
      BY <1>3 DEF Validate, Scan, OpenPartial, CheckContext, Seal, Commit, Inspect, Return,
           SaveHistory, CloseEvents, writerVars, ctxVars, eventVars, clientVars
    <2>2. MainLeft' < MainLeft
      <3>1. CASE Validate \/ Scan \/ OpenPartial \/ CheckContext
        BY <3>1 DEF Validate, Scan, OpenPartial, CheckContext, Goto, Fail, MainLeft
      <3>2. CASE Seal \/ Commit \/ Inspect
        BY <3>2 DEF Seal, Commit, Inspect, Goto, Fail, MainLeft
      <3>3. CASE Return \/ SaveHistory \/ CloseEvents
        BY <3>3 DEF Return, AfterGenerate, SaveHistory, CloseEvents, MainLeft
      <3>4. QED
        BY <1>3, <3>1, <3>2, <3>3
    <2>3. QED
      BY <2>1, <2>2, CallerRunsOut
  <1>4. CASE EmitProgress \/ EmitComplete \/ SendError
    <2>1. UNCHANGED <<poolVars, pending, ctxDone, handler>>
      BY <1>4 DEF EmitProgress, EmitComplete, SendError, writerVars, ctxVars, clientVars
    <2>2. \/ MainLeft' < MainLeft /\ UNCHANGED events
          \/ MainLeft' < MainLeft - 1 /\ events' = Append(events, "progress")
          \/ MainLeft' < MainLeft - 1 /\ events' = Append(events, "complete")
          \/ MainLeft' < MainLeft - 1 /\ events' = Append(events, "error")
      <3>1. CASE EmitProgress
        BY <3>1 DEF EmitProgress, EmitPhases, Goto, Fail, MainLeft
      <3>2. CASE EmitComplete
        BY <3>2 DEF EmitComplete, MainLeft
      <3>3. CASE SendError
        BY <3>3 DEF SendError, MainLeft
      <3>4. QED
        BY <1>4, <3>1, <3>2, <3>3
    <2>3. QED
      BY <2>1, <2>2, CallerRunsOut
  <1>5. QED
    BY <1>1, <1>2, <1>3, <1>4 DEF Main

\* So does what the other goroutines and the client do.
LEMMA OthersRunOut ==
    ASSUME Typing, Typing', CloseResults \/ HandlerReceive \/ Disconnect
    PROVE  Remaining' < Remaining
  <1>1. Numbers /\ Numbers'
    BY NumbersAlways, NumbersLater
  <1>2. /\ MainLeft' = MainLeft /\ ProducerLeft' = ProducerLeft /\ Unsent' = Unsent
        /\ WorkersLeft' = WorkersLeft /\ SlotsLeft' = SlotsLeft
        /\ Len(jobs') = Len(jobs) /\ Len(results') = Len(results)
    BY PartsKept DEF CloseResults, WorkerFrame, HandlerReceive, Disconnect, poolVars, limVars,
       jobVars, resultVars, writerVars
  <1>3. CASE CloseResults \/ Disconnect \/ (HandlerReceive /\ events = <<>>)
    <2>1. OnceLeft' = OnceLeft - 1 /\ Len(events') = Len(events)
      <3>1. CASE CloseResults
        BY <3>1 DEF CloseResults, WorkerFrame, ctxVars, eventVars, clientVars, OnceLeft, Flag
      <3>2. CASE Disconnect
        BY <3>2 DEF Disconnect, poolVars, resultVars, eventVars, clientVars, OnceLeft, Flag
      <3>3. CASE HandlerReceive /\ events = <<>>
        BY <3>3 DEF HandlerReceive, poolVars, resultVars, ctxVars, OnceLeft, Flag
      <3>4. QED
        BY <1>3, <3>1, <3>2, <3>3
    <2>2. QED
      BY ONLY <1>1, <1>2, <2>1 DEF Numbers, Remaining
  <1>4. CASE HandlerReceive /\ events # <<>>
    <2>1. OnceLeft' = OnceLeft
      BY <1>4, PartsKept DEF HandlerReceive, poolVars, resultVars, ctxVars
    <2>2. Len(events') = Len(events) - 1
      BY <1>4 DEF HandlerReceive, Typing, TypeOK
    <2>3. QED
      BY ONLY <1>1, <1>2, <2>1, <2>2 DEF Numbers, Remaining
  <1>5. QED
    BY <1>3, <1>4

\* Every step uses up some of what remains to be done: a request takes a bounded
\* number of steps, whatever the scheduler does, whatever fails and whenever the
\* client leaves.  With NoDeadlock: it ends (generator.go:105-146, 255-323,
\* processor.go:103-143, handlers.go:344-366).
RunsOut == [][Remaining' \in Nat /\ Remaining' < Remaining]_vars

\* No goroutine of a request can go round in circles: not the producer that is
\* woken and waits again, nor the writer, nor the handler.
THEOREM EveryRequestRunsOut == Spec => RunsOut
  <1>1. Spec => [](EmptyHands /\ Progress)
    BY AlwaysTyping, AlwaysLifetimes, ProgressInit, EmptyHandsStep, ProgressStep, PTL DEF Spec
  <1>2. Typing /\ Typing' /\ Lifetimes /\ EmptyHands /\ Progress /\ [Next]_vars
        => [Remaining' \in Nat /\ Remaining' < Remaining]_vars
    <2>1. SUFFICES ASSUME Typing, Typing', Lifetimes, Progress, Next, ~UNCHANGED vars
                   PROVE  Remaining' \in Nat /\ Remaining' < Remaining
      OBVIOUS
    <2>2. Remaining' \in Nat
      BY <2>1, RemainingIsNumberLater
    <2>3. Remaining' < Remaining
      BY <2>1, MainRunsOut, ProducerRunsOut, WorkerRunsOut, OthersRunOut DEF Next, Finished
    <2>4. QED
      BY <2>2, <2>3
  <1>3. QED
    BY AlwaysTyping, AlwaysLifetimes, <1>1, <1>2, PTL DEF Spec, RunsOut

===============================================================================
