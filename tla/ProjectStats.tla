---------------------------- MODULE ProjectStats ----------------------------
(***************************************************************************)
(* CountProjectStats (internal/scanner/stats.go): a producer, a pool of    *)
(* workers and a goroutine that closes the results share two bounded       *)
(* channels; the caller sums until the results are closed.  The context    *)
(* may be cancelled at any point (the client of /api/structure left).      *)
(*                                                                         *)
(* A file is its index, and the flags of its result are a set of outcomes; *)
(* the history variable `summed' holds the files that reached the totals.  *)
(***************************************************************************)
EXTENDS Integers, Sequences, FiniteSets

CONSTANTS
    N,           \* number of files
    Workers,     \* workers asked for
    MaxWorkers,  \* maxStatsWorkers
    NoFile

ASSUME FilesAssumption == N \in Nat \ {0}  \* without files it returns at once
ASSUME WorkersAssumption == Workers \in Int /\ MaxWorkers \in Nat \ {0}
ASSUME NoFileAssumption == NoFile \notin 1..N

Files == 1..N
Outcomes == {"text", "binary", "skipped", "unreadable"}

\* the number of workers that are started: at least one, at most maxStatsWorkers
\* and at most one per file
AtMost(n, limit) == IF n > limit THEN limit ELSE n
Started == AtMost(AtMost(IF Workers < 1 THEN 1 ELSE Workers, MaxWorkers), N)
Pool == 1..Started

VARIABLES
    next,        \* the file the producer sends next
    producer,    \* "sending" or "done"
    jobs,        \* the channel of files
    jobsClosed,
    worker,      \* "idle", "checking", "counting", "sending" or "exited"
    file,        \* the file a worker holds
    results,     \* the channel of counted files
    resultsClosed,
    total,       \* the counters, one per outcome
    handler,     \* "summing" or "returned"
    cancelled,   \* the context
    flags,       \* the flags each file was counted with
    summed       \* history: the files whose result was added

channels == <<jobs, jobsClosed, results, resultsClosed>>
counted == <<flags, summed>>
statsVars == <<next, producer, worker, file, total, handler, cancelled, channels, counted>>

StatsTypeOK ==
    /\ next \in 1..(N + 1) /\ producer \in {"sending", "done"}
    /\ jobs \in Seq(Files) /\ Len(jobs) <= Started
    /\ results \in Seq(Files) /\ Len(results) <= Started
    /\ jobsClosed \in BOOLEAN /\ resultsClosed \in BOOLEAN /\ cancelled \in BOOLEAN
    /\ worker \in [Pool -> {"idle", "checking", "counting", "sending", "exited"}]
    /\ file \in [Pool -> Files \cup {NoFile}]
    /\ \A w \in Pool : file[w] # NoFile <=> worker[w] \in {"checking", "counting", "sending"}
    /\ total \in [Outcomes -> Nat] /\ handler \in {"summing", "returned"}
    /\ flags \in [Files -> SUBSET Outcomes] /\ summed \subseteq Files

StatsInit ==
    /\ next = 1 /\ producer = "sending"
    /\ jobs = <<>> /\ jobsClosed = FALSE
    /\ results = <<>> /\ resultsClosed = FALSE
    /\ worker = [w \in Pool |-> "idle"] /\ file = [w \in Pool |-> NoFile]
    /\ total = [o \in Outcomes |-> 0] /\ handler = "summing"
    /\ cancelled \in BOOLEAN
    /\ flags = [f \in Files |-> {}] /\ summed = {}

-------------------------------------------------------------------------------
(* The producer *)

SendJob ==
    /\ next <= N /\ Len(jobs) < Started
    /\ jobs' = Append(jobs, next) /\ next' = next + 1
    /\ UNCHANGED <<producer, jobsClosed>>

\* the end of the files, or the context chosen by the select; the deferred close
CloseJobs ==
    /\ next > N \/ cancelled
    /\ producer' = "done" /\ jobsClosed' = TRUE
    /\ UNCHANGED <<next, jobs>>

Producer ==
    /\ producer = "sending"
    /\ SendJob \/ CloseJobs
    /\ UNCHANGED <<worker, file, results, resultsClosed, total, handler, cancelled, counted>>

-------------------------------------------------------------------------------
(* The workers *)

Goto(w, place) == worker' = [worker EXCEPT ![w] = place]
Drop(w) == file' = [file EXCEPT ![w] = NoFile]

ReceiveUntilClosed(w) ==  \* Fault: jobs left in a closed channel are not received
    /\ worker[w] = "idle"
    /\ \/ /\ jobs # <<>> /\ ~jobsClosed
          /\ file' = [file EXCEPT ![w] = Head(jobs)] /\ jobs' = Tail(jobs)
          /\ Goto(w, "checking")
       \/ /\ jobsClosed
          /\ Goto(w, "exited") /\ UNCHANGED <<file, jobs>>
    /\ UNCHANGED <<jobsClosed, results, resultsClosed, flags>>

\* one round of the range over the jobs, or its end
Receive(w) ==
    /\ worker[w] = "idle"
    /\ \/ /\ jobs # <<>>
          /\ file' = [file EXCEPT ![w] = Head(jobs)] /\ jobs' = Tail(jobs)
          /\ Goto(w, "checking")
       \/ /\ jobs = <<>> /\ jobsClosed
          /\ Goto(w, "exited") /\ UNCHANGED <<file, jobs>>
    /\ UNCHANGED <<jobsClosed, results, resultsClosed, flags>>

Check(w) ==
    /\ worker[w] = "checking"
    /\ \/ cancelled /\ Goto(w, "exited") /\ Drop(w)
       \/ ~cancelled /\ Goto(w, "counting") /\ UNCHANGED file
    /\ UNCHANGED <<channels, flags>>

\* a read that fails half way makes a text file an unreadable one
ReadError(result) == (result \ {"text"}) \cup {"unreadable"}

\* countFileStats, by its exits
Count(w) ==
    /\ worker[w] = "counting"
    /\ \E result \in {{"binary"}, {"unreadable"}, {"text"}, {"skipped"}, ReadError({"text"})} :
          flags' = [flags EXCEPT ![file[w]] = result]
    /\ Goto(w, "sending")
    /\ UNCHANGED <<file, channels>>

\* The send blocks while the channel is full, cancelled or not.  On a closed
\* channel it would panic: the step has no guard against that, NoSendOnClosed
\* has.
SendResult(w) ==
    /\ worker[w] = "sending" /\ Len(results) < Started
    /\ results' = Append(results, file[w])
    /\ Goto(w, "idle") /\ Drop(w)
    /\ UNCHANGED <<jobs, jobsClosed, resultsClosed, flags>>

Worker(w) ==
    /\ Receive(w) \/ Check(w) \/ Count(w) \/ SendResult(w)
    /\ UNCHANGED <<next, producer, total, handler, cancelled, summed>>

-------------------------------------------------------------------------------
(* The closing goroutine and the caller *)

CloseResults ==
    /\ ~resultsClosed
    /\ \A w \in Pool : worker[w] = "exited"
    /\ resultsClosed' = TRUE
    /\ UNCHANGED <<next, producer, jobs, jobsClosed, worker, file, results, total, handler,
                   cancelled, counted>>

SumUntilCancelled ==  \* Fault: the caller returns when the context is cancelled
    /\ handler = "summing"
    /\ \/ /\ results # <<>>
          /\ total' = [o \in Outcomes |->
                         total[o] + (IF o \in flags[Head(results)] THEN 1 ELSE 0)]
          /\ summed' = summed \cup {Head(results)}
          /\ results' = Tail(results) /\ UNCHANGED handler
       \/ /\ (results = <<>> /\ resultsClosed) \/ cancelled
          /\ handler' = "returned" /\ UNCHANGED <<total, summed, results>>
    /\ UNCHANGED <<next, producer, jobs, jobsClosed, worker, file, resultsClosed, cancelled, flags>>

\* one round of the range over the results, or the return
Sum ==
    /\ handler = "summing"
    /\ \/ /\ results # <<>>
          /\ total' = [o \in Outcomes |->
                         total[o] + (IF o \in flags[Head(results)] THEN 1 ELSE 0)]
          /\ summed' = summed \cup {Head(results)}
          /\ results' = Tail(results) /\ UNCHANGED handler
       \/ /\ results = <<>> /\ resultsClosed
          /\ handler' = "returned" /\ UNCHANGED <<total, summed, results>>
    /\ UNCHANGED <<next, producer, jobs, jobsClosed, worker, file, resultsClosed, cancelled, flags>>

\* the client of /api/structure leaves
Cancel ==
    /\ ~cancelled /\ handler = "summing"
    /\ cancelled' = TRUE
    /\ UNCHANGED <<next, producer, worker, file, total, handler, channels, counted>>

Finished == handler = "returned" /\ producer = "done" /\ \A w \in Pool : worker[w] = "exited"
Done == Finished /\ UNCHANGED statsVars

StatsNext ==
    \/ Producer \/ (\E w \in Pool : Worker(w))
    \/ CloseResults \/ Sum \/ Cancel \/ Done

\* the Go scheduler runs every goroutine that can run; no client need leave
StatsFairness ==
    /\ WF_statsVars(Producer) /\ WF_statsVars(CloseResults) /\ WF_statsVars(Sum)
    /\ \A w \in Pool : WF_statsVars(Worker(w))

StatsSpec == StatsInit /\ [][StatsNext]_statsVars /\ StatsFairness

-------------------------------------------------------------------------------
(* Properties *)

\* What the structure page shows of a project covers it: unless the client left,
\* every file was counted when CountProjectStats returns (stats.go:56-99), the
\* ones still buffered when the channels are closed included.
CountsEveryFile == handler = "returned" /\ ~cancelled => summed = Files

\* The counters of the summary add up to the files that were counted: no file is
\* counted twice or under two headings, cancelled or not (stats.go:83-98).
TotalsAddUp ==
    total["text"] + total["binary"] + total["skipped"] + total["unreadable"] = Cardinality(summed)

\* No worker sends on the closed channel, which would panic: the results are
\* closed only after the last worker exited (stats.go:77-80).
NoSendOnClosed == resultsClosed => \A w \in Pool : worker[w] # "sending"

\* Cancelled or not, the call returns and leaves no goroutine behind: a worker
\* that sends while nobody receives, or a producer on a full channel, would.
EveryGoroutineEnds == <>[]Finished
===============================================================================
