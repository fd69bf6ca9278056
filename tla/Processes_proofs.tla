--------------------------- MODULE Processes_proofs ---------------------------
(***************************************************************************)
(* Proofs about four parts of the application that share no state with     *)
(* each other: the pool that counts a project (ProjectStats), the life of  *)
(* the process (Lifecycle), and the two halves of the page (ContentView    *)
(* and UpdateView), for every number of files, workers and requests.       *)
(***************************************************************************)
EXTENDS ProjectStats, Lifecycle, ContentView, UpdateView, TLAPS

-------------------------------------------------------------------------------
(* ProjectStats: no file is left out unless the client left                  *)

\* At least one worker is started, whatever number was asked for.
LEMMA StartedPositive == Started \in Nat \ {0}
  BY FilesAssumption, WorkersAssumption DEF Started, AtMost

\* The types, and who is where: a worker holds a file exactly from its receipt
\* to its send (stats.go:34-100).
THEOREM TypeInvariant == StatsSpec => []StatsTypeOK
<1>1. StatsInit => StatsTypeOK
  <2>1. SUFFICES ASSUME StatsInit PROVE StatsTypeOK
    OBVIOUS
  <2>2. /\ next \in 1..(N + 1) /\ producer \in {"sending", "done"}
        /\ jobs \in Seq(Files) /\ Len(jobs) <= Started
        /\ results \in Seq(Files) /\ Len(results) <= Started
    BY <2>1, FilesAssumption, StartedPositive DEF StatsInit
  <2>3. /\ worker \in [Pool -> {"idle", "checking", "counting", "sending", "exited"}]
        /\ file \in [Pool -> Files \cup {NoFile}]
        /\ \A w \in Pool : file[w] # NoFile <=> worker[w] \in {"checking", "counting", "sending"}
    BY <2>1 DEF StatsInit
  <2>4. /\ total \in [Outcomes -> Nat] /\ flags \in [Files -> SUBSET Outcomes]
        /\ summed \subseteq Files
    BY <2>1 DEF StatsInit
  <2>5. QED
    BY <2>1, <2>2, <2>3, <2>4 DEF StatsInit, StatsTypeOK
<1>2. ASSUME StatsTypeOK, [StatsNext]_statsVars
      PROVE  StatsTypeOK'
  <2> USE <1>2, FilesAssumption, NoFileAssumption, StartedPositive DEF StatsTypeOK
  <2>1. CASE Producer
    <3>1. CASE SendJob
      <4>1. next \in Files
        BY <3>1 DEF SendJob, Files
      <4>2. jobs' \in Seq(Files) /\ Len(jobs') <= Started /\ next' \in 1..(N + 1)
        BY <3>1, <4>1 DEF SendJob
      <4>3. QED
        BY <2>1, <3>1, <4>2 DEF Producer, SendJob, counted
    <3>2. CASE CloseJobs
      BY <2>1, <3>2 DEF Producer, CloseJobs, counted
    <3>3. QED
      BY <2>1, <3>1, <3>2 DEF Producer
  <2>2. ASSUME NEW w \in Pool, Worker(w)
        PROVE  StatsTypeOK'
    <3> USE DEF Goto, Drop, channels, counted
    <3>1. CASE Receive(w)
      <4>1. jobs # <<>> => Head(jobs) \in Files /\ Tail(jobs) \in Seq(Files)
                           /\ Len(Tail(jobs)) <= Started
        OBVIOUS
      <4>2. QED
        BY <2>2, <3>1, <4>1 DEF Worker, Receive, Files
    <3>2. CASE Check(w)
      BY <2>2, <3>2 DEF Worker, Check
    <3>3. CASE Count(w)
      <4>1. flags' \in [Files -> SUBSET Outcomes]
        BY <3>3 DEF Count, ReadError, Outcomes
      <4>2. QED
        BY <2>2, <3>3, <4>1 DEF Worker, Count
    <3>4. CASE SendResult(w)
      BY <2>2, <3>4 DEF Worker, SendResult, Files
    <3>5. QED
      BY <2>2, <3>1, <3>2, <3>3, <3>4 DEF Worker
  <2>3. CASE CloseResults
    BY <2>3 DEF CloseResults, counted
  <2>4. CASE Sum
    <3>1. results # <<>> => Head(results) \in Files /\ Tail(results) \in Seq(Files)
                            /\ Len(Tail(results)) <= Started
      OBVIOUS
    <3>2. total' \in [Outcomes -> Nat]
      <4>1. \A o \in Outcomes, n \in {0, 1} : total[o] + n \in Nat
        OBVIOUS
      <4>2. CASE results # <<>>
        BY <2>4, <4>1, <4>2 DEF Sum
      <4>3. CASE results = <<>>
        BY <2>4, <4>3 DEF Sum
      <4>4. QED
        BY <4>2, <4>3
    <3>3. QED
      BY <2>4, <3>1, <3>2 DEF Sum
  <2>5. CASE Cancel
    BY <2>5 DEF Cancel, channels, counted
  <2>6. CASE UNCHANGED statsVars
    BY <2>6 DEF statsVars, channels, counted
  <2>7. QED
    BY <2>1, <2>2, <2>3, <2>4, <2>5, <2>6 DEF StatsNext, Done
<1>3. QED
  BY <1>1, <1>2, PTL DEF StatsSpec

-------------------------------------------------------------------------------
(* The order in which the channels are closed *)

\* Nothing ends before what it depends on has ended.
Order ==
    /\ jobsClosed <=> producer = "done"
    /\ producer = "done" /\ ~cancelled => next > N
    /\ \A w \in Pool : worker[w] = "exited" /\ ~cancelled => jobsClosed /\ jobs = <<>>
    /\ resultsClosed => \A w \in Pool : worker[w] = "exited"
    /\ handler = "returned" => resultsClosed /\ results = <<>>

\* The order of the closings holds always.
LEMMA OrderInvariant == StatsSpec => []Order
<1>1. StatsInit => Order
  BY DEF StatsInit, Order
<1>2. ASSUME StatsTypeOK, Order, [StatsNext]_statsVars
      PROVE  Order'
  <2> USE <1>2 DEF Order
  <2>1. CASE Producer
    <3>1. CASE SendJob
      BY <2>1, <3>1 DEF Producer, SendJob, counted, StatsTypeOK
    <3>2. CASE CloseJobs
      BY <2>1, <3>2 DEF Producer, CloseJobs, counted, StatsTypeOK
    <3>3. QED
      BY <2>1, <3>1, <3>2 DEF Producer
  <2>2. ASSUME NEW w \in Pool, Worker(w)
        PROVE  Order'
    <3> USE DEF Goto, Drop, channels, StatsTypeOK
    <3>1. CASE Receive(w)
      BY <2>2, <3>1 DEF Worker, Receive
    <3>2. CASE Check(w)
      BY <2>2, <3>2 DEF Worker, Check
    <3>3. CASE Count(w)
      BY <2>2, <3>3 DEF Worker, Count
    <3>4. CASE SendResult(w)
      BY <2>2, <3>4 DEF Worker, SendResult
    <3>5. QED
      BY <2>2, <3>1, <3>2, <3>3, <3>4 DEF Worker
  <2>3. CASE CloseResults
    BY <2>3 DEF CloseResults
  <2>4. CASE Sum
    BY <2>4 DEF Sum
  <2>5. CASE Cancel
    BY <2>5 DEF Cancel, channels
  <2>6. CASE UNCHANGED statsVars
    BY <2>6 DEF statsVars, channels
  <2>7. QED
    BY <2>1, <2>2, <2>3, <2>4, <2>5, <2>6 DEF StatsNext, Done
<1>3. QED
  BY <1>1, <1>2, TypeInvariant, PTL DEF StatsSpec

\* The results are closed only when no worker can send any more: none panics
\* (stats.go:77-80).
THEOREM NoSend == StatsSpec => []NoSendOnClosed
<1>1. Order => NoSendOnClosed
  BY DEF Order, NoSendOnClosed
<1>2. QED
  BY <1>1, OrderInvariant, PTL

-------------------------------------------------------------------------------
(* Every file *)

InChannel(f, channel) == \E i \in 1 .. Len(channel) : channel[i] = f

\* Where a file can be.
Somewhere(f) ==
    \/ next <= f
    \/ InChannel(f, jobs)
    \/ \E w \in Pool : file[w] = f
    \/ InChannel(f, results)
    \/ f \in summed

Covered == ~cancelled => \A f \in Files : Somewhere(f)

\* What leaves the head of a channel is the only thing that leaves it, and what
\* is appended is in it.
LEMMA Channels ==
    ASSUME NEW channel \in Seq(Files), NEW f \in Files, NEW g \in Files
    PROVE  /\ channel # <<>> /\ InChannel(f, channel) =>
                  f = Head(channel) \/ InChannel(f, Tail(channel))
           /\ InChannel(f, channel) => InChannel(f, Append(channel, g))
           /\ InChannel(g, Append(channel, g))
<1>1. ASSUME channel # <<>>, InChannel(f, channel)
      PROVE  f = Head(channel) \/ InChannel(f, Tail(channel))
  <2>1. PICK i \in 1 .. Len(channel) : channel[i] = f
    BY <1>1 DEF InChannel
  <2>2. CASE i = 1
    BY <1>1, <2>1, <2>2
  <2>3. CASE i # 1
    <3>1. (i - 1) \in 1 .. Len(Tail(channel)) /\ Tail(channel)[i - 1] = channel[i]
      BY <1>1, <2>1, <2>3
    <3>2. QED
      BY <2>1, <3>1 DEF InChannel
  <2>4. QED
    BY <2>2, <2>3
<1>2. ASSUME InChannel(f, channel)
      PROVE  InChannel(f, Append(channel, g))
  BY <1>2 DEF InChannel
<1>3. InChannel(g, Append(channel, g))
  <2>1. Len(channel) + 1 \in 1 .. Len(Append(channel, g))
        /\ Append(channel, g)[Len(channel) + 1] = g
    OBVIOUS
  <2>2. QED
    BY <2>1 DEF InChannel
<1>4. QED
  BY <1>1, <1>2, <1>3

\* Every file is covered, always.
LEMMA CoveredInvariant == StatsSpec => []Covered
<1>1. StatsInit => Covered
  BY DEF StatsInit, Covered, Somewhere, Files
<1>2. ASSUME StatsTypeOK, Covered, [StatsNext]_statsVars
      PROVE  Covered'
  <2>1. SUFFICES ASSUME ~cancelled', NEW f \in Files
                 PROVE  Somewhere(f)'
    BY DEF Covered
  <2>2. ~cancelled
    BY <1>2, <2>1 DEF StatsNext, Producer, Worker, CloseResults, Sum, Cancel, Done, statsVars
  <2>3. Somewhere(f) /\ f \in Nat
    BY <1>2, <2>2 DEF Covered, Files
  <2> USE DEF Somewhere
  <2>4. CASE Producer
    <3>1. CASE SendJob
      <4>1. next \in Files /\ jobs' = Append(jobs, next) /\ next' = next + 1 /\ next \in Nat
        BY <1>2, <3>1, FilesAssumption DEF SendJob, StatsTypeOK, Files
      <4>2. CASE next = f
        <5>1. InChannel(f, jobs')
          BY <1>2, <4>1, <4>2, Channels DEF StatsTypeOK
        <5>2. QED
          BY <5>1 DEF InChannel
      <4>3. CASE next # f
        <5>1. next <= f => next' <= f
          BY <2>3, <4>1, <4>3
        <5>2. InChannel(f, jobs) => InChannel(f, jobs')
          BY <1>2, <4>1, Channels DEF StatsTypeOK
        <5>3. QED
          BY <2>3, <2>4, <5>1, <5>2 DEF Producer, counted, InChannel
      <4>4. QED
        BY <4>2, <4>3
    <3>2. CASE CloseJobs
      BY <2>3, <2>4, <3>2 DEF Producer, CloseJobs, counted, InChannel
    <3>3. QED
      BY <2>4, <3>1, <3>2 DEF Producer
  <2>5. ASSUME NEW w \in Pool, Worker(w)
        PROVE  Somewhere(f)'
    <3>1. CASE Receive(w)
      <4>1. CASE jobs # <<>>
        <5>1. jobs' = Tail(jobs) /\ file' = [file EXCEPT ![w] = Head(jobs)]
              /\ file[w] = NoFile /\ file'[w] = Head(jobs)
          BY <1>2, <3>1, <4>1 DEF Receive, StatsTypeOK
        <5>2. InChannel(f, jobs) => f = Head(jobs) \/ InChannel(f, jobs')
          BY <1>2, <4>1, <5>1, Channels DEF StatsTypeOK
        <5>3. \A v \in Pool : file[v] = f => file'[v] = f
          BY <1>2, <5>1, NoFileAssumption DEF StatsTypeOK, Files
        <5>4. QED
          BY <2>3, <2>5, <3>1, <5>1, <5>2, <5>3 DEF Worker, Receive, InChannel
      <4>2. CASE jobs = <<>>
        BY <2>3, <2>5, <3>1, <4>2 DEF Worker, Receive, InChannel
      <4>3. QED
        BY <4>1, <4>2
    <3>2. CASE Check(w)
      BY <2>2, <2>3, <2>5, <3>2 DEF Worker, Check, channels, InChannel
    <3>3. CASE Count(w)
      BY <2>3, <2>5, <3>3 DEF Worker, Count, channels, InChannel
    <3>4. CASE SendResult(w)
      <4>1. file[w] \in Files /\ results' = Append(results, file[w])
            /\ file' = [file EXCEPT ![w] = NoFile]
        BY <1>2, <3>4 DEF SendResult, StatsTypeOK, Drop
      <4>2. InChannel(f, results) \/ f = file[w] => InChannel(f, results')
        BY <1>2, <4>1, Channels DEF StatsTypeOK
      <4>3. \A v \in Pool : file[v] = f => file'[v] = f \/ f = file[w]
        BY <1>2, <4>1 DEF StatsTypeOK
      <4>4. QED
        BY <2>3, <2>5, <3>4, <4>2, <4>3 DEF Worker, SendResult, InChannel
    <3>5. QED
      BY <2>5, <3>1, <3>2, <3>3, <3>4 DEF Worker
  <2>6. CASE CloseResults
    BY <2>3, <2>6 DEF CloseResults, counted, InChannel
  <2>7. CASE Sum
    <3>1. CASE results # <<>>
      <4>1. results' = Tail(results) /\ summed' = summed \cup {Head(results)}
        BY <2>7, <3>1 DEF Sum
      <4>2. InChannel(f, results) => f \in summed' \/ InChannel(f, results')
        BY <1>2, <3>1, <4>1, Channels DEF StatsTypeOK
      <4>3. QED
        BY <2>3, <2>7, <4>1, <4>2 DEF Sum, InChannel
    <3>2. CASE results = <<>>
      BY <2>3, <2>7, <3>2 DEF Sum, InChannel
    <3>3. QED
      BY <3>1, <3>2
  <2>8. CASE Cancel
    BY <2>1, <2>8 DEF Cancel
  <2>9. CASE UNCHANGED statsVars
    BY <2>3, <2>9 DEF statsVars, channels, counted, InChannel
  <2>10. QED
    BY <1>2, <2>4, <2>5, <2>6, <2>7, <2>8, <2>9 DEF StatsNext, Done
<1>3. QED
  BY <1>1, <1>2, TypeInvariant, PTL DEF StatsSpec

\* Unless the client left, every file has been counted when the call returns
\* (stats.go:56-99).
THEOREM EveryFile == StatsSpec => []CountsEveryFile
<1>1. StatsTypeOK /\ Order /\ Covered => CountsEveryFile
  <2>1. SUFFICES ASSUME StatsTypeOK, Order, Covered, handler = "returned", ~cancelled,
                        NEW f \in Files
                 PROVE  f \in summed
    BY DEF CountsEveryFile, StatsTypeOK
  <2>2. 1 \in Pool
    BY StartedPositive DEF Pool
  <2>3. results = <<>> /\ \A w \in Pool : worker[w] = "exited"
    BY <2>1 DEF Order
  <2>4. jobs = <<>> /\ next > N
    BY <2>1, <2>2, <2>3 DEF Order
  <2>5. \A w \in Pool : file[w] = NoFile
    BY <2>1, <2>3 DEF StatsTypeOK
  <2>6. ~(next <= f) /\ ~InChannel(f, jobs) /\ ~InChannel(f, results)
    BY <2>1, <2>3, <2>4, FilesAssumption DEF InChannel, Files, StatsTypeOK
  <2>7. QED
    BY <2>1, <2>5, <2>6, NoFileAssumption DEF Covered, Somewhere, Files
<1>2. QED
  BY <1>1, TypeInvariant, OrderInvariant, CoveredInvariant, PTL

-------------------------------------------------------------------------------
(* Lifecycle: how the process ends                                          *)

Unheard(r) == request[r] = "none"

\* The error is sent before the context is cancelled on its account, and it is
\* taken out of the channel only on the way out.
ErrorIsThere ==
    /\ FailureIsReported
    /\ serve = "reported" /\ Alive => serveErr = "error"
    /\ cause = "serve" => serve = "done" /\ (Alive => serveErr = "error")
    /\ main = "listen" => serve = "none"

\* No request begins before the server serves or after it drains, and none
\* outlives the drain without the timeout.
RequestsAreDrained ==
    /\ CutOffOnlyAfterTimeout
    /\ main = "listen" => serve = "none"
    /\ serve = "none" => \A r \in Requests : Unheard(r)
    /\ Alive => \A r \in Requests : request[r] # "cut"
    /\ main \in {"drain", "status"} => draining
    /\ main = "status" => timer = "fired" \/ \A r \in Requests : ~Active(r)

LifecycleInv == LifecycleTypeOK /\ ErrorIsThere /\ RequestsAreDrained

\* the process starts without a request and without a cause to end
LEMMA LifecycleInvInit == LifecycleInit => LifecycleInv
  BY NoCauseAssumption DEF LifecycleInit, LifecycleInv, LifecycleTypeOK, ErrorIsThere,
     RequestsAreDrained, FailureIsReported, CutOffOnlyAfterTimeout, MainPoints, Causes, Alive,
     Unheard

\* every step keeps the types
LEMMA LifecycleTypesStep ==
    LifecycleTypeOK /\ [LifecycleNext]_lifecycleVars => LifecycleTypeOK'
  <1> DEFINE Points  == /\ main \in MainPoints /\ exitCode \in {"ok", "error", "killed", NoCause}
                        /\ main = "exited" <=> exitCode # NoCause
                        /\ timer \in {"off", "running", "fired"}
                        /\ timer = "running" => main \in {"drain", "exited"}
             Places  == /\ platform \in {"window", "browser", "headless"}
                        /\ serve \in {"none", "serving", "failed", "reported", "closed", "done"}
                        /\ serveErr \in {NoCause, "closed", "error"}
                        /\ window \in {"none", "open", "quit", "destroyed"}
                        /\ terminator \in {"none", "waiting", "called", "done"}
             Flags   == /\ notify \in BOOLEAN /\ windowErr \in BOOLEAN /\ asked \in BOOLEAN
                        /\ draining \in BOOLEAN /\ windowDone \in BOOLEAN
             Reason  == /\ ctx \in BOOLEAN /\ cause \in Causes \cup {NoCause}
                        /\ ctx <=> cause # NoCause
             Clients == /\ request \in [Requests -> {"none", "active", "ended", "cut"}]
                        /\ gone \subseteq Requests
                        /\ stopper \in [Stoppers -> {"none", "sleeping", "done"}]
  <1>a. LifecycleTypeOK <=> Points /\ Places /\ Flags /\ Reason /\ Clients
    BY Zenon DEF LifecycleTypeOK
  <1>b. LifecycleTypeOK' <=> Points' /\ Places' /\ Flags' /\ Reason' /\ Clients'
    BY Zenon DEF LifecycleTypeOK
  <1> SUFFICES ASSUME Points, Places, Flags, Reason, Clients, [LifecycleNext]_lifecycleVars
               PROVE  Points' /\ Places' /\ Flags' /\ Reason' /\ Clients'
    BY <1>a, <1>b
  <1>c. ASSUME NEW by \in Causes, Cancelled(by) PROVE Reason'
    BY <1>c, NoCauseAssumption DEF Cancelled, Causes
  <1>d. ASSUME UNCHANGED contextVars PROVE Reason'
    BY <1>d DEF contextVars
  <1> USE NoCauseAssumption DEF MainPoints, Causes, Alive, Active, serveVars, drainVars,
        windowVars, requestVars, Exit
  <1>1. CASE ServeGoroutine(ServeFails)
    <2>1. Points' /\ Places' /\ Clients'
      BY <1>1 DEF ServeGoroutine, ServeFails
    <2>2. Flags'
      BY <1>1 DEF ServeGoroutine, ServeFails, contextVars, CancelApp
    <2>3. Reason'
      BY <1>1, <1>c, <1>d DEF ServeGoroutine, ServeFails, CancelApp
    <2>4. QED
      BY <2>1, <2>2, <2>3
  <1>2. CASE ServeEnds
    <2>1. Points' /\ Places' /\ Clients'
      BY <1>2 DEF ServeEnds, ServeGoroutine, ServeReturns, Report
    <2>2. Flags'
      BY <1>2 DEF ServeEnds, ServeGoroutine, ServeReturns, Report, contextVars, CancelApp
    <2>3. Reason'
      BY <1>2, <1>c, <1>d DEF ServeEnds, ServeGoroutine, ServeReturns, Report, CancelApp
    <2>4. QED
      BY <2>1, <2>2, <2>3
  <1>3. ASSUME NEW r \in Requests, Request(r)
        PROVE  Points' /\ Places' /\ Flags' /\ Reason' /\ Clients'
    <2>1. Points' /\ Places' /\ Clients'
      BY <1>3 DEF Request, Begin, ClientLeaves, ClientReturns
    <2>2. Flags'
      BY <1>3 DEF Request, Begin, ClientLeaves, ClientReturns, contextVars, CancelApp
    <2>3. Reason'
      BY <1>3, <1>c, <1>d DEF Request, Begin, ClientLeaves, ClientReturns, CancelApp
    <2>4. QED
      BY <2>1, <2>2, <2>3
  <1>4. ASSUME NEW s \in Stoppers, Stop(Accept(s)) \/ Stop(RequestShutdown(s))
        PROVE  Points' /\ Places' /\ Flags' /\ Reason' /\ Clients'
    <2>1. Points' /\ Places' /\ Clients'
      BY <1>4 DEF Stop, Accept, RequestShutdown
    <2>2. Flags'
      BY <1>4 DEF Stop, Accept, RequestShutdown, contextVars, CancelApp
    <2>3. Reason'
      BY <1>4, <1>c, <1>d DEF Stop, Accept, RequestShutdown, CancelApp
    <2>4. QED
      BY <2>1, <2>2, <2>3
  <1>5. CASE Signal
    <2>1. Points' /\ Places' /\ Clients'
      BY <1>5 DEF Signal
    <2>2. Flags'
      BY <1>5 DEF Signal, contextVars, CancelApp
    <2>3. Reason'
      BY <1>5, <1>c, <1>d DEF Signal, CancelApp
    <2>4. QED
      BY <2>1, <2>2, <2>3
  <1>6. CASE CloseWindow \/ Terminate
    <2>1. Points' /\ Places' /\ Clients'
      BY <1>6 DEF CloseWindow, Terminate
    <2>2. Flags'
      BY <1>6 DEF CloseWindow, Terminate, contextVars, CancelApp
    <2>3. Reason'
      BY <1>6, <1>c, <1>d DEF CloseWindow, Terminate, CancelApp
    <2>4. QED
      BY <2>1, <2>2, <2>3
  <1>7. CASE Listen /\ UNCHANGED <<platform, stopper>>
    <2>1. Points' /\ Places' /\ Clients'
      BY <1>7 DEF Listen
    <2>2. Flags'
      BY <1>7 DEF Listen, contextVars, CancelApp
    <2>3. Reason'
      BY <1>7, <1>c, <1>d DEF Listen, CancelApp
    <2>4. QED
      BY <2>1, <2>2, <2>3
  <1>8. CASE OpenWindow /\ UNCHANGED <<platform, stopper>>
    <2>1. Points' /\ Places' /\ Clients'
      BY <1>8 DEF OpenWindow
    <2>2. Flags'
      BY <1>8 DEF OpenWindow, contextVars, CancelApp
    <2>3. Reason'
      BY <1>8, <1>c, <1>d DEF OpenWindow, CancelApp
    <2>4. QED
      BY <2>1, <2>2, <2>3
  <1>9. CASE MarkHealthy /\ UNCHANGED <<platform, stopper>>
    <2>1. Points' /\ Places' /\ Clients'
      BY <1>9 DEF MarkHealthy, RunWindow
    <2>2. Flags'
      BY <1>9 DEF MarkHealthy, RunWindow, contextVars, CancelApp
    <2>3. Reason'
      BY <1>9, <1>c, <1>d DEF MarkHealthy, RunWindow, CancelApp
    <2>4. QED
      BY <2>1, <2>2, <2>3
  <1>10. CASE (WindowEnds \/ Await \/ CancelAfterWindow) /\ UNCHANGED <<platform, stopper>>
    <2>1. Points' /\ Places' /\ Clients'
      BY <1>10 DEF WindowEnds, Await, CancelAfterWindow
    <2>2. Flags'
      BY <1>10 DEF WindowEnds, Await, CancelAfterWindow, contextVars, CancelApp
    <2>3. Reason'
      BY <1>10, <1>c, <1>d DEF WindowEnds, Await, CancelAfterWindow, CancelApp
    <2>4. QED
      BY <2>1, <2>2, <2>3
  <1>11. CASE (BeginShutdown \/ Drain) /\ UNCHANGED <<platform, stopper>>
    <2>1. Points' /\ Places' /\ Clients'
      BY <1>11 DEF BeginShutdown, Drain
    <2>2. Flags'
      BY <1>11 DEF BeginShutdown, Drain, contextVars, CancelApp
    <2>3. Reason'
      BY <1>11, <1>c, <1>d DEF BeginShutdown, Drain, CancelApp
    <2>4. QED
      BY <2>1, <2>2, <2>3
  <1>12. CASE Status /\ UNCHANGED <<platform, stopper>>
    <2>1. Points' /\ Places' /\ Clients'
      BY <1>12 DEF Status
    <2>2. Flags'
      BY <1>12 DEF Status, contextVars, CancelApp
    <2>3. Reason'
      BY <1>12, <1>c, <1>d DEF Status, CancelApp
    <2>4. QED
      BY <2>1, <2>2, <2>3
  <1>13. CASE UNCHANGED lifecycleVars
    <2>1. Points' /\ Places' /\ Clients'
      BY <1>13 DEF lifecycleVars
    <2>2. Flags'
      BY <1>13 DEF lifecycleVars, contextVars, CancelApp
    <2>3. Reason'
      BY <1>13, <1>c, <1>d DEF lifecycleVars, CancelApp
    <2>4. QED
      BY <2>1, <2>2, <2>3
  <1>14. QED
    BY <1>1, <1>2, <1>3, <1>4, <1>5, <1>6, <1>7, <1>8, <1>9, <1>10, <1>11, <1>12, <1>13
       DEF LifecycleNext, Main, Ended

\* every step keeps the account of the errors
LEMMA ErrorIsThereStep ==
    LifecycleTypeOK /\ ErrorIsThere /\ [LifecycleNext]_lifecycleVars => ErrorIsThere'
  <1> SUFFICES ASSUME LifecycleTypeOK, ErrorIsThere, [LifecycleNext]_lifecycleVars
               PROVE  ErrorIsThere'
    OBVIOUS
  <1>0. (main = "exited" <=> exitCode # NoCause) /\ (ctx <=> cause # NoCause)
    BY DEF LifecycleTypeOK
  <1> USE <1>0, NoCauseAssumption DEF ErrorIsThere, FailureIsReported, Alive, serveVars,
          drainVars, windowVars, requestVars,
        contextVars, Cancelled, CancelApp, Exit
  <1>1. CASE ServeGoroutine(ServeFails)
    BY <1>1 DEF ServeGoroutine, ServeFails
  <1>2. CASE ServeEnds
    BY <1>2 DEF ServeEnds, ServeGoroutine, ServeReturns, Report
  <1>3. ASSUME NEW r \in Requests, Request(r) PROVE ErrorIsThere'
    BY <1>3 DEF Request, Begin, ClientLeaves, ClientReturns
  <1>4. ASSUME NEW s \in Stoppers, Stop(Accept(s)) \/ Stop(RequestShutdown(s))
        PROVE  ErrorIsThere'
    BY <1>4 DEF Stop, Accept, RequestShutdown
  <1>5. CASE Signal
    BY <1>5 DEF Signal
  <1>6. CASE CloseWindow \/ Terminate
    BY <1>6 DEF CloseWindow, Terminate
  <1>7. CASE Listen /\ UNCHANGED <<platform, stopper>>
    BY <1>7 DEF Listen
  <1>8. CASE OpenWindow /\ UNCHANGED <<platform, stopper>>
    BY <1>8 DEF OpenWindow
  <1>9. CASE MarkHealthy /\ UNCHANGED <<platform, stopper>>
    BY <1>9 DEF MarkHealthy, RunWindow
  <1>10. CASE (WindowEnds \/ Await \/ CancelAfterWindow) /\ UNCHANGED <<platform, stopper>>
    BY <1>10 DEF WindowEnds, Await, CancelAfterWindow
  <1>11. CASE (BeginShutdown \/ Drain) /\ UNCHANGED <<platform, stopper>>
    BY <1>11 DEF BeginShutdown, Drain
  <1>12. CASE Status /\ UNCHANGED <<platform, stopper>>
    BY <1>12 DEF Status
  <1>13. CASE UNCHANGED lifecycleVars
    BY <1>13 DEF lifecycleVars
  <1>14. QED
    BY <1>1, <1>2, <1>3, <1>4, <1>5, <1>6, <1>7, <1>8, <1>9, <1>10, <1>11, <1>12, <1>13
       DEF LifecycleNext, Main, Ended

\* every step keeps the account of the requests
LEMMA RequestsAreDrainedStep ==
    LifecycleTypeOK /\ RequestsAreDrained /\ [LifecycleNext]_lifecycleVars
      => RequestsAreDrained'
  <1> SUFFICES ASSUME LifecycleTypeOK, RequestsAreDrained, [LifecycleNext]_lifecycleVars
               PROVE  RequestsAreDrained'
    OBVIOUS
  <1>0. /\ main = "exited" <=> exitCode # NoCause
        /\ request \in [Requests -> {"none", "active", "ended", "cut"}]
    BY DEF LifecycleTypeOK
  <1> USE <1>0, NoCauseAssumption DEF RequestsAreDrained, CutOffOnlyAfterTimeout, Alive, Unheard,
        Active, serveVars, drainVars, windowVars, requestVars,
        contextVars, Cancelled, CancelApp, Exit
  <1>1. CASE ServeGoroutine(ServeFails)
    BY <1>1 DEF ServeGoroutine, ServeFails
  <1>2. CASE ServeEnds
    BY <1>2 DEF ServeEnds, ServeGoroutine, ServeReturns, Report
  <1>3. ASSUME NEW r \in Requests, Request(r) PROVE RequestsAreDrained'
    BY <1>3 DEF Request, Begin, ClientLeaves, ClientReturns
  <1>4. ASSUME NEW s \in Stoppers, Stop(Accept(s)) \/ Stop(RequestShutdown(s))
        PROVE  RequestsAreDrained'
    BY <1>4 DEF Stop, Accept, RequestShutdown
  <1>5. CASE Signal
    BY <1>5 DEF Signal
  <1>6. CASE CloseWindow \/ Terminate
    BY <1>6 DEF CloseWindow, Terminate
  <1>7. CASE Listen /\ UNCHANGED <<platform, stopper>>
    BY <1>7 DEF Listen
  <1>8. CASE OpenWindow /\ UNCHANGED <<platform, stopper>>
    BY <1>8 DEF OpenWindow
  <1>9. CASE MarkHealthy /\ UNCHANGED <<platform, stopper>>
    BY <1>9 DEF MarkHealthy, RunWindow
  <1>10. CASE (WindowEnds \/ Await \/ CancelAfterWindow) /\ UNCHANGED <<platform, stopper>>
    BY <1>10 DEF WindowEnds, Await, CancelAfterWindow
  <1>11. CASE (BeginShutdown \/ Drain) /\ UNCHANGED <<platform, stopper>>
    BY <1>11 DEF BeginShutdown, Drain
  <1>12. CASE Status /\ UNCHANGED <<platform, stopper>>
    BY <1>12 DEF Status
  <1>13. CASE UNCHANGED lifecycleVars
    BY <1>13 DEF lifecycleVars
  <1>14. QED
    BY <1>1, <1>2, <1>3, <1>4, <1>5, <1>6, <1>7, <1>8, <1>9, <1>10, <1>11, <1>12, <1>13
       DEF LifecycleNext, Main, Ended

\* With any number of requests, and unless a signal kills the process: it exits
\* with an error if it ended because its server failed, or if its window or
\* handshake failed, and it cuts no request off before the timeout
\* (main.go:71-117).
THEOREM ExitTellsTheTruth == LifecycleSpec => []ExitIsHonest
  <1>1. LifecycleInv => ExitIsHonest
    BY DEF LifecycleInv, ErrorIsThere, RequestsAreDrained, ExitIsHonest
  <1>2. LifecycleInv /\ [LifecycleNext]_lifecycleVars => LifecycleInv'
    BY LifecycleTypesStep, ErrorIsThereStep, RequestsAreDrainedStep DEF LifecycleInv
  <1>3. QED
    BY LifecycleInvInit, <1>1, <1>2, PTL DEF LifecycleSpec

-------------------------------------------------------------------------------
(* ContentView: the document area of the page                               *)

\* Until documents cross, whatever is fetched or kept is of the current one.
CurrentUncrossed ==
    ~crossed =>
        /\ CachedIsCurrent
        /\ load # NoLoad => load.doc = shownFile
        /\ \A c \in Copies : copies[c] # NoDoc => copies[c] = shownFile
        /\ Working => shownFile = NoDoc /\ load = NoLoad /\ cached = NoDoc

\* A preview is fetched for the current document, and while nothing else runs.
PreviewsAreCurrent ==
    /\ PreviewIsCurrent
    /\ load.kind = "preview" => load.doc = shownFile /\ ~Working
    /\ stream # NoStream /\ editor # NoDoc => editor.part # "preview"

\* A document that is not fetched yet keeps a control that fetches it.
ControlsAreThere ==
    /\ "loadEnabled" \in controls \/ load.kind = "full"
    /\ "banner" \in controls => "load" \in controls
    /\ shownFile # NoDoc =>
          /\ Copying \/ "copy" \in controls
          /\ "load" \in controls \/ cached # NoDoc \/ load.kind = "preview"

ContentInv ==
    /\ ContentTypeOK /\ BusyWhileWorking /\ PartIsNeverWhole
    /\ PreviewsAreCurrent /\ CurrentUncrossed /\ ControlsAreThere

\* the page is loaded without a document and without work
LEMMA ContentInvInit == ContentInit => ContentInv
  <1> SUFFICES ASSUME ContentInit PROVE ContentInv
    OBVIOUS
  <1> USE NamesAssumption DEF ContentInit, Working, NoStream, NoLoad
  <1>1. ContentTypeOK
    BY DEF ContentTypeOK, ContentControls
  <1>2. BusyWhileWorking /\ PartIsNeverWhole
    BY DEF BusyWhileWorking, PartIsNeverWhole
  <1>3. PreviewsAreCurrent /\ CurrentUncrossed /\ ControlsAreThere
    BY DEF PreviewsAreCurrent, PreviewIsCurrent, CurrentUncrossed, CachedIsCurrent,
       ControlsAreThere
  <1>4. QED
    BY <1>1, <1>2, <1>3 DEF ContentInv

\* every step keeps the types
LEMMA ContentTypesStep == ContentTypeOK /\ [ContentNext]_contentVars => ContentTypeOK'
  <1> DEFINE Work  == /\ unused \subseteq Generations \cup Scans
                      /\ stream \in {NoStream} \cup
                                      [gen : Generations \ unused, mode : {"full", "stats"}]
                      /\ scan \in {NoDoc} \cup (Scans \ unused)
             Loads == /\ load \in {NoLoad} \cup [doc : Docs, kind : {"preview", "full"}]
                      /\ copies \in [Copies -> Docs \cup {NoDoc}]
                      /\ shownFile \in Docs \cup {NoDoc}
             Texts == /\ cached \in Text \cup {NoDoc} /\ editor \in Text \cup {NoDoc}
                      /\ clipboard \in Text \cup {NoDoc}
             Flags == truncated \in BOOLEAN /\ crossed \in BOOLEAN
             Rest  == controls \subseteq ContentControls /\ (truncated => cached = NoDoc)
  <1>a. ContentTypeOK <=> Work /\ Loads /\ Texts /\ Flags /\ Rest
    BY Zenon DEF ContentTypeOK
  <1>b. ContentTypeOK' <=> Work' /\ Loads' /\ Texts' /\ Flags' /\ Rest'
    BY Zenon DEF ContentTypeOK
  <1> SUFFICES ASSUME Work, Loads, Texts, Flags, Rest, [ContentNext]_contentVars
               PROVE  Work' /\ Loads' /\ Texts' /\ Flags' /\ Rest'
    BY <1>a, <1>b
  <1>c. ASSUME NEW d \in Docs
        PROVE  /\ Whole(d) \in Text /\ Preview(d) \in Text
               /\ [doc |-> d, kind |-> "preview"] \in [doc : Docs, kind : {"preview", "full"}]
               /\ [doc |-> d, kind |-> "full"] \in [doc : Docs, kind : {"preview", "full"}]
    BY DEF Text, Whole, Preview
  <1>d. \A s \in Scans : Tree(s) \in Text
    BY DEF Text, Tree
  <1>e. /\ stream # NoStream => stream.gen \in Docs
        /\ load.kind \in {"preview", "full"} => load.doc \in Docs
    BY DEF NoLoad, Docs
  <1>f. Saved \subseteq Docs /\ Generations \subseteq Docs
    BY DEF Docs
  <1> USE DEF content, contentRequests
  <1>1. ASSUME NEW s \in Scans, StartScan(s) PROVE Work' /\ Loads' /\ Texts' /\ Flags' /\ Rest'
    <2>1. Work' /\ Loads'
      BY <1>1, <1>c, <1>e, <1>f DEF StartScan, ResetContent, DropLoad, Cross, Busy,
         ResetControls, Aborted, LoadEnded, Stopped
    <2>2. Texts'
      BY <1>1, <1>c, <1>d, <1>e DEF StartScan, ResetContent, DropLoad, Cross, Busy,
         ResetControls, Aborted, LoadEnded, Stopped
    <2>3. Flags'
      BY <1>1 DEF StartScan, ResetContent, DropLoad, Cross, Busy, ResetControls, Aborted,
         LoadEnded, Stopped
    <2>4. Rest'
      BY <1>1, NoTextAssumption DEF StartScan, ResetContent, DropLoad, Cross, Busy,
         ResetControls, Aborted, LoadEnded, Stopped, ContentControls
    <2>5. QED
      BY <2>1, <2>2, <2>3, <2>4
  <1>2. ASSUME NEW g \in Generations, NEW mode \in {"full", "stats"}, StartGeneration(g, mode)
        PROVE  Work' /\ Loads' /\ Texts' /\ Flags' /\ Rest'
    <2>1. Work' /\ Loads'
      BY <1>2, <1>c, <1>e, <1>f DEF StartGeneration, ResetContent, DropLoad, Cross, Busy,
         ResetControls, Aborted, LoadEnded, Stopped
    <2>2. Texts'
      BY <1>2, <1>c, <1>d, <1>e DEF StartGeneration, ResetContent, DropLoad, Cross, Busy,
         ResetControls, Aborted, LoadEnded, Stopped
    <2>3. Flags'
      BY <1>2 DEF StartGeneration, ResetContent, DropLoad, Cross, Busy, ResetControls, Aborted,
         LoadEnded, Stopped
    <2>4. Rest'
      BY <1>2, NoTextAssumption DEF StartGeneration, ResetContent, DropLoad, Cross, Busy,
         ResetControls, Aborted, LoadEnded, Stopped, ContentControls
    <2>5. QED
      BY <2>1, <2>2, <2>3, <2>4
  <1>3. ASSUME NEW d \in Saved \cup {NoDoc}, Restore(d)
        PROVE  Work' /\ Loads' /\ Texts' /\ Flags' /\ Rest'
    <2>1. Work' /\ Loads'
      BY <1>3, <1>c, <1>e, <1>f DEF Restore, ResetContent, DropLoad, Cross, ResetControls,
         Aborted, LoadEnded, Stopped
    <2>2. Texts'
      BY <1>3, <1>c, <1>d, <1>e DEF Restore, ResetContent, DropLoad, Cross, ResetControls,
         Aborted, LoadEnded, Stopped
    <2>3. Flags'
      BY <1>3 DEF Restore, ResetContent, DropLoad, Cross, ResetControls, Aborted, LoadEnded, Stopped
    <2>4. Rest'
      BY <1>3, NoTextAssumption DEF Restore, ResetContent, DropLoad, Cross, ResetControls,
         Aborted, LoadEnded, Stopped, ContentControls
    <2>5. QED
      BY <2>1, <2>2, <2>3, <2>4
  <1>4. CASE CancelWork
    <2>1. Work' /\ Loads'
      BY <1>4, <1>c, <1>e, <1>f DEF CancelWork, Idle, Aborted, LoadEnded, Stopped
    <2>2. Texts'
      BY <1>4, <1>c, <1>d, <1>e DEF CancelWork, Idle, Aborted, LoadEnded, Stopped
    <2>3. Flags'
      BY <1>4 DEF CancelWork, Idle, Aborted, LoadEnded, Stopped
    <2>4. Rest'
      BY <1>4, NoTextAssumption DEF CancelWork, Idle, Aborted, LoadEnded, Stopped, ContentControls
    <2>5. QED
      BY <2>1, <2>2, <2>3, <2>4
  <1>5. CASE LoadFull
    <2>1. Work' /\ Loads'
      BY <1>5, <1>c, <1>e, <1>f DEF LoadFull, CanLoad
    <2>2. Texts'
      BY <1>5, <1>c, <1>d, <1>e DEF LoadFull, CanLoad
    <2>3. Flags'
      BY <1>5 DEF LoadFull, CanLoad
    <2>4. Rest'
      BY <1>5, NoTextAssumption DEF LoadFull, CanLoad, ContentControls
    <2>5. QED
      BY <2>1, <2>2, <2>3, <2>4
  <1>6. CASE StopLoad
    <2>1. Work' /\ Loads'
      BY <1>6, <1>c, <1>e, <1>f DEF StopLoad, Aborted, LoadEnded, Stopped
    <2>2. Texts'
      BY <1>6, <1>c, <1>d, <1>e DEF StopLoad, Aborted, LoadEnded, Stopped
    <2>3. Flags'
      BY <1>6 DEF StopLoad, Aborted, LoadEnded, Stopped
    <2>4. Rest'
      BY <1>6, NoTextAssumption DEF StopLoad, Aborted, LoadEnded, Stopped, ContentControls
    <2>5. QED
      BY <2>1, <2>2, <2>3, <2>4
  <1>7. ASSUME NEW c \in Copies, Copy(c) PROVE Work' /\ Loads' /\ Texts' /\ Flags' /\ Rest'
    <2>1. Work' /\ Loads'
      BY <1>7, <1>c, <1>e, <1>f DEF Copy
    <2>2. Texts'
      BY <1>7, <1>c, <1>d, <1>e DEF Copy
    <2>3. Flags'
      BY <1>7 DEF Copy
    <2>4. Rest'
      BY <1>7, NoTextAssumption DEF Copy, ContentControls
    <2>5. QED
      BY <2>1, <2>2, <2>3, <2>4
  <1>8. CASE ScanAnswered
    <2>1. Work' /\ Loads'
      BY <1>8, <1>c, <1>e, <1>f DEF ScanAnswered, Idle
    <2>2. Texts'
      BY <1>8, <1>c, <1>d, <1>e DEF ScanAnswered, Idle
    <2>3. Flags'
      BY <1>8 DEF ScanAnswered, Idle
    <2>4. Rest'
      <3>1. controls' \subseteq ContentControls
        BY <1>8 DEF ScanAnswered, Idle, ContentControls
      <3>2. truncated' => cached' = NoDoc
        BY <1>8 DEF ScanAnswered
      <3>3. QED
        BY <3>1, <3>2
    <2>5. QED
      BY <2>1, <2>2, <2>3, <2>4
  <1>9. CASE Complete
    <2>1. Work' /\ Loads'
      BY <1>9, <1>c, <1>e, <1>f DEF Complete, Idle, Aborted, LoadEnded, Stopped
    <2>2. Texts'
      BY <1>9, <1>c, <1>d, <1>e DEF Complete, Idle, Aborted, LoadEnded, Stopped
    <2>3. Flags'
      BY <1>9 DEF Complete, Idle, Aborted, LoadEnded, Stopped
    <2>4. Rest'
      BY <1>9, NoTextAssumption DEF Complete, Idle, Aborted, LoadEnded, Stopped, ContentControls
    <2>5. QED
      BY <2>1, <2>2, <2>3, <2>4
  <1>10. CASE StreamError
    <2>1. Work' /\ Loads'
      BY <1>10, <1>c, <1>e, <1>f DEF StreamError, Idle
    <2>2. Texts'
      BY <1>10, <1>c, <1>d, <1>e DEF StreamError, Idle
    <2>3. Flags'
      BY <1>10 DEF StreamError, Idle
    <2>4. Rest'
      BY <1>10, NoTextAssumption DEF StreamError, Idle, ContentControls
    <2>5. QED
      BY <2>1, <2>2, <2>3, <2>4
  <1>11. ASSUME NEW trunc \in BOOLEAN, PreviewAnswered(trunc)
         PROVE  Work' /\ Loads' /\ Texts' /\ Flags' /\ Rest'
    <2>1. Work' /\ Loads'
      BY <1>11, <1>c, <1>e, <1>f DEF PreviewAnswered, CachedOf
    <2>2. Texts'
      BY <1>11, <1>c, <1>d, <1>e DEF PreviewAnswered, CachedOf
    <2>3. Flags'
      BY <1>11 DEF PreviewAnswered, CachedOf
    <2>4. Rest'
      BY <1>11, NoTextAssumption DEF PreviewAnswered, CachedOf, ContentControls
    <2>5. QED
      BY <2>1, <2>2, <2>3, <2>4
  <1>12. CASE PreviewFails
    <2>1. Work' /\ Loads'
      BY <1>12, <1>c, <1>e, <1>f DEF PreviewFails
    <2>2. Texts'
      BY <1>12, <1>c, <1>d, <1>e DEF PreviewFails
    <2>3. Flags'
      BY <1>12 DEF PreviewFails
    <2>4. Rest'
      BY <1>12, NoTextAssumption DEF PreviewFails, ContentControls
    <2>5. QED
      BY <2>1, <2>2, <2>3, <2>4
  <1>13. CASE FullAnswered
    <2>1. Work' /\ Loads'
      BY <1>13, <1>c, <1>e, <1>f DEF FullAnswered, LoadEnded, Stopped
    <2>2. Texts'
      BY <1>13, <1>c, <1>d, <1>e DEF FullAnswered, LoadEnded, Stopped
    <2>3. Flags'
      BY <1>13 DEF FullAnswered, LoadEnded, Stopped
    <2>4. Rest'
      BY <1>13, NoTextAssumption DEF FullAnswered, LoadEnded, Stopped, ContentControls
    <2>5. QED
      BY <2>1, <2>2, <2>3, <2>4
  <1>14. CASE FullFails
    <2>1. Work' /\ Loads'
      BY <1>14, <1>c, <1>e, <1>f DEF FullFails, LoadEnded, Stopped
    <2>2. Texts'
      BY <1>14, <1>c, <1>d, <1>e DEF FullFails, LoadEnded, Stopped
    <2>3. Flags'
      BY <1>14 DEF FullFails, LoadEnded, Stopped
    <2>4. Rest'
      BY <1>14, NoTextAssumption DEF FullFails, LoadEnded, Stopped, ContentControls
    <2>5. QED
      BY <2>1, <2>2, <2>3, <2>4
  <1>15. ASSUME NEW c \in Copies, CopyAnswered(c) PROVE Work' /\ Loads' /\ Texts' /\ Flags' /\ Rest'
    <2>1. Work' /\ Loads'
      BY <1>15, <1>c, <1>e, <1>f DEF CopyAnswered
    <2>2. Texts'
      BY <1>15, <1>c, <1>d, <1>e DEF CopyAnswered
    <2>3. Flags'
      BY <1>15 DEF CopyAnswered
    <2>4. Rest'
      BY <1>15, NoTextAssumption DEF CopyAnswered, ContentControls
    <2>5. QED
      BY <2>1, <2>2, <2>3, <2>4
  <1>16. CASE UNCHANGED contentVars
    <2>1. Work' /\ Loads'
      BY <1>16, <1>c, <1>e, <1>f DEF contentVars, contentRequests
    <2>2. Texts'
      BY <1>16, <1>c, <1>d, <1>e DEF contentVars, contentRequests
    <2>3. Flags'
      BY <1>16 DEF contentVars, contentRequests
    <2>4. Rest'
      BY <1>16, NoTextAssumption DEF contentVars, contentRequests, ContentControls
    <2>5. QED
      BY <2>1, <2>2, <2>3, <2>4
  <1>17. QED
    BY <1>1, <1>2, <1>3, <1>4, <1>5, <1>6, <1>7, <1>8, <1>9, <1>10, <1>11, <1>12, <1>13, <1>14,
       <1>15, <1>16
       DEF ContentNext, ContentUser, Server, StreamAnswered, LoadAnswered

\* every step keeps the buttons in step with the work
LEMMA BusyStep ==
    ContentTypeOK /\ BusyWhileWorking /\ [ContentNext]_contentVars => BusyWhileWorking'
  <1> SUFFICES ASSUME ContentTypeOK, BusyWhileWorking, [ContentNext]_contentVars
               PROVE  BusyWhileWorking'
    OBVIOUS
  <1> USE NamesAssumption, NoTextAssumption DEF ContentTypeOK, BusyWhileWorking, Working,
          NoStream, content
  <1>1. ASSUME NEW s \in Scans, StartScan(s) PROVE BusyWhileWorking'
    BY <1>1 DEF StartScan, ResetContent, DropLoad, Cross, Busy, ResetControls, Aborted,
       LoadEnded, Stopped
  <1>2. ASSUME NEW g \in Generations, NEW mode \in {"full", "stats"}, StartGeneration(g, mode)
        PROVE  BusyWhileWorking'
    BY <1>2 DEF StartGeneration, ResetContent, DropLoad, Cross, Busy, ResetControls, Aborted,
       LoadEnded, Stopped
  <1>3. ASSUME NEW d \in Saved \cup {NoDoc}, Restore(d) PROVE BusyWhileWorking'
    BY <1>3 DEF Restore, ResetContent, DropLoad, Cross, ResetControls, Aborted, LoadEnded, Stopped
  <1>4. CASE CancelWork
    BY <1>4 DEF CancelWork, Idle, Aborted, LoadEnded, Stopped
  <1>5. CASE LoadFull
    BY <1>5 DEF LoadFull, CanLoad
  <1>6. CASE StopLoad
    BY <1>6 DEF StopLoad, Aborted, LoadEnded, Stopped
  <1>7. ASSUME NEW c \in Copies, Copy(c) PROVE BusyWhileWorking'
    BY <1>7 DEF Copy
  <1>8. CASE ScanAnswered
    BY <1>8 DEF ScanAnswered, Idle
  <1>9. CASE Complete
    BY <1>9 DEF Complete, Idle, Aborted, LoadEnded, Stopped
  <1>10. CASE StreamError
    BY <1>10 DEF StreamError, Idle
  <1>11. ASSUME NEW trunc \in BOOLEAN, PreviewAnswered(trunc) PROVE BusyWhileWorking'
    BY <1>11 DEF PreviewAnswered, CachedOf
  <1>12. CASE PreviewFails
    BY <1>12 DEF PreviewFails
  <1>13. CASE FullAnswered
    BY <1>13 DEF FullAnswered, LoadEnded, Stopped
  <1>14. CASE FullFails
    BY <1>14 DEF FullFails, LoadEnded, Stopped
  <1>15. ASSUME NEW c \in Copies, CopyAnswered(c) PROVE BusyWhileWorking'
    BY <1>15 DEF CopyAnswered
  <1>16. CASE UNCHANGED contentVars
    BY <1>16 DEF contentVars, contentRequests
  <1>17. QED
    BY <1>1, <1>2, <1>3, <1>4, <1>5, <1>6, <1>7, <1>8, <1>9, <1>10, <1>11, <1>12, <1>13, <1>14,
       <1>15, <1>16
       DEF ContentNext, ContentUser, Server, StreamAnswered, LoadAnswered

\* no step takes a part of a document for the whole
LEMMA WholeStep ==
    ContentTypeOK /\ PartIsNeverWhole /\ PreviewsAreCurrent /\ [ContentNext]_contentVars
      => PartIsNeverWhole'
  <1> SUFFICES ASSUME ContentTypeOK, PartIsNeverWhole, PreviewsAreCurrent, [ContentNext]_contentVars
               PROVE  PartIsNeverWhole'
    OBVIOUS
  <1> USE NamesAssumption, NoTextAssumption DEF ContentTypeOK, PartIsNeverWhole,
          PreviewsAreCurrent, PreviewIsCurrent, Text, Whole, Tree, Docs, content
  <1>1. ASSUME NEW s \in Scans, StartScan(s) PROVE PartIsNeverWhole'
    BY <1>1 DEF StartScan, ResetContent, DropLoad, Cross, Busy, ResetControls, Aborted,
       LoadEnded, Stopped
  <1>2. ASSUME NEW g \in Generations, NEW mode \in {"full", "stats"}, StartGeneration(g, mode)
        PROVE  PartIsNeverWhole'
    BY <1>2 DEF StartGeneration, ResetContent, DropLoad, Cross, Busy, ResetControls, Aborted,
       LoadEnded, Stopped
  <1>3. ASSUME NEW d \in Saved \cup {NoDoc}, Restore(d) PROVE PartIsNeverWhole'
    BY <1>3 DEF Restore, ResetContent, DropLoad, Cross, ResetControls, Aborted, LoadEnded, Stopped
  <1>4. CASE CancelWork
    BY <1>4 DEF CancelWork, Idle, Aborted, LoadEnded, Stopped
  <1>5. CASE LoadFull
    BY <1>5 DEF LoadFull, CanLoad
  <1>6. CASE StopLoad
    BY <1>6 DEF StopLoad, Aborted, LoadEnded, Stopped
  <1>7. ASSUME NEW c \in Copies, Copy(c) PROVE PartIsNeverWhole'
    BY <1>7 DEF Copy
  <1>8. CASE ScanAnswered
    BY <1>8 DEF ScanAnswered, Idle
  <1>9. CASE Complete
    BY <1>9 DEF Complete, Idle, Aborted, LoadEnded, Stopped
  <1>10. CASE StreamError
    BY <1>10 DEF StreamError, Idle
  <1>11. ASSUME NEW trunc \in BOOLEAN, PreviewAnswered(trunc) PROVE PartIsNeverWhole'
    BY <1>11 DEF PreviewAnswered, CachedOf
  <1>12. CASE PreviewFails
    BY <1>12 DEF PreviewFails
  <1>13. CASE FullAnswered
    BY <1>13 DEF FullAnswered, LoadEnded, Stopped
  <1>14. CASE FullFails
    BY <1>14 DEF FullFails, LoadEnded, Stopped
  <1>15. ASSUME NEW c \in Copies, CopyAnswered(c) PROVE PartIsNeverWhole'
    BY <1>15 DEF CopyAnswered
  <1>16. CASE UNCHANGED contentVars
    BY <1>16 DEF contentVars, contentRequests
  <1>17. QED
    BY <1>1, <1>2, <1>3, <1>4, <1>5, <1>6, <1>7, <1>8, <1>9, <1>10, <1>11, <1>12, <1>13, <1>14,
       <1>15, <1>16
       DEF ContentNext, ContentUser, Server, StreamAnswered, LoadAnswered

\* every step keeps the previews current
LEMMA PreviewsStep ==
    ContentTypeOK /\ BusyWhileWorking /\ PartIsNeverWhole /\ PreviewsAreCurrent
      /\ [ContentNext]_contentVars => PreviewsAreCurrent'
  <1> SUFFICES ASSUME ContentTypeOK, BusyWhileWorking, PartIsNeverWhole, PreviewsAreCurrent,
                      [ContentNext]_contentVars
               PROVE  PreviewsAreCurrent'
    OBVIOUS
  <1> USE NamesAssumption, NoTextAssumption DEF ContentTypeOK, BusyWhileWorking, Working,
          PartIsNeverWhole, PreviewsAreCurrent, PreviewIsCurrent, Docs, Whole, Preview, Tree,
          NoStream, NoLoad, content
  <1>1. ASSUME NEW s \in Scans, StartScan(s) PROVE PreviewsAreCurrent'
    BY <1>1 DEF StartScan, ResetContent, DropLoad, Cross, Busy, ResetControls, Aborted,
       LoadEnded, Stopped
  <1>2. ASSUME NEW g \in Generations, NEW mode \in {"full", "stats"}, StartGeneration(g, mode)
        PROVE  PreviewsAreCurrent'
    BY <1>2 DEF StartGeneration, ResetContent, DropLoad, Cross, Busy, ResetControls, Aborted,
       LoadEnded, Stopped
  <1>3. ASSUME NEW d \in Saved \cup {NoDoc}, Restore(d) PROVE PreviewsAreCurrent'
    BY <1>3 DEF Restore, ResetContent, DropLoad, Cross, ResetControls, Aborted, LoadEnded, Stopped
  <1>4. CASE CancelWork
    BY <1>4 DEF CancelWork, Idle, Aborted, LoadEnded, Stopped
  <1>5. CASE LoadFull
    BY <1>5 DEF LoadFull, CanLoad
  <1>6. CASE StopLoad
    BY <1>6 DEF StopLoad, Aborted, LoadEnded, Stopped
  <1>7. ASSUME NEW c \in Copies, Copy(c) PROVE PreviewsAreCurrent'
    BY <1>7 DEF Copy
  <1>8. CASE ScanAnswered
    BY <1>8 DEF ScanAnswered, Idle
  <1>9. CASE Complete
    BY <1>9 DEF Complete, Idle, Aborted, LoadEnded, Stopped
  <1>10. CASE StreamError
    BY <1>10 DEF StreamError, Idle
  <1>11. ASSUME NEW trunc \in BOOLEAN, PreviewAnswered(trunc) PROVE PreviewsAreCurrent'
    BY <1>11 DEF PreviewAnswered, CachedOf
  <1>12. CASE PreviewFails
    BY <1>12 DEF PreviewFails
  <1>13. CASE FullAnswered
    BY <1>13 DEF FullAnswered, LoadEnded, Stopped
  <1>14. CASE FullFails
    BY <1>14 DEF FullFails, LoadEnded, Stopped
  <1>15. ASSUME NEW c \in Copies, CopyAnswered(c) PROVE PreviewsAreCurrent'
    BY <1>15 DEF CopyAnswered
  <1>16. CASE UNCHANGED contentVars
    BY <1>16 DEF contentVars, contentRequests
  <1>17. QED
    BY <1>1, <1>2, <1>3, <1>4, <1>5, <1>6, <1>7, <1>8, <1>9, <1>10, <1>11, <1>12, <1>13, <1>14,
       <1>15, <1>16
       DEF ContentNext, ContentUser, Server, StreamAnswered, LoadAnswered

\* until documents cross, every step keeps them current
LEMMA UncrossedStep ==
    ContentTypeOK /\ BusyWhileWorking /\ CurrentUncrossed /\ [ContentNext]_contentVars
      => CurrentUncrossed'
  <1> SUFFICES ASSUME ContentTypeOK, BusyWhileWorking, CurrentUncrossed, [ContentNext]_contentVars
               PROVE  CurrentUncrossed'
    OBVIOUS
  <1> USE NamesAssumption, NoTextAssumption DEF ContentTypeOK, BusyWhileWorking, Working,
          CurrentUncrossed, CachedIsCurrent, Copying, Docs, Whole, Preview, Tree, NoStream,
          NoLoad, content
  <1>1. ASSUME NEW s \in Scans, StartScan(s) PROVE CurrentUncrossed'
    BY <1>1 DEF StartScan, ResetContent, DropLoad, Cross, Busy, ResetControls, Aborted,
       LoadEnded, Stopped
  <1>2. ASSUME NEW g \in Generations, NEW mode \in {"full", "stats"}, StartGeneration(g, mode)
        PROVE  CurrentUncrossed'
    BY <1>2 DEF StartGeneration, ResetContent, DropLoad, Cross, Busy, ResetControls, Aborted,
       LoadEnded, Stopped
  <1>3. ASSUME NEW d \in Saved \cup {NoDoc}, Restore(d) PROVE CurrentUncrossed'
    BY <1>3 DEF Restore, ResetContent, DropLoad, Cross, ResetControls, Aborted, LoadEnded, Stopped
  <1>4. CASE CancelWork
    BY <1>4 DEF CancelWork, Idle, Aborted, LoadEnded, Stopped
  <1>5. CASE LoadFull
    BY <1>5 DEF LoadFull, CanLoad
  <1>6. CASE StopLoad
    BY <1>6 DEF StopLoad, Aborted, LoadEnded, Stopped
  <1>7. ASSUME NEW c \in Copies, Copy(c) PROVE CurrentUncrossed'
    BY <1>7 DEF Copy
  <1>8. CASE ScanAnswered
    BY <1>8 DEF ScanAnswered, Idle
  <1>9. CASE Complete
    BY <1>9 DEF Complete, Idle, Aborted, LoadEnded, Stopped
  <1>10. CASE StreamError
    BY <1>10 DEF StreamError, Idle
  <1>11. ASSUME NEW trunc \in BOOLEAN, PreviewAnswered(trunc) PROVE CurrentUncrossed'
    BY <1>11 DEF PreviewAnswered, CachedOf
  <1>12. CASE PreviewFails
    BY <1>12 DEF PreviewFails
  <1>13. CASE FullAnswered
    BY <1>13 DEF FullAnswered, LoadEnded, Stopped
  <1>14. CASE FullFails
    BY <1>14 DEF FullFails, LoadEnded, Stopped
  <1>15. ASSUME NEW c \in Copies, CopyAnswered(c) PROVE CurrentUncrossed'
    BY <1>15 DEF CopyAnswered
  <1>16. CASE UNCHANGED contentVars
    BY <1>16 DEF contentVars, contentRequests
  <1>17. QED
    BY <1>1, <1>2, <1>3, <1>4, <1>5, <1>6, <1>7, <1>8, <1>9, <1>10, <1>11, <1>12, <1>13, <1>14,
       <1>15, <1>16
       DEF ContentNext, ContentUser, Server, StreamAnswered, LoadAnswered

\* every step leaves a control that fetches the document
LEMMA ControlsStep ==
    ContentTypeOK /\ BusyWhileWorking /\ PreviewsAreCurrent /\ ControlsAreThere
      /\ [ContentNext]_contentVars => ControlsAreThere'
  <1> SUFFICES ASSUME ContentTypeOK, BusyWhileWorking, PreviewsAreCurrent, ControlsAreThere,
                      [ContentNext]_contentVars
               PROVE  ControlsAreThere'
    OBVIOUS
  <1> USE NamesAssumption, NoTextAssumption DEF ContentTypeOK, BusyWhileWorking, Working,
          PreviewsAreCurrent, ControlsAreThere, Copying, Text, Docs, Whole, Preview, Tree,
          NoStream, NoLoad, content
  <1>1. ASSUME NEW s \in Scans, StartScan(s) PROVE ControlsAreThere'
    BY <1>1 DEF StartScan, ResetContent, DropLoad, Cross, Busy, ResetControls, Aborted,
       LoadEnded, Stopped
  <1>2. ASSUME NEW g \in Generations, NEW mode \in {"full", "stats"}, StartGeneration(g, mode)
        PROVE  ControlsAreThere'
    BY <1>2 DEF StartGeneration, ResetContent, DropLoad, Cross, Busy, ResetControls, Aborted,
       LoadEnded, Stopped
  <1>3. ASSUME NEW d \in Saved \cup {NoDoc}, Restore(d) PROVE ControlsAreThere'
    BY <1>3 DEF Restore, ResetContent, DropLoad, Cross, ResetControls, Aborted, LoadEnded, Stopped
  <1>4. CASE CancelWork
    BY <1>4 DEF CancelWork, Idle, Aborted, LoadEnded, Stopped
  <1>5. CASE LoadFull
    BY <1>5 DEF LoadFull, CanLoad
  <1>6. CASE StopLoad
    BY <1>6 DEF StopLoad, Aborted, LoadEnded, Stopped
  <1>7. ASSUME NEW c \in Copies, Copy(c) PROVE ControlsAreThere'
    BY <1>7 DEF Copy
  <1>8. CASE ScanAnswered
    BY <1>8 DEF ScanAnswered, Idle
  <1>9. CASE Complete
    BY <1>9 DEF Complete, Idle, Aborted, LoadEnded, Stopped
  <1>10. CASE StreamError
    BY <1>10 DEF StreamError, Idle
  <1>11. ASSUME NEW trunc \in BOOLEAN, PreviewAnswered(trunc) PROVE ControlsAreThere'
    BY <1>11 DEF PreviewAnswered, CachedOf
  <1>12. CASE PreviewFails
    BY <1>12 DEF PreviewFails
  <1>13. CASE FullAnswered
    BY <1>13 DEF FullAnswered, LoadEnded, Stopped
  <1>14. CASE FullFails
    BY <1>14 DEF FullFails, LoadEnded, Stopped
  <1>15. ASSUME NEW c \in Copies, CopyAnswered(c) PROVE ControlsAreThere'
    BY <1>15 DEF CopyAnswered
  <1>16. CASE UNCHANGED contentVars
    BY <1>16 DEF contentVars, contentRequests
  <1>17. QED
    BY <1>1, <1>2, <1>3, <1>4, <1>5, <1>6, <1>7, <1>8, <1>9, <1>10, <1>11, <1>12, <1>13, <1>14,
       <1>15, <1>16
       DEF ContentNext, ContentUser, Server, StreamAnswered, LoadAnswered

\* ContentInv is an invariant of the page.
LEMMA ContentInvariant == ContentSpec => []ContentInv
  <1>1. ContentInv /\ [ContentNext]_contentVars => ContentInv'
    BY ContentTypesStep, BusyStep, WholeStep, PreviewsStep, UncrossedStep, ControlsStep
       DEF ContentInv
  <1>2. QED
    BY ContentInvInit, <1>1, PTL DEF ContentSpec

\* For any number of documents, scans and copies: no part of a document is taken
\* for the whole, a preview on display is of the document the page names, and
\* the text it keeps is too until a document is exchanged under a copy in flight
\* or a result is restored during a scan or a generation (generator.js, core.js,
\* bookmarks.js).
THEOREM ContentStaysCurrent == ContentSpec => []ContentIsCurrent
  <1>1. ContentInv => ContentIsCurrent
    BY DEF ContentInv, PreviewsAreCurrent, CurrentUncrossed, CachedIsCurrentUncrossed,
       ContentIsCurrent
  <1>2. QED
    BY ContentInvariant, <1>1, PTL

\* The buttons say whether work goes on, and no order of answers, failures and
\* cancellations takes the last way to a document away (generator.js:226-282,
\* core.js:237-241).
THEOREM ControlsFollowTheWork == ContentSpec => []ControlsMatchWork
  <1>1. ContentInv => BusyWhileWorking
    BY DEF ContentInv
  <1>2. ContentInv => ContentUsable
    BY DEF ContentInv, ControlsAreThere, ContentUsable, CanLoad, NoLoad
  <1>3. ContentInv => ControlsMatchWork
    BY <1>1, <1>2 DEF ControlsMatchWork
  <1>4. QED
    BY ContentInvariant, <1>3, PTL

-------------------------------------------------------------------------------
(* UpdateView: the update part of the page                                  *)

InDownload == ui \in {"downloading", "verifying"}
ServerIsSound ==
    /\ server \in {"ready", "applying"} => prepared /\ job = "none"
    /\ server = "downloading" => job = "running"
    /\ server = "verifying" => job = "verifying"
FreshPage ==
    /\ ui = "idle" /\ ~info /\ shown = {"check", "downloadOn", "restartOn"} /\ ~polling
    /\ \A c \in Checks : check[c] = "none"
    /\ \A p \in Polls : poll[p] = "none"
    /\ post = "none" /\ apply = "none" /\ waiting = "no"
OneRequest ==
    /\ \A c, d \in Checks : check[c] # "none" /\ check[d] # "none" => c = d
    /\ \A p \in Polls : poll[p] # "none" => ~polling /\ post = "none"
    /\ \A p, q \in Polls : poll[p] # "none" /\ poll[q] # "none" => p = q
    /\ post # "none" => ~polling
RequestIsShown ==
    /\ ui = "checking" <=> \E c \in Checks : check[c] # "none"
    /\ InDownload <=> polling \/ post # "none" \/ \E p \in Polls : poll[p] # "none"
    /\ ui = "applying" <=> apply # "none" \/ waiting # "no"
ServerAnswers ==
    /\ InDownload => post \in {"sent", "failed"} \/ server \in Rendered
    /\ status \in {"downloading", "verifying"} => server \in Rendered
    /\ status = "ready" \/ ui \in {"ready", "applying"} => prepared
    /\ \A p \in Polls : poll[p] # "other" /\ (poll[p] = "ready" => prepared)
WaysOn ==
    /\ "check" \in shown <=> ui # "checking"
    /\ "pill" \in shown => ui \in {"idle", "checking", "available"}
    /\ ui \in {"ready", "applying"} =>
          {"card", "restart"} \subseteq shown /\ "download" \notin shown
    /\ ui = "ready" => "restartOn" \in shown
    /\ InDownload => ~({"download", "downloadOn"} \subseteq shown)

Calm ==
    /\ online /\ ~Overlap /\ (status \notin {"none", "over"} => FreshPage)
    /\ OneRequest /\ RequestIsShown /\ ServerAnswers /\ WaysOn

UpdateInv == UpdateTypeOK /\ ServerIsSound /\ (~disturbed => Calm)

\* an action keeps the types
LEMMA UpdateTypesAction ==
    ASSUME UpdateTypeOK, Page \/ UpdateUser \/ Serve \/ Return, disturbed' \in BOOLEAN
    PROVE  UpdateTypeOK'
  <1> DEFINE View  == /\ ui \in {"idle", "checking", "available", "downloading", "verifying",
                                 "ready", "applying"}
                      /\ shown \subseteq Controls
             Kinds == /\ check \in [Checks -> {"none", "sent", "fetching", "update", "uptodate",
                                             "failed"}]
                      /\ poll \in [Polls -> {"none", "sent", "failed", "other"} \cup Rendered]
             Reqs  == /\ status \in {"none", "sent", "failed", "over", "downloading", "verifying",
                                    "ready"}
                      /\ post \in {"none", "sent", "done", "failed"}
                      /\ apply \in {"none", "sent", "started", "done", "failed"}
                      /\ waiting \in {"no", "online", "offline"}
                      /\ waiting # "no" => apply = "none"
             Srv   == server \in States /\ job \in {"none", "running", "verifying"}
             Flags == /\ info \in BOOLEAN /\ polling \in BOOLEAN /\ offered \in BOOLEAN
                      /\ prepared \in BOOLEAN /\ online \in BOOLEAN /\ updated \in BOOLEAN
  <1>a. UpdateTypeOK <=> View /\ Kinds /\ Reqs /\ Srv /\ Flags /\ disturbed \in BOOLEAN
    BY Zenon DEF UpdateTypeOK
  <1>b. UpdateTypeOK' <=> View' /\ Kinds' /\ Reqs' /\ Srv' /\ Flags' /\ disturbed' \in BOOLEAN
    BY Zenon DEF UpdateTypeOK
  <1> SUFFICES View' /\ Kinds' /\ Reqs' /\ Srv' /\ Flags'
    BY <1>b
  <1>c. View /\ Kinds /\ Reqs /\ Srv /\ Flags
    BY <1>a
  <1> USE <1>c DEF pageVars, requests, serverVars
  <1>1. CASE StatusAnswered
    <2>a. View'
      BY <1>1 DEF StatusAnswered, RenderReady, Show, Controls, Rendered
    <2>b. Reqs'
      BY <1>1 DEF StatusAnswered, RenderReady, Show
    <2>c. Srv'
      BY <1>1 DEF StatusAnswered, RenderReady, Show, States
    <2>1. View' /\ Reqs' /\ Srv'
      BY <2>a, <2>b, <2>c
    <2>2. Kinds'
      BY <1>1 DEF StatusAnswered, RenderReady, Show, Rendered
    <2>3. Flags'
      BY <1>1 DEF StatusAnswered, RenderReady, Show
    <2>4. QED
      BY <2>1, <2>2, <2>3
  <1>2. CASE FirstCheck
    <2>a. View'
      BY <1>2 DEF FirstCheck, SendCheck, MayCheck, Show, Controls, Rendered
    <2>b. Reqs'
      BY <1>2 DEF FirstCheck, SendCheck, MayCheck, Show
    <2>c. Srv'
      BY <1>2 DEF FirstCheck, SendCheck, MayCheck, Show, States
    <2>1. View' /\ Reqs' /\ Srv'
      BY <2>a, <2>b, <2>c
    <2>2. Kinds'
      BY <1>2 DEF FirstCheck, SendCheck, MayCheck, Show, Rendered
    <2>3. Flags'
      BY <1>2 DEF FirstCheck, SendCheck, MayCheck, Show
    <2>4. QED
      BY <2>1, <2>2, <2>3
  <1>3. CASE PostAnswered
    <2>a. View'
      BY <1>3 DEF PostAnswered, Show, Controls, Rendered
    <2>b. Reqs'
      BY <1>3 DEF PostAnswered, Show
    <2>c. Srv'
      BY <1>3 DEF PostAnswered, Show, States
    <2>1. View' /\ Reqs' /\ Srv'
      BY <2>a, <2>b, <2>c
    <2>2. Kinds'
      BY <1>3 DEF PostAnswered, Show, Rendered
    <2>3. Flags'
      BY <1>3 DEF PostAnswered, Show
    <2>4. QED
      BY <2>1, <2>2, <2>3
  <1>4. CASE PollFires
    <2>a. View'
      BY <1>4 DEF PollFires, Controls, Rendered
    <2>b. Reqs'
      BY <1>4 DEF PollFires
    <2>c. Srv'
      BY <1>4 DEF PollFires, States
    <2>1. View' /\ Reqs' /\ Srv'
      BY <2>a, <2>b, <2>c
    <2>2. Kinds'
      BY <1>4 DEF PollFires, Rendered
    <2>3. Flags'
      BY <1>4 DEF PollFires
    <2>4. QED
      BY <2>1, <2>2, <2>3
  <1>5. CASE ApplyAnswered
    <2>a. View'
      BY <1>5 DEF ApplyAnswered, ApplyFails, Show, Controls, Rendered
    <2>b. Reqs'
      BY <1>5 DEF ApplyAnswered, ApplyFails, Show
    <2>c. Srv'
      BY <1>5 DEF ApplyAnswered, ApplyFails, Show, States
    <2>1. View' /\ Reqs' /\ Srv'
      BY <2>a, <2>b, <2>c
    <2>2. Kinds'
      BY <1>5 DEF ApplyAnswered, ApplyFails, Show, Rendered
    <2>3. Flags'
      BY <1>5 DEF ApplyAnswered, ApplyFails, Show
    <2>4. QED
      BY <2>1, <2>2, <2>3
  <1>6. CASE Ping
    <2>a. View'
      BY <1>6 DEF Ping, ApplyFails, Show, Controls, Rendered
    <2>b. Reqs'
      BY <1>6 DEF Ping, ApplyFails, Show
    <2>c. Srv'
      BY <1>6 DEF Ping, ApplyFails, Show, States
    <2>1. View' /\ Reqs' /\ Srv'
      BY <2>a, <2>b, <2>c
    <2>2. Kinds'
      BY <1>6 DEF Ping, ApplyFails, Show, Rendered
    <2>3. Flags'
      BY <1>6 DEF Ping, ApplyFails, Show
    <2>4. QED
      BY <2>1, <2>2, <2>3
  <1>7. ASSUME NEW c \in Checks, CheckAnswered(c) PROVE View' /\ Kinds' /\ Reqs' /\ Srv' /\ Flags'
    <2>a. View'
      BY <1>7 DEF CheckAnswered, Show, Available, Controls, Rendered
    <2>b. Reqs'
      BY <1>7 DEF CheckAnswered, Show, Available
    <2>c. Srv'
      BY <1>7 DEF CheckAnswered, Show, Available, States
    <2>1. View' /\ Reqs' /\ Srv'
      BY <2>a, <2>b, <2>c
    <2>2. Kinds'
      BY <1>7 DEF CheckAnswered, Show, Available, Rendered
    <2>3. Flags'
      BY <1>7 DEF CheckAnswered, Show, Available
    <2>4. QED
      BY <2>1, <2>2, <2>3
  <1>8. ASSUME NEW p \in Polls, PollAnswered(p) PROVE View' /\ Kinds' /\ Reqs' /\ Srv' /\ Flags'
    <2>a. View'
      BY <1>8 DEF PollAnswered, FailedPoll, Watched, RenderReady, RenderError, RenderOther, Show,
         Controls, Rendered
    <2>b. Reqs'
      BY <1>8 DEF PollAnswered, FailedPoll, Watched, RenderReady, RenderError, RenderOther, Show
    <2>c. Srv'
      BY <1>8 DEF PollAnswered, FailedPoll, Watched, RenderReady, RenderError, RenderOther, Show,
         States
    <2>1. View' /\ Reqs' /\ Srv'
      BY <2>a, <2>b, <2>c
    <2>2. Kinds'
      BY <1>8 DEF PollAnswered, FailedPoll, Watched, RenderReady, RenderError, RenderOther, Show,
         Rendered
    <2>3. Flags'
      BY <1>8 DEF PollAnswered, FailedPoll, Watched, RenderReady, RenderError, RenderOther, Show
    <2>4. QED
      BY <2>1, <2>2, <2>3
  <1>9. CASE ManualCheck /\ UNCHANGED serverVars
    <2>a. View'
      BY <1>9 DEF ManualCheck, SendCheck, MayCheck, Show, Controls, Rendered
    <2>b. Reqs'
      BY <1>9 DEF ManualCheck, SendCheck, MayCheck, Show
    <2>c. Srv'
      BY <1>9 DEF ManualCheck, SendCheck, MayCheck, Show, States
    <2>1. View' /\ Reqs' /\ Srv'
      BY <2>a, <2>b, <2>c
    <2>2. Kinds'
      BY <1>9 DEF ManualCheck, SendCheck, MayCheck, Show, Rendered
    <2>3. Flags'
      BY <1>9 DEF ManualCheck, SendCheck, MayCheck, Show
    <2>4. QED
      BY <2>1, <2>2, <2>3
  <1>10. CASE ShowAvailable /\ UNCHANGED serverVars
    <2>a. View'
      BY <1>10 DEF ShowAvailable, Available, Controls, Rendered
    <2>b. Reqs'
      BY <1>10 DEF ShowAvailable, Available
    <2>c. Srv'
      BY <1>10 DEF ShowAvailable, Available, States
    <2>1. View' /\ Reqs' /\ Srv'
      BY <2>a, <2>b, <2>c
    <2>2. Kinds'
      BY <1>10 DEF ShowAvailable, Available, Rendered
    <2>3. Flags'
      BY <1>10 DEF ShowAvailable, Available
    <2>4. QED
      BY <2>1, <2>2, <2>3
  <1>11. CASE ClickDownload /\ UNCHANGED serverVars
    <2>a. View'
      BY <1>11 DEF ClickDownload, Show, Controls, Rendered
    <2>b. Reqs'
      BY <1>11 DEF ClickDownload, Show
    <2>c. Srv'
      BY <1>11 DEF ClickDownload, Show, States
    <2>1. View' /\ Reqs' /\ Srv'
      BY <2>a, <2>b, <2>c
    <2>2. Kinds'
      BY <1>11 DEF ClickDownload, Show, Rendered
    <2>3. Flags'
      BY <1>11 DEF ClickDownload, Show
    <2>4. QED
      BY <2>1, <2>2, <2>3
  <1>12. CASE ClickRestart /\ UNCHANGED serverVars
    <2>a. View'
      BY <1>12 DEF ClickRestart, Show, Controls, Rendered
    <2>b. Reqs'
      BY <1>12 DEF ClickRestart, Show
    <2>c. Srv'
      BY <1>12 DEF ClickRestart, Show, States
    <2>1. View' /\ Reqs' /\ Srv'
      BY <2>a, <2>b, <2>c
    <2>2. Kinds'
      BY <1>12 DEF ClickRestart, Show, Rendered
    <2>3. Flags'
      BY <1>12 DEF ClickRestart, Show
    <2>4. QED
      BY <2>1, <2>2, <2>3
  <1>13. CASE ServeStatus
    <2>a. View'
      BY <1>13 DEF ServeStatus, Controls, Rendered
    <2>b. Reqs'
      BY <1>13 DEF ServeStatus, Rendered
    <2>c. Srv'
      BY <1>13 DEF ServeStatus, States
    <2>1. View' /\ Reqs' /\ Srv'
      BY <2>a, <2>b, <2>c
    <2>2. Kinds'
      BY <1>13 DEF ServeStatus, Rendered
    <2>3. Flags'
      BY <1>13 DEF ServeStatus
    <2>4. QED
      BY <2>1, <2>2, <2>3
  <1>14. CASE ServePost
    <2>a. View'
      BY <1>14 DEF ServePost, Controls, Rendered
    <2>b. Reqs'
      BY <1>14 DEF ServePost
    <2>c. Srv'
      BY <1>14 DEF ServePost, States
    <2>1. View' /\ Reqs' /\ Srv'
      BY <2>a, <2>b, <2>c
    <2>2. Kinds'
      BY <1>14 DEF ServePost, Rendered
    <2>3. Flags'
      BY <1>14 DEF ServePost
    <2>4. QED
      BY <2>1, <2>2, <2>3
  <1>15. CASE ServeApply
    <2>a. View'
      BY <1>15 DEF ServeApply, Controls, Rendered
    <2>b. Reqs'
      BY <1>15 DEF ServeApply
    <2>c. Srv'
      BY <1>15 DEF ServeApply, States
    <2>1. View' /\ Reqs' /\ Srv'
      BY <2>a, <2>b, <2>c
    <2>2. Kinds'
      BY <1>15 DEF ServeApply, Rendered
    <2>3. Flags'
      BY <1>15 DEF ServeApply
    <2>4. QED
      BY <2>1, <2>2, <2>3
  <1>16. CASE Job
    <2>a. View'
      BY <1>16 DEF Job, Controls, Rendered
    <2>b. Reqs'
      BY <1>16 DEF Job
    <2>c. Srv'
      BY <1>16 DEF Job, States
    <2>1. View' /\ Reqs' /\ Srv'
      BY <2>a, <2>b, <2>c
    <2>2. Kinds'
      BY <1>16 DEF Job, Rendered
    <2>3. Flags'
      BY <1>16 DEF Job
    <2>4. QED
      BY <2>1, <2>2, <2>3
  <1>17. ASSUME NEW c \in Checks, ServeCheck(c) \/ EndCheck(c)
         PROVE  View' /\ Kinds' /\ Reqs' /\ Srv' /\ Flags'
    <2>a. View'
      BY <1>17 DEF ServeCheck, EndCheck, Controls, Rendered
    <2>b. Reqs'
      BY <1>17 DEF ServeCheck, EndCheck
    <2>c. Srv'
      BY <1>17 DEF ServeCheck, EndCheck, States
    <2>1. View' /\ Reqs' /\ Srv'
      BY <2>a, <2>b, <2>c
    <2>2. Kinds'
      BY <1>17 DEF ServeCheck, EndCheck, Rendered
    <2>3. Flags'
      BY <1>17 DEF ServeCheck, EndCheck
    <2>4. QED
      BY <2>1, <2>2, <2>3
  <1>18. ASSUME NEW p \in Polls, ServePoll(p) PROVE View' /\ Kinds' /\ Reqs' /\ Srv' /\ Flags'
    <2>a. View'
      BY <1>18 DEF ServePoll, Controls, Rendered
    <2>b. Reqs'
      BY <1>18 DEF ServePoll
    <2>c. Srv'
      BY <1>18 DEF ServePoll, States
    <2>1. View' /\ Reqs' /\ Srv'
      BY <2>a, <2>b, <2>c
    <2>2. Kinds'
      BY <1>18 DEF ServePoll, Rendered
    <2>3. Flags'
      BY <1>18 DEF ServePoll
    <2>4. QED
      BY <2>1, <2>2, <2>3
  <1>19. CASE Return
    <2>a. View'
      BY <1>19 DEF Return, Controls, Rendered
    <2>b. Reqs'
      BY <1>19 DEF Return
    <2>c. Srv'
      BY <1>19 DEF Return, States
    <2>1. View' /\ Reqs' /\ Srv'
      BY <2>a, <2>b, <2>c
    <2>2. Kinds'
      BY <1>19 DEF Return, Rendered
    <2>3. Flags'
      BY <1>19 DEF Return
    <2>4. QED
      BY <2>1, <2>2, <2>3
  <1>20. QED
    BY <1>1, <1>2, <1>3, <1>4, <1>5, <1>6, <1>7, <1>8, <1>9, <1>10, <1>11, <1>12, <1>13, <1>14,
       <1>15, <1>16, <1>17, <1>18, <1>19 DEF UpdateUser, Page, Serve

\* what the application holds fits its state
LEMMA SoundAction ==
    ASSUME UpdateTypeOK, ServerIsSound, Page \/ UpdateUser \/ Serve \/ Return
    PROVE  ServerIsSound'
  <1> USE DEF UpdateTypeOK, ServerIsSound, Rendered, States, pageVars, requests, serverVars
  <1>1. CASE StatusAnswered
    BY <1>1 DEF StatusAnswered, RenderReady, Show
  <1>2. CASE FirstCheck
    BY <1>2 DEF FirstCheck, SendCheck, MayCheck, Show
  <1>3. CASE PostAnswered
    BY <1>3 DEF PostAnswered, Show
  <1>4. CASE PollFires
    BY <1>4 DEF PollFires
  <1>5. CASE ApplyAnswered
    BY <1>5 DEF ApplyAnswered, ApplyFails, Show
  <1>6. CASE Ping
    BY <1>6 DEF Ping, ApplyFails, Show
  <1>7. ASSUME NEW c \in Checks, CheckAnswered(c) PROVE ServerIsSound'
    BY <1>7 DEF CheckAnswered, Show, Available
  <1>8. ASSUME NEW p \in Polls, PollAnswered(p) PROVE ServerIsSound'
    BY <1>8 DEF PollAnswered, FailedPoll, Watched, RenderReady, RenderError, RenderOther, Show
  <1>9. CASE ManualCheck /\ UNCHANGED serverVars
    BY <1>9 DEF ManualCheck, SendCheck, MayCheck, Show
  <1>10. CASE ShowAvailable /\ UNCHANGED serverVars
    BY <1>10 DEF ShowAvailable, Available
  <1>11. CASE ClickDownload /\ UNCHANGED serverVars
    BY <1>11 DEF ClickDownload, Show
  <1>12. CASE ClickRestart /\ UNCHANGED serverVars
    BY <1>12 DEF ClickRestart, Show
  <1>13. CASE ServeStatus
    BY <1>13 DEF ServeStatus
  <1>14. CASE ServePost
    BY <1>14 DEF ServePost
  <1>15. CASE ServeApply
    BY <1>15 DEF ServeApply
  <1>16. CASE Job
    BY <1>16 DEF Job
  <1>17. ASSUME NEW c \in Checks, ServeCheck(c) \/ EndCheck(c) PROVE ServerIsSound'
    BY <1>17 DEF ServeCheck, EndCheck
  <1>18. ASSUME NEW p \in Polls, ServePoll(p) PROVE ServerIsSound'
    BY <1>18 DEF ServePoll
  <1>19. CASE Return
    BY <1>19 DEF Return
  <1>20. QED
    BY <1>1, <1>2, <1>3, <1>4, <1>5, <1>6, <1>7, <1>8, <1>9, <1>10, <1>11, <1>12, <1>13, <1>14,
       <1>15, <1>16, <1>17, <1>18, <1>19 DEF UpdateUser, Page, Serve

\* a page whose first request is not answered stays fresh
LEMMA FreshAction ==
    ASSUME UpdateTypeOK, ServerIsSound, Calm, ~Overlap', Page \/ UpdateUser \/ Serve \/ Return
    PROVE  (online /\ (status \notin {"none", "over"} => FreshPage))'
  <1> USE DEF  Calm, InDownload, OneRequest, RequestIsShown, FreshPage, Overlap, Rendered,
          UpdateTypeOK, pageVars, requests, serverVars
  <1>1. CASE StatusAnswered
    BY <1>1 DEF StatusAnswered, RenderReady, Show
  <1>2. CASE FirstCheck
    BY <1>2 DEF FirstCheck, SendCheck, MayCheck, Show
  <1>3. CASE PostAnswered
    BY <1>3 DEF PostAnswered, Show
  <1>4. CASE PollFires
    BY <1>4 DEF PollFires
  <1>5. CASE ApplyAnswered
    BY <1>5 DEF ApplyAnswered, ApplyFails, Show
  <1>6. CASE Ping
    BY <1>6 DEF Ping, ApplyFails, Show
  <1>7. ASSUME NEW c \in Checks, CheckAnswered(c)
        PROVE  (online /\ (status \notin {"none", "over"} => FreshPage))'
    BY <1>7 DEF CheckAnswered, Show, Available
  <1>8. ASSUME NEW p \in Polls, PollAnswered(p)
        PROVE  (online /\ (status \notin {"none", "over"} => FreshPage))'
    BY <1>8 DEF PollAnswered, FailedPoll, Watched, RenderReady, RenderError, RenderOther, Show
  <1>9. CASE ManualCheck /\ UNCHANGED serverVars
    BY <1>9 DEF ManualCheck, SendCheck, MayCheck, Show
  <1>10. CASE ShowAvailable /\ UNCHANGED serverVars
    BY <1>10 DEF ShowAvailable, Available
  <1>11. CASE ClickDownload /\ UNCHANGED serverVars
    BY <1>11 DEF ClickDownload, Show
  <1>12. CASE ClickRestart /\ UNCHANGED serverVars
    BY <1>12 DEF ClickRestart, Show
  <1>13. CASE ServeStatus
    BY <1>13 DEF ServeStatus
  <1>14. CASE ServePost
    BY <1>14 DEF ServePost
  <1>15. CASE ServeApply
    BY <1>15 DEF ServeApply
  <1>16. CASE Job
    BY <1>16 DEF Job
  <1>17. ASSUME NEW c \in Checks, ServeCheck(c) \/ EndCheck(c)
         PROVE  (online /\ (status \notin {"none", "over"} => FreshPage))'
    BY <1>17 DEF ServeCheck, EndCheck
  <1>18. ASSUME NEW p \in Polls, ServePoll(p)
         PROVE  (online /\ (status \notin {"none", "over"} => FreshPage))'
    BY <1>18 DEF ServePoll
  <1>19. CASE Return
    BY <1>19 DEF Return
  <1>20. QED
    BY <1>1, <1>2, <1>3, <1>4, <1>5, <1>6, <1>7, <1>8, <1>9, <1>10, <1>11, <1>12, <1>13, <1>14,
       <1>15, <1>16, <1>17, <1>18, <1>19 DEF UpdateUser, Page, Serve

\* at most one request of each kind is under way
LEMMA OneRequestAction ==
    ASSUME UpdateTypeOK, ServerIsSound, Calm, ~Overlap', Page \/ UpdateUser \/ Serve \/ Return
    PROVE  OneRequest'
  <1> USE DEF Calm, InDownload, OneRequest, RequestIsShown, FreshPage, Overlap, Downloading,
          Rendered, UpdateTypeOK, WaysOn, pageVars, requests, serverVars
  <1>1. CASE StatusAnswered
    BY <1>1 DEF StatusAnswered, RenderReady, Show
  <1>2. CASE FirstCheck
    BY <1>2 DEF FirstCheck, SendCheck, MayCheck, Show
  <1>3. CASE PostAnswered
    BY <1>3 DEF PostAnswered, Show
  <1>4. CASE PollFires
    BY <1>4 DEF PollFires
  <1>5. CASE ApplyAnswered
    BY <1>5 DEF ApplyAnswered, ApplyFails, Show
  <1>6. CASE Ping
    BY <1>6 DEF Ping, ApplyFails, Show
  <1>7. ASSUME NEW c \in Checks, CheckAnswered(c) PROVE OneRequest'
    BY <1>7 DEF CheckAnswered, Show, Available
  <1>8. ASSUME NEW p \in Polls, PollAnswered(p) PROVE OneRequest'
    BY <1>8 DEF PollAnswered, FailedPoll, Watched, RenderReady, RenderError, RenderOther, Show
  <1>9. CASE ManualCheck /\ UNCHANGED serverVars
    BY <1>9 DEF ManualCheck, SendCheck, MayCheck, Show
  <1>10. CASE ShowAvailable /\ UNCHANGED serverVars
    BY <1>10 DEF ShowAvailable, Available
  <1>11. CASE ClickDownload /\ UNCHANGED serverVars
    BY <1>11 DEF ClickDownload, Show
  <1>12. CASE ClickRestart /\ UNCHANGED serverVars
    BY <1>12 DEF ClickRestart, Show
  <1>13. CASE ServeStatus
    BY <1>13 DEF ServeStatus
  <1>14. CASE ServePost
    BY <1>14 DEF ServePost
  <1>15. CASE ServeApply
    BY <1>15 DEF ServeApply
  <1>16. CASE Job
    BY <1>16 DEF Job
  <1>17. ASSUME NEW c \in Checks, ServeCheck(c) \/ EndCheck(c) PROVE OneRequest'
    BY <1>17 DEF ServeCheck, EndCheck
  <1>18. ASSUME NEW p \in Polls, ServePoll(p) PROVE OneRequest'
    BY <1>18 DEF ServePoll
  <1>19. CASE Return
    BY <1>19 DEF Return
  <1>20. QED
    BY <1>1, <1>2, <1>3, <1>4, <1>5, <1>6, <1>7, <1>8, <1>9, <1>10, <1>11, <1>12, <1>13, <1>14,
       <1>15, <1>16, <1>17, <1>18, <1>19 DEF UpdateUser, Page, Serve

\* the state on the page is that of the requests under way
LEMMA ShownAction ==
    ASSUME UpdateTypeOK, ServerIsSound, Calm, ~Overlap', Page \/ UpdateUser \/ Serve \/ Return
    PROVE  RequestIsShown'
  <1> USE DEF Calm, InDownload, OneRequest, RequestIsShown, FreshPage, Overlap, Downloading,
          Rendered, UpdateTypeOK, WaysOn, ServerAnswers, MayCheck, pageVars, requests, serverVars
  <1>1. CASE StatusAnswered
    BY <1>1 DEF StatusAnswered, RenderReady, Show
  <1>2. CASE FirstCheck
    BY <1>2 DEF FirstCheck, SendCheck, MayCheck, Show
  <1>3. CASE PostAnswered
    BY <1>3 DEF PostAnswered, Show
  <1>4. CASE PollFires
    BY <1>4 DEF PollFires
  <1>5. CASE ApplyAnswered
    BY <1>5 DEF ApplyAnswered, ApplyFails, Show
  <1>6. CASE Ping
    BY <1>6 DEF Ping, ApplyFails, Show
  <1>7. ASSUME NEW c \in Checks, CheckAnswered(c) PROVE RequestIsShown'
    BY <1>7 DEF CheckAnswered, Show, Available
  <1>8. ASSUME NEW p \in Polls, PollAnswered(p) PROVE RequestIsShown'
    BY <1>8 DEF PollAnswered, FailedPoll, Watched, RenderReady, RenderError, RenderOther, Show
  <1>9. CASE ManualCheck /\ UNCHANGED serverVars
    BY <1>9 DEF ManualCheck, SendCheck, MayCheck, Show
  <1>10. CASE ShowAvailable /\ UNCHANGED serverVars
    BY <1>10 DEF ShowAvailable, Available
  <1>11. CASE ClickDownload /\ UNCHANGED serverVars
    BY <1>11 DEF ClickDownload, Show
  <1>12. CASE ClickRestart /\ UNCHANGED serverVars
    BY <1>12 DEF ClickRestart, Show
  <1>13. CASE ServeStatus
    BY <1>13 DEF ServeStatus
  <1>14. CASE ServePost
    BY <1>14 DEF ServePost
  <1>15. CASE ServeApply
    BY <1>15 DEF ServeApply
  <1>16. CASE Job
    BY <1>16 DEF Job
  <1>17. ASSUME NEW c \in Checks, ServeCheck(c) \/ EndCheck(c) PROVE RequestIsShown'
    BY <1>17 DEF ServeCheck, EndCheck
  <1>18. ASSUME NEW p \in Polls, ServePoll(p) PROVE RequestIsShown'
    BY <1>18 DEF ServePoll
  <1>19. CASE Return
    BY <1>19 DEF Return
  <1>20. QED
    BY <1>1, <1>2, <1>3, <1>4, <1>5, <1>6, <1>7, <1>8, <1>9, <1>10, <1>11, <1>12, <1>13, <1>14,
       <1>15, <1>16, <1>17, <1>18, <1>19 DEF UpdateUser, Page, Serve

\* the answers under way fit the state of the application
LEMMA AnswersAction ==
    ASSUME UpdateTypeOK, ServerIsSound, Calm, ~Overlap', Page \/ UpdateUser \/ Serve \/ Return
    PROVE  ServerAnswers'
  <1> USE DEF Calm, InDownload, OneRequest, RequestIsShown, FreshPage, Overlap, Downloading,
          Rendered, UpdateTypeOK, WaysOn, ServerAnswers, ServerIsSound, pageVars, requests,
          serverVars
  <1>1. CASE StatusAnswered
    BY <1>1 DEF StatusAnswered, RenderReady, Show
  <1>2. CASE FirstCheck
    BY <1>2 DEF FirstCheck, SendCheck, MayCheck, Show
  <1>3. CASE PostAnswered
    BY <1>3 DEF PostAnswered, Show
  <1>4. CASE PollFires
    BY <1>4 DEF PollFires
  <1>5. CASE ApplyAnswered
    BY <1>5 DEF ApplyAnswered, ApplyFails, Show
  <1>6. CASE Ping
    BY <1>6 DEF Ping, ApplyFails, Show
  <1>7. ASSUME NEW c \in Checks, CheckAnswered(c) PROVE ServerAnswers'
    BY <1>7 DEF CheckAnswered, Show, Available
  <1>8. ASSUME NEW p \in Polls, PollAnswered(p) PROVE ServerAnswers'
    BY <1>8 DEF PollAnswered, FailedPoll, Watched, RenderReady, RenderError, RenderOther, Show
  <1>9. CASE ManualCheck /\ UNCHANGED serverVars
    BY <1>9 DEF ManualCheck, SendCheck, MayCheck, Show
  <1>10. CASE ShowAvailable /\ UNCHANGED serverVars
    BY <1>10 DEF ShowAvailable, Available
  <1>11. CASE ClickDownload /\ UNCHANGED serverVars
    BY <1>11 DEF ClickDownload, Show
  <1>12. CASE ClickRestart /\ UNCHANGED serverVars
    BY <1>12 DEF ClickRestart, Show
  <1>13. CASE ServeStatus
    BY <1>13 DEF ServeStatus
  <1>14. CASE ServePost
    BY <1>14 DEF ServePost
  <1>15. CASE ServeApply
    BY <1>15 DEF ServeApply
  <1>16. CASE Job
    BY <1>16 DEF Job
  <1>17. ASSUME NEW c \in Checks, ServeCheck(c) \/ EndCheck(c) PROVE ServerAnswers'
    BY <1>17 DEF ServeCheck, EndCheck
  <1>18. ASSUME NEW p \in Polls, ServePoll(p) PROVE ServerAnswers'
    BY <1>18 DEF ServePoll
  <1>19. CASE Return
    BY <1>19 DEF Return
  <1>20. QED
    BY <1>1, <1>2, <1>3, <1>4, <1>5, <1>6, <1>7, <1>8, <1>9, <1>10, <1>11, <1>12, <1>13, <1>14,
       <1>15, <1>16, <1>17, <1>18, <1>19 DEF UpdateUser, Page, Serve

\* the controls leave a way on
LEMMA WaysAction ==
    ASSUME UpdateTypeOK, ServerIsSound, Calm, ~Overlap', Page \/ UpdateUser \/ Serve \/ Return
    PROVE  WaysOn'
  <1> USE DEF Calm, InDownload, OneRequest, RequestIsShown, FreshPage, Overlap, Downloading,
          Rendered, UpdateTypeOK, WaysOn, ServerAnswers, Controls, pageVars, requests, serverVars
  <1>1. CASE StatusAnswered
    BY <1>1 DEF StatusAnswered, RenderReady, Show
  <1>2. CASE FirstCheck
    BY <1>2 DEF FirstCheck, SendCheck, MayCheck, Show
  <1>3. CASE PostAnswered
    BY <1>3 DEF PostAnswered, Show
  <1>4. CASE PollFires
    BY <1>4 DEF PollFires
  <1>5. CASE ApplyAnswered
    BY <1>5 DEF ApplyAnswered, ApplyFails, Show
  <1>6. CASE Ping
    BY <1>6 DEF Ping, ApplyFails, Show
  <1>7. ASSUME NEW c \in Checks, CheckAnswered(c) PROVE WaysOn'
    BY <1>7 DEF CheckAnswered, Show, Available
  <1>8. ASSUME NEW p \in Polls, PollAnswered(p) PROVE WaysOn'
    BY <1>8 DEF PollAnswered, FailedPoll, Watched, RenderReady, RenderError, RenderOther, Show
  <1>9. CASE ManualCheck /\ UNCHANGED serverVars
    BY <1>9 DEF ManualCheck, SendCheck, MayCheck, Show
  <1>10. CASE ShowAvailable /\ UNCHANGED serverVars
    BY <1>10 DEF ShowAvailable, Available
  <1>11. CASE ClickDownload /\ UNCHANGED serverVars
    BY <1>11 DEF ClickDownload, Show
  <1>12. CASE ClickRestart /\ UNCHANGED serverVars
    BY <1>12 DEF ClickRestart, Show
  <1>13. CASE ServeStatus
    BY <1>13 DEF ServeStatus
  <1>14. CASE ServePost
    BY <1>14 DEF ServePost
  <1>15. CASE ServeApply
    BY <1>15 DEF ServeApply
  <1>16. CASE Job
    BY <1>16 DEF Job
  <1>17. ASSUME NEW c \in Checks, ServeCheck(c) \/ EndCheck(c) PROVE WaysOn'
    BY <1>17 DEF ServeCheck, EndCheck
  <1>18. ASSUME NEW p \in Polls, ServePoll(p) PROVE WaysOn'
    BY <1>18 DEF ServePoll
  <1>19. CASE Return
    BY <1>19 DEF Return
  <1>20. QED
    BY <1>1, <1>2, <1>3, <1>4, <1>5, <1>6, <1>7, <1>8, <1>9, <1>10, <1>11, <1>12, <1>13, <1>14,
       <1>15, <1>16, <1>17, <1>18, <1>19 DEF UpdateUser, Page, Serve

\* a page that is loaded is calm, unless a check already overlaps a download
LEMMA ReloadIsCalm ==
    ASSUME UpdateTypeOK, ServerIsSound, online, Reload
    PROVE  ServerIsSound' /\ (~Overlap' => Calm')
  <1> USE DEF Reload, Loaded, serverVars
  <1>1. ServerIsSound'
    BY DEF ServerIsSound
  <1>2. FreshPage'
    BY DEF FreshPage
  <1>3. online' /\ OneRequest' /\ RequestIsShown'
    BY DEF OneRequest, RequestIsShown, InDownload
  <1>4. ServerAnswers' /\ WaysOn'
    BY DEF ServerAnswers, WaysOn, InDownload, Rendered
  <1>5. QED
    BY <1>1, <1>2, <1>3, <1>4 DEF Calm

\* UpdateInv is an invariant of the page.
LEMMA UpdateInvariant == UpdateSpec => []UpdateInv
  <1>1. UpdateInit => UpdateInv
    <2> SUFFICES ASSUME UpdateInit PROVE UpdateInv
      OBVIOUS
    <2> USE DEF UpdateInit
    <2>1. UpdateTypeOK /\ ServerIsSound
      BY DEF UpdateTypeOK, ServerIsSound, Controls, States
    <2>2. online /\ ~Overlap /\ FreshPage
      BY DEF Overlap, Downloading, FreshPage
    <2>3. OneRequest /\ RequestIsShown /\ ServerAnswers /\ WaysOn
      BY DEF OneRequest, RequestIsShown, ServerAnswers, WaysOn, InDownload
    <2>4. QED
      BY <2>1, <2>2, <2>3 DEF UpdateInv, Calm
  <1>2. UpdateInv /\ [UpdateNext]_updateVars => UpdateInv'
    <2> SUFFICES ASSUME UpdateInv, [UpdateNext]_updateVars PROVE UpdateInv'
      OBVIOUS
    <2>1. CASE (Page \/ UpdateUser \/ Serve \/ Return) /\ disturbed' = (disturbed \/ Overlap')
      <3>1. disturbed' \in BOOLEAN /\ (~disturbed' => ~disturbed /\ ~Overlap')
        BY <2>1
      <3>2. UpdateTypeOK' /\ ServerIsSound'
        BY <2>1, <3>1, UpdateTypesAction, SoundAction DEF UpdateInv
      <3>3. ASSUME ~disturbed' PROVE Calm'
        <4>1. Calm /\ UpdateTypeOK /\ ServerIsSound /\ ~Overlap'
          BY <3>1, <3>3 DEF UpdateInv
        <4>2. OneRequest' /\ RequestIsShown' /\ ServerAnswers' /\ WaysOn'
          BY <2>1, <4>1, OneRequestAction, ShownAction, AnswersAction, WaysAction
        <4>3. online' /\ (status \notin {"none", "over"} => FreshPage)'
          BY <2>1, <4>1, FreshAction
        <4>4. QED
          BY <4>1, <4>2, <4>3 DEF Calm
      <3>4. QED
        BY <3>2, <3>3 DEF UpdateInv
    <2>2. CASE Reload /\ disturbed' = Overlap'
      <3>1. online
        BY <2>2 DEF Reload, Restarted
      <3>2. ServerIsSound' /\ (~disturbed' => Calm')
        BY <2>2, <3>1, ReloadIsCalm DEF UpdateInv
      <3>3. UpdateTypeOK'
        <4>1. disturbed' \in BOOLEAN
          BY <2>2 DEF Overlap
        <4>2. QED
          BY <2>2, <4>1 DEF UpdateInv, UpdateTypeOK, Reload, Loaded, serverVars, Controls
      <3>4. QED
        BY <3>2, <3>3 DEF UpdateInv
    <2>3. CASE Leave /\ disturbed' = TRUE
      <3>1. ServerIsSound'
        BY <2>3 DEF Leave, ServerIsSound
      <3>2. /\ check' \in [Checks -> {"none", "sent", "fetching", "update", "uptodate", "failed"}]
            /\ apply' \in {"none", "sent", "started", "done", "failed"}
            /\ waiting' # "no" => apply' = "none"
        BY <2>3 DEF Leave, UpdateInv, UpdateTypeOK
      <3>3. /\ server' \in States /\ job' \in {"none", "running", "verifying"}
            /\ disturbed' = TRUE /\ offered' = FALSE /\ prepared' = FALSE /\ online' = FALSE
            /\ UNCHANGED <<pageVars, status, poll, post, waiting, updated>>
        BY <2>3 DEF Leave, States
      <3>4. UpdateTypeOK'
        <4>1. UpdateTypeOK /\ UNCHANGED <<ui, info, shown, polling>>
          BY <3>3 DEF pageVars, UpdateInv
        <4>2. offered' \in BOOLEAN /\ prepared' \in BOOLEAN /\ online' \in BOOLEAN
          BY <3>3
        <4>3. info' \in BOOLEAN /\ polling' \in BOOLEAN /\ updated' \in BOOLEAN
          BY <3>3, <4>1 DEF UpdateTypeOK
        <4>4. QED
          BY <3>2, <3>3, <4>1, <4>2, <4>3, Zenon DEF UpdateTypeOK
      <3>5. QED
        BY <3>1, <3>3, <3>4 DEF UpdateInv
    <2>4. CASE UNCHANGED updateVars
      BY <2>4 DEF updateVars, system, pageVars, requests, serverVars, UpdateInv, UpdateTypeOK,
         ServerIsSound, Calm, Overlap, Downloading, FreshPage, OneRequest, RequestIsShown,
         ServerAnswers, WaysOn, InDownload
    <2>5. QED
      BY <2>1, <2>2, <2>3, <2>4 DEF UpdateNext
  <1>3. QED
    BY <1>1, <1>2, PTL DEF UpdateSpec

\* For any number of requests in flight: a page that shows a download watches it,
\* what it offers to restart into is verified, and it never comes to a stand-still
\* without a control that leads on, until the application is replaced under it or
\* a check overlaps a download (updater.js:79-213).
THEOREM CardFollowsTheUpdate == UpdateSpec => []CardMatchesUpdate
  <1>1. UpdateInv => DownloadIsWatched
    BY DEF UpdateInv, Calm, RequestIsShown, InDownload, DownloadIsWatched
  <1>2. UpdateInv => RestartIsPrepared
    BY DEF UpdateInv, Calm, ServerAnswers, RestartIsPrepared
  <1>3. UpdateInv => UpdateUsable
    BY DEF UpdateInv, Calm, UpdateTypeOK, RequestIsShown, WaysOn, InDownload, Quiet, UpdateUsable
  <1>4. UpdateInv => CardMatchesUpdate
    BY <1>1, <1>2, <1>3 DEF UpdateInv, CardMatchesUpdate
  <1>5. QED
    BY UpdateInvariant, <1>4, PTL
====
