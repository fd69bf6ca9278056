----------------------------- MODULE Lifecycle -----------------------------
(***************************************************************************)
(* The life of one application process (cmd/codedocs/main.go, run;         *)
(* window_windows.go, window_other.go; requestShutdown and the two delayed *)
(* goroutines of internal/api): the main goroutine, the goroutine that     *)
(* serves HTTP, the window and its terminator, the requests being served   *)
(* and everything that ends the process through the one shared context.    *)
(*                                                                         *)
(* net/http's Shutdown and Close, the signals and the window library are   *)
(* external: Shutdown returns when no request is active or its context     *)
(* ends, Close cancels the requests and waits for none of them.            *)
(***************************************************************************)
CONSTANTS
    Requests,   \* long requests, such as a generation
    Stoppers,   \* requests that end the process: apply-update or shutdown
    NoCause

ASSUME NoCauseAssumption ==
    NoCause \notin {"ok", "error", "killed", "closed", "signal", "window", "request", "serve",
                    "startup"}

VARIABLES
    platform,   \* "window" (Windows), "browser" (elsewhere) or "headless" (no UI)
    main,       \* program point of run
    exitCode,   \* "ok" (0), "error" (1), "killed" (by a signal), or NoCause
    ctx,        \* the shared context is cancelled
    notify,     \* signals are delivered to the context
    serve,      \* the serving goroutine
    serveErr,   \* its channel: NoCause, "closed" or "error"
    draining,   \* httpServer.Shutdown was called
    timer,      \* the timeout of Shutdown: "off", "running" or "fired"
    windowErr,
    window,     \* "none", "open", "quit" (a quit message is queued) or "destroyed"
    terminator, \* the goroutine that ends the window: "none", "waiting", "called" or "done"
    windowDone,
    request,    \* "none", "active", "ended" or "cut" (it was active when the process ended)
    gone,       \* the requests whose context is cancelled
    stopper,    \* "none", "sleeping" or "done"
    asked,      \* history: something asked the process to stop
    cause       \* history: what cancelled the shared context first

serveVars == <<serve, serveErr>>
drainVars == <<draining, timer>>
windowVars == <<window, terminator, windowDone>>
requestVars == <<request, gone>>
contextVars == <<ctx, notify, cause>>
lifecycleVars == <<platform, main, exitCode, windowErr, stopper, asked,
          serveVars, drainVars, windowVars, requestVars, contextVars>>

MainPoints == {"listen", "open", "ready", "run", "await", "cancel", "shutdown", "drain",
               "status", "exited"}
Causes == {"signal", "window", "request", "serve", "startup"}

LifecycleTypeOK ==
    /\ platform \in {"window", "browser", "headless"}
    /\ main \in MainPoints /\ exitCode \in {"ok", "error", "killed", NoCause}
    /\ main = "exited" <=> exitCode # NoCause
    /\ ctx \in BOOLEAN /\ notify \in BOOLEAN /\ windowErr \in BOOLEAN /\ asked \in BOOLEAN
    /\ serve \in {"none", "serving", "failed", "reported", "closed", "done"}
    /\ serveErr \in {NoCause, "closed", "error"}
    /\ draining \in BOOLEAN /\ timer \in {"off", "running", "fired"}
    /\ timer = "running" => main \in {"drain", "exited"}
    /\ window \in {"none", "open", "quit", "destroyed"}
    /\ terminator \in {"none", "waiting", "called", "done"} /\ windowDone \in BOOLEAN
    /\ request \in [Requests -> {"none", "active", "ended", "cut"}] /\ gone \subseteq Requests
    /\ stopper \in [Stoppers -> {"none", "sleeping", "done"}]
    /\ cause \in Causes \cup {NoCause}
    /\ ctx <=> cause # NoCause

LifecycleInit ==
    /\ platform \in {"window", "browser", "headless"}
    /\ main = "listen" /\ exitCode = NoCause
    /\ ctx = FALSE /\ notify = TRUE /\ cause = NoCause /\ asked = FALSE
    /\ serve = "none" /\ serveErr = NoCause
    /\ draining = FALSE /\ timer = "off"
    /\ windowErr = FALSE /\ window = "none" /\ terminator = "none" /\ windowDone = FALSE
    /\ request = [r \in Requests |-> "none"] /\ gone = {}
    /\ stopper = [s \in Stoppers |-> "none"]

Alive == main # "exited"
Active(r) == request[r] = "active"

\* the shared context ends; the CancelFunc of NotifyContext also stops the
\* delivery of signals, a signal only cancels
Cancelled(by) ==
    /\ ctx' = TRUE
    /\ cause' = IF ctx THEN cause ELSE by
CancelApp(by) == Cancelled(by) /\ notify' = FALSE

Exit(code) ==
    /\ main' = "exited" /\ exitCode' = code
    /\ request' = [r \in Requests |-> IF Active(r) THEN "cut" ELSE request[r]]

-------------------------------------------------------------------------------
(* The serving goroutine, and requests *)

\* an error of Accept that Serve does not survive
ServeFails ==
    /\ serve = "serving" /\ ~draining
    /\ serve' = "failed" /\ asked' = TRUE
    /\ UNCHANGED <<serveErr, contextVars>>

ServeReturns ==
    /\ serve = "serving" /\ draining
    /\ serve' = "closed" /\ UNCHANGED <<serveErr, contextVars, asked>>

ReportLate ==  \* Fault: the context is cancelled before the error is sent
    \/ /\ serve = "failed" /\ serve' = "reported" /\ CancelApp("serve")
       /\ UNCHANGED <<serveErr, asked>>
    \/ /\ serve = "reported" /\ serve' = "done" /\ serveErr' = "error"
       /\ UNCHANGED <<contextVars, asked>>
    \/ /\ serve = "closed" /\ serve' = "done" /\ serveErr' = "closed"
       /\ UNCHANGED <<contextVars, asked>>

\* the send into the channel of capacity one, then the cancellation
Report ==
    \/ /\ serve = "failed" /\ serve' = "reported" /\ serveErr' = "error"
       /\ UNCHANGED <<contextVars, asked>>
    \/ /\ serve = "reported" /\ serve' = "done" /\ CancelApp("serve")
       /\ UNCHANGED <<serveErr, asked>>
    \/ /\ serve = "closed" /\ serve' = "done" /\ serveErr' = "closed"
       /\ UNCHANGED <<contextVars, asked>>

ServeGoroutine(step) ==
    /\ Alive /\ step
    /\ UNCHANGED <<platform, main, exitCode, windowErr, stopper, drainVars, windowVars,
                   requestVars>>
ServeEnds == ServeGoroutine(ServeReturns \/ Report)

Begin(r) ==
    /\ request[r] = "none" /\ serve = "serving" /\ ~draining
    /\ request' = [request EXCEPT ![r] = "active"] /\ UNCHANGED gone

\* the client leaves
ClientLeaves(r) == Active(r) /\ gone' = gone \cup {r} /\ UNCHANGED request

\* the handler returns, at its end or on its cancelled context
ClientReturns(r) == Active(r) /\ request' = [request EXCEPT ![r] = "ended"] /\ UNCHANGED gone

Request(r) ==
    /\ Alive
    /\ Begin(r) \/ ClientLeaves(r) \/ ClientReturns(r)
    /\ UNCHANGED <<platform, main, exitCode, windowErr, stopper, asked, serveVars, drainVars,
                   windowVars, contextVars>>

\* handleShutdown, and handleApplyUpdate once the helper runs: the answer, and a
\* goroutine that asks for the shutdown after a delay
Accept(s) ==
    /\ stopper[s] = "none" /\ serve = "serving" /\ ~draining
    /\ stopper' = [stopper EXCEPT ![s] = "sleeping"] /\ asked' = TRUE
    /\ UNCHANGED contextVars

OnceUsed == \E s \in Stoppers : stopper[s] = "done"

\* requestShutdown, at most once
RequestShutdown(s) ==
    /\ stopper[s] = "sleeping"
    /\ stopper' = [stopper EXCEPT ![s] = "done"]
    /\ IF OnceUsed THEN UNCHANGED contextVars ELSE CancelApp("request")
    /\ UNCHANGED asked

Stop(step) ==
    /\ Alive /\ step
    /\ UNCHANGED <<platform, main, exitCode, windowErr, serveVars, drainVars, windowVars,
                   requestVars>>

-------------------------------------------------------------------------------
(* Signals, and the window *)

\* An interrupt: it cancels the context, or, when the delivery was stopped, ends
\* the process on the spot.
Signal ==
    /\ Alive
    /\ \/ /\ notify /\ Cancelled("signal") /\ asked' = TRUE
          /\ UNCHANGED <<notify, main, exitCode, requestVars>>
       \/ ~notify /\ Exit("killed") /\ UNCHANGED <<gone, asked, contextVars>>
    /\ UNCHANGED <<platform, windowErr, stopper, serveVars, drainVars, windowVars>>

\* the user closes the window
CloseWindow ==
    /\ Alive /\ window = "open" /\ main = "run"
    /\ window' = "quit" /\ asked' = TRUE
    /\ UNCHANGED <<platform, main, exitCode, windowErr, stopper, serveVars, drainVars, terminator,
                   windowDone, requestVars, contextVars>>

\* the terminator waits for the context or for the end of the window; its select
\* chooses when both are there
Terminate ==
    /\ Alive /\ terminator = "waiting"
    /\ \/ ctx /\ terminator' = "called" /\ window' = (IF window = "open" THEN "quit" ELSE window)
       \/ windowDone /\ terminator' = "done" /\ UNCHANGED window
    /\ UNCHANGED <<platform, main, exitCode, windowErr, stopper, asked, serveVars, drainVars,
                   windowDone, requestVars, contextVars>>

-------------------------------------------------------------------------------
(* run *)

Listen ==
    /\ main = "listen"
    /\ \/ /\ main' = "open" /\ serve' = "serving"
          /\ UNCHANGED <<exitCode, requestVars>>
       \/ /\ Exit("error") /\ UNCHANGED <<serve, gone>>
    /\ UNCHANGED <<windowErr, asked, serveErr, drainVars, windowVars, contextVars>>

\* openNativeWindow up to onReady: the window or the browser
OpenWindow ==
    /\ main = "open"
    /\ \/ /\ platform # "headless"  \* no WebView2 runtime, or no browser to start
          /\ main' = "cancel" /\ windowErr' = TRUE /\ asked' = TRUE
          /\ UNCHANGED window
       \/ /\ main' = "ready"
          /\ window' = (IF platform = "window" THEN "open" ELSE window)
          /\ UNCHANGED <<windowErr, asked>>
    /\ UNCHANGED <<exitCode, serveVars, drainVars, terminator, windowDone, requestVars,
                   contextVars>>

RunAlone ==  \* Fault: nothing ends the window when the context is cancelled
    /\ main' = "run" /\ UNCHANGED terminator
\* the terminator is started, and the message loop entered
RunWindow == main' = "run" /\ terminator' = "waiting"

\* MarkStartupHealthy; its failure ends the application
MarkHealthy ==
    /\ main = "ready"
    /\ \/ /\ windowErr' = TRUE /\ asked' = TRUE
          /\ window' = (IF platform = "window" THEN "destroyed" ELSE window)
          /\ IF platform = "headless"
             THEN main' = "await" /\ CancelApp("startup")
             ELSE main' = "cancel" /\ UNCHANGED contextVars
          /\ UNCHANGED terminator
       \/ /\ IF platform = "window" THEN RunWindow ELSE main' = "await" /\ UNCHANGED terminator
          /\ UNCHANGED <<windowErr, asked, window, contextVars>>
    /\ UNCHANGED <<exitCode, serveVars, drainVars, windowDone, requestVars>>

\* Run returns on a quit message; the terminator is told and the window destroyed
WindowEnds ==
    /\ main = "run" /\ window = "quit"
    /\ window' = "destroyed" /\ windowDone' = TRUE
    /\ main' = "cancel"
    /\ UNCHANGED <<exitCode, windowErr, asked, serveVars, drainVars, terminator, requestVars,
                   contextVars>>

Await ==
    /\ main = "await" /\ ctx
    /\ main' = (IF platform = "browser" THEN "cancel" ELSE "shutdown")
    /\ UNCHANGED <<exitCode, windowErr, asked, serveVars, drainVars, windowVars, requestVars,
                   contextVars>>

CancelAfterWindow ==
    /\ main = "cancel"
    /\ main' = "shutdown" /\ CancelApp(IF windowErr THEN "startup" ELSE "window")
    /\ UNCHANGED <<exitCode, windowErr, asked, serveVars, drainVars, windowVars, requestVars>>

BeginShutdown ==
    /\ main = "shutdown"
    /\ draining' = TRUE /\ timer' = "running" /\ main' = "drain"
    /\ UNCHANGED <<exitCode, windowErr, asked, serveVars, windowVars, requestVars, contextVars>>

\* Shutdown returns with every request ended, or after the timeout, which Close follows
Drain ==
    /\ main = "drain" /\ main' = "status"
    /\ \/ /\ \A r \in Requests : ~Active(r)
          /\ timer' = "off" /\ UNCHANGED gone
       \/ /\ timer' = "fired" /\ gone' = gone \cup {r \in Requests : Active(r)}
    /\ UNCHANGED <<exitCode, windowErr, asked, serveVars, draining, windowVars, request,
                   contextVars>>

\* the exit code, and the deferred calls
Status ==
    /\ main = "status"
    /\ Exit(IF serveErr = "error" \/ windowErr THEN "error" ELSE "ok")
    /\ serveErr' = NoCause  \* received, unless nothing is there yet
    /\ UNCHANGED <<windowErr, asked, serve, drainVars, windowVars, gone, contextVars>>

Main ==
    /\ Listen \/ OpenWindow \/ MarkHealthy \/ WindowEnds \/ Await \/ CancelAfterWindow
       \/ BeginShutdown \/ Drain \/ Status
    /\ UNCHANGED <<platform, stopper>>

Ended == ~Alive /\ UNCHANGED lifecycleVars

LifecycleNext ==
    \/ Main \/ ServeGoroutine(ServeFails) \/ ServeEnds \/ Terminate
    \/ Signal \/ CloseWindow \/ Ended
    \/ \E r \in Requests : Request(r)
    \/ \E s \in Stoppers : Stop(Accept(s)) \/ Stop(RequestShutdown(s))

\* Goroutines that can run do run, and timers fire.  No request need end, no
\* client leave, no user close the window and no signal arrive.
LifecycleFairness ==
    /\ WF_lifecycleVars(Main)
    /\ WF_lifecycleVars(ServeEnds) /\ WF_lifecycleVars(Terminate)
    /\ \A s \in Stoppers : WF_lifecycleVars(Stop(RequestShutdown(s)))

LifecycleSpec == LifecycleInit /\ [][LifecycleNext]_lifecycleVars /\ LifecycleFairness

-------------------------------------------------------------------------------
(* Properties *)

\* Whatever asks the application to stop, it exits, though a request may never
\* end: "Closing the window, receiving an OS signal, or applying an update cancels
\* the shared context", "The server drains with a bounded graceful-shutdown
\* timeout" (ARCHITECTURE.md:31-32).  After an update was accepted the helper
\* waits for that exit.  (A request to stop is never taken back.)
ExitsWhenAsked == <>[](asked => ~Alive)

\* A process that ends because its server failed says so, though the select on
\* the error does not wait for it (main.go:71-81, 111-117); so does one whose
\* window or handshake failed.
FailureIsReported ==
    ~Alive /\ exitCode # "killed" /\ (cause = "serve" \/ windowErr) => exitCode = "error"

\* A generation or another request is cut off by the exit only when it outlived
\* the timeout, whatever ended the process (main.go:104-109) - unless a signal
\* kills it while it drains.
CutOffOnlyAfterTimeout ==
    exitCode \in {"ok", "error"} /\ (\E r \in Requests : request[r] = "cut") => timer = "fired"

\* How the process ends is honest to its caller and to its clients.
ExitIsHonest == LifecycleTypeOK /\ FailureIsReported /\ CutOffOnlyAfterTimeout

\* "A successful native-window/server startup completes any update handshake."
\* (ARCHITECTURE.md:30): the update is confirmed by an application that serves.
\* Nothing looks at the server before the handshake.
HandshakeMeansServing == [][MarkHealthy /\ ~windowErr' => serve = "serving"]_lifecycleVars
===============================================================================
