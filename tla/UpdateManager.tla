---------------------------- MODULE UpdateManager ----------------------------
(***************************************************************************)
(* updater.Manager: the concurrent calls that look for a release, download *)
(* it and start its installation (internal/updater/check.go, download.go,  *)
(* apply.go), which share one progress state, one `.tmp' and one `.new'    *)
(* file next to the executable.                                            *)
(*                                                                         *)
(* beginCheck refuses to start during a download, but nothing refuses a    *)
(* download during a check, and the end of a check overwrites the progress *)
(* state whatever it is by then.  The history variable `disturbed' records *)
(* that this happened while a download or an installation was running; the *)
(* properties say what holds until then, and which ones hold regardless.   *)
(*                                                                         *)
(* A definition whose comment begins with "Fault:" is a seeded fault: no   *)
(* behaviour of Spec uses it, it shows which mistake a property rules out. *)
(***************************************************************************)
EXTENDS Naturals, FiniteSets

CONSTANTS
    Checks, Downloads, Applies,  \* calls and goroutines that may run at once
    Assets,        \* releases GitHub may answer with; each has its own digest
    SharedDelete,  \* an open file can be unlinked and renamed (POSIX)
    None

ASSUME CallsAssumption ==
    IsFiniteSet(Checks) /\ IsFiniteSet(Downloads) /\ IsFiniteSet(Applies)
ASSUME NoneAssumption == None \notin Assets \cup Downloads
ASSUME DeleteAssumption == SharedDelete \in BOOLEAN

\* an executable: which release, and whether its bytes are all there and right
Content == [asset : Assets \cup {None}, whole : BOOLEAN]
Missing == [asset |-> None, whole |-> FALSE]
Part(a) == [asset |-> a, whole |-> FALSE]
Whole(a) == [asset |-> a, whole |-> TRUE]

Names == {"tmp", "new", "helper"}

VARIABLES
    state,       \* progress.State
    compatible,  \* the releases whose URL the last check issued
    prepared,    \* the release of the prepared update, or None
    cancel,      \* the download whose context downloadCancel cancels, or None
    closed,
    check,       \* per check: "idle" or "fetching"
    dl,          \* per download: program point, release, digest of the stream
    cancelled,   \* running downloads whose context is cancelled
    ap,          \* per apply: program point and release
    content, opened,  \* the files, and the name a download's open file has now
    plan,        \* the release the update plan on disk names, or None
    helpers,     \* helpers started by this process: executable and plan
    disturbed    \* history: a check ended while a download or apply was running

progVars == <<state, compatible, prepared, cancel>>
fileVars == <<content, opened>>
applyVars == <<ap, plan, helpers>>
vars == <<progVars, closed, check, dl, cancelled, applyVars, fileVars, disturbed>>

States == {"idle", "checking", "downloading", "verifying", "ready", "applying", "error"}
DownloadState ==
    [pc : {"idle", "removeStale", "request", "create", "stream", "verify", "validate",
           "removeNew", "rename", "publish", "cleanup"},
     asset : Assets \cup {None}, match : BOOLEAN]
ApplyState == [pc : {"idle", "hash", "copy", "plan", "start", "finish"},
               asset : Assets \cup {None}]

TypeOK ==
    /\ state \in States /\ compatible \subseteq Assets
    /\ prepared \in Assets \cup {None} /\ cancel \in Downloads \cup {None}
    /\ closed \in BOOLEAN /\ disturbed \in BOOLEAN
    /\ check \in [Checks -> {"idle", "fetching"}]
    /\ dl \in [Downloads -> DownloadState] /\ cancelled \subseteq Downloads
    /\ ap \in [Applies -> ApplyState]
    /\ content \in [Names -> Content]
    /\ opened \in [Downloads -> Names \cup {"none", "orphan"}]
    /\ \A d \in Downloads : opened[d] # "none" => dl[d].pc \in {"stream", "cleanup"}
    /\ plan \in Assets \cup {None}
    /\ helpers \subseteq [exe : Content, plan : Assets \cup {None}]

IdleDownload == [pc |-> "idle", asset |-> None, match |-> FALSE]
IdleApply == [pc |-> "idle", asset |-> None]

Init ==
    /\ state = "idle" /\ compatible = {} /\ prepared = None /\ cancel = None
    /\ closed = FALSE /\ disturbed = FALSE
    /\ check = [c \in Checks |-> "idle"]
    /\ dl = [d \in Downloads |-> IdleDownload] /\ cancelled = {}
    /\ ap = [a \in Applies |-> IdleApply]
    /\ content = [n \in Names |-> Missing]
    /\ opened = [d \in Downloads |-> "none"]
    /\ plan = None /\ helpers = {}

Exists(n) == content[n] # Missing
Free(n, d) == SharedDelete \/ \A e \in Downloads \ {d} : opened[e] # n

-------------------------------------------------------------------------------
(* Check *)

Running == (\E d \in Downloads : dl[d].pc # "idle") \/ (\E a \in Applies : ap[a].pc # "idle")

\* beginCheck
BeginCheck(c) ==
    /\ check[c] = "idle" /\ ~closed
    /\ state \notin {"downloading", "verifying", "applying"}
    /\ state' = "checking"
    /\ check' = [check EXCEPT ![c] = "fetching"]
    /\ UNCHANGED <<compatible, prepared, cancel, closed, dl, cancelled, applyVars, fileVars,
                   disturbed>>

\* the answer of GitHub: an error or an unusable release (fail), or finishCheck
\* with no newer release or one; nothing looks at what the state is by now
EndCheck(c) ==
    /\ check[c] = "fetching"
    /\ check' = [check EXCEPT ![c] = "idle"]
    /\ \/ /\ state' = "error"
          /\ UNCHANGED <<compatible, prepared>>
       \/ /\ state' = "idle"
          /\ compatible' \in {{}} \cup {{a} : a \in Assets}
          /\ prepared' = None
    /\ disturbed' = (disturbed \/ Running)
    /\ UNCHANGED <<cancel, closed, dl, cancelled, applyVars, fileVars>>

-------------------------------------------------------------------------------
(* StartBackgroundDownload and the goroutine it starts *)

DownloadFrame == UNCHANGED <<closed, check, applyVars, disturbed>>
Advance(d, pc) == dl' = [dl EXCEPT ![d].pc = pc]

\* Fault: only a download in progress refuses another one, not its verification
MayDownloadWhileVerifying == state \notin {"downloading", "applying"}
MayDownload == state \notin {"downloading", "verifying", "applying"}

StartDownload(d, a) ==
    /\ dl[d].pc = "idle" /\ ~closed
    /\ MayDownload /\ a \in compatible
    /\ state' = "downloading" /\ prepared' = None /\ cancel' = d
    /\ UNCHANGED cancelled
    /\ dl' = [dl EXCEPT ![d] = [IdleDownload EXCEPT !.pc = "removeStale", !.asset = a]]
    /\ UNCHANGED <<compatible, fileVars>> /\ DownloadFrame

\* finishDownloadError: it drops whichever cancel function is there
FinishDownloadError(d, pc) ==
    /\ cancel' = None
    /\ state' = IF closed THEN state ELSE "error"
    /\ cancelled' = cancelled \ {d}
    /\ UNCHANGED <<compatible, prepared>>
    /\ dl' = [dl EXCEPT ![d] = [IdleDownload EXCEPT !.pc = pc]]

\* a file that loses its name stays open without one
Unlinked(n) == [d \in Downloads |-> IF opened[d] = n THEN "orphan" ELSE opened[d]]

\* the path of the executable must resolve; a stale .tmp is then removed
RemoveStale(d) ==
    /\ dl[d].pc = "removeStale"
    /\ \/ /\ IF Free("tmp", d)
               THEN content' = [content EXCEPT !["tmp"] = Missing] /\ opened' = Unlinked("tmp")
               ELSE UNCHANGED fileVars
          /\ Advance(d, "request") /\ UNCHANGED <<progVars, cancelled>>
       \/ FinishDownloadError(d, "idle") /\ UNCHANGED fileVars
    /\ DownloadFrame

\* downloadClient.Do; a cancelled context makes it fail
Request(d) ==
    /\ dl[d].pc = "request"
    /\ \/ d \notin cancelled /\ Advance(d, "create") /\ UNCHANGED <<progVars, cancelled>>
       \/ FinishDownloadError(d, "idle")
    /\ UNCHANGED fileVars /\ DownloadFrame

CreateTemp(d) ==
    /\ dl[d].pc = "create"
    /\ \/ /\ ~Exists("tmp")
          /\ content' = [content EXCEPT !["tmp"] = Part(dl[d].asset)]
          /\ opened' = [opened EXCEPT ![d] = "tmp"]
          /\ Advance(d, "stream") /\ UNCHANGED <<progVars, cancelled>>
       \/ FinishDownloadError(d, "idle") /\ UNCHANGED fileVars
    /\ DownloadFrame

\* the body is read to its end and written, flushed, synced and closed; or the
\* read, the write, the context or the size fails.  What was read may be other
\* bytes than the release's
Stream(d) ==
    /\ dl[d].pc = "stream"
    /\ \/ /\ \E match \in BOOLEAN :
               /\ dl' = [dl EXCEPT ![d].pc = "verify", ![d].match = match]
               /\ content' = IF opened[d] \in Names
                    THEN [content EXCEPT ![opened[d]] = [asset |-> dl[d].asset, whole |-> match]]
                    ELSE content
          /\ opened' = [opened EXCEPT ![d] = "none"]
          /\ UNCHANGED <<progVars, cancelled>>
       \/ FinishDownloadError(d, "cleanup") /\ UNCHANGED fileVars
    /\ DownloadFrame

\* setProgress(verifying), unconditional
ReportVerifying(d) ==
    /\ dl[d].pc = "verify"
    /\ state' = "verifying"
    /\ Advance(d, "validate")
    /\ UNCHANGED <<compatible, prepared, cancel, cancelled, fileVars>> /\ DownloadFrame

\* Fault: the digest of the stream is not compared
ValidUnchecked(d) == Exists("tmp")
\* the digest of what was streamed must be the release's, and the file that is
\* now called .tmp must have the header of an executable of this platform
Valid(d) == dl[d].match /\ Exists("tmp")

Validate(d) ==
    /\ dl[d].pc = "validate"
    /\ \/ Valid(d) /\ Advance(d, "removeNew") /\ UNCHANGED <<progVars, cancelled>>
       \/ FinishDownloadError(d, "cleanup")
    /\ UNCHANGED fileVars /\ DownloadFrame

RemoveNew(d) ==
    /\ dl[d].pc = "removeNew"
    /\ IF Free("new", d)
         THEN content' = [content EXCEPT !["new"] = Missing] /\ opened' = Unlinked("new")
         ELSE UNCHANGED fileVars
    /\ Advance(d, "rename")
    /\ UNCHANGED <<progVars, cancelled>> /\ DownloadFrame

\* os.Rename(.tmp, .new); a writer of .tmp goes on writing what is now .new
RenameTemp(d) ==
    /\ dl[d].pc = "rename"
    /\ \/ /\ Exists("tmp") /\ Free("tmp", d) /\ Free("new", d)
          /\ content' = [content EXCEPT !["new"] = content["tmp"], !["tmp"] = Missing]
          /\ opened' = [e \in Downloads |-> IF opened[e] = "tmp" THEN "new"
                                            ELSE Unlinked("new")[e]]
          /\ Advance(d, "publish") /\ UNCHANGED <<progVars, cancelled>>
       \/ FinishDownloadError(d, "cleanup") /\ UNCHANGED fileVars
    /\ DownloadFrame

\* Fault: a manager closed meanwhile publishes all the same
PublishAlways(d) ==
    /\ dl[d].pc = "publish"
    /\ prepared' = dl[d].asset /\ state' = "ready" /\ cancel' = None
    /\ UNCHANGED <<compatible, cancelled, fileVars>>
    /\ dl' = [dl EXCEPT ![d] = IdleDownload]
    /\ DownloadFrame
\* the prepared update is published, or removed if the manager was closed
Publish(d) ==
    /\ dl[d].pc = "publish"
    /\ cancel' = None
    /\ \/ /\ ~closed
          /\ prepared' = dl[d].asset /\ state' = "ready"
          /\ UNCHANGED fileVars
       \/ /\ closed
          /\ IF Free("new", d)
               THEN content' = [content EXCEPT !["new"] = Missing] /\ opened' = Unlinked("new")
               ELSE UNCHANGED fileVars
          /\ UNCHANGED <<prepared, state>>
    /\ cancelled' = cancelled \ {d} /\ UNCHANGED compatible
    /\ dl' = [dl EXCEPT ![d] = IdleDownload]
    /\ DownloadFrame

\* the deferred calls of a failed download, after the error was published:
\* the file is closed, and what is now called .tmp is removed
Cleanup(d) ==
    /\ dl[d].pc = "cleanup"
    /\ content' = IF Free("tmp", d) THEN [content EXCEPT !["tmp"] = Missing] ELSE content
    /\ opened' = [e \in Downloads |->
                    IF e = d THEN "none"
                    ELSE IF Free("tmp", d) /\ opened[e] = "tmp" THEN "orphan" ELSE opened[e]]
    /\ dl' = [dl EXCEPT ![d] = IdleDownload]
    /\ UNCHANGED <<progVars, cancelled>> /\ DownloadFrame

Download(d) ==
    \/ RemoveStale(d) \/ Request(d) \/ CreateTemp(d) \/ Stream(d) \/ ReportVerifying(d)
    \/ Validate(d) \/ RemoveNew(d) \/ RenameTemp(d) \/ Publish(d) \/ Cleanup(d)

-------------------------------------------------------------------------------
(* ApplyPreparedUpdate *)

ApplyFrame == UNCHANGED <<compatible, prepared, cancel, closed, check, dl, cancelled, opened,
                          disturbed>>
Continue(a, pc) == ap' = [ap EXCEPT ![a].pc = pc]

BeginApply(a) ==
    /\ ap[a].pc = "idle" /\ ~closed
    /\ state = "ready" /\ prepared # None
    /\ state' = "applying"
    /\ ap' = [ap EXCEPT ![a] = [pc |-> "hash", asset |-> prepared]]
    /\ UNCHANGED <<content, plan, helpers>> /\ ApplyFrame

\* the deferred function after an error: the update can be applied again
FailApply(a) ==
    /\ state' = IF ~closed /\ state = "applying" THEN "ready" ELSE state
    /\ ap' = [ap EXCEPT ![a] = IdleApply]

\* .new must still have the digest that was prepared
Rehash(a) ==
    /\ ap[a].pc = "hash"
    /\ \/ content["new"] = Whole(ap[a].asset) /\ Continue(a, "copy") /\ UNCHANGED state
       \/ FailApply(a)
    /\ UNCHANGED <<content, plan, helpers>> /\ ApplyFrame

\* copyFileAtomic: .new is copied to the helper.  The rename of the copy is the
\* last call that may fail, and by then an earlier helper is removed.
CopyHelper(a) ==
    /\ ap[a].pc = "copy"
    /\ \/ /\ Exists("new")
          /\ content' = [content EXCEPT !["helper"] = content["new"]]
          /\ Continue(a, "plan") /\ UNCHANGED state
       \/ /\ FailApply(a)
          /\ content' \in {content, [content EXCEPT !["helper"] = Missing]}
    /\ UNCHANGED <<plan, helpers>> /\ ApplyFrame

\* writeUpdatePlan, where an earlier plan is removed before the rename as well
WritePlan(a) ==
    /\ ap[a].pc = "plan"
    /\ \/ /\ plan' = ap[a].asset
          /\ Continue(a, "start") /\ UNCHANGED <<state, content>>
       \/ /\ FailApply(a)
          /\ content' = [content EXCEPT !["helper"] = Missing] /\ plan' \in {plan, None}
    /\ UNCHANGED helpers /\ ApplyFrame

\* startDetached; the helper reads the plan it finds
StartHelper(a) ==
    /\ ap[a].pc = "start"
    /\ \/ /\ Exists("helper")
          /\ helpers' = helpers \cup {[exe |-> content["helper"], plan |-> plan]}
          /\ Continue(a, "finish") /\ UNCHANGED <<state, content, plan>>
       \/ /\ FailApply(a)
          /\ content' = [content EXCEPT !["helper"] = Missing] /\ plan' = None
          /\ UNCHANGED helpers
    /\ ApplyFrame

FinishApply(a) ==
    /\ ap[a].pc = "finish"
    /\ state' = "applying"
    /\ ap' = [ap EXCEPT ![a] = IdleApply]
    /\ UNCHANGED <<content, plan, helpers>> /\ ApplyFrame

Apply(a) == Rehash(a) \/ CopyHelper(a) \/ WritePlan(a) \/ StartHelper(a) \/ FinishApply(a)

-------------------------------------------------------------------------------
(* The life of the process *)

\* Fault: closing forgets the download
CloseWithoutCancel ==
    /\ ~closed
    /\ closed' = TRUE
    /\ cancel' = None
    /\ UNCHANGED <<state, compatible, prepared, check, dl, cancelled, applyVars, fileVars,
                   disturbed>>
\* Close, when the process is shutting down
Close ==
    /\ ~closed
    /\ closed' = TRUE
    /\ cancelled' = cancelled \cup ({cancel} \ {None})
    /\ cancel' = None
    /\ UNCHANGED <<state, compatible, prepared, check, dl, applyVars, fileVars, disturbed>>

\* The process ends, shut down or killed, with all its goroutines, and is
\* started again: a new Manager, after CleanupOldFiles
Restart ==
    /\ state' = "idle" /\ compatible' = {} /\ prepared' = None /\ cancel' = None
    /\ closed' = FALSE /\ disturbed' = FALSE
    /\ check' = [c \in Checks |-> "idle"]
    /\ dl' = [d \in Downloads |-> IdleDownload] /\ cancelled' = {}
    /\ ap' = [a \in Applies |-> IdleApply]
    /\ content' = [n \in Names |-> Missing]
    /\ opened' = [d \in Downloads |-> "none"]
    /\ plan' = None /\ helpers' = {}

Next ==
    \/ \E c \in Checks : BeginCheck(c) \/ EndCheck(c)
    \/ \E d \in Downloads : (\E a \in Assets : StartDownload(d, a)) \/ Download(d)
    \/ \E a \in Applies : BeginApply(a) \/ Apply(a)
    \/ Close \/ Restart

Spec == Init /\ [][Next]_vars

-------------------------------------------------------------------------------
(* Properties *)

\* "Update is verified and ready" is true: the .new file is the whole release
\* that was prepared (download.go:179-231, apply.go:43-91).
ReadyIsVerified == state = "ready" => prepared # None /\ content["new"] = Whole(prepared)

\* ... unless a check ended while a download or an installation was running
ReadyIsVerifiedUndisturbed == disturbed \/ ReadyIsVerified

\* A started helper is the release its plan names, checked before it was
\* started, unless a check interfered (apply.go:85-135).
HelperIsVerified == disturbed \/ \A h \in helpers : h.exe = Whole(h.plan)

\* Unless a check interfered, one download at a time uses the temporary file;
\* others are at most about to clean up after their error (download.go:30-72).
OneDownload ==
    disturbed \/ Cardinality({d \in Downloads : dl[d].pc \notin {"idle", "cleanup"}}) <= 1

\* Closing the manager reaches the download that is on the network, unless a
\* check let a second one take the place of its cancel function
\* (updater.go:136-144, download.go:48-49, 250).
CloseCancels ==
    closed /\ ~disturbed =>
        \A d \in Downloads : dl[d].pc \in {"request", "stream"} => d \in cancelled

\* Types, and the two about downloads.
WellFormed == TypeOK /\ OneDownload /\ CloseCancels

\* A closed manager never announces an update, whatever was running
\* (download.go:205-211, apply.go:62-76).
ClosedAnnouncesNothing == [][closed /\ closed' /\ state # "ready" => state' # "ready"]_vars
===============================================================================
