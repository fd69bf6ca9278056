----------------------------- MODULE UpdateHelper -----------------------------
(***************************************************************************)
(* The installation of an update (internal/updater/apply.go:165-249): the  *)
(* helper process waits for the application that started it to end, swaps  *)
(* the executables, starts the updated application and waits for its ready *)
(* token, or puts everything back.  Meanwhile applications start: the      *)
(* updated one with the token in its environment, and ordinary launches,   *)
(* which first remove the leftovers of updates (CleanupOldFiles).          *)
(*                                                                         *)
(* Every step is one operation on one file or process, in program order.   *)
(* The history variable `intruded' records that an ordinary launch removed *)
(* leftovers while the installation was neither confirmed nor undone.      *)
(*                                                                         *)
(* A definition whose comment begins with "Fault:" is a seeded fault: no   *)
(* behaviour of Spec uses it, it shows which mistake a property rules out. *)
(***************************************************************************)
EXTENDS Naturals, Sequences

CONSTANTS
    MaxFaults,   \* renames that keep failing until retryRename gives up
    MayCrash     \* whether the helper may be killed

ASSUME BoundsAssumption == MaxFaults \in Nat /\ MayCrash \in BOOLEAN

\* the executables and what stands under their names
Executables == {"target", "backup", "new"}
Versions == {"old", "new"}

\* the application that applied the update, the one the helper starts, the
\* one it starts after a rollback, and one the user starts
Apps == {"parent", "updated", "restored", "user"}

\* CleanupOldFiles removes these, in this order (the helper's own file and
\* temporary files, which nobody reads again, are left out)
Leftovers == <<"backup", "new", "plan", "ready">>

VARIABLES
    exe,        \* per executable name: the version there, or "none"
    ready,      \* the ready file: "none", "stale" (another token) or "token"
    plan,       \* the update plan exists
    helper,     \* the helper's program point
    app,        \* per application: point, and the version it runs
    confirmed,  \* the helper has seen the token
    intruded, faults

vars == <<exe, ready, plan, helper, app, confirmed, intruded, faults>>
fileVars == <<exe, ready, plan>>
appVars == <<app, intruded>>

HelperPoints ==
    {"wait", "hash", "removeBackup", "backup", "install", "undoInstall", "start",
     "undoStartNew", "undoStartOld", "await", "terminate", "removeNew", "undoNew", "undoOld",
     "restart", "removePlan", "removeReady", "clearReady", "clearBackup", "clearPlan",
     "ended", "killed"}
AppPoints == {"none", "cleanup", "boot", "publish", "running", "exited"}

TypeOK ==
    /\ exe \in [Executables -> Versions \cup {"none"}]
    /\ ready \in {"none", "stale", "token"} /\ plan \in BOOLEAN
    /\ helper \in HelperPoints
    /\ app \in [Apps -> [pc : AppPoints, version : Versions \cup {"none"},
                         next : 1 .. Len(Leftovers) + 1]]
    /\ \A p \in Apps : app[p].pc = "cleanup" => app[p].next <= Len(Leftovers)
    /\ confirmed \in BOOLEAN /\ intruded \in BOOLEAN /\ faults \in 0 .. MaxFaults

NoApp == [pc |-> "none", version |-> "none", next |-> 1]

\* the helper was started with a plan; an earlier update may have left its
\* backup and its ready file
Init ==
    /\ exe \in {[target |-> "old", backup |-> b, new |-> "new"] : b \in {"none", "old"}}
    /\ ready \in {"none", "stale"} /\ plan = TRUE
    /\ helper = "wait"
    /\ app = [p \in Apps |-> IF p = "parent"
                               THEN [NoApp EXCEPT !.pc = "running", !.version = "old"]
                               ELSE NoApp]
    /\ confirmed = FALSE /\ intruded = FALSE /\ faults = 0

-------------------------------------------------------------------------------
(* The helper, runUpdateHelper *)

HelperFrame == UNCHANGED <<intruded, faults>>
At(pc) == helper = pc
Then(pc) == helper' = pc

\* waitForProcessExit, which gives up after 90 s
WaitForParent ==
    /\ At("wait")
    /\ \/ app["parent"].pc = "exited" /\ Then("hash")
       \/ app["parent"].pc # "exited" /\ Then("ended")
    /\ UNCHANGED <<fileVars, app, confirmed>> /\ HelperFrame

\* fileSHA256 and validateExecutable of .new, which must be read and match
RehashNew ==
    /\ At("hash")
    /\ \/ exe["new"] = "new" /\ Then("removeBackup")
       \/ Then("ended")
    /\ UNCHANGED <<fileVars, app, confirmed>> /\ HelperFrame

\* os.Remove of an executable, its error ignored
Remove(name) ==
    exe' \in {exe, [exe EXCEPT ![name] = "none"]} /\ UNCHANGED <<ready, plan>>

RemoveBackup ==
    /\ At("removeBackup")
    /\ Remove("backup")
    /\ Then("backup")
    /\ UNCHANGED <<app, confirmed>> /\ HelperFrame

\* retryRename at point pc: it succeeds, or fails for as long as it is retried
RetryRename(pc, from, to, success, failure) ==
    /\ At(pc)
    /\ \/ /\ exe[from] # "none"
          /\ exe' = [exe EXCEPT ![to] = exe[from], ![from] = "none"]
          /\ Then(success) /\ UNCHANGED faults
       \/ /\ \/ exe[from] = "none" /\ UNCHANGED faults
             \/ faults < MaxFaults /\ faults' = faults + 1
          /\ Then(failure) /\ UNCHANGED exe
    /\ UNCHANGED <<ready, plan, app, confirmed, intruded>>

\* Fault: the new executable goes over the present one
BackUpNothing ==
    /\ At("backup") /\ Then("install")
    /\ UNCHANGED <<fileVars, app, confirmed>> /\ HelperFrame
BackUpTarget == RetryRename("backup", "target", "backup", "install", "ended")
InstallNew   == RetryRename("install", "new", "target", "start", "undoInstall")
UndoInstall  == RetryRename("undoInstall", "backup", "target", "ended", "ended")

\* startDetached(target) with the token in its environment
StartUpdated ==
    /\ At("start")
    /\ \/ /\ exe["target"] # "none"
          /\ app' = [app EXCEPT !["updated"] =
                       [NoApp EXCEPT !.pc = "boot", !.version = exe["target"]]]
          /\ Then("await")
       \/ Then("undoStartNew") /\ UNCHANGED app
    /\ UNCHANGED <<fileVars, confirmed>> /\ HelperFrame

UndoStartNew == RetryRename("undoStartNew", "target", "new", "undoStartOld", "undoStartOld")
UndoStartOld == RetryRename("undoStartOld", "backup", "target", "ended", "ended")

\* Fault: any ready file will do
SignalledByAny == ready # "none"
\* waitForReadySignal compares the token
Signalled == ready = "token"

\* Fault: a missing signal is waited for without a deadline
AwaitReadyForever ==
    /\ At("await") /\ Signalled
    /\ Then("clearReady") /\ confirmed' = TRUE
    /\ UNCHANGED <<fileVars, app>> /\ HelperFrame
\* the token is seen, or 45 s pass without it, or the file cannot be read
AwaitReady ==
    /\ At("await")
    /\ \/ Signalled /\ Then("clearReady") /\ confirmed' = TRUE
       \/ Then("terminate") /\ UNCHANGED confirmed
    /\ UNCHANGED <<fileVars, app>> /\ HelperFrame

\* terminateProcess, which may fail: the rollback goes on
TerminateUpdated ==
    /\ At("terminate")
    /\ app' \in {app, [app EXCEPT !["updated"].pc = "exited"]}
    /\ Then("removeNew")
    /\ UNCHANGED <<fileVars, confirmed>> /\ HelperFrame

RemoveNew ==
    /\ At("removeNew")
    /\ Remove("new")
    /\ Then("undoNew")
    /\ UNCHANGED <<app, confirmed>> /\ HelperFrame

\* Fault: the updated executable is left where it is
UndoNewOnly == RetryRename("undoNew", "target", "new", "restart", "restart")
UndoNew == RetryRename("undoNew", "target", "new", "undoOld", "undoOld")
UndoOld == RetryRename("undoOld", "backup", "target", "restart", "restart")

\* startDetached(target) again, as an ordinary launch
RestartOld ==
    /\ At("restart")
    /\ \/ /\ exe["target"] # "none"
          /\ app' = [app EXCEPT !["restored"] =
                       [NoApp EXCEPT !.pc = "cleanup", !.version = exe["target"]]]
       \/ UNCHANGED app
    /\ Then("removePlan")
    /\ UNCHANGED <<fileVars, confirmed>> /\ HelperFrame

RemovePlan(pc, next) ==
    /\ At(pc)
    /\ plan' \in {plan, FALSE}
    /\ Then(next)
    /\ UNCHANGED <<exe, ready, app, confirmed>> /\ HelperFrame

RemoveReady(pc, next) ==
    /\ At(pc)
    /\ ready' \in {ready, "none"}
    /\ Then(next)
    /\ UNCHANGED <<exe, plan, app, confirmed>> /\ HelperFrame

ClearBackup ==
    /\ At("clearBackup")
    /\ Remove("backup")
    /\ Then("clearPlan")
    /\ UNCHANGED <<app, confirmed>> /\ HelperFrame

Helper ==
    \/ WaitForParent \/ RehashNew \/ RemoveBackup \/ BackUpTarget \/ InstallNew \/ UndoInstall
    \/ StartUpdated \/ UndoStartNew \/ UndoStartOld \/ AwaitReady
    \/ TerminateUpdated \/ RemoveNew \/ UndoNew \/ UndoOld \/ RestartOld
    \/ RemovePlan("removePlan", "removeReady") \/ RemoveReady("removeReady", "ended")
    \/ RemoveReady("clearReady", "clearBackup") \/ ClearBackup \/ RemovePlan("clearPlan", "ended")

\* the helper is killed between two steps
KillHelper ==
    /\ MayCrash /\ helper \notin {"ended", "killed"}
    /\ Then("killed")
    /\ UNCHANGED <<fileVars, app, confirmed>> /\ HelperFrame

-------------------------------------------------------------------------------
(* The applications *)

AppFrame == UNCHANGED <<helper, confirmed, faults>>

\* the user starts what stands under the application's name
LaunchByUser ==
    /\ app["user"].pc = "none" /\ exe["target"] # "none"
    /\ app' = [app EXCEPT !["user"] = [NoApp EXCEPT !.pc = "cleanup", !.version = exe["target"]]]
    /\ UNCHANGED <<fileVars, intruded>> /\ AppFrame

\* an installation is neither confirmed nor undone
Unsettled ==
    /\ ~confirmed
    /\ helper \notin {"restart", "removePlan", "removeReady", "ended"} \/ exe["target"] # "old"

Last(i) == i = Len(Leftovers)

\* CleanupOldFiles, one os.Remove; an error is ignored
CleanupNext(p) ==
    /\ app[p].pc = "cleanup"
    /\ LET name == Leftovers[app[p].next] IN
         /\ CASE name = "plan"  -> plan' \in {plan, FALSE} /\ UNCHANGED <<exe, ready>>
              [] name = "ready" -> ready' \in {ready, "none"} /\ UNCHANGED <<exe, plan>>
              [] OTHER -> /\ exe' \in {exe, [exe EXCEPT ![name] = "none"]}
                          /\ UNCHANGED <<ready, plan>>
    /\ app' = [app EXCEPT ![p].next = @ + 1,
                          ![p].pc = IF Last(app[p].next) THEN "running" ELSE "cleanup"]
    /\ intruded' = (intruded \/ Unsettled)
    /\ AppFrame

\* MarkStartupHealthy of the updated application: the token is written to a
\* temporary file, the old ready file removed ...
PrepareReady ==
    /\ app["updated"].pc = "boot"
    /\ ready' \in {ready, "none"}
    /\ app' = [app EXCEPT !["updated"].pc = "publish"]
    /\ UNCHANGED <<exe, plan, intruded>> /\ AppFrame

\* ... and the file renamed; on an error the application stops
PublishReady ==
    /\ app["updated"].pc = "publish"
    /\ \/ ready' = "token" /\ app' = [app EXCEPT !["updated"].pc = "running"]
       \/ app' = [app EXCEPT !["updated"].pc = "exited"] /\ UNCHANGED ready
    /\ UNCHANGED <<exe, plan, intruded>> /\ AppFrame

\* an application ends or crashes
Exit(p) ==
    /\ app[p].pc \notin {"none", "exited"}
    /\ app' = [app EXCEPT ![p].pc = "exited"]
    /\ UNCHANGED <<fileVars, intruded>> /\ AppFrame

Next ==
    \/ Helper \/ KillHelper
    \/ LaunchByUser \/ PrepareReady \/ PublishReady
    \/ \E p \in Apps : CleanupNext(p) \/ Exit(p)

\* every wait of the helper has a deadline
Spec == Init /\ [][Next]_vars /\ WF_vars(Helper)

-------------------------------------------------------------------------------
(* Properties *)

\* Until the updated application has confirmed that it started, the previous
\* version is there to go back to, wherever the helper is killed and whichever
\* rename fails, unless an ordinary launch cleaned up (apply.go:184-210).
PreviousKept ==
    ~confirmed /\ ~intruded => "old" \in {exe["target"], exe["backup"]}

\* The outcome of a failed installation is the previous version under its name:
\* of one whose start was not confirmed, whatever the updated application did.
RolledBack == helper = "ended" /\ ~confirmed /\ faults = 0 => exe["target"] = "old"

\* ... unless an ordinary launch cleaned up meanwhile, and of a confirmed one
\* the new version stays (apply.go:190-217).
EndsAsAnnounced ==
    helper = "ended" /\ ~intruded =>
        IF confirmed THEN exe["target"] = "new" ELSE faults = 0 => exe["target"] = "old"

\* Types, and: only an application that has started can confirm, whatever ready
\* file an earlier update left (apply.go:222-249, 354-369).
ConfirmedHasStarted == confirmed => app["updated"].pc \in {"running", "exited"}
WellFormed == TypeOK /\ ConfirmedHasStarted

\* The helper does not wait for ever on an application that neither confirms
\* nor ends.
HelperEnds == <>(helper \in {"ended", "killed"})
===============================================================================
