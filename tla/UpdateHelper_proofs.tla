------------------------- MODULE UpdateHelper_proofs -------------------------
(***************************************************************************)
(* Proofs about UpdateHelper, for any number of failing renames, whether   *)
(* or not the helper may be killed.                                        *)
(***************************************************************************)
EXTENDS UpdateHelper, TLAPS

\* The files at each point of the helper, unless an ordinary launch intruded.
NotSwapped == {"wait", "hash", "removeBackup", "backup"}
Swapped == {"start", "undoStartNew", "await", "terminate", "removeNew", "undoNew"}
Undoing == {"install", "undoInstall", "undoStartOld", "undoOld"}
Undone == {"restart", "removePlan", "removeReady", "ended"}
Confirming == {"clearReady", "clearBackup", "clearPlan"}

Files ==
    /\ helper \in NotSwapped => exe["target"] = "old"
    /\ helper \in {"install", "undoInstall"} => exe["target"] = "none"
    /\ helper = "install" => exe["new"] = "new"
    /\ helper \in {"removeBackup", "backup"} => exe["new"] = "new"
    /\ helper \in Swapped => exe["target"] = "new"
    /\ helper \in Swapped \cup Undoing => exe["backup"] = "old"
    /\ helper \in Undone /\ ~confirmed /\ faults = 0 => exe["target"] = "old"
    /\ confirmed /\ helper # "killed" => exe["target"] = "new"

\* The helper confirms once, at the end of its waiting.
Confirmation ==
    /\ helper \in NotSwapped \cup Swapped \cup Undoing \cup (Undone \ {"ended"}) => ~confirmed
    /\ helper \in Confirming => confirmed

\* The token is written by the one application the helper starts.
Token ==
    /\ helper \in NotSwapped \cup {"install", "undoInstall", "start"} => app["updated"].pc = "none"
    /\ ready = "token" => app["updated"].pc \in {"running", "exited"}

IInv == WellFormed /\ Confirmation /\ Token /\ (~intruded => Files /\ PreviousKept)

\* The installation that ApplyPreparedUpdate has just started.
LEMMA Initial == Init => IInv
<1> SUFFICES ASSUME Init PROVE IInv
  OBVIOUS
<1> DEFINE Record == [pc : AppPoints, version : Versions \cup {"none"}, next : 1..5]
           Parent == [NoApp EXCEPT !.pc = "running", !.version = "old"]
<1>1. NoApp \in Record /\ NoApp.pc = "none" /\ Parent \in Record /\ Parent.pc = "running"
  <2>1. NoApp \in Record /\ NoApp.pc = "none"
    BY DEF NoApp, AppPoints, Versions
  <2>2. [NoApp EXCEPT !.pc = "running"] \in Record
    BY <2>1 DEF AppPoints
  <2>3. Parent = [[NoApp EXCEPT !.pc = "running"] EXCEPT !.version = "old"]
    OBVIOUS
  <2>4. Parent \in Record
    BY <2>2, <2>3 DEF Versions
  <2>5. Parent.pc = "running"
    BY DEF NoApp
  <2>6. QED
    BY <2>1, <2>4, <2>5
<1>2. app = [p \in Apps |-> IF p = "parent" THEN Parent ELSE NoApp]
  BY DEF Init
<1> HIDE DEF Record, Parent
<1>3. /\ app \in [Apps -> Record] /\ app["updated"].pc = "none"
      /\ \A p \in Apps : app[p].pc \in {"running", "none"}
  BY <1>1, <1>2 DEF Apps
<1>4. exe \in [Executables -> Versions \cup {"none"}] /\ exe["target"] = "old" /\ exe["new"] = "new"
  BY DEF Init, Executables, Versions
<1>5. TypeOK
  <2>1. plan \in BOOLEAN /\ confirmed \in BOOLEAN /\ intruded \in BOOLEAN
    BY Zenon DEF Init
  <2>2. faults \in 0..MaxFaults
    BY BoundsAssumption DEF Init
  <2>3. ready \in {"none", "stale", "token"} /\ helper \in HelperPoints
    BY DEF Init, HelperPoints
  <2>4. \A p \in Apps : app[p].pc # "cleanup"
    BY <1>3
  <2>5. Len(Leftovers) = 4
    BY DEF Leftovers
  <2>6. QED
    BY <1>3, <1>4, <2>1, <2>2, <2>3, <2>4, <2>5 DEF TypeOK, Record
<1>6. QED
  BY <1>3, <1>4, <1>5
     DEF Init, IInv, WellFormed, ConfirmedHasStarted, Confirmation, Token, Files, PreviousKept,
         NotSwapped, Swapped, Undoing, Undone, Confirming

-------------------------------------------------------------------------------
(* Types *)

AppRecord ==
    [pc : AppPoints, version : Versions \cup {"none"}, next : 1 .. Len(Leftovers) + 1]

\* A process that was just started.
LEMMA Started ==
    ASSUME NEW pc \in AppPoints, NEW v \in Versions \cup {"none"}
    PROVE  /\ [NoApp EXCEPT !.pc = pc, !.version = v] \in AppRecord
           /\ [NoApp EXCEPT !.pc = pc, !.version = v].pc = pc
           /\ [NoApp EXCEPT !.pc = pc, !.version = v].next = 1
<1>1. NoApp \in AppRecord /\ NoApp.next = 1
  BY DEF NoApp, AppRecord, AppPoints, Versions, Leftovers
<1>2. [NoApp EXCEPT !.pc = pc] \in AppRecord /\ [NoApp EXCEPT !.pc = pc].pc = pc
      /\ [NoApp EXCEPT !.pc = pc].next = 1
  BY <1>1 DEF AppRecord
<1>3. [NoApp EXCEPT !.pc = pc, !.version = v] = [[NoApp EXCEPT !.pc = pc] EXCEPT !.version = v]
  OBVIOUS
<1>4. QED
  BY <1>2, <1>3 DEF AppRecord

\* A step of the helper that touches files or its own point only.
LEMMA HelperTypes ==
    ASSUME TypeOK, Helper, UNCHANGED app
    PROVE  TypeOK'
<1> USE BoundsAssumption DEF TypeOK, HelperFrame, Then, fileVars, HelperPoints
<1>1. exe' \in [Executables -> Versions \cup {"none"}]
  BY DEF Helper, WaitForParent, RehashNew, RemoveBackup, Remove, BackUpTarget, InstallNew,
         UndoInstall, StartUpdated, UndoStartNew, UndoStartOld, AwaitReady, TerminateUpdated,
         RemoveNew, UndoNew, UndoOld, RestartOld, RemovePlan, RemoveReady, ClearBackup,
         RetryRename, Executables
<1>2. ready' \in {"none", "stale", "token"} /\ helper' \in HelperPoints /\ intruded' = intruded
  BY DEF Helper, WaitForParent, RehashNew, RemoveBackup, Remove, BackUpTarget, InstallNew,
         UndoInstall, StartUpdated, UndoStartNew, UndoStartOld, AwaitReady, TerminateUpdated,
         RemoveNew, UndoNew, UndoOld, RestartOld, RemovePlan, RemoveReady, ClearBackup,
         RetryRename
<1>3. plan' \in BOOLEAN /\ confirmed' \in BOOLEAN
  BY DEF Helper, WaitForParent, RehashNew, RemoveBackup, Remove, BackUpTarget, InstallNew,
         UndoInstall, StartUpdated, UndoStartNew, UndoStartOld, AwaitReady, TerminateUpdated,
         RemoveNew, UndoNew, UndoOld, RestartOld, RemovePlan, RemoveReady, ClearBackup,
         RetryRename
<1>4. faults' \in 0 .. MaxFaults
  <2>1. faults' = faults \/ (faults < MaxFaults /\ faults' = faults + 1)
    BY DEF Helper, WaitForParent, RehashNew, RemoveBackup, BackUpTarget, InstallNew,
           UndoInstall, StartUpdated, UndoStartNew, UndoStartOld, AwaitReady, TerminateUpdated,
           RemoveNew, UndoNew, UndoOld, RestartOld, RemovePlan, RemoveReady, ClearBackup,
           RetryRename
  <2>2. faults \in Nat
    OBVIOUS
  <2>3. QED
    BY <2>1, <2>2
<1>5. QED
  BY <1>1, <1>2, <1>3, <1>4

\* Every step keeps the types.
LEMMA TypeStep == TypeOK /\ [Next]_vars => TypeOK'
<1> SUFFICES ASSUME TypeOK, [Next]_vars
             PROVE  TypeOK'
  OBVIOUS
<1>0. app \in [Apps -> AppRecord] /\ exe["target"] \in Versions \cup {"none"}
      /\ Len(Leftovers) = 4 /\ {"parent", "updated", "restored", "user"} = Apps
  BY DEF TypeOK, AppRecord, Executables, Leftovers, Apps
<1>1. CASE UNCHANGED vars
  BY <1>1 DEF vars, TypeOK
<1>2. CASE Helper /\ UNCHANGED app
  BY <1>2, HelperTypes
<1>3. CASE StartUpdated
  <2> DEFINE r == [NoApp EXCEPT !.pc = "boot", !.version = exe["target"]]
  <2>1. r \in AppRecord /\ r.pc = "boot"
    BY <1>0, Started DEF AppPoints
  <2>2. app' = app \/ app' = [app EXCEPT !["updated"] = r]
    BY <1>3 DEF StartUpdated
  <2> HIDE DEF r
  <2>3. /\ app' \in [Apps -> AppRecord]
        /\ \A q \in Apps : app'[q].pc = "cleanup" => app'[q].next <= 4
    BY <1>0, <2>1, <2>2 DEF TypeOK
  <2>4. QED
    BY <1>0, <1>3, <2>3
       DEF TypeOK, StartUpdated, Then, HelperFrame, fileVars, HelperPoints, AppRecord
<1>4. CASE TerminateUpdated
  BY <1>0, <1>4
     DEF TypeOK, TerminateUpdated, Then, HelperFrame, fileVars, HelperPoints, AppPoints, AppRecord
<1>5. CASE RestartOld
  <2> DEFINE r == [NoApp EXCEPT !.pc = "cleanup", !.version = exe["target"]]
  <2>1. r \in AppRecord /\ r.next = 1
    BY <1>0, Started DEF AppPoints
  <2>2. app' = app \/ app' = [app EXCEPT !["restored"] = r]
    BY <1>5 DEF RestartOld
  <2> HIDE DEF r
  <2>3. /\ app' \in [Apps -> AppRecord]
        /\ \A q \in Apps : app'[q].pc = "cleanup" => app'[q].next <= 4
    BY <1>0, <2>1, <2>2 DEF TypeOK
  <2>4. QED
    BY <1>0, <1>5, <2>3
       DEF TypeOK, RestartOld, Then, HelperFrame, fileVars, HelperPoints, AppRecord
<1>6. CASE KillHelper
  BY <1>6 DEF TypeOK, KillHelper, Then, HelperFrame, fileVars, HelperPoints
<1>7. CASE LaunchByUser
  <2>1. [NoApp EXCEPT !.pc = "cleanup", !.version = exe["target"]] \in AppRecord
        /\ [NoApp EXCEPT !.pc = "cleanup", !.version = exe["target"]].next = 1
    BY <1>0, Started DEF AppPoints
  <2>2. QED
    BY <1>0, <1>7, <2>1 DEF TypeOK, LaunchByUser, AppFrame, fileVars, AppRecord
<1>8. CASE PrepareReady
  BY <1>0, <1>8 DEF TypeOK, PrepareReady, AppFrame, AppPoints, AppRecord
<1>9. CASE PublishReady
  BY <1>0, <1>9 DEF TypeOK, PublishReady, AppFrame, AppPoints, AppRecord
<1>10. ASSUME NEW p \in Apps, Exit(p)
       PROVE  TypeOK'
  BY <1>0, <1>10 DEF TypeOK, Exit, AppFrame, fileVars, AppPoints, AppRecord
<1>11. ASSUME NEW p \in Apps, CleanupNext(p)
       PROVE  TypeOK'
  <2>1. app[p].next \in 1..4 /\ app[p].pc = "cleanup"
    BY <1>0, <1>11 DEF TypeOK, CleanupNext
  <2>2. /\ exe' \in [Executables -> Versions \cup {"none"}]
        /\ ready' \in {"none", "stale", "token"}
    BY <1>11, <2>1 DEF TypeOK, CleanupNext, Executables, Leftovers
  <2>3. plan' \in BOOLEAN
    BY <1>11, <2>1 DEF TypeOK, CleanupNext, Leftovers
  <2>4. /\ app' \in [Apps -> AppRecord]
        /\ \A q \in Apps : app'[q].pc = "cleanup" => app'[q].next <= 4
    <3>1. app'[p] = [app[p] EXCEPT !.next = app[p].next + 1,
                                   !.pc = IF Last(app[p].next) THEN "running" ELSE "cleanup"]
      BY <1>0, <1>11 DEF CleanupNext
    <3>2. app'[p] \in AppRecord /\ (app'[p].pc = "cleanup" => app'[p].next <= 4)
      <4> DEFINE r == [app[p] EXCEPT !.next = app[p].next + 1]
                 pc == IF Last(app[p].next) THEN "running" ELSE "cleanup"
      <4>1. app'[p] = [r EXCEPT !.pc = pc]
        BY <3>1
      <4>2. app[p] \in AppRecord /\ app[p].next + 1 \in 1..5
        BY <1>0, <2>1
      <4>3. r \in AppRecord /\ r.next = app[p].next + 1
        BY <1>0, <4>2 DEF AppRecord
      <4>4. pc \in AppPoints /\ (pc = "cleanup" => app[p].next + 1 <= 4)
        BY <1>0, <2>1 DEF AppPoints, Last
      <4> HIDE DEF r, pc
      <4>5. QED
        BY <4>1, <4>3, <4>4 DEF AppRecord
    <3>3. \A q \in Apps : q # p => app'[q] = app[q]
      BY <1>0, <1>11 DEF CleanupNext
    <3>4. app' \in [Apps -> AppRecord]
      BY <1>0, <1>11, <3>2, <3>3 DEF CleanupNext
    <3>5. QED
      BY <1>0, <3>2, <3>3, <3>4 DEF TypeOK
  <2>5. intruded' \in BOOLEAN
    BY <1>11, Zenon DEF TypeOK, CleanupNext
  <2>6. QED
    BY <1>0, <1>11, <2>2, <2>3, <2>4, <2>5 DEF TypeOK, CleanupNext, AppFrame, AppRecord
<1>12. QED
  <2>1. Helper => UNCHANGED app \/ StartUpdated \/ TerminateUpdated \/ RestartOld
    BY DEF Helper, WaitForParent, RehashNew, RemoveBackup, BackUpTarget, InstallNew,
           UndoInstall, UndoStartNew, UndoStartOld, AwaitReady, RemoveNew, UndoNew, UndoOld,
           RemovePlan, RemoveReady, ClearBackup, RetryRename
  <2>2. QED
    BY <1>1, <1>2, <1>3, <1>4, <1>5, <1>6, <1>7, <1>8, <1>9, <1>10, <1>11, <2>1 DEF Next

-------------------------------------------------------------------------------
(* The invariant *)

\* Every step of the helper leads from the files of one point to those of the next.
LEMMA HelperStep ==
    ASSUME IInv, Helper, TypeOK'
    PROVE  IInv'
<1> USE DEF IInv, WellFormed, ConfirmedHasStarted, Confirmation, Token, Files, PreviousKept,
            NotSwapped, Swapped, Undoing, Undone, Confirming, At, Then, HelperFrame, fileVars
<1>0. /\ exe \in [{"target", "backup", "new"} -> {"old", "new", "none"}]
      /\ app \in [{"parent", "updated", "restored", "user"} -> AppRecord]
      /\ faults \in Nat
  BY BoundsAssumption DEF TypeOK, Executables, Versions, Apps, AppRecord
<1>1. CASE WaitForParent
  BY <1>0, <1>1 DEF WaitForParent
<1>2. CASE RehashNew
  BY <1>0, <1>2 DEF RehashNew
<1>3. CASE RemoveBackup
  BY <1>0, <1>3 DEF RemoveBackup, Remove
<1>4. CASE BackUpTarget
  BY <1>0, <1>4 DEF BackUpTarget, RetryRename
<1>5. CASE InstallNew
  BY <1>0, <1>5 DEF InstallNew, RetryRename
<1>6. CASE UndoInstall
  BY <1>0, <1>6 DEF UndoInstall, RetryRename
<1>7. CASE StartUpdated
  BY <1>0, <1>7 DEF StartUpdated, NoApp
<1>8. CASE UndoStartNew
  BY <1>0, <1>8 DEF UndoStartNew, RetryRename
<1>9. CASE UndoStartOld
  BY <1>0, <1>9 DEF UndoStartOld, RetryRename
<1>10. CASE AwaitReady
  BY <1>0, <1>10 DEF AwaitReady, Signalled
<1>11. CASE TerminateUpdated
  <2>1. app'["updated"].pc \in {app["updated"].pc, "exited"}
    BY <1>0, <1>11 DEF TerminateUpdated, AppRecord
  <2>2. QED
    BY <1>0, <1>11, <2>1 DEF TerminateUpdated
<1>12. CASE RemoveNew
  BY <1>0, <1>12 DEF RemoveNew, Remove
<1>13. CASE UndoNew
  BY <1>0, <1>13 DEF UndoNew, RetryRename
<1>14. CASE UndoOld
  BY <1>0, <1>14 DEF UndoOld, RetryRename
<1>15. CASE RestartOld
  BY <1>0, <1>15 DEF RestartOld, NoApp
<1>16. CASE RemovePlan("removePlan", "removeReady")
  BY <1>0, <1>16 DEF RemovePlan
<1>17. CASE RemoveReady("removeReady", "ended")
  BY <1>0, <1>17 DEF RemoveReady
<1>18. CASE RemoveReady("clearReady", "clearBackup")
  BY <1>0, <1>18 DEF RemoveReady
<1>19. CASE ClearBackup
  BY <1>0, <1>19 DEF ClearBackup, Remove
<1>20. CASE RemovePlan("clearPlan", "ended")
  BY <1>0, <1>20 DEF RemovePlan
<1>21. QED
  BY <1>1, <1>2, <1>3, <1>4, <1>5, <1>6, <1>7, <1>8, <1>9, <1>10, <1>11, <1>12, <1>13, <1>14,
     <1>15, <1>16, <1>17, <1>18, <1>19, <1>20
     DEF Helper

\* An application changes no file the helper relies on, unless it intrudes.
LEMMA AppStep ==
    ASSUME IInv, TypeOK',
           LaunchByUser \/ PrepareReady \/ PublishReady \/ (\E p \in Apps : CleanupNext(p) \/ Exit(p))
    PROVE  IInv'
<1> USE DEF IInv, WellFormed, ConfirmedHasStarted, Confirmation, Token, AppFrame, fileVars
<1>0. /\ exe \in [{"target", "backup", "new"} -> {"old", "new", "none"}]
      /\ app \in [{"parent", "updated", "restored", "user"} -> AppRecord]
      /\ Apps = {"parent", "updated", "restored", "user"}
  BY DEF TypeOK, Executables, Versions, Apps, AppRecord
<1>1. CASE LaunchByUser
  BY <1>0, <1>1 DEF LaunchByUser, Files, PreviousKept
<1>2. CASE PrepareReady
  BY <1>0, <1>2 DEF PrepareReady, Files, PreviousKept, AppRecord
<1>3. CASE PublishReady
  BY <1>0, <1>3 DEF PublishReady, Files, PreviousKept, AppRecord
<1>4. ASSUME NEW p \in Apps, Exit(p)
      PROVE  IInv'
  BY <1>0, <1>4 DEF Exit, Files, PreviousKept, AppRecord
<1>5. ASSUME NEW p \in Apps, CleanupNext(p)
      PROVE  IInv'
  <2>1. app[p].next \in 1..4 /\ app[p].pc = "cleanup"
    BY <1>0, <1>5 DEF TypeOK, CleanupNext, AppRecord, Leftovers
  <2>2. Confirmation' /\ ConfirmedHasStarted'
    <3>1. app["updated"].pc \in {"running", "exited"} => app'["updated"].pc = app["updated"].pc
      BY <1>0, <1>5, <2>1 DEF CleanupNext
    <3>2. QED
      BY <1>5, <3>1 DEF CleanupNext
  <2>3. Token'
    <3>1. app["updated"].pc \in {"running", "exited", "none"}
              => app'["updated"].pc = app["updated"].pc
      BY <1>0, <1>5, <2>1 DEF CleanupNext
    <3>2. ready' = "token" => ready = "token"
      BY <1>5, <2>1 DEF CleanupNext, Leftovers
    <3>3. QED
      BY <1>5, <3>1, <3>2 DEF CleanupNext
  <2>4. ~intruded' => Files' /\ PreviousKept'
    <3>1. ~intruded' => ~intruded /\ ~Unsettled
      BY <1>5 DEF CleanupNext
    <3>2. exe'["target"] = exe["target"]
      <4>1. Leftovers[app[p].next] \in {"backup", "new", "plan", "ready"}
        BY <2>1 DEF Leftovers
      <4>2. \/ exe' = exe
            \/ /\ Leftovers[app[p].next] \in {"backup", "new"}
               /\ exe' = [exe EXCEPT ![Leftovers[app[p].next]] = "none"]
        BY <1>5, <4>1 DEF CleanupNext
      <4>3. QED
        BY <1>0, <4>2
    <3>3. helper' = helper /\ confirmed' = confirmed /\ faults' = faults
      BY <1>5 DEF CleanupNext
    <3>4. QED
      BY <3>1, <3>2, <3>3
         DEF Unsettled, Files, PreviousKept, NotSwapped, Swapped, Undoing, Undone, Confirming
  <2>5. QED
    BY <2>2, <2>3, <2>4
<1>6. QED
  BY <1>1, <1>2, <1>3, <1>4, <1>5

\* The invariant holds always.
LEMMA Invariant == Spec => []IInv
<1>1. IInv /\ [Next]_vars => IInv'
  <2> SUFFICES ASSUME IInv, [Next]_vars
               PROVE  IInv'
    OBVIOUS
  <2>1. TypeOK'
    BY TypeStep DEF IInv, WellFormed
  <2>2. CASE UNCHANGED vars
    BY <2>2 DEF vars, IInv, WellFormed, TypeOK, ConfirmedHasStarted, Confirmation, Token, Files,
                PreviousKept
  <2>3. CASE Helper
    BY <2>1, <2>3, HelperStep
  <2>4. CASE KillHelper
    BY <2>1, <2>4 DEF KillHelper, Then, HelperFrame, fileVars, IInv, WellFormed,
                      ConfirmedHasStarted, Confirmation, Token, Files, PreviousKept, NotSwapped,
                      Swapped, Undoing, Undone, Confirming
  <2>5. CASE ~Helper /\ ~KillHelper /\ Next
    BY <2>1, <2>5, AppStep DEF Next
  <2>6. QED
    BY <2>2, <2>3, <2>4, <2>5
<1>2. QED
  BY <1>1, Initial, PTL DEF Spec

\* Types, and no application that has not started confirms (apply.go:222-249,
\* 354-369).
THEOREM OnlyStartedConfirms == Spec => []WellFormed
<1>1. IInv => WellFormed
  BY DEF IInv
<1>2. QED
  BY <1>1, Invariant, PTL

\* Wherever the helper is killed and however many renames fail, the previous
\* version stays until the new one has confirmed its start, unless an ordinary
\* launch cleaned up (apply.go:184-210).
THEOREM PreviousIsKept == Spec => []PreviousKept
<1>1. IInv => PreviousKept
  BY DEF IInv, PreviousKept
<1>2. QED
  BY <1>1, Invariant, PTL

\* The helper ends with the version it announced (apply.go:190-217).
THEOREM EndsWithItsVersion == Spec => []EndsAsAnnounced
<1>1. IInv => EndsAsAnnounced
  BY DEF IInv, EndsAsAnnounced, Files, Undone
<1>2. QED
  BY <1>1, Invariant, PTL
===============================================================================
