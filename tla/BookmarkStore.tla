---------------------------- MODULE BookmarkStore ----------------------------
(***************************************************************************)
(* The bookmark file, its backup generation and the operations that load   *)
(* and save them (internal/bookmarks/storage.go), one file system call at  *)
(* a time, under the read-write lock of bookmarks.Manager.                 *)
(*                                                                         *)
(* The bookmarks themselves are abstracted to a generation number: a save  *)
(* turns the generation it loaded into the next one (what an operation     *)
(* does to the bookmarks is module Bookmarks).  GetBookmarks and           *)
(* ExportData load under the read lock, and a load that finds the primary  *)
(* unusable writes the backup over it, so two readers may write at once.   *)
(*                                                                         *)
(* A definition whose comment begins with "Fault:" is a seeded fault: no   *)
(* behaviour of Spec uses it, it shows which mistake a property rules out. *)
(***************************************************************************)
EXTENDS Naturals, FiniteSets

CONSTANTS
    Threads,       \* HTTP handlers that use the store
    SharedDelete,  \* TRUE: an open file can be unlinked and renamed (POSIX);
                   \* FALSE: that fails (Windows, where Go opens files that way)
    DamageKinds,   \* what may happen to the primary from outside
    FaultKinds,    \* which file system calls may fail: "read", "write", "rename"
    MaxGen, MaxDamages, MaxFaults, MaxCrashes  \* bounds for model checking

ASSUME ThreadsAssumption == IsFiniteSet(Threads) /\ SharedDelete \in BOOLEAN
ASSUME KindsAssumption ==
    DamageKinds \subseteq {"empty", "corrupt", "foreign", "missing"}
    /\ FaultKinds \subseteq {"read", "write", "rename"}
ASSUME BoundsAssumption ==
    MaxGen \in Nat /\ MaxDamages \in Nat /\ MaxFaults \in Nat /\ MaxCrashes \in Nat

Names == {"primary", "backup", "primary.tmp", "backup.tmp"}

\* a file: absent, without a byte, not JSON, JSON of another shape, bookmarks
Content == [kind : {"missing", "empty", "corrupt", "foreign", "data"}, gen : Nat]
File(kind) == [kind |-> kind, gen |-> 0]
Missing == File("missing")
Data(g) == [kind |-> "data", gen |-> g]

\* the call of writeAtomic that is being made: loadUnlocked's repair of the
\* primary, saveUnlocked's backup, saveUnlocked's replacement of the primary
Phases == {"none", "recover", "backup", "replace"}
Target(phase) == IF phase = "backup" THEN "backup" ELSE "primary"
Temp(phase)   == IF phase = "backup" THEN "backup.tmp" ELSE "primary.tmp"

VARIABLES
    content,   \* of every name in the directory
    opened,    \* the name of the file a thread writes, or "none", or "orphan"
               \* when the name was unlinked or replaced under it
    th,        \* per thread: operation, program point, loaded generation, payload
    acked,     \* the newest generation a caller was told is saved
    damages, faults, crashes

vars == <<content, opened, th, acked, damages, faults, crashes>>

ThreadState ==
    [op : {"none", "get", "save"},
     pc : {"idle", "load", "loadBackup", "loaded", "removeStale", "create", "write", "close",
           "rename", "removeTarget", "renameAgain"},
     phase : Phases, view : Nat, payload : Content]

Idle == [op |-> "none", pc |-> "idle", phase |-> "none", view |-> 0, payload |-> Missing]

TypeOK ==
    /\ content \in [Names -> Content]
    /\ opened \in [Threads -> Names \cup {"none", "orphan"}]
    /\ \A t \in Threads : opened[t] # "none" => th[t].pc \in {"write", "close"}
    /\ th \in [Threads -> ThreadState]
    /\ acked \in Nat
    /\ damages \in 0 .. MaxDamages /\ faults \in 0 .. MaxFaults /\ crashes \in 0 .. MaxCrashes

Init ==
    /\ content = [n \in Names |-> Missing]
    /\ opened = [t \in Threads |-> "none"]
    /\ th = [t \in Threads |-> Idle]
    /\ acked = 0 /\ damages = 0 /\ faults = 0 /\ crashes = 0

-------------------------------------------------------------------------------
(* Files *)

\* readBookmarkFile: a file without content is an empty set of bookmarks
Decodes(c) == c.kind \in {"empty", "data"}

\* Fault: whatever could be read is worth a backup
ReadableIsEnough(c) == c.kind # "missing"
\* json.Valid, the guard of the backup: any JSON, none in an empty file
JsonValid(c) == c.kind \in {"foreign", "data"}

Exists(n) == content[n].kind # "missing"

\* whether the system lets thread t unlink or rename the file called n
Free(n, t) == SharedDelete \/ \A u \in Threads \ {t} : opened[u] # n

\* files open under a name that goes away keep existing without a name
Unlink(n) ==
    /\ content' = [content EXCEPT ![n] = Missing]
    /\ opened' = [u \in Threads |-> IF opened[u] = n THEN "orphan" ELSE opened[u]]

\* a file keeps being written by whoever has it open, under its new name
Move(from, to) ==
    /\ content' = [content EXCEPT ![from] = Missing, ![to] = content[from]]
    /\ opened' = [u \in Threads |-> IF opened[u] = to THEN "orphan"
                                    ELSE IF opened[u] = from THEN to ELSE opened[u]]

CanFail(kind) == kind \in FaultKinds /\ faults < MaxFaults
Fault == faults' = faults + 1
NoFault == UNCHANGED faults

Step(t, pc) == th' = [th EXCEPT ![t].pc = pc]
Finish(t) == th' = [th EXCEPT ![t] = Idle]

\* writeAtomic(Target(phase), payload) begins
StartWrite(t, phase, payload, view) ==
    th' = [th EXCEPT ![t].pc = "removeStale", ![t].phase = phase,
                     ![t].payload = payload, ![t].view = view]

-------------------------------------------------------------------------------
(* Loading, loadUnlocked *)

\* Fault: the operation starts without waiting for the lock
BeginUnlocked(t, op) ==
    /\ th[t].pc = "idle"
    /\ op = "save" => \A n \in Names : content[n].gen < MaxGen
    /\ th' = [th EXCEPT ![t] = [Idle EXCEPT !.op = op, !.pc = "load"]]
    /\ UNCHANGED <<content, opened, acked, damages, faults, crashes>>
\* GetBookmarks and ExportData take the read lock, every other operation the
\* write lock; it is held until Finish
Begin(t, op) ==
    /\ th[t].pc = "idle"
    /\ \A u \in Threads : th[u].pc = "idle" \/ (op = "get" /\ th[u].op = "get")
    /\ op = "save" => \A n \in Names : content[n].gen < MaxGen
    /\ th' = [th EXCEPT ![t] = [Idle EXCEPT !.op = op, !.pc = "load"]]
    /\ UNCHANGED <<content, opened, acked, damages, faults, crashes>>

ReadPrimary(t) ==
    /\ th[t].pc = "load"
    /\ \/ /\ Decodes(content["primary"]) /\ NoFault
          /\ th' = [th EXCEPT ![t].pc = "loaded", ![t].view = content["primary"].gen]
       \/ /\ ~Decodes(content["primary"]) /\ NoFault
          /\ Step(t, "loadBackup")
       \/ /\ CanFail("read") /\ Fault
          /\ Step(t, "loadBackup")
    /\ UNCHANGED <<content, opened, acked, damages, crashes>>

\* Fault: a missing backup is enough for an empty set
ReadBackupOrEmpty(t) ==
    /\ th[t].pc = "loadBackup"
    /\ \/ /\ Decodes(content["backup"]) /\ NoFault
          /\ StartWrite(t, "recover", content["backup"], content["backup"].gen)
       \/ /\ ~Exists("backup") /\ NoFault
          /\ th' = [th EXCEPT ![t].pc = "loaded", ![t].view = 0]
       \/ /\ ~Decodes(content["backup"]) /\ Exists("backup") /\ NoFault
          /\ Finish(t)
       \/ /\ CanFail("read") /\ Fault
          /\ Finish(t)
    /\ UNCHANGED <<content, opened, acked, damages, crashes>>
\* a usable backup is loaded and written over the primary; without one the
\* set is empty only if neither file exists, and else the load fails, as it
\* does when the backup cannot be read
ReadBackup(t) ==
    /\ th[t].pc = "loadBackup"
    /\ \/ /\ Decodes(content["backup"]) /\ NoFault
          /\ StartWrite(t, "recover", content["backup"], content["backup"].gen)
       \/ /\ ~Exists("backup") /\ ~Exists("primary") /\ NoFault
          /\ th' = [th EXCEPT ![t].pc = "loaded", ![t].view = 0]
       \/ /\ ~Decodes(content["backup"]) /\ (Exists("backup") \/ Exists("primary")) /\ NoFault
          /\ Finish(t)
       \/ /\ CanFail("read") /\ Fault
          /\ Finish(t)
    /\ UNCHANGED <<content, opened, acked, damages, crashes>>

-------------------------------------------------------------------------------
(* Saving, saveUnlocked *)

\* the next generation of what was loaded
Replacement(t) == Data(th[t].view + 1)

\* Fault: the primary is replaced without a backup of it
LoadedWithoutBackup(t) ==
    /\ th[t].pc = "loaded"
    /\ \/ Finish(t)
       \/ /\ th[t].op = "save"
          /\ StartWrite(t, "replace", Replacement(t), th[t].view)
    /\ UNCHANGED <<content, opened, acked, damages, faults, crashes>>
\* a read returns its view, as does an operation that has nothing to save (no
\* such bookmark, too much data); a save first writes the primary it finds to
\* the backup, if that can be read and is JSON, and then replaces the primary
Loaded(t) ==
    /\ th[t].pc = "loaded"
    /\ \/ Finish(t) /\ NoFault
       \/ /\ th[t].op = "save" /\ JsonValid(content["primary"]) /\ NoFault
          /\ StartWrite(t, "backup", content["primary"], th[t].view)
       \/ /\ th[t].op = "save" /\ ~JsonValid(content["primary"]) /\ NoFault
          /\ StartWrite(t, "replace", Replacement(t), th[t].view)
       \/ /\ th[t].op = "save" /\ CanFail("read") /\ Fault
          /\ StartWrite(t, "replace", Replacement(t), th[t].view)
    /\ UNCHANGED <<content, opened, acked, damages, crashes>>

-------------------------------------------------------------------------------
(* writeAtomic and replaceFile *)

\* what follows a writeAtomic that succeeded
Written(t) ==
    \/ /\ th[t].phase = "recover"
       /\ Step(t, "loaded") /\ UNCHANGED acked
    \/ /\ th[t].phase = "backup"
       /\ StartWrite(t, "replace", Replacement(t), th[t].view) /\ UNCHANGED acked
    \/ /\ th[t].phase = "replace"
       /\ Finish(t) /\ acked' = th[t].payload.gen

\* what follows one that failed: a failed repair is ignored, a failed backup
\* or replacement fails the operation
NotWritten(t) ==
    /\ IF th[t].phase = "recover" THEN Step(t, "loaded") ELSE Finish(t)
    /\ UNCHANGED acked

\* the deferred part of a failed writeAtomic: the file is closed and what is
\* then called by the temporary name is removed
Abandon(t) ==
    LET tmp == Temp(th[t].phase)
    IN  /\ content' = IF Free(tmp, t) THEN [content EXCEPT ![tmp] = Missing] ELSE content
        /\ opened' = [u \in Threads |->
                        IF u = t THEN "none"
                        ELSE IF Free(tmp, t) /\ opened[u] = tmp THEN "orphan"
                        ELSE opened[u]]
        /\ NotWritten(t)

\* os.Remove of a stale temporary file, its error ignored
RemoveStale(t) ==
    /\ th[t].pc = "removeStale"
    /\ IF Free(Temp(th[t].phase), t) THEN Unlink(Temp(th[t].phase))
                                     ELSE UNCHANGED <<content, opened>>
    /\ Step(t, "create")
    /\ UNCHANGED <<acked, damages, faults, crashes>>

\* the temporary file is created exclusively; nothing is deferred yet
CreateTemp(t) ==
    /\ th[t].pc = "create"
    /\ LET tmp == Temp(th[t].phase) IN
       \/ /\ ~Exists(tmp) /\ NoFault
          /\ content' = [content EXCEPT ![tmp] = File("empty")]
          /\ opened' = [opened EXCEPT ![t] = tmp]
          /\ Step(t, "write") /\ UNCHANGED acked
       \/ /\ \/ Exists(tmp) /\ NoFault
             \/ CanFail("write") /\ Fault
          /\ NotWritten(t)
          /\ UNCHANGED <<content, opened>>
    /\ UNCHANGED <<damages, crashes>>

\* the bytes go to the open file, whatever it is called by now
WriteTemp(t) ==
    /\ th[t].pc = "write"
    /\ \/ /\ content' = IF opened[t] \in Names
                          THEN [content EXCEPT ![opened[t]] = th[t].payload] ELSE content
          /\ Step(t, "close") /\ NoFault
          /\ UNCHANGED <<opened, acked>>
       \/ /\ CanFail("write") /\ Fault
          /\ Abandon(t)
    /\ UNCHANGED <<damages, crashes>>

\* Sync and Close
CloseTemp(t) ==
    /\ th[t].pc = "close"
    /\ \/ /\ opened' = [opened EXCEPT ![t] = "none"]
          /\ Step(t, "rename") /\ NoFault
          /\ UNCHANGED <<content, acked>>
       \/ /\ CanFail("write") /\ Fault
          /\ Abandon(t)
    /\ UNCHANGED <<damages, crashes>>

CanRename(t) == Exists(Temp(th[t].phase)) /\ Free(Temp(th[t].phase), t)
                  /\ Free(Target(th[t].phase), t)

\* replaceFile: the temporary file takes the place of the target
RenameTemp(t) ==
    /\ th[t].pc = "rename"
    /\ \/ /\ CanRename(t) /\ NoFault
          /\ Move(Temp(th[t].phase), Target(th[t].phase))
          /\ Written(t)
       \/ /\ \/ ~CanRename(t) /\ NoFault
             \/ CanFail("rename") /\ Fault
          /\ Step(t, "removeTarget")
          /\ UNCHANGED <<content, opened, acked>>
    /\ UNCHANGED <<damages, crashes>>

\* replaceFile's fallback: the target is removed (it may be missing already) ...
RemoveTarget(t) ==
    /\ th[t].pc = "removeTarget"
    /\ \/ /\ Free(Target(th[t].phase), t) /\ NoFault
          /\ Unlink(Target(th[t].phase))
          /\ Step(t, "renameAgain") /\ UNCHANGED acked
       \/ /\ \/ ~Free(Target(th[t].phase), t) /\ NoFault
             \/ CanFail("rename") /\ Fault
          /\ Abandon(t)
    /\ UNCHANGED <<damages, crashes>>

\* Fault: the fallback is repeated until the rename succeeds
RenameUntilDone(t) ==
    /\ th[t].pc = "renameAgain"
    /\ \/ /\ CanRename(t) /\ NoFault
          /\ Move(Temp(th[t].phase), Target(th[t].phase))
          /\ Written(t)
       \/ /\ \/ ~CanRename(t) /\ NoFault
             \/ CanFail("rename") /\ Fault
          /\ Step(t, "removeTarget")
          /\ UNCHANGED <<content, opened, acked>>
    /\ UNCHANGED <<damages, crashes>>
\* ... and the rename tried once more
RenameAgain(t) ==
    /\ th[t].pc = "renameAgain"
    /\ \/ /\ CanRename(t) /\ NoFault
          /\ Move(Temp(th[t].phase), Target(th[t].phase))
          /\ Written(t)
       \/ /\ \/ ~CanRename(t) /\ NoFault
             \/ CanFail("rename") /\ Fault
          /\ Abandon(t)
    /\ UNCHANGED <<damages, crashes>>

Proceed(t) ==
    \/ ReadPrimary(t) \/ ReadBackup(t) \/ Loaded(t)
    \/ RemoveStale(t) \/ CreateTemp(t) \/ WriteTemp(t) \/ CloseTemp(t)
    \/ RenameTemp(t) \/ RemoveTarget(t) \/ RenameAgain(t)

-------------------------------------------------------------------------------
(* The environment *)

\* the primary is damaged, or deleted, from outside between two operations
Damage ==
    /\ damages < MaxDamages /\ Exists("primary")
    /\ \A t \in Threads : th[t].pc = "idle"
    /\ \E kind \in DamageKinds : content' = [content EXCEPT !["primary"] = File(kind)]
    /\ damages' = damages + 1
    /\ UNCHANGED <<opened, th, acked, faults, crashes>>

\* the process is killed between two file system calls; the files stay
Crash ==
    /\ crashes < MaxCrashes
    /\ crashes' = crashes + 1
    /\ th' = [t \in Threads |-> Idle]
    /\ opened' = [t \in Threads |-> "none"]
    /\ UNCHANGED <<content, acked, damages, faults>>

Next ==
    \/ \E t \in Threads : (\E op \in {"get", "save"} : Begin(t, op)) \/ Proceed(t)
    \/ Damage \/ Crash

\* a handler that has started its operation runs on
Spec == Init /\ [][Next]_vars /\ \A t \in Threads : WF_vars(Proceed(t))

-------------------------------------------------------------------------------
(* Properties *)

\* what a load would find now
Loadable == \/ Decodes(content["primary"]) \/ Decodes(content["backup"])
            \/ ~Exists("primary") /\ ~Exists("backup")
LoadGen == IF Decodes(content["primary"]) THEN content["primary"].gen
           ELSE IF Decodes(content["backup"]) THEN content["backup"].gen ELSE 0

\* Unless a file is damaged from outside, what a caller was told is saved can
\* be loaded in every state, whatever call fails and wherever the process is
\* killed (storage.go:43-67, 114-152).
AcknowledgedSurvives == damages = 0 => Loadable /\ LoadGen >= acked

\* Bookmarks that were saved once are never taken for an empty set: a load
\* finds a generation of them or reports an error (storage.go:20-41).
NeverSilentlyEmpty ==
    acked > 0 =>
        /\ Loadable => LoadGen > 0
        /\ \A t \in Threads : th[t].pc = "loaded" => th[t].view > 0

\* Types, and: the backup always decodes, because an unusable primary is never
\* copied over it (storage.go:56-62).
BackupDecodes == Exists("backup") => Decodes(content["backup"])
WellFormed == TypeOK /\ BackupDecodes

\* What can be loaded moves on one generation at a time, each made from the
\* one before it: no save is lost to another (manager.go:40-242).
NoLostUpdate ==
    [][damages' = 0 /\ LoadGen' # LoadGen => LoadGen' = LoadGen + 1]_vars

\* Every operation ends and gives its lock back.
OperationsEnd == \A t \in Threads : th[t].pc # "idle" ~> th[t].pc = "idle"
===============================================================================
