------------------------- MODULE BookmarkStore_proofs -------------------------
(***************************************************************************)
(* Proofs about the bookmark file and its backup (BookmarkStore), for any  *)
(* number of handlers, any bounds and any place of a crash.                *)
(*                                                                         *)
(* What a call leaves in the fields of a thread and in the directory comes *)
(* first, as lemmas that the later steps cite instead of the calls'        *)
(* definitions.  Then who holds the lock, who has which file open and what *)
(* the temporary files contain; on those rest the three theorems about the *)
(* saved bookmarks.                                                        *)
(***************************************************************************)
EXTENDS BookmarkStore, TLAPS

-------------------------------------------------------------------------------
(* What a call changes                                                      *)

Points == {"idle", "load", "loadBackup", "loaded", "removeStale", "create", "write", "close",
           "rename", "removeTarget", "renameAgain"}

\* a step of a thread changes its program point only
LEMMA StepFields ==
    ASSUME th \in [Threads -> ThreadState], NEW t \in Threads, NEW pc \in Points, Step(t, pc)
    PROVE  /\ th' \in [Threads -> ThreadState]
           /\ \A u \in Threads \ {t} : th'[u] = th[u]
           /\ th'[t].pc = pc /\ th'[t].op = th[t].op /\ th'[t].phase = th[t].phase
           /\ th'[t].view = th[t].view /\ th'[t].payload = th[t].payload
  BY DEF Step, ThreadState, Points

\* the end of an operation
LEMMA FinishFields ==
    ASSUME th \in [Threads -> ThreadState], NEW t \in Threads, Finish(t)
    PROVE  /\ th' \in [Threads -> ThreadState]
           /\ \A u \in Threads \ {t} : th'[u] = th[u]
           /\ th'[t].pc = "idle" /\ th'[t].op = "none" /\ th'[t].phase = "none"
  BY DEF Finish, Idle, ThreadState, Phases, Content, Missing, File

\* the beginning of a writeAtomic
LEMMA StartWriteFields ==
    ASSUME th \in [Threads -> ThreadState], NEW t \in Threads, NEW phase \in Phases,
           NEW payload \in Content, NEW view \in Nat, StartWrite(t, phase, payload, view)
    PROVE  /\ th' \in [Threads -> ThreadState]
           /\ \A u \in Threads \ {t} : th'[u] = th[u]
           /\ th'[t].pc = "removeStale" /\ th'[t].op = th[t].op /\ th'[t].phase = phase
           /\ th'[t].view = view /\ th'[t].payload = payload
  BY DEF StartWrite, ThreadState

\* what is written is a file
LEMMA Payloads ==
    ASSUME TypeOK, NEW t \in Threads
    PROVE  /\ Replacement(t) \in Content /\ Replacement(t).kind = "data"
           /\ Replacement(t).gen = th[t].view + 1
           /\ Missing \in Content /\ Missing.kind = "missing"
           /\ File("empty") \in Content /\ File("empty").kind = "empty"
  BY DEF TypeOK, Replacement, Content, Data, Missing, File, ThreadState

\* the names of the files
LEMMA TargetNames ==
    ASSUME NEW phase
    PROVE  /\ Temp(phase) \in {"primary.tmp", "backup.tmp"} /\ Temp(phase) \in Names
           /\ Target(phase) \in {"primary", "backup"} /\ Target(phase) \in Names
           /\ Target(phase) = "backup" <=> phase = "backup"
           /\ Temp(phase) = "backup.tmp" <=> phase = "backup"
  BY DEF Temp, Target, Names

\* a name goes away
LEMMA UnlinkFields ==
    ASSUME TypeOK, NEW n \in Names, Unlink(n)
    PROVE  /\ content' \in [Names -> Content]
           /\ opened' \in [Threads -> Names \cup {"none", "orphan"}]
           /\ \A m \in Names : content'[m] = IF m = n THEN Missing ELSE content[m]
           /\ \A u \in Threads : opened'[u] = IF opened[u] = n THEN "orphan" ELSE opened[u]
  BY DEF TypeOK, Unlink, Content, Missing, File

\* a file changes its name
LEMMA MoveFields ==
    ASSUME TypeOK, NEW from \in Names, NEW to \in Names, Move(from, to), from # to
    PROVE  /\ content' \in [Names -> Content]
           /\ opened' \in [Threads -> Names \cup {"none", "orphan"}]
           /\ \A m \in Names : content'[m] = IF m = from THEN Missing
                                             ELSE IF m = to THEN content[from] ELSE content[m]
           /\ \A u \in Threads : opened'[u] = IF opened[u] = to THEN "orphan"
                                              ELSE IF opened[u] = from THEN to ELSE opened[u]
  BY DEF TypeOK, Move, Content, Missing, File

\* a writeAtomic that failed
LEMMA NotWrittenFields ==
    ASSUME TypeOK, NEW t \in Threads, NotWritten(t)
    PROVE  /\ th' \in [Threads -> ThreadState] /\ UNCHANGED acked
           /\ \A u \in Threads \ {t} : th'[u] = th[u]
           /\ \/ /\ th'[t].pc = "idle" /\ th'[t].op = "none" /\ th'[t].phase = "none"
              \/ /\ th[t].phase = "recover"
                 /\ th'[t].pc = "loaded" /\ th'[t].op = th[t].op /\ th'[t].phase = "recover"
                 /\ th'[t].view = th[t].view
  BY StepFields, FinishFields DEF NotWritten, TypeOK, Points

\* ... leaves its temporary file only where the system does not remove it
LEMMA AbandonFields ==
    ASSUME TypeOK, NEW t \in Threads, Abandon(t)
    PROVE  /\ content' \in [Names -> Content]
           /\ opened' \in [Threads -> Names \cup {"none", "orphan"}]
           /\ NotWritten(t)
           /\ \A m \in Names : content'[m] = IF m = Temp(th[t].phase) /\ Free(m, t) THEN Missing
                                             ELSE content[m]
           /\ \A u \in Threads : opened'[u] = IF u = t THEN "none"
                     ELSE IF Free(Temp(th[t].phase), t) /\ opened[u] = Temp(th[t].phase)
                     THEN "orphan"
                     ELSE opened[u]
  <1> DEFINE tmp == Temp(th[t].phase)
  <1>1. tmp \in Names
    BY TargetNames
  <1> HIDE DEF tmp
  <1>2. content' = IF Free(tmp, t) THEN [content EXCEPT ![tmp] = Missing] ELSE content
    BY DEF Abandon, tmp
  <1>3. /\ content' \in [Names -> Content]
        /\ \A m \in Names : content'[m] = IF m = tmp /\ Free(m, t) THEN Missing ELSE content[m]
    BY <1>1, <1>2, Payloads DEF TypeOK
  <1>4. QED
    BY <1>3 DEF Abandon, TypeOK, tmp

\* what follows a writeAtomic that succeeded
LEMMA WrittenFields ==
    ASSUME TypeOK, NEW t \in Threads, Written(t)
    PROVE  /\ th' \in [Threads -> ThreadState] /\ acked' \in Nat
           /\ \A u \in Threads \ {t} : th'[u] = th[u]
           /\ \/ /\ th[t].phase = "recover" /\ acked' = acked
                 /\ th'[t].pc = "loaded" /\ th'[t].op = th[t].op /\ th'[t].phase = "recover"
                 /\ th'[t].view = th[t].view
              \/ /\ th[t].phase = "backup" /\ acked' = acked
                 /\ th'[t].pc = "removeStale" /\ th'[t].op = th[t].op /\ th'[t].phase = "replace"
                 /\ th'[t].view = th[t].view /\ th'[t].payload = Replacement(t)
              \/ /\ th[t].phase = "replace" /\ acked' = th[t].payload.gen
                 /\ th'[t].pc = "idle" /\ th'[t].op = "none" /\ th'[t].phase = "none"
  <1>1. th \in [Threads -> ThreadState] /\ th[t].view \in Nat /\ th[t].payload.gen \in Nat
        /\ acked \in Nat
    BY DEF TypeOK, ThreadState, Content
  <1>2. CASE th[t].phase = "recover" /\ Step(t, "loaded") /\ UNCHANGED acked
    BY <1>1, <1>2, StepFields DEF Points
  <1>3. CASE /\ th[t].phase = "backup"
             /\ StartWrite(t, "replace", Replacement(t), th[t].view) /\ UNCHANGED acked
    BY <1>1, <1>3, StartWriteFields, Payloads DEF Phases
  <1>4. CASE th[t].phase = "replace" /\ Finish(t) /\ acked' = th[t].payload.gen
    BY <1>1, <1>4, FinishFields
  <1>5. QED
    BY <1>2, <1>3, <1>4 DEF Written

\* the beginning of an operation
LEMMA BeginFields ==
    ASSUME TypeOK, NEW t \in Threads, NEW op \in {"get", "save"}, Begin(t, op)
    PROVE  /\ th' \in [Threads -> ThreadState]
           /\ \A u \in Threads \ {t} : th'[u] = th[u]
           /\ th'[t].pc = "load" /\ th'[t].op = op /\ th'[t].phase = "none"
           /\ UNCHANGED <<content, opened, acked, damages, faults, crashes>>
  BY DEF Begin, TypeOK, Idle, ThreadState, Phases, Content, Missing, File

\* a load of the primary
LEMMA ReadPrimaryFields ==
    ASSUME TypeOK, NEW t \in Threads, ReadPrimary(t)
    PROVE  /\ th' \in [Threads -> ThreadState] /\ th[t].pc = "load"
           /\ \A u \in Threads \ {t} : th'[u] = th[u]
           /\ UNCHANGED <<content, opened, acked, damages, crashes>>
           /\ th'[t].op = th[t].op /\ th'[t].phase = th[t].phase
           /\ \/ /\ Decodes(content["primary"])
                 /\ th'[t].pc = "loaded" /\ th'[t].view = content["primary"].gen
              \/ /\ ~Decodes(content["primary"]) \/ "read" \in FaultKinds
                 /\ th'[t].pc = "loadBackup"
  <1>1. th \in [Threads -> ThreadState] /\ content["primary"].gen \in Nat
    BY DEF TypeOK, Content, Names
  <1>2. th[t].pc = "load" /\ UNCHANGED <<content, opened, acked, damages, crashes>>
    BY DEF ReadPrimary
  <1>3. CASE /\ Decodes(content["primary"])
             /\ th' = [th EXCEPT ![t].pc = "loaded", ![t].view = content["primary"].gen]
    BY <1>1, <1>2, <1>3 DEF ThreadState
  <1>4. CASE /\ ~Decodes(content["primary"]) \/ "read" \in FaultKinds
             /\ Step(t, "loadBackup")
    BY <1>1, <1>2, <1>4, StepFields DEF Points
  <1>5. QED
    BY <1>3, <1>4 DEF ReadPrimary, CanFail

\* a load of the backup
LEMMA ReadBackupFields ==
    ASSUME TypeOK, NEW t \in Threads, ReadBackup(t)
    PROVE  /\ th' \in [Threads -> ThreadState] /\ th[t].pc = "loadBackup"
           /\ \A u \in Threads \ {t} : th'[u] = th[u]
           /\ UNCHANGED <<content, opened, acked, damages, crashes>>
           /\ \/ /\ Decodes(content["backup"])
                 /\ th'[t].pc = "removeStale" /\ th'[t].op = th[t].op
                 /\ th'[t].phase = "recover" /\ th'[t].payload = content["backup"]
                 /\ th'[t].view = content["backup"].gen
              \/ /\ ~Exists("backup") /\ ~Exists("primary")
                 /\ th'[t].pc = "loaded" /\ th'[t].op = th[t].op
                 /\ th'[t].phase = th[t].phase /\ th'[t].view = 0
              \/ th'[t].pc = "idle" /\ th'[t].op = "none" /\ th'[t].phase = "none"
  <1>1. /\ th \in [Threads -> ThreadState]
        /\ content["backup"] \in Content /\ content["backup"].gen \in Nat
    BY DEF TypeOK, Content, Names
  <1>2. CASE /\ Decodes(content["backup"])
             /\ StartWrite(t, "recover", content["backup"], content["backup"].gen)
    BY <1>1, <1>2, StartWriteFields DEF Phases, ReadBackup
  <1>3. CASE /\ ~Exists("backup") /\ ~Exists("primary")
             /\ th' = [th EXCEPT ![t].pc = "loaded", ![t].view = 0]
    BY <1>1, <1>3 DEF ThreadState, ReadBackup
  <1>4. CASE Finish(t)
    BY <1>1, <1>4, FinishFields DEF ReadBackup
  <1>5. QED
    BY <1>2, <1>3, <1>4 DEF ReadBackup

\* what follows a load
LEMMA LoadedFields ==
    ASSUME TypeOK, NEW t \in Threads, Loaded(t)
    PROVE  /\ th' \in [Threads -> ThreadState] /\ th[t].pc = "loaded"
           /\ \A u \in Threads \ {t} : th'[u] = th[u]
           /\ UNCHANGED <<content, opened, acked, damages, crashes>>
           /\ \/ th'[t].pc = "idle" /\ th'[t].op = "none" /\ th'[t].phase = "none"
              \/ /\ th[t].op = "save" /\ th'[t].op = "save"
                 /\ th'[t].pc = "removeStale" /\ th'[t].view = th[t].view
                 /\ \/ /\ JsonValid(content["primary"])
                       /\ th'[t].phase = "backup" /\ th'[t].payload = content["primary"]
                    \/ /\ ~JsonValid(content["primary"]) \/ "read" \in FaultKinds
                       /\ th'[t].phase = "replace" /\ th'[t].payload = Replacement(t)
  <1>1. /\ th \in [Threads -> ThreadState] /\ th[t].view \in Nat
        /\ content["primary"] \in Content
    BY DEF TypeOK, ThreadState, Names
  <1>2. CASE Finish(t)
    BY <1>1, <1>2, FinishFields DEF Loaded
  <1>3. CASE /\ th[t].op = "save" /\ JsonValid(content["primary"])
             /\ StartWrite(t, "backup", content["primary"], th[t].view)
    BY <1>1, <1>3, StartWriteFields DEF Phases, Loaded
  <1>4. CASE /\ th[t].op = "save" /\ (~JsonValid(content["primary"]) \/ "read" \in FaultKinds)
             /\ StartWrite(t, "replace", Replacement(t), th[t].view)
    BY <1>1, <1>4, StartWriteFields, Payloads DEF Phases, Loaded
  <1>5. QED
    BY <1>2, <1>3, <1>4 DEF Loaded, CanFail

\* the bytes that are written
LEMMA WriteTempFields ==
    ASSUME TypeOK, NEW t \in Threads, WriteTemp(t)
    PROVE  /\ th[t].pc = "write" /\ UNCHANGED <<damages, crashes>>
           /\ \/ Abandon(t)
              \/ /\ Step(t, "close") /\ UNCHANGED <<opened, acked>>
                 /\ content' \in [Names -> Content]
                 /\ \A m \in Names : content'[m] = IF m = opened[t] THEN th[t].payload
                                                   ELSE content[m]
  <1>1. th[t].payload \in Content
    BY DEF TypeOK, ThreadState
  <1>2. QED
    BY <1>1 DEF WriteTemp, TypeOK, Names

-------------------------------------------------------------------------------
(* The parts of the invariants                                              *)

\* the program points inside writeAtomic, and its temporary file
Writing == {"removeStale", "create", "write", "close", "rename", "removeTarget", "renameAgain"}
Mine(t) == Temp(th[t].phase)

\* Only readers overlap, and a reader writes only to repair the primary.
LockHeld ==
    /\ \A t \in Threads : th[t].pc = "idle" <=> th[t].op = "none"
    /\ \A t, u \in Threads :
          th[t].pc # "idle" /\ th[u].pc # "idle" /\ t # u => th[t].op = "get" /\ th[u].op = "get"
    /\ \A t \in Threads :
          /\ th[t].pc \in Writing => th[t].phase # "none"
          /\ th[t].phase \in {"backup", "replace"} => th[t].op = "save" /\ th[t].pc \in Writing

PayloadsAreFiles == \A t \in Threads : th[t].pc \in Writing => th[t].payload.kind # "missing"

\* A file is open to the thread that created it, alone and under its own name.
OpenedOnce ==
    /\ \A t \in Threads : opened[t] # "none" => opened[t] \in Names /\ Exists(opened[t])
    /\ \A t \in Threads : th[t].pc \in {"write", "close"} => opened[t] = Mine(t)
    /\ \A t \in Threads : th[t].pc \notin {"write", "close"} => opened[t] = "none"
    /\ \A t, u \in Threads : opened[t] # "none" /\ opened[t] = opened[u] => t = u

\* What a thread writes is what the file it copies still holds.
PayloadsAreCurrent ==
    \A t \in Threads : th[t].pc \in Writing =>
        /\ th[t].phase = "recover" =>
              th[t].payload = content["backup"] /\ Decodes(content["backup"])
        /\ th[t].phase = "backup" =>
              th[t].payload = content["primary"] /\ JsonValid(content["primary"])
        /\ th[t].phase = "replace" => th[t].payload = Replacement(t)

\* Whoever wrote a temporary file, when nobody is about to write it there is
\* nothing in it but the payload of each thread that may rename it.
Unwritten(n) == \E u \in Threads : opened[u] = n /\ th[u].pc = "write"
TempsAreWhole ==
    \A t \in Threads : th[t].pc \in Writing \ {"removeStale"} =>
        \/ content[Mine(t)] \in {Missing, th[t].payload}
        \/ Unwritten(Mine(t))
Closed == \A t \in Threads : th[t].pc = "close" => content[Mine(t)] = th[t].payload

\* No file but the primary is ever damaged, and the damage is not copied.
BackupIsSound ==
    /\ \A n \in Names : /\ content[n].kind # "foreign"
                        /\ n # "primary" => content[n].kind # "corrupt"
    /\ \A t \in Threads : th[t].pc \in Writing => th[t].payload.kind \notin {"foreign", "corrupt"}

\* Without damage there are only bookmarks, in every operation the generation
\* that would be loaded is the one that was, and the primary is exposed only
\* when the backup holds the same.
BackedUp == ~Exists("primary") \/ content["primary"] = content["backup"]
SavedIsThere == damages = 0 =>
    /\ content["primary"].kind \in {"missing", "data"}
    /\ content["backup"].kind \in {"missing", "data"}
    /\ LoadGen >= acked
    /\ \A t \in Threads :
         /\ th[t].pc \notin {"idle", "load", "loadBackup"} => th[t].view = LoadGen
         /\ th[t].pc = "loadBackup" => BackedUp
         /\ th[t].pc \in Writing /\ th[t].phase \in {"recover", "replace"} => BackedUp

\* Once there were bookmarks one of the files is there, neither is empty, and no
\* operation goes on from an empty set.
NonEmpty(c) == c.kind # "empty" /\ (c.kind = "data" => c.gen > 0)
SavedIsNotEmpty ==
    /\ NonEmpty(content["primary"]) /\ NonEmpty(content["backup"])
    /\ acked > 0 => Exists("primary") \/ Exists("backup")
    /\ \A t \in Threads :
         acked > 0 /\ th[t].pc \notin {"idle", "load", "loadBackup"} =>
            /\ th[t].view > 0
            /\ th[t].phase = "replace" => Exists("backup")
            /\ th[t].pc = "loaded" => JsonValid(content["primary"]) \/ Exists("backup")

-------------------------------------------------------------------------------
(* Types                                                                    *)

\* the counts of what went wrong
LEMMA CountsStep ==
    ASSUME TypeOK, [Next]_vars
    PROVE  /\ damages' \in 0 .. MaxDamages /\ faults' \in 0 .. MaxFaults
           /\ crashes' \in 0 .. MaxCrashes /\ damages' \in {damages, damages + 1}
  <1>1. ASSUME NEW t \in Threads, Proceed(t) \/ (\E op \in {"get", "save"} : Begin(t, op))
        PROVE  /\ UNCHANGED <<damages, crashes>>
               /\ faults' = faults \/ (faults < MaxFaults /\ faults' = faults + 1)
    BY <1>1 DEF Proceed, Begin, ReadPrimary, ReadBackup, Loaded, RemoveStale, CreateTemp, WriteTemp,
        CloseTemp, RenameTemp, RemoveTarget, RenameAgain, NoFault, Fault, CanFail
  <1>2. /\ faults' = faults \/ (faults < MaxFaults /\ faults' = faults + 1)
        /\ damages' = damages \/ (damages < MaxDamages /\ damages' = damages + 1)
        /\ crashes' = crashes \/ (crashes < MaxCrashes /\ crashes' = crashes + 1)
    BY <1>1 DEF Next, Damage, Crash, vars
  <1>3. QED
    BY <1>2, BoundsAssumption DEF TypeOK

ThreadsTyped ==
    /\ content \in [Names -> Content]
    /\ opened \in [Threads -> Names \cup {"none", "orphan"}]
    /\ \A t \in Threads : opened[t] # "none" => th[t].pc \in {"write", "close"}
    /\ th \in [Threads -> ThreadState]
    /\ acked \in Nat

\* the counts apart
LEMMA TypesApart ==
    TypeOK <=> /\ ThreadsTyped
               /\ damages \in 0 .. MaxDamages /\ faults \in 0 .. MaxFaults
               /\ crashes \in 0 .. MaxCrashes
  BY DEF TypeOK, ThreadsTyped

\* every step keeps the types of the files and the threads
LEMMA ThreadsTypedStep ==
    ASSUME TypeOK, ThreadsTyped, [Next]_vars
    PROVE  ThreadsTyped'
  <1> USE DEF ThreadsTyped
  <1>1. ASSUME NEW t \in Threads, NEW op \in {"get", "save"}, Begin(t, op) PROVE ThreadsTyped'
    BY <1>1, BeginFields DEF Begin
  <1>2. ASSUME NEW t \in Threads, ReadPrimary(t) PROVE ThreadsTyped'
    BY <1>2, ReadPrimaryFields
  <1>3. ASSUME NEW t \in Threads, ReadBackup(t) PROVE ThreadsTyped'
    BY <1>3, ReadBackupFields
  <1>4. ASSUME NEW t \in Threads, Loaded(t) PROVE ThreadsTyped'
    BY <1>4, LoadedFields, Payloads
  <1>5. ASSUME NEW t \in Threads, RemoveStale(t) PROVE ThreadsTyped'
    BY <1>5, StepFields, UnlinkFields, Payloads, TargetNames DEF Points, RemoveStale
  <1>6. ASSUME NEW t \in Threads, CreateTemp(t) PROVE ThreadsTyped'
    BY <1>6, StepFields, NotWrittenFields, TargetNames, Payloads DEF Points, CreateTemp, Exists,
       NoFault, Fault, CanFail
  <1>7. ASSUME NEW t \in Threads, WriteTemp(t) PROVE ThreadsTyped'
    BY <1>7, WriteTempFields, StepFields, AbandonFields, Payloads, NotWrittenFields,
       TargetNames DEF Points
  <1>8. ASSUME NEW t \in Threads, CloseTemp(t) PROVE ThreadsTyped'
    BY <1>8, StepFields, AbandonFields, Payloads, NotWrittenFields, TargetNames DEF Points,
       CloseTemp, NoFault, Fault, CanFail
  <1>9. ASSUME NEW t \in Threads, RenameTemp(t) PROVE ThreadsTyped'
    BY <1>9, StepFields, MoveFields, WrittenFields, Payloads, TargetNames DEF Points, RenameTemp,
       CanRename, NoFault, Fault, CanFail
  <1>10. ASSUME NEW t \in Threads, RemoveTarget(t) PROVE ThreadsTyped'
    BY <1>10, StepFields, UnlinkFields, AbandonFields, Payloads, NotWrittenFields,
       TargetNames DEF Points, RemoveTarget, NoFault, Fault, CanFail
  <1>11. ASSUME NEW t \in Threads, RenameAgain(t) PROVE ThreadsTyped'
    BY <1>11, MoveFields, WrittenFields, AbandonFields, Payloads, NotWrittenFields,
       TargetNames DEF Points, RenameAgain, CanRename, NoFault, Fault, CanFail
  <1>12. CASE Damage
    <2>1. PICK kind \in DamageKinds : content' = [content EXCEPT !["primary"] = File(kind)]
      BY <1>12 DEF Damage
    <2>2. File(kind) \in Content
      BY KindsAssumption DEF File, Content
    <2>3. QED
      BY <1>12, <2>1, <2>2 DEF Damage
  <1>13. CASE Crash
    <2>1. Idle \in ThreadState
      BY DEF Idle, ThreadState, Phases, Content, Missing, File
    <2>2. QED
      BY <1>13, <2>1 DEF Crash
  <1>14. CASE UNCHANGED vars
    BY <1>14 DEF vars
  <1>15. QED
    BY <1>1, <1>2, <1>3, <1>4, <1>5, <1>6, <1>7, <1>8, <1>9, <1>10, <1>11, <1>12, <1>13,
       <1>14 DEF Next, Proceed

\* every step keeps the types
LEMMA TypesStep == TypeOK /\ [Next]_vars => TypeOK'
  <1> SUFFICES ASSUME TypeOK, [Next]_vars PROVE TypeOK'
    OBVIOUS
  <1>1. ThreadsTyped'
    BY ThreadsTypedStep, TypesApart
  <1>2. QED
    BY <1>1, CountsStep DEF TypeOK, ThreadsTyped

-------------------------------------------------------------------------------
(* Steps                                                                    *)

\* only readers overlap: every step keeps that
LEMMA LockStep ==
    ASSUME TypeOK, ThreadsTyped, LockHeld, [Next]_vars
    PROVE  LockHeld'
  <1> USE DEF ThreadsTyped, LockHeld, Writing
  <1>1. ASSUME NEW t \in Threads, NEW op \in {"get", "save"}, Begin(t, op) PROVE LockHeld'
    <2>1. /\ th[t].pc = "idle"
          /\ \A u \in Threads : th[u].pc = "idle" \/ (op = "get" /\ th[u].op = "get")
      BY <1>1 DEF Begin
    <2>2. QED
      BY <1>1, <2>1, BeginFields
  <1>2. ASSUME NEW t \in Threads, ReadPrimary(t) PROVE LockHeld'
    BY <1>2, ReadPrimaryFields
  <1>3. ASSUME NEW t \in Threads, ReadBackup(t) PROVE LockHeld'
    BY <1>3, ReadBackupFields
  <1>4. ASSUME NEW t \in Threads, Loaded(t) PROVE LockHeld'
    BY <1>4, LoadedFields, Payloads
  <1>5. ASSUME NEW t \in Threads, RemoveStale(t) PROVE LockHeld'
    BY <1>5, StepFields, UnlinkFields, Payloads, TargetNames DEF Points, RemoveStale
  <1>6. ASSUME NEW t \in Threads, CreateTemp(t) PROVE LockHeld'
    BY <1>6, StepFields, NotWrittenFields, TargetNames, Payloads DEF Points, CreateTemp, Exists,
       NoFault, Fault, CanFail
  <1>7. ASSUME NEW t \in Threads, WriteTemp(t) PROVE LockHeld'
    BY <1>7, WriteTempFields, StepFields, AbandonFields, Payloads, NotWrittenFields,
       TargetNames DEF Points
  <1>8. ASSUME NEW t \in Threads, CloseTemp(t) PROVE LockHeld'
    BY <1>8, StepFields, AbandonFields, Payloads, NotWrittenFields, TargetNames DEF Points,
       CloseTemp, NoFault, Fault, CanFail
  <1>9. ASSUME NEW t \in Threads, RenameTemp(t) PROVE LockHeld'
    BY <1>9, StepFields, WrittenFields DEF Points, RenameTemp
  <1>10. ASSUME NEW t \in Threads, RemoveTarget(t) PROVE LockHeld'
    BY <1>10, StepFields, UnlinkFields, AbandonFields, Payloads, NotWrittenFields,
       TargetNames DEF Points, RemoveTarget, NoFault, Fault, CanFail
  <1>11. ASSUME NEW t \in Threads, RenameAgain(t) PROVE LockHeld'
    BY <1>11, MoveFields, WrittenFields, AbandonFields, Payloads, NotWrittenFields,
       TargetNames DEF Points, RenameAgain, CanRename, NoFault, Fault, CanFail
  <1>12. CASE Damage
    BY <1>12 DEF Damage
  <1>13. CASE Crash
    BY <1>13 DEF Crash, Idle
  <1>14. CASE UNCHANGED vars
    BY <1>14 DEF vars
  <1>15. QED
    BY <1>1, <1>2, <1>3, <1>4, <1>5, <1>6, <1>7, <1>8, <1>9, <1>10, <1>11, <1>12, <1>13,
       <1>14 DEF Next, Proceed

\* what is written is a file
LEMMA FilesStep ==
    ASSUME TypeOK, ThreadsTyped, PayloadsAreFiles, [Next]_vars
    PROVE  PayloadsAreFiles'
  <1> USE DEF ThreadsTyped, Writing, Names, PayloadsAreFiles, Decodes, JsonValid
  <1>1. ASSUME NEW t \in Threads, NEW op \in {"get", "save"}, Begin(t, op) PROVE PayloadsAreFiles'
    BY <1>1, BeginFields DEF Begin
  <1>2. ASSUME NEW t \in Threads, ReadPrimary(t) PROVE PayloadsAreFiles'
    BY <1>2, ReadPrimaryFields
  <1>3. ASSUME NEW t \in Threads, ReadBackup(t) PROVE PayloadsAreFiles'
    BY <1>3, ReadBackupFields
  <1>4. ASSUME NEW t \in Threads, Loaded(t) PROVE PayloadsAreFiles'
    BY <1>4, LoadedFields, Payloads
  <1>5. ASSUME NEW t \in Threads, RemoveStale(t) PROVE PayloadsAreFiles'
    BY <1>5, StepFields, UnlinkFields, Payloads, TargetNames DEF Points, RemoveStale
  <1>6. ASSUME NEW t \in Threads, CreateTemp(t) PROVE PayloadsAreFiles'
    BY <1>6, StepFields, NotWrittenFields, TargetNames, Payloads DEF Points, CreateTemp, Exists,
       NoFault, Fault, CanFail
  <1>7. ASSUME NEW t \in Threads, WriteTemp(t) PROVE PayloadsAreFiles'
    BY <1>7, WriteTempFields, StepFields, AbandonFields, Payloads, NotWrittenFields,
       TargetNames DEF Points
  <1>8. ASSUME NEW t \in Threads, CloseTemp(t) PROVE PayloadsAreFiles'
    BY <1>8, StepFields, AbandonFields, Payloads, NotWrittenFields, TargetNames DEF Points,
       CloseTemp, NoFault, Fault, CanFail
  <1>9. ASSUME NEW t \in Threads, RenameTemp(t) PROVE PayloadsAreFiles'
    BY <1>9, StepFields, MoveFields, WrittenFields, Payloads, TargetNames DEF Points, RenameTemp,
       CanRename, NoFault, Fault, CanFail
  <1>10. ASSUME NEW t \in Threads, RemoveTarget(t) PROVE PayloadsAreFiles'
    BY <1>10, StepFields, UnlinkFields, AbandonFields, Payloads, NotWrittenFields,
       TargetNames DEF Points, RemoveTarget, NoFault, Fault, CanFail
  <1>11. ASSUME NEW t \in Threads, RenameAgain(t) PROVE PayloadsAreFiles'
    BY <1>11, MoveFields, WrittenFields, AbandonFields, Payloads, NotWrittenFields,
       TargetNames DEF Points, RenameAgain, CanRename, NoFault, Fault, CanFail
  <1>12. CASE Damage
    BY <1>12 DEF Damage
  <1>13. CASE Crash
    BY <1>13 DEF Crash, Idle, Missing, File
  <1>14. CASE UNCHANGED vars
    BY <1>14 DEF vars
  <1>15. QED
    BY <1>1, <1>2, <1>3, <1>4, <1>5, <1>6, <1>7, <1>8, <1>9, <1>10, <1>11, <1>12, <1>13,
       <1>14 DEF Next, Proceed

\* every step keeps damage in the primary
LEMMA SoundStep ==
    ASSUME TypeOK, ThreadsTyped, "foreign" \notin DamageKinds, BackupIsSound, [Next]_vars
    PROVE  BackupIsSound'
  <1> USE DEF ThreadsTyped, Writing, Names, BackupIsSound, Decodes, JsonValid
  <1>1. ASSUME NEW t \in Threads, NEW op \in {"get", "save"}, Begin(t, op) PROVE BackupIsSound'
    BY <1>1, BeginFields DEF Begin
  <1>2. ASSUME NEW t \in Threads, ReadPrimary(t) PROVE BackupIsSound'
    BY <1>2, ReadPrimaryFields
  <1>3. ASSUME NEW t \in Threads, ReadBackup(t) PROVE BackupIsSound'
    BY <1>3, ReadBackupFields
  <1>4. ASSUME NEW t \in Threads, Loaded(t) PROVE BackupIsSound'
    BY <1>4, LoadedFields, Payloads
  <1>5. ASSUME NEW t \in Threads, RemoveStale(t) PROVE BackupIsSound'
    BY <1>5, StepFields, UnlinkFields, Payloads, TargetNames DEF Points, RemoveStale
  <1>6. ASSUME NEW t \in Threads, CreateTemp(t) PROVE BackupIsSound'
    BY <1>6, StepFields, NotWrittenFields, TargetNames, Payloads DEF Points, CreateTemp, Exists,
       NoFault, Fault, CanFail
  <1>7. ASSUME NEW t \in Threads, WriteTemp(t) PROVE BackupIsSound'
    BY <1>7, WriteTempFields, StepFields, AbandonFields, Payloads, NotWrittenFields,
       TargetNames DEF Points
  <1>8. ASSUME NEW t \in Threads, CloseTemp(t) PROVE BackupIsSound'
    BY <1>8, StepFields, AbandonFields, Payloads, NotWrittenFields, TargetNames DEF Points,
       CloseTemp, NoFault, Fault, CanFail
  <1>9. ASSUME NEW t \in Threads, RenameTemp(t) PROVE BackupIsSound'
    BY <1>9, StepFields, MoveFields, WrittenFields, Payloads, TargetNames DEF Points, RenameTemp,
       CanRename, NoFault, Fault, CanFail
  <1>10. ASSUME NEW t \in Threads, RemoveTarget(t) PROVE BackupIsSound'
    BY <1>10, StepFields, UnlinkFields, AbandonFields, Payloads, NotWrittenFields,
       TargetNames DEF Points, RemoveTarget, NoFault, Fault, CanFail
  <1>11. ASSUME NEW t \in Threads, RenameAgain(t) PROVE BackupIsSound'
    BY <1>11, MoveFields, WrittenFields, AbandonFields, Payloads, NotWrittenFields,
       TargetNames DEF Points, RenameAgain, CanRename, NoFault, Fault, CanFail
  <1>12. CASE Damage
    <2>1. PICK kind \in DamageKinds : content' = [content EXCEPT !["primary"] = File(kind)]
      BY <1>12 DEF Damage
    <2>2. kind # "foreign" /\ File(kind).kind = kind
      BY DEF File
    <2>3. QED
      BY <1>12, <2>1, <2>2 DEF Damage
  <1>13. CASE Crash
    BY <1>13 DEF Crash, Idle, Missing, File
  <1>14. CASE UNCHANGED vars
    BY <1>14 DEF vars
  <1>15. QED
    BY <1>1, <1>2, <1>3, <1>4, <1>5, <1>6, <1>7, <1>8, <1>9, <1>10, <1>11, <1>12, <1>13,
       <1>14 DEF Next, Proceed

\* where an open file keeps its name, it stays the file of its thread
LEMMA OpenedStep ==
    ASSUME TypeOK, ThreadsTyped, ~SharedDelete, PayloadsAreFiles, OpenedOnce, [Next]_vars
    PROVE  OpenedOnce'
  <1> USE DEF ThreadsTyped, Writing, Names, PayloadsAreFiles, OpenedOnce, Free, Exists, Mine
  <1>1. ASSUME NEW t \in Threads, NEW op \in {"get", "save"}, Begin(t, op) PROVE OpenedOnce'
    BY <1>1, BeginFields DEF Begin
  <1>2. ASSUME NEW t \in Threads, ReadPrimary(t) PROVE OpenedOnce'
    BY <1>2, ReadPrimaryFields
  <1>3. ASSUME NEW t \in Threads, ReadBackup(t) PROVE OpenedOnce'
    BY <1>3, ReadBackupFields
  <1>4. ASSUME NEW t \in Threads, Loaded(t) PROVE OpenedOnce'
    BY <1>4, LoadedFields, Payloads
  <1>5. ASSUME NEW t \in Threads, RemoveStale(t) PROVE OpenedOnce'
    BY <1>5, StepFields, UnlinkFields, Payloads, TargetNames DEF Points, RemoveStale
  <1>6. ASSUME NEW t \in Threads, CreateTemp(t) PROVE OpenedOnce'
    BY <1>6, StepFields, NotWrittenFields, TargetNames, Payloads DEF Points, CreateTemp, Exists,
       NoFault, Fault, CanFail
  <1>7. ASSUME NEW t \in Threads, WriteTemp(t) PROVE OpenedOnce'
    BY <1>7, WriteTempFields, StepFields, AbandonFields, Payloads, NotWrittenFields,
       TargetNames DEF Points
  <1>8. ASSUME NEW t \in Threads, CloseTemp(t) PROVE OpenedOnce'
    BY <1>8, StepFields, AbandonFields, Payloads, NotWrittenFields, TargetNames DEF Points,
       CloseTemp, NoFault, Fault, CanFail
  <1>9. ASSUME NEW t \in Threads, RenameTemp(t) PROVE OpenedOnce'
    BY <1>9, StepFields, MoveFields, WrittenFields, Payloads, TargetNames DEF Points, RenameTemp,
       CanRename, NoFault, Fault, CanFail
  <1>10. ASSUME NEW t \in Threads, RemoveTarget(t) PROVE OpenedOnce'
    BY <1>10, StepFields, UnlinkFields, AbandonFields, Payloads, NotWrittenFields,
       TargetNames DEF Points, RemoveTarget, NoFault, Fault, CanFail
  <1>11. ASSUME NEW t \in Threads, RenameAgain(t) PROVE OpenedOnce'
    BY <1>11, MoveFields, WrittenFields, AbandonFields, Payloads, NotWrittenFields,
       TargetNames DEF Points, RenameAgain, CanRename, NoFault, Fault, CanFail
  <1>12. CASE Damage
    BY <1>12 DEF Damage
  <1>13. CASE Crash
    BY <1>13 DEF Crash, Idle, Missing, File
  <1>14. CASE UNCHANGED vars
    BY <1>14 DEF vars
  <1>15. QED
    BY <1>1, <1>2, <1>3, <1>4, <1>5, <1>6, <1>7, <1>8, <1>9, <1>10, <1>11, <1>12, <1>13,
       <1>14 DEF Next, Proceed

\* there, what is written stays what the copied file holds
LEMMA PayloadsStep ==
    ASSUME TypeOK, ThreadsTyped, ~SharedDelete, LockHeld, OpenedOnce, PayloadsAreCurrent, Closed,
           TempsAreWhole, [Next]_vars
    PROVE  PayloadsAreCurrent'
  <1> USE DEF ThreadsTyped, Writing, Names, LockHeld, OpenedOnce, PayloadsAreCurrent, Mine,
          Replacement
  <1>1. ASSUME NEW t \in Threads, NEW op \in {"get", "save"}, Begin(t, op) PROVE PayloadsAreCurrent'
    BY <1>1, BeginFields DEF Begin
  <1>2. ASSUME NEW t \in Threads, ReadPrimary(t) PROVE PayloadsAreCurrent'
    BY <1>2, ReadPrimaryFields
  <1>3. ASSUME NEW t \in Threads, ReadBackup(t) PROVE PayloadsAreCurrent'
    BY <1>3, ReadBackupFields
  <1>4. ASSUME NEW t \in Threads, Loaded(t) PROVE PayloadsAreCurrent'
    BY <1>4, LoadedFields, Payloads
  <1>5. ASSUME NEW t \in Threads, RemoveStale(t) PROVE PayloadsAreCurrent'
    BY <1>5, StepFields, UnlinkFields, Payloads, TargetNames DEF Points, RemoveStale
  <1>6. ASSUME NEW t \in Threads, CreateTemp(t) PROVE PayloadsAreCurrent'
    BY <1>6, StepFields, NotWrittenFields, TargetNames, Payloads DEF Points, CreateTemp, Exists,
       NoFault, Fault, CanFail
  <1>7. ASSUME NEW t \in Threads, WriteTemp(t) PROVE PayloadsAreCurrent'
    BY <1>7, WriteTempFields, StepFields, AbandonFields, Payloads, NotWrittenFields,
       TargetNames DEF Points
  <1>8. ASSUME NEW t \in Threads, CloseTemp(t) PROVE PayloadsAreCurrent'
    BY <1>8, StepFields, AbandonFields, Payloads, NotWrittenFields, TargetNames DEF Points,
       CloseTemp, NoFault, Fault, CanFail
  <1>9. ASSUME NEW t \in Threads, RenameTemp(t) PROVE PayloadsAreCurrent'
    BY <1>9, StepFields, MoveFields, WrittenFields, Payloads, TargetNames DEF Points, RenameTemp,
       CanRename, NoFault, Fault, CanFail
  <1>10. ASSUME NEW t \in Threads, RemoveTarget(t) PROVE PayloadsAreCurrent'
    BY <1>10, StepFields, UnlinkFields, AbandonFields, Payloads, NotWrittenFields,
       TargetNames DEF Points, RemoveTarget, NoFault, Fault, CanFail
  <1>11. ASSUME NEW t \in Threads, RenameAgain(t) PROVE PayloadsAreCurrent'
    BY <1>11, MoveFields, WrittenFields, AbandonFields, Payloads, NotWrittenFields,
       TargetNames DEF Points, RenameAgain, CanRename, NoFault, Fault, CanFail
  <1>12. CASE Damage
    BY <1>12 DEF Damage
  <1>13. CASE Crash
    BY <1>13 DEF Crash, Idle, Missing, File
  <1>14. CASE UNCHANGED vars
    BY <1>14 DEF vars
  <1>15. QED
    BY <1>1, <1>2, <1>3, <1>4, <1>5, <1>6, <1>7, <1>8, <1>9, <1>10, <1>11, <1>12, <1>13,
       <1>14 DEF Next, Proceed

\* two threads that write do the same repair
LEMMA OnePayload ==
    ASSUME TypeOK, LockHeld, PayloadsAreCurrent, NEW t \in Threads, NEW u \in Threads,
           th[t].pc \in Writing, th[u].pc \in Writing
    PROVE  th[t].payload = th[u].payload
  <1>1. th[t].phase \in Phases /\ th[u].phase \in Phases
    BY DEF TypeOK, ThreadState
  <1>2. QED
    BY <1>1 DEF LockHeld, PayloadsAreCurrent, Writing, Phases

\* there, a temporary file that may be renamed is whole or missing
LEMMA TempsStep ==
    ASSUME TypeOK, ThreadsTyped, ~SharedDelete, LockHeld, OpenedOnce, PayloadsAreCurrent, Closed,
           TempsAreWhole, [Next]_vars
    PROVE  TempsAreWhole'
  <1> USE DEF ThreadsTyped, Writing, Names, LockHeld, OpenedOnce, PayloadsAreCurrent, Mine,
          TempsAreWhole, Closed, Unwritten, Free
  <1>1. ASSUME NEW t \in Threads, NEW op \in {"get", "save"}, Begin(t, op) PROVE TempsAreWhole'
    BY <1>1, BeginFields DEF Begin
  <1>2. ASSUME NEW t \in Threads, ReadPrimary(t) PROVE TempsAreWhole'
    BY <1>2, ReadPrimaryFields
  <1>3. ASSUME NEW t \in Threads, ReadBackup(t) PROVE TempsAreWhole'
    BY <1>3, ReadBackupFields
  <1>4. ASSUME NEW t \in Threads, Loaded(t) PROVE TempsAreWhole'
    BY <1>4, LoadedFields, Payloads
  <1>5. ASSUME NEW t \in Threads, RemoveStale(t) PROVE TempsAreWhole'
    <2>1. th[t].pc = "removeStale" /\ Step(t, "create")
      BY <1>5 DEF RemoveStale
    <2>2. CASE Free(Mine(t), t) /\ Unlink(Mine(t))
      BY <2>1, <2>2, StepFields, UnlinkFields, Payloads, TargetNames DEF Points
    <2>3. CASE ~Free(Mine(t), t) /\ UNCHANGED <<content, opened>>
      <3>1. PICK u \in Threads \ {t} : opened[u] = Mine(t)
        BY <2>3
      <3>2. th[u].pc \in {"write", "close"} /\ Mine(u) = Mine(t)
        BY <3>1, TargetNames
      <3>3. th[u].payload = th[t].payload
        BY <2>1, <3>2, OnePayload
      <3>4. content'[Mine(t)] = th[t].payload \/ Unwritten(Mine(t))'
        BY <2>1, <2>3, <3>1, <3>2, <3>3, StepFields DEF Points
      <3>5. th'[t].payload = th[t].payload /\ Mine(t)' = Mine(t)
        BY <2>1, StepFields DEF Points
      <3>6. ASSUME NEW v \in Threads \ {t}
            PROVE  /\ th'[v] = th[v] /\ Mine(v)' = Mine(v)
                   /\ Unwritten(Mine(v)) => Unwritten(Mine(v))'
        BY <2>1, <2>3, StepFields DEF Points
      <3>7. QED
        BY <2>3, <3>4, <3>5, <3>6
    <2>4. QED
      BY <1>5, <2>2, <2>3 DEF RemoveStale, Mine
  <1>6. ASSUME NEW t \in Threads, CreateTemp(t) PROVE TempsAreWhole'
    BY <1>6, StepFields, NotWrittenFields, TargetNames, Payloads DEF Points, CreateTemp, Exists,
       NoFault, Fault, CanFail
  <1>7. ASSUME NEW t \in Threads, WriteTemp(t) PROVE TempsAreWhole'
    <2>1. CASE Abandon(t)
      BY <1>7, <2>1, WriteTempFields, AbandonFields, Payloads, NotWrittenFields, TargetNames
    <2>2. CASE /\ Step(t, "close") /\ UNCHANGED opened
               /\ \A m \in Names : content'[m] = IF m = opened[t] THEN th[t].payload ELSE content[m]
      <3>1. th[t].pc = "write" /\ opened[t] = Mine(t) /\ Mine(t) \in Names
        BY <1>7, WriteTempFields, TargetNames
      <3>2. ASSUME NEW v \in Threads, th'[v].pc \in Writing \ {"removeStale"}
            PROVE  content'[Mine(v)'] \in {Missing, th'[v].payload} \/ Unwritten(Mine(v))'
        <4>1. /\ th'[v].payload = th[v].payload /\ Mine(v)' = Mine(v)
              /\ th[v].pc \in Writing \ {"removeStale"} /\ Mine(v) \in Names
          BY <2>2, <3>1, <3>2, StepFields, TargetNames DEF Points
        <4>2. CASE Mine(v) = Mine(t)
          <5>1. th[v].payload = th[t].payload
            BY <3>1, <4>1, OnePayload
          <5>2. QED
            BY <2>2, <3>1, <4>1, <4>2, <5>1
        <4>3. CASE Mine(v) # Mine(t)
          <5>1. content'[Mine(v)] = content[Mine(v)]
            BY <2>2, <3>1, <4>1, <4>3
          <5>2. ASSUME NEW u \in Threads, opened[u] = Mine(v), th[u].pc = "write"
                PROVE  opened'[u] = Mine(v) /\ th'[u].pc = "write"
            BY <2>2, <3>1, <4>3, <5>2, StepFields DEF Points
          <5>3. Unwritten(Mine(v)) => Unwritten(Mine(v))'
            BY <4>1, <5>2
          <5>4. QED
            BY <4>1, <5>1, <5>3
        <4>4. QED
          BY <4>2, <4>3
      <3>3. QED
        BY <3>2
    <2>3. QED
      BY <1>7, <2>1, <2>2, WriteTempFields
  <1>8. ASSUME NEW t \in Threads, CloseTemp(t) PROVE TempsAreWhole'
    BY <1>8, StepFields, AbandonFields, Payloads, NotWrittenFields, TargetNames DEF Points,
       CloseTemp, NoFault, Fault, CanFail
  <1>9. ASSUME NEW t \in Threads, RenameTemp(t) PROVE TempsAreWhole'
    BY <1>9, StepFields, MoveFields, WrittenFields, Payloads, TargetNames DEF Points, RenameTemp,
       CanRename, NoFault, Fault, CanFail
  <1>10. ASSUME NEW t \in Threads, RemoveTarget(t) PROVE TempsAreWhole'
    BY <1>10, StepFields, UnlinkFields, AbandonFields, Payloads, NotWrittenFields,
       TargetNames DEF Points, RemoveTarget, NoFault, Fault, CanFail
  <1>11. ASSUME NEW t \in Threads, RenameAgain(t) PROVE TempsAreWhole'
    BY <1>11, MoveFields, WrittenFields, AbandonFields, Payloads, NotWrittenFields,
       TargetNames DEF Points, RenameAgain, CanRename, NoFault, Fault, CanFail
  <1>12. CASE Damage
    BY <1>12 DEF Damage
  <1>13. CASE Crash
    BY <1>13 DEF Crash, Idle, Missing, File
  <1>14. CASE UNCHANGED vars
    BY <1>14 DEF vars
  <1>15. QED
    BY <1>1, <1>2, <1>3, <1>4, <1>5, <1>6, <1>7, <1>8, <1>9, <1>10, <1>11, <1>12, <1>13,
       <1>14 DEF Next, Proceed

\* there, a written file holds its payload until it is closed
LEMMA ClosedStep ==
    ASSUME TypeOK, ThreadsTyped, ~SharedDelete, LockHeld, OpenedOnce, PayloadsAreCurrent, Closed,
           TempsAreWhole, [Next]_vars
    PROVE  Closed'
  <1> USE DEF ThreadsTyped, Writing, Names, LockHeld, OpenedOnce, PayloadsAreCurrent, Mine,
          Closed, Free
  <1>1. ASSUME NEW t \in Threads, NEW op \in {"get", "save"}, Begin(t, op) PROVE Closed'
    BY <1>1, BeginFields DEF Begin
  <1>2. ASSUME NEW t \in Threads, ReadPrimary(t) PROVE Closed'
    BY <1>2, ReadPrimaryFields
  <1>3. ASSUME NEW t \in Threads, ReadBackup(t) PROVE Closed'
    BY <1>3, ReadBackupFields
  <1>4. ASSUME NEW t \in Threads, Loaded(t) PROVE Closed'
    BY <1>4, LoadedFields, Payloads
  <1>5. ASSUME NEW t \in Threads, RemoveStale(t) PROVE Closed'
    BY <1>5, StepFields, UnlinkFields, Payloads, TargetNames DEF Points, RemoveStale
  <1>6. ASSUME NEW t \in Threads, CreateTemp(t) PROVE Closed'
    BY <1>6, StepFields, NotWrittenFields, TargetNames, Payloads DEF Points, CreateTemp, Exists,
       NoFault, Fault, CanFail
  <1>7. ASSUME NEW t \in Threads, WriteTemp(t) PROVE Closed'
    BY <1>7, WriteTempFields, StepFields, AbandonFields, Payloads, NotWrittenFields,
       TargetNames DEF Points
  <1>8. ASSUME NEW t \in Threads, CloseTemp(t) PROVE Closed'
    BY <1>8, StepFields, AbandonFields, Payloads, NotWrittenFields, TargetNames DEF Points,
       CloseTemp, NoFault, Fault, CanFail
  <1>9. ASSUME NEW t \in Threads, RenameTemp(t) PROVE Closed'
    BY <1>9, StepFields, MoveFields, WrittenFields, Payloads, TargetNames DEF Points, RenameTemp,
       CanRename, NoFault, Fault, CanFail
  <1>10. ASSUME NEW t \in Threads, RemoveTarget(t) PROVE Closed'
    BY <1>10, StepFields, UnlinkFields, AbandonFields, Payloads, NotWrittenFields,
       TargetNames DEF Points, RemoveTarget, NoFault, Fault, CanFail
  <1>11. ASSUME NEW t \in Threads, RenameAgain(t) PROVE Closed'
    BY <1>11, MoveFields, WrittenFields, AbandonFields, Payloads, NotWrittenFields,
       TargetNames DEF Points, RenameAgain, CanRename, NoFault, Fault, CanFail
  <1>12. CASE Damage
    BY <1>12 DEF Damage
  <1>13. CASE Crash
    BY <1>13 DEF Crash, Idle, Missing, File
  <1>14. CASE UNCHANGED vars
    BY <1>14 DEF vars
  <1>15. QED
    BY <1>1, <1>2, <1>3, <1>4, <1>5, <1>6, <1>7, <1>8, <1>9, <1>10, <1>11, <1>12, <1>13,
       <1>14 DEF Next, Proceed

\* what is renamed is what was to be written
LEMMA WholeIsRenamed ==
    ASSUME ~SharedDelete, TypeOK, OpenedOnce, TempsAreWhole, NEW t \in Threads,
           th[t].pc \in {"rename", "renameAgain"}, CanRename(t)
    PROVE  content[Temp(th[t].phase)] = th[t].payload
  BY DEF OpenedOnce, TempsAreWhole, Unwritten, Mine, Writing, CanRename, Free, Exists, Missing, File

\* there, what was saved stays where a load finds it
LEMMA SavedIsThereStep ==
    ASSUME TypeOK, ThreadsTyped, ~SharedDelete, "read" \notin FaultKinds, LockHeld, OpenedOnce,
           TempsAreWhole, PayloadsAreCurrent, SavedIsThere, [Next]_vars
    PROVE  SavedIsThere'
  <1> USE DEF ThreadsTyped, Writing, Names, LockHeld, PayloadsAreCurrent, SavedIsThere, LoadGen,
          BackedUp, Decodes, JsonValid, Exists, Missing, File
  <1>1. ASSUME NEW t \in Threads, NEW op \in {"get", "save"}, Begin(t, op) PROVE SavedIsThere'
    BY <1>1, BeginFields DEF Begin
  <1>2. ASSUME NEW t \in Threads, ReadPrimary(t) PROVE SavedIsThere'
    BY <1>2, ReadPrimaryFields
  <1>3. ASSUME NEW t \in Threads, ReadBackup(t) PROVE SavedIsThere'
    BY <1>3, ReadBackupFields
  <1>4. ASSUME NEW t \in Threads, Loaded(t) PROVE SavedIsThere'
    BY <1>4, LoadedFields, Payloads
  <1>5. ASSUME NEW t \in Threads, RemoveStale(t) PROVE SavedIsThere'
    BY <1>5, StepFields, UnlinkFields, Payloads, TargetNames DEF Points, RemoveStale
  <1>6. ASSUME NEW t \in Threads, CreateTemp(t) PROVE SavedIsThere'
    BY <1>6, StepFields, NotWrittenFields, TargetNames, Payloads DEF Points, CreateTemp, Exists,
       NoFault, Fault, CanFail
  <1>7. ASSUME NEW t \in Threads, WriteTemp(t) PROVE SavedIsThere'
    <2>1. opened[t] \in {"primary.tmp", "backup.tmp"}
      BY <1>7, WriteTempFields, TargetNames DEF OpenedOnce, Mine
    <2>2. CASE Abandon(t)
      BY <1>7, <2>2, WriteTempFields, AbandonFields, Payloads, NotWrittenFields, TargetNames
    <2>3. CASE ~Abandon(t)
      BY <1>7, <2>1, <2>3, WriteTempFields, StepFields DEF Points
    <2>4. QED
      BY <2>2, <2>3
  <1>8. ASSUME NEW t \in Threads, CloseTemp(t) PROVE SavedIsThere'
    BY <1>8, StepFields, AbandonFields, Payloads, NotWrittenFields, TargetNames DEF Points,
       CloseTemp, NoFault, Fault, CanFail
  <1>9. ASSUME NEW t \in Threads, RenameTemp(t) PROVE SavedIsThere'
    BY <1>9, StepFields, MoveFields, WrittenFields, Payloads, TargetNames, WholeIsRenamed
       DEF Points, RenameTemp, CanRename, NoFault, Fault, CanFail
  <1>10. ASSUME NEW t \in Threads, RemoveTarget(t) PROVE SavedIsThere'
    <2>a. th[t].phase \in Phases /\ acked \in Nat
      BY DEF ThreadState
    <2>1. CASE Unlink(Target(th[t].phase)) /\ Step(t, "renameAgain") /\ UNCHANGED acked
      <3>1. CASE th[t].phase = "recover"
        BY <1>10, <2>a, <2>1, <3>1, StepFields, UnlinkFields, Payloads, TargetNames
          DEF Points, RemoveTarget
      <3>2. CASE th[t].phase = "backup"
        BY <1>10, <2>a, <2>1, <3>2, StepFields, UnlinkFields, Payloads, TargetNames
          DEF Points, RemoveTarget
      <3>3. CASE th[t].phase = "replace"
        BY <1>10, <2>a, <2>1, <3>3, StepFields, UnlinkFields, Payloads, TargetNames
          DEF Points, RemoveTarget
      <3>4. QED
        BY <1>10, <2>a, <3>1, <3>2, <3>3 DEF Phases, RemoveTarget
    <2>2. CASE Abandon(t)
      BY <1>10, <2>a, <2>2, AbandonFields, NotWrittenFields, Payloads, TargetNames DEF RemoveTarget
    <2>3. QED
      BY <1>10, <2>1, <2>2 DEF RemoveTarget
  <1>11. ASSUME NEW t \in Threads, RenameAgain(t) PROVE SavedIsThere'
    BY <1>11, MoveFields, WrittenFields, AbandonFields, Payloads, NotWrittenFields, TargetNames,
       WholeIsRenamed DEF Points, RenameAgain, CanRename, NoFault, Fault, CanFail
  <1>12. CASE Damage
    BY <1>12, BoundsAssumption DEF Damage, TypeOK
  <1>13. CASE Crash
    BY <1>13 DEF Crash, Idle, Missing, File
  <1>14. CASE UNCHANGED vars
    BY <1>14 DEF vars
  <1>15. QED
    BY <1>1, <1>2, <1>3, <1>4, <1>5, <1>6, <1>7, <1>8, <1>9, <1>10, <1>11, <1>12, <1>13,
       <1>14 DEF Next, Proceed

\* there, what was saved is not taken for nothing
LEMMA SavedIsNotEmptyStep ==
    ASSUME TypeOK, ThreadsTyped, ~SharedDelete, "read" \notin FaultKinds,
           DamageKinds \subseteq {"corrupt", "foreign"}, LockHeld, OpenedOnce, TempsAreWhole,
           PayloadsAreCurrent, SavedIsNotEmpty, [Next]_vars
    PROVE  SavedIsNotEmpty'
  <1> USE DEF ThreadsTyped, Writing, Names, LockHeld, PayloadsAreCurrent, SavedIsNotEmpty,
          NonEmpty, Decodes, JsonValid, Exists, Missing, File
  <1>1. ASSUME NEW t \in Threads, NEW op \in {"get", "save"}, Begin(t, op) PROVE SavedIsNotEmpty'
    BY <1>1, BeginFields DEF Begin
  <1>2. ASSUME NEW t \in Threads, ReadPrimary(t) PROVE SavedIsNotEmpty'
    BY <1>2, ReadPrimaryFields
  <1>3. ASSUME NEW t \in Threads, ReadBackup(t) PROVE SavedIsNotEmpty'
    BY <1>3, ReadBackupFields
  <1>4. ASSUME NEW t \in Threads, Loaded(t) PROVE SavedIsNotEmpty'
    BY <1>4, LoadedFields, Payloads
  <1>5. ASSUME NEW t \in Threads, RemoveStale(t) PROVE SavedIsNotEmpty'
    BY <1>5, StepFields, UnlinkFields, Payloads, TargetNames DEF Points, RemoveStale
  <1>6. ASSUME NEW t \in Threads, CreateTemp(t) PROVE SavedIsNotEmpty'
    BY <1>6, StepFields, NotWrittenFields, TargetNames, Payloads DEF Points, CreateTemp, Exists,
       NoFault, Fault, CanFail
  <1>7. ASSUME NEW t \in Threads, WriteTemp(t) PROVE SavedIsNotEmpty'
    <2>1. opened[t] \in {"primary.tmp", "backup.tmp"}
      BY <1>7, WriteTempFields, TargetNames DEF OpenedOnce, Mine
    <2>2. CASE Abandon(t)
      BY <1>7, <2>2, WriteTempFields, AbandonFields, Payloads, NotWrittenFields, TargetNames
    <2>3. CASE ~Abandon(t)
      BY <1>7, <2>1, <2>3, WriteTempFields, StepFields DEF Points
    <2>4. QED
      BY <2>2, <2>3
  <1>8. ASSUME NEW t \in Threads, CloseTemp(t) PROVE SavedIsNotEmpty'
    BY <1>8, StepFields, AbandonFields, Payloads, NotWrittenFields, TargetNames DEF Points,
       CloseTemp, NoFault, Fault, CanFail
  <1>9. ASSUME NEW t \in Threads, RenameTemp(t) PROVE SavedIsNotEmpty'
    <2>a. th[t].phase \in Phases /\ acked \in Nat
      BY DEF ThreadState
    <2>1. CASE /\ CanRename(t) /\ Written(t)
               /\ Move(Temp(th[t].phase), Target(th[t].phase))
      <3>1. CASE th[t].phase = "recover"
        BY <1>9, <2>a, <2>1, <3>1, MoveFields, WrittenFields, Payloads, TargetNames,
           WholeIsRenamed DEF RenameTemp
      <3>2. CASE th[t].phase = "backup"
        BY <1>9, <2>a, <2>1, <3>2, MoveFields, WrittenFields, Payloads, TargetNames,
           WholeIsRenamed DEF RenameTemp
      <3>3. CASE th[t].phase = "replace"
        <4>1. th[t].payload = Replacement(t) /\ th[t].view \in Nat
          BY <1>9, <3>3 DEF RenameTemp, ThreadState
        <4>2. th[t].payload.kind = "data" /\ th[t].payload.gen > 0
          BY <4>1, Payloads
        <4>3. content'["primary"] = th[t].payload /\ content'["backup"] = content["backup"]
          BY <1>9, <2>1, <3>3, MoveFields, TargetNames, WholeIsRenamed DEF RenameTemp
        <4>4. \A u \in Threads : th'[u].pc = "idle"
          BY <1>9, <2>1, <3>3, WrittenFields DEF RenameTemp
        <4>5. QED
          BY <4>2, <4>3, <4>4
      <3>4. QED
        BY <1>9, <2>a, <3>1, <3>2, <3>3 DEF Phases, RenameTemp
    <2>2. CASE Step(t, "removeTarget") /\ UNCHANGED <<content, acked>>
      BY <1>9, <2>2, StepFields DEF Points, RenameTemp
    <2>3. QED
      BY <1>9, <2>1, <2>2 DEF RenameTemp
  <1>10. ASSUME NEW t \in Threads, RemoveTarget(t) PROVE SavedIsNotEmpty'
    <2>a. th[t].phase \in Phases /\ acked \in Nat
      BY DEF ThreadState
    <2>1. CASE Unlink(Target(th[t].phase)) /\ Step(t, "renameAgain") /\ UNCHANGED acked
      <3>1. CASE th[t].phase = "recover"
        BY <1>10, <2>a, <2>1, <3>1, StepFields, UnlinkFields, Payloads, TargetNames
          DEF Points, RemoveTarget
      <3>2. CASE th[t].phase = "backup"
        BY <1>10, <2>a, <2>1, <3>2, StepFields, UnlinkFields, Payloads, TargetNames
          DEF Points, RemoveTarget
      <3>3. CASE th[t].phase = "replace"
        BY <1>10, <2>a, <2>1, <3>3, StepFields, UnlinkFields, Payloads, TargetNames
          DEF Points, RemoveTarget
      <3>4. QED
        BY <1>10, <2>a, <3>1, <3>2, <3>3 DEF Phases, RemoveTarget
    <2>2. CASE Abandon(t)
      BY <1>10, <2>a, <2>2, AbandonFields, NotWrittenFields, Payloads, TargetNames DEF RemoveTarget
    <2>3. QED
      BY <1>10, <2>1, <2>2 DEF RemoveTarget
  <1>11. ASSUME NEW t \in Threads, RenameAgain(t) PROVE SavedIsNotEmpty'
    <2>a. th[t].phase \in Phases /\ acked \in Nat
      BY DEF ThreadState
    <2>1. CASE /\ CanRename(t) /\ Written(t)
               /\ Move(Temp(th[t].phase), Target(th[t].phase))
      <3>1. CASE th[t].phase = "recover"
        BY <1>11, <2>a, <2>1, <3>1, MoveFields, WrittenFields, Payloads, TargetNames,
           WholeIsRenamed DEF RenameAgain
      <3>2. CASE th[t].phase = "backup"
        BY <1>11, <2>a, <2>1, <3>2, MoveFields, WrittenFields, Payloads, TargetNames,
           WholeIsRenamed DEF RenameAgain
      <3>3. CASE th[t].phase = "replace"
        <4>1. th[t].payload = Replacement(t) /\ th[t].view \in Nat
          BY <1>11, <3>3 DEF RenameAgain, ThreadState
        <4>2. th[t].payload.kind = "data" /\ th[t].payload.gen > 0
          BY <4>1, Payloads
        <4>3. content'["primary"] = th[t].payload /\ content'["backup"] = content["backup"]
          BY <1>11, <2>1, <3>3, MoveFields, TargetNames, WholeIsRenamed DEF RenameAgain
        <4>4. \A u \in Threads : th'[u].pc = "idle"
          BY <1>11, <2>1, <3>3, WrittenFields DEF RenameAgain
        <4>5. QED
          BY <4>2, <4>3, <4>4
      <3>4. QED
        BY <1>11, <2>a, <3>1, <3>2, <3>3 DEF Phases, RenameAgain
    <2>2. CASE Abandon(t)
      BY <1>11, <2>a, <2>2, AbandonFields, NotWrittenFields, Payloads, TargetNames DEF RenameAgain
    <2>3. QED
      BY <1>11, <2>1, <2>2 DEF RenameAgain
  <1>12. CASE Damage
    BY <1>12 DEF Damage
  <1>13. CASE Crash
    BY <1>13 DEF Crash, Idle, Missing, File
  <1>14. CASE UNCHANGED vars
    BY <1>14 DEF vars
  <1>15. QED
    BY <1>1, <1>2, <1>3, <1>4, <1>5, <1>6, <1>7, <1>8, <1>9, <1>10, <1>11, <1>12, <1>13,
       <1>14 DEF Next, Proceed

\* there, what can be loaded moves on by one generation
LEMMA OneGenerationStep ==
    ASSUME TypeOK, ThreadsTyped, ~SharedDelete, "read" \notin FaultKinds, LockHeld, OpenedOnce,
           TempsAreWhole, PayloadsAreCurrent, SavedIsThere, damages = 0, [Next]_vars
    PROVE  LoadGen' \in {LoadGen, LoadGen + 1} \/ damages' # 0
  <1> USE DEF ThreadsTyped, Writing, Names, LockHeld, PayloadsAreCurrent, SavedIsThere, LoadGen,
          BackedUp, Decodes, JsonValid, Exists, Missing, File
  <1>1. ASSUME NEW t \in Threads, NEW op \in {"get", "save"}, Begin(t, op)
        PROVE  LoadGen' \in {LoadGen, LoadGen + 1} \/ damages' # 0
    BY <1>1, BeginFields DEF Begin
  <1>2. ASSUME NEW t \in Threads, ReadPrimary(t)
        PROVE  LoadGen' \in {LoadGen, LoadGen + 1} \/ damages' # 0
    BY <1>2, ReadPrimaryFields
  <1>3. ASSUME NEW t \in Threads, ReadBackup(t)
        PROVE  LoadGen' \in {LoadGen, LoadGen + 1} \/ damages' # 0
    BY <1>3, ReadBackupFields
  <1>4. ASSUME NEW t \in Threads, Loaded(t)
        PROVE  LoadGen' \in {LoadGen, LoadGen + 1} \/ damages' # 0
    BY <1>4, LoadedFields, Payloads
  <1>5. ASSUME NEW t \in Threads, RemoveStale(t)
        PROVE  LoadGen' \in {LoadGen, LoadGen + 1} \/ damages' # 0
    BY <1>5, StepFields, UnlinkFields, Payloads, TargetNames DEF Points, RemoveStale
  <1>6. ASSUME NEW t \in Threads, CreateTemp(t)
        PROVE  LoadGen' \in {LoadGen, LoadGen + 1} \/ damages' # 0
    BY <1>6, StepFields, NotWrittenFields, TargetNames, Payloads DEF Points, CreateTemp, Exists,
       NoFault, Fault, CanFail
  <1>7. ASSUME NEW t \in Threads, WriteTemp(t)
        PROVE  LoadGen' \in {LoadGen, LoadGen + 1} \/ damages' # 0
    <2>1. opened[t] \in {"primary.tmp", "backup.tmp"}
      BY <1>7, WriteTempFields, TargetNames DEF OpenedOnce, Mine
    <2>2. CASE Abandon(t)
      BY <1>7, <2>2, WriteTempFields, AbandonFields, Payloads, NotWrittenFields, TargetNames
    <2>3. CASE ~Abandon(t)
      BY <1>7, <2>1, <2>3, WriteTempFields, StepFields DEF Points
    <2>4. QED
      BY <2>2, <2>3
  <1>8. ASSUME NEW t \in Threads, CloseTemp(t)
        PROVE  LoadGen' \in {LoadGen, LoadGen + 1} \/ damages' # 0
    BY <1>8, StepFields, AbandonFields, Payloads, NotWrittenFields, TargetNames DEF Points,
       CloseTemp, NoFault, Fault, CanFail
  <1>9. ASSUME NEW t \in Threads, RenameTemp(t)
        PROVE  LoadGen' \in {LoadGen, LoadGen + 1} \/ damages' # 0
    BY <1>9, StepFields, MoveFields, WrittenFields, Payloads, TargetNames, WholeIsRenamed
       DEF Points, RenameTemp, CanRename, NoFault, Fault, CanFail
  <1>10. ASSUME NEW t \in Threads, RemoveTarget(t)
         PROVE  LoadGen' \in {LoadGen, LoadGen + 1} \/ damages' # 0
    <2>a. th[t].phase \in Phases /\ acked \in Nat
      BY DEF ThreadState
    <2>1. CASE Unlink(Target(th[t].phase)) /\ Step(t, "renameAgain") /\ UNCHANGED acked
      <3>1. CASE th[t].phase = "recover"
        BY <1>10, <2>a, <2>1, <3>1, StepFields, UnlinkFields, Payloads, TargetNames
          DEF Points, RemoveTarget
      <3>2. CASE th[t].phase = "backup"
        BY <1>10, <2>a, <2>1, <3>2, StepFields, UnlinkFields, Payloads, TargetNames
          DEF Points, RemoveTarget
      <3>3. CASE th[t].phase = "replace"
        BY <1>10, <2>a, <2>1, <3>3, StepFields, UnlinkFields, Payloads, TargetNames
          DEF Points, RemoveTarget
      <3>4. QED
        BY <1>10, <2>a, <3>1, <3>2, <3>3 DEF Phases, RemoveTarget
    <2>2. CASE Abandon(t)
      BY <1>10, <2>a, <2>2, AbandonFields, NotWrittenFields, Payloads, TargetNames DEF RemoveTarget
    <2>3. QED
      BY <1>10, <2>1, <2>2 DEF RemoveTarget
  <1>11. ASSUME NEW t \in Threads, RenameAgain(t)
         PROVE  LoadGen' \in {LoadGen, LoadGen + 1} \/ damages' # 0
    BY <1>11, MoveFields, WrittenFields, AbandonFields, Payloads, NotWrittenFields, TargetNames,
       WholeIsRenamed DEF Points, RenameAgain, CanRename, NoFault, Fault, CanFail
  <1>12. CASE Damage
    BY <1>12 DEF Damage
  <1>13. CASE Crash
    BY <1>13 DEF Crash, Idle, Missing, File
  <1>14. CASE UNCHANGED vars
    BY <1>14 DEF vars
  <1> HIDE DEF LoadGen
  <1>15. QED
    BY <1>1, <1>2, <1>3, <1>4, <1>5, <1>6, <1>7, <1>8, <1>9, <1>10, <1>11, <1>12, <1>13,
       <1>14 DEF Next, Proceed

-------------------------------------------------------------------------------
(* The theorems                                                             *)

\* TypeOK is an invariant, under every system and every fault.
THEOREM TypeInvariant == Spec => []TypeOK
  <1>1. Init => TypeOK
    BY BoundsAssumption DEF Init, TypeOK, Missing, File, Content, Idle, ThreadState, Phases
  <1>2. TypeOK /\ [Next]_vars => TypeOK'
    BY TypesStep
  <1>3. QED
    BY <1>1, <1>2, PTL DEF Spec

\* Unless something else writes JSON of another shape into the primary, the backup
\* can be read whatever fails, on every system: a primary that cannot be used is
\* never copied over it (storage.go:56-62).
THEOREM BackupCanBeRead ==
    ASSUME "foreign" \notin DamageKinds
    PROVE  Spec => []WellFormed
  <1>1. Init => BackupIsSound
    BY DEF Init, BackupIsSound, Missing, File, Idle, Writing
  <1>2. TypeOK /\ BackupIsSound /\ [Next]_vars => BackupIsSound'
    BY SoundStep, TypesApart
  <1>3. TypeOK /\ BackupIsSound => WellFormed
    BY DEF WellFormed, BackupDecodes, BackupIsSound, TypeOK, Content, Names, Exists, Decodes
  <1>4. QED
    BY <1>1, <1>2, <1>3, TypeInvariant, PTL DEF Spec

InOrder == TypeOK /\ LockHeld /\ PayloadsAreFiles /\ OpenedOnce /\ PayloadsAreCurrent /\ Closed
        /\ TempsAreWhole

\* where an open file keeps its name, the lock and the temporary files work
LEMMA InOrderInvariant ==
    ASSUME ~SharedDelete
    PROVE  Spec => []InOrder
  <1>1. Init => InOrder
    <2> SUFFICES ASSUME Init PROVE InOrder
      OBVIOUS
    <2>1. TypeOK
      BY BoundsAssumption DEF Init, TypeOK, Missing, File, Content, Idle, ThreadState, Phases
    <2>2. LockHeld /\ PayloadsAreFiles /\ OpenedOnce
      BY DEF Init, Idle, LockHeld, PayloadsAreFiles, OpenedOnce, Writing
    <2>3. PayloadsAreCurrent /\ Closed /\ TempsAreWhole
      BY DEF Init, Idle, PayloadsAreCurrent, Closed, TempsAreWhole, Writing
    <2>4. QED
      BY <2>1, <2>2, <2>3 DEF InOrder
  <1>2. InOrder /\ [Next]_vars => InOrder'
    BY TypesStep, TypesApart, LockStep, FilesStep, OpenedStep, PayloadsStep,
       ClosedStep, TempsStep DEF InOrder
  <1>3. QED
    BY <1>1, <1>2, PTL DEF Spec

\* Where an open file can be neither unlinked nor renamed (Windows) and a file that
\* is there can be read: without damage from outside, what a caller was told is
\* saved can be loaded, whatever write or rename fails and wherever the process is
\* killed, for any number of handlers (storage.go:43-67, 114-152).
THEOREM SavesSurvive ==
    ASSUME ~SharedDelete, "read" \notin FaultKinds
    PROVE  Spec => []AcknowledgedSurvives
  <1>1. Init => SavedIsThere
    BY DEF Init, SavedIsThere, LoadGen, Decodes, Missing, File, Idle, Writing, Names
  <1>2. InOrder /\ SavedIsThere /\ [Next]_vars => SavedIsThere'
    BY SavedIsThereStep, TypesApart DEF InOrder
  <1>3. SavedIsThere => AcknowledgedSurvives
    BY DEF SavedIsThere, AcknowledgedSurvives, Loadable, Decodes, Exists
  <1>4. QED
    BY <1>1, <1>2, <1>3, InOrderInvariant, PTL DEF Spec

\* There, too, what can be loaded moves on one generation at a time, each made
\* from the one before it (manager.go:40-242).
THEOREM NoSaveIsLost ==
    ASSUME ~SharedDelete, "read" \notin FaultKinds
    PROVE  Spec => NoLostUpdate
  <1>1. Init => SavedIsThere
    BY DEF Init, SavedIsThere, LoadGen, Decodes, Missing, File, Idle, Writing, Names
  <1>2. InOrder /\ SavedIsThere /\ [Next]_vars => SavedIsThere'
    BY SavedIsThereStep, TypesApart DEF InOrder
  <1>3. InOrder /\ SavedIsThere /\ [Next]_vars
          => [damages' = 0 /\ LoadGen' # LoadGen => LoadGen' = LoadGen + 1]_vars
    <2> SUFFICES ASSUME InOrder, SavedIsThere, [Next]_vars, damages' = 0, LoadGen' # LoadGen
                 PROVE  LoadGen' = LoadGen + 1
      OBVIOUS
    <2>1. damages = 0
      BY CountsStep, BoundsAssumption DEF InOrder, TypeOK
    <2>2. QED
      BY <2>1, OneGenerationStep, TypesApart DEF InOrder
  <1>4. QED
    BY <1>1, <1>2, <1>3, InOrderInvariant, PTL DEF Spec, NoLostUpdate

\* There, too, bookmarks that were saved once are never taken for an empty set,
\* though the primary is damaged from outside - to bytes that are not bookmarks;
\* an empty file or none is another matter (storage.go:20-41).
THEOREM SavesAreNotForgotten ==
    ASSUME ~SharedDelete, "read" \notin FaultKinds, DamageKinds \subseteq {"corrupt", "foreign"}
    PROVE  Spec => []NeverSilentlyEmpty
  <1>1. Init => SavedIsNotEmpty
    BY DEF Init, SavedIsNotEmpty, NonEmpty, Missing, File, Idle, Names
  <1>2. InOrder /\ SavedIsNotEmpty /\ [Next]_vars => SavedIsNotEmpty'
    BY SavedIsNotEmptyStep, TypesApart DEF InOrder
  <1>3. InOrder /\ SavedIsNotEmpty => NeverSilentlyEmpty
    BY DEF InOrder, TypeOK, SavedIsNotEmpty, NonEmpty, NeverSilentlyEmpty, Loadable, LoadGen,
       Decodes, Exists
  <1>4. QED
    BY <1>1, <1>2, <1>3, InOrderInvariant, PTL DEF Spec
===============================================================================
