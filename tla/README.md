# Verification of CodeDocs

CodeDocs is a local desktop application (Go, with a web page as its interface)
that turns a project directory into one Markdown document, keeps bookmarks of
projects with the results of earlier runs, and updates itself from GitHub
releases. This directory holds TLA+ specifications of the parts of it that are
hard to test, the TLC configurations that check them on small instances, and
TLAPS proofs, for every value of the constants, about all of them.
Paths in comments are relative to the repository, mostly to `internal/`.

    tlc -config GenerationSafety.cfg MCGenerationPipeline     # a run
    tlapm GenerationPipeline_proofs.tla                       # the proofs

## Inventory

| Component | State | Operations | Interacts with |
|---|---|---|---|
| Generation pipeline, `internal/generator` | two bounded channels, the memory limiter, the pending results, the `.part` file | `Generate`: validate, scan, produce, process, write in order, commit | scanner and tokenizer (calls), handler (event channel, context) |
| Generate handler, `internal/api/handlers.go` | event channel, request context | `handleGenerate`, its goroutine, the event loop | pipeline, bookmark manager |
| Bookmark storage, `internal/bookmarks/storage.go` | `saved_paths.json`, `.bak`, `.tmp` of each, an in-memory read-write lock | load with repair, save with backup, atomic write | file system |
| Bookmark operations, `manager.go`, `history.go` | bookmarks, order, histories, last results | save, note, reorder, delete, rename, clear, import, export, record a result | storage; called by HTTP handlers |
| Update manager, `check.go`, `download.go`, `updater.go`, first half of `apply.go` | progress state, compatible releases, prepared update, cancel function, `.tmp`, `.new`, helper, plan | check, download, apply, close | GitHub, file system, helper process |
| Update installation, second half of `apply.go` | executables `target`, `.old`, `.new`; plan; ready file | helper, startup handshake, cleanup at launch | three kinds of processes |
| Version order, `version.go` | none; which releases follow one another | parse, compare | update manager |
| Scanner, `scanner.go`, `ignore.go` | the files found, the ignore layers of open directories | scan, ignore rules, tree | generator, handlers |
| Project statistics, `stats.go` | two bounded channels, totals | count with a pool of workers | structure handler |
| Tokenizer, `internal/tokenizer` | shared encoding, LRU cache of counts, vocabulary file and failure marker | init, count, download | generator, handlers, other instances |
| Lifecycle, `cmd/codedocs`, `internal/api/server.go` | listener, server, window, shared context | start, handshake, drain, exit code | all |
| Web interface, `web/js` | active stream, document shown and cached, update card, polls | scan, generate, preview, load, copy, check, download, restart | HTTP handlers |
| Configuration, build and release | flags and constants; scripts | none at run time | all |

What makes each one correct: the pipeline publishes a whole, ordered document or
none, ends in every case and keeps to its budget; storage loses no acknowledged
save; operations lose and resurrect no result and keep the order; the update
manager announces and starts verified files only; the helper can always go back;
the scan lists what git tracks, the pool counts all of it; the cache keeps its limits
and one count per text; an unverified vocabulary is never used; versions never go
back; the process ends when asked, and honestly; the page shows what it names.

Where it is hard: a producer that waits for memory held by results that wait for
their turn; cancellation at every point; a shared temporary file; a lock that is
shared by readers who write; long network calls between two critical sections;
three processes on the same executables; crashes between two renames; instances
that replace each other's vocabulary file; ignore rules of several layers; a pool that
ends by three closings; answers of a server that come when the page shows something
else. The list
by line is `hazards` in `PROJECT.json`.

## Modules

`GenerationPipeline` — one request. One action per step of a goroutine: `StatFile`,
`Acquire`, `WakeAcquire`, `SendJob` for `produceJobs`; `TakeJob`, `ProcessFile`,
`SendResult` for a worker; `CloseResults`; the calling goroutine from `Validate` to
`CloseEvents`, with the program point `main`; `HandlerReceive`; `Disconnect` for a
client that leaves. Go channels are sequences with a capacity and a closed flag. The
limiter's broadcast channel is `snapshotClosed`: whether the channel the waiting
producer took under the lock has been closed since, which is what decides lost
wake-ups. File contents are one of three kinds of result, sizes are members of
`Amounts`.

`AtomicDocument` — what a caller of `Generate` is promised; `GenerationPipeline`
implements it.

`BookmarkStore` — the store one file system call at a time. A set of bookmarks is a
generation number. `opened` follows the name an open file has now, because on POSIX a
file can be unlinked or renamed under its writer, and on Windows (`SharedDelete =
FALSE`) that fails. `Damage` is what other programs do to the primary; it only happens
while no operation runs. `Crash` kills the process between two calls.

`Bookmarks` — each operation of the manager in one step, which is what `BookmarkStore`
shows about storage. It starts with any file of an older version: no bookmarks, or some with a
last result and no history, with orders that are missing, tied or have gaps, and several of one
path, which the code never merges. An import first drops the entries of an array whose
identifier a later one repeats (`Decoded`), then merges the rest by path, in any order and, where
a path has two bookmarks, into any of them, as the iteration of a Go map has it (`Imports`). Two
history variables: `ledger`, the results that were recorded in a bookmark and not deleted since,
and `doubled`, the pairs of bookmarks that had one path in the older file. `MCBookmarks`
instantiates it.

`UpdateManager` — checks, downloads and installations run concurrently; every critical
section under the manager's mutex and every file operation is an action. Streaming the
body and its digest is one step (bytes differ from the release or not), hashing and
copying a file are one step each. The history variable `disturbed` is set when a check
ends during a download or an installation. `Restart` ends the process and starts it again.

`UpdateHelper` — the helper, one operation on a file or process per step, with the
updated application, ordinary launches and crashes. `intruded` records that an ordinary
launch cleaned up while the installation was neither confirmed nor undone.

`ProjectScan` — one call of `ScanProjectFilesContext` over a constant tree. `Visit` is one
call of the walk's callback: cancellation, links, `SkipDir` (which for an entry that is no
directory skips its siblings, as `filepath.WalkDir` has it), excluded names, ignore rules,
and `Enter`, which loads the `.gitignore` of a directory that is entered (wholly, or cut short);
`ReadDir` and `LeaveDir` are what `WalkDir` does in between, `stack` its recursion. `layer` holds
for each directory the rules in force there, as `ignoreByDir` does. The reference, `InScope`, is
git's rule stated on the files, not on the layers.

`ProjectStats` — the producer, the workers, the goroutine that closes the results and the
caller that sums, over two bounded channels, with cancellation at any point.

`TokenCache` — one tokenizer under concurrent calls: the single initialization (`once`),
the lookup, the count outside the mutex, and `put`, whose eviction loop runs one entry per
step. `Vocabulary` — that initialization in detail, one file system or network call per
step, for tokenizers of several processes; any call may fail and a process may be killed.

`Versions` — `IsNewerVersion` as an operator on split tags, and the sequence of versions
an application moves through when releases are published and withdrawn in any order. `Climbs`
states the rules of semantic precedence by themselves; the instances take a `Ladder` of tags
that climbs by them (`LadderAssumption`), and `PrecedenceIsHonoured` compares the comparison
with it.

`Lifecycle` — `run` from listening to the exit code: the serving goroutine, the window and
the goroutine that ends it, requests that stop the process, the bounded drain. Three
platforms: a window, a browser, no interface.

`ContentView`, `UpdateView` — the page. An event handler runs to its next `await` in one
step; every answer is a step of its own and may come at any time, or never. `crossed` and
`disturbed` are history variables that mark the situations the code does not guard against;
the properties say what holds until then, and "Observed" below what happens afterwards.

`MCServices` composes the scan, the tokens, the vocabulary and the versions, `MCProcesses`
the counting pool, the lifecycle and the two halves of the page. The parts of one composition
share no variable; `part`, chosen in the initial state, says which of them moves, so a run
explores each of them completely and their states add up instead of multiplying. The
fairness of a part is stated for its steps where it is the one that moves.

The modules named `..._proofs` hold the theorems about the module they are named after,
`Services_proofs` and `Processes_proofs` those about the parts that `MCServices` and
`MCProcesses` compose. `FiniteSums` holds lemmas they share: sums over finite sets as
cardinalities, and that a set of numbers has a least element. The other `MC` modules hold what
TLC needs: model values, symmetry, small inputs.

In every module an operator whose comment begins with "Fault:" is a seeded fault. No
behaviour uses it; put in place of the operator next to it, it makes TLC report the
property named in `mutants` of `PROJECT.json`, so each property is known to depend on the code.

## Runs

| Run | Instance | Shows |
|---|---|---|
| `GenerationSafety.cfg` | 4 files, 2 workers, budget 2, amounts 0, 3, event capacity 1; 550 thousand states | `TypeOK`, `PublishedComplete`, `OneOwner`, `ReturnLeavesNothing`, `VerdictHonest` |
| `GenerationLiveness.cfg` | 3 files, amounts 0, 1, 3, no symmetry; 250 thousand states | `MemoryAccounted`, `ImplementsAtomicDocument`, `EveryGoroutineEnds` |
| `BookmarkStore.cfg` | 2 handlers, Windows sharing, 2 faults, 1 crash, 1 corruption; 22 thousand states | `WellFormed`, `AcknowledgedSurvives`, `NeverSilentlyEmpty`, `NoLostUpdate`, `OperationsEnd` |
| `UpdateManager.cfg` | 1 check, 2 downloads, 1 installation, 1 release; 1.2 million states | `WellFormed`, `ReadyIsVerifiedUndisturbed`, `HelperIsVerified`, `ClosedAnnouncesNothing` |
| `UpdateHelper.cfg` | 2 failing renames, helper may be killed; 140 thousand states | `WellFormed`, `PreviousKept`, `EndsAsAnnounced`, `HelperEnds` |
| `Bookmarks.cfg` | 3 spellings of 2 paths, 3 identifiers, 2 timestamps, an older file of up to 2 bookmarks with orders 0 or 1, imports and reorderings of up to 2 bookmarks (`MaxListed`), 2 results at a time (`MaxResults`); 29 thousand states | `WellFormed`, `HistoryMatchesLedger`, `OrderIsStable` |
| `Services.cfg` | a tree of 4 directories under every root `.gitignore` of up to 2 and nested one of up to 1 of 9 rules; 2 goroutines, 6 texts; 3 tokenizers in 2 processes, 1 crash; 13 tags; 930 thousand states | `ListedIsInScope`, `CompleteUnlessReincluded`, `CacheIsConsistent`, `OneCountPerText`, `VocabularyIsSound`, `VocabularySteps`, `NoReturn`, `PrecedenceIsHonoured` |
| `Processes.cfg` | 3 files, 2 workers; 3 platforms, 1 long request, 2 stoppers; 2 generations, 1 scan, 2 saved results, 2 copies; 1 check and 1 poll at a time; 574 thousand states | `CountsEveryFile`, `CountingEnds`, `ExitIsHonest`, `ExitsWhenAsked`, `ContentIsCurrent`, `ControlsMatchWork`, `CardMatchesUpdate`, `ReadyIsShown` |
| `BookmarkStorePosix.cfg` | the same on POSIX sharing | violates `NeverSilentlyEmpty` |
| `BookmarkStoreReadFault.cfg` | one failing read | violates `AcknowledgedSurvives` |
| `UpdateManagerCheck.cfg` | as `UpdateManager.cfg` | violates `ReadyIsVerified` |
| `UpdateHelperLaunch.cfg` | no fault, no crash | violates `RolledBack` |

`WellFormed` is the type invariant of a module with the structural facts that hang
together with it: of the store that the backup decodes (`BackupDecodes`), of the update
manager that one download runs and that Close cancels it (`OneDownload`, `CloseCancels`),
of the helper that only a started version is confirmed (`ConfirmedHasStarted`), of the
bookmarks that a path gets no second one and that the order of what is loaded is a permutation
(`OneBookmarkPerPath`, `OrderIsComplete`). Likewise `CacheIsConsistent`, `VocabularyIsSound`, `VocabularySteps`,
`ContentIsCurrent`, `ControlsMatchWork`, `CardMatchesUpdate` and `ExitIsHonest` are
conjunctions of named parts, each with its comment in the module.

The bounds. Two workers and four files let results overtake one another by more than a
channel's capacity, with files that need nothing or more than the budget (they are clamped);
with three files, amounts 0, 1 and 3 also give files that share the budget, so that a
result held for its turn keeps what the file whose turn it is waits for; an event channel of capacity 1 fills at
once, so every sender blocks and every select has both branches. Two handlers are what two
repairing readers, or a reader and a writer, need; `MaxGen` 3 gives a primary and a backup
that differ and a newer save. Two downloads are the least that can share a temporary file,
and one check is enough to let the second in. Two failing renames cover the failure of a
step and of its rollback. Two timestamps and two spellings are the least that distinguish
the order of results and the folding of paths. Two bookmarks in the older file are what a tie and
a path with two bookmarks need, orders 0 and 1 give ties and both orders, and a third identifier
leaves room for a new bookmark beside them; two results at a time are a history with an order, or
one in each of two bookmarks. The nine rules are one of each kind that
interact (a name anywhere and at one place, with and without `/`, a wildcard, and the
negation of each), and three of them over two layers are what an override of an override
needs; the tree has a directory two levels deep, a file whose name occurs at three depths, a
link that sorts before a file, and an excluded directory. Three small texts overflow a cache of
two entries, one text displaces all of them, one is larger than the cache. Two tokenizers of one
process share its encoding, one of another process shares only the file. The tags hold one
step of each rule of precedence. Three files on channels of capacity two fill both. One poll
can be in flight at a time, since a poll schedules the next one after its answer (a download that is
posted again while a poll is unanswered could start a second one); two
copies and two generations are the least that can overtake each other. Deadlock is checked in all runs but those of
`UpdateHelper`, whose system does end: the helper has ended and no application is left.

Fairness. Weak fairness per goroutine in `GenerationPipeline` (Go runs every goroutine that
can run; the HTTP handler drains as long as there are events, because writes to a client that
is gone fail at once), per running operation in `BookmarkStore`, and of the helper, all of
whose waits have deadlines. Nothing is assumed of clients, users, the network, or of a fault
happening. The counting pool is fair per goroutine; so are the main goroutine, the server and the
terminator of `Lifecycle`, and a stopper once it sleeps (it does nothing else), while requests are
not: they may never end. In `UpdateView` requests are answered (by an error, if the application
is gone) and timers fire, which is weak fairness; that a poll which is sent again and again is
answered properly once is strong fairness of `ServePoll`, an assumption about the loopback
connection. Nothing is assumed of clicks, reloads or downloads that fail. The other modules
assume none and have no liveness property.

## Findings

1. Two concurrent readers repair a corrupt primary through one temporary name. Where open
   files can be unlinked and renamed (POSIX), one of them renames the other's empty file over
   the primary; if the process then ends, the next load is an empty set and no error
   (`BookmarkStorePosix.cfg`). On Windows the second reader's calls fail and the run passes.
2. A failing read of an intact primary is handled as a corrupt one: the older backup is written
   over it, and an acknowledged save is gone (`BookmarkStoreReadFault.cfg`).
3. A check that is in flight when a download is admitted resets the state when it ends. A second
   download is admitted and shares `.tmp` with the first; the manager announces "verified and ready"
   for a partial file (`UpdateManagerCheck.cfg`). Installation stays safe, because the file is
   hashed again before the helper is started and by the helper.
4. An ordinary launch while the helper swaps executables or waits for the handshake removes `.old`
   and `.new`: if the update then fails there is nothing to restore (`UpdateHelperLaunch.cfg`).

### Observed, outside the listed runs

Four statements about the code fail on configurations that are kept beside the runs; in each
the listed property holds with the condition named here.

* `ContentViewStale.cfg` (module `ContentView`, `CachedIsCurrent`): a copy stores the text it
  fetched as the text of whatever document is current when its answer comes
  (`web/js/generator.js:300`), though line 178 tells the user that load and copy concern the
  generated document. `ContentIsCurrent` excludes an exchange under a copy in flight.
* `ProjectScanReinclude.cfg` (`MCProjectScan`, `Complete`): under `/*` and `!/a/` git lists what
  is below `a`, the scan does not, because `/*` still matches the files with a parent
  (`scanner/ignore.go:89`); README.md:3 promises `.gitignore` support.
  `CompleteUnlessReincluded` excludes re-included directories.
* `VocabularyRemoved.cfg` (`MCVocabulary`, `VerifiedStays`): an instance that found a corrupt
  vocabulary removes the good one another instance has put there since (`tokenizer/vocab.go:51`);
  the comment at line 39 speaks of a verified atomic cache. The cost is another download;
  `ExactIsVerified` holds.
* `LifecycleHandshake.cfg` (`Lifecycle`, `HandshakeMeansServing`): the handshake of an update is
  completed although the server has just failed (`main.go:93`); ARCHITECTURE.md:30 says
  "A successful native-window/server startup completes any update handshake."

## Proofs

`GenerationPipeline_proofs` proves, for every number of files, set of workers, budget, set of
reservations, event capacity and reporting interval, from the named assumptions on the
constants in `GenerationPipeline`:

* `TypeCorrect`: `Spec => []TypeOK`. The inductive invariant is `Typing`, which adds what a
  worker holds at each program point and that the producer's index is in range while it has a
  file to queue.
* `ReturnIsClean`: `Spec => []ReturnLeavesNothing`, from `Lifetimes`: no worker before
  `StartPipeline`, `results` closed only after the last exit, and no way past the writer before
  that.
* `PublishedIsComplete`: `Spec => []PublishedComplete`. Three invariants: `Ordered` (without an
  error the document is exactly the results below `nextIndex`, in order),
  `PlaceholdersNeedCancel` (a placeholder exists only once the pipeline is cancelled, and
  cancellation is stable) and `Publication` (what each late program point has established). The
  middle one is needed because nothing stops a placeholder from being written: what keeps it
  out of a published document is the context check at the end of `writeOrderedResults`.
* `PublishesAtomically`: `Spec => ImplementsAtomicDocument`, the refinement, step by step.
* `OneHonestVerdict`: `Spec => []VerdictHonest`. `Verdict` follows the one event that is not
  progress from the channel to the client: it is always the last event, and it fits what
  `Generate` returned; together with `Publication` that gives the property.
* `OneOwnerOfEveryFile`: `Spec => []OneOwner`. `Custody` adds to the property that an index the
  producer has not reached is nowhere; with it every step moves an index from one place to
  another, adds the next one, or drops one in a pipeline that was cancelled. That nothing is
  left pending when the writer ends without a cancellation (`NothingLeftPending`) needs
  `Progress`, which says what has happened when a stage of the pipeline is through, and counts:
  every index has one place.
* `MemoryIsAccounted`: `Spec => []MemoryAccounted`. `Accounted` writes what is in flight as four
  sums and the producer's own reservation; every step moves an amount from one of them to the
  next, or to `release`. It rests on `Custody`: a result is filed under an index whose place in
  `pending` is free (`SlotIsFree`), otherwise the memory of the one it replaces would never be
  given back. `release` stops at 0, so an amount given back twice would go unnoticed by `used`
  alone; that what is released is never more than what is used (`ReleaseCounts`) is part of it.
* `NoWakeupIsLost`: `Spec => []NoLostWakeup`. The test of `acquire` and its snapshot are one step
  under the lock, so a producer that waits with an open snapshot does not fit (`Waiting`); with
  `MemoryIsAccounted` the memory it waits for is held by jobs and results in flight.
* `NoDeadlock`: `Spec => []NeverStuck`: until a request is over, one of its goroutines can take a
  step, also if the client stays and reads nothing but events. The circle that could close is
  writer, workers, producer: the writer waits for the index whose turn it is, the workers for room
  in `results`, the producer for memory that results out of turn hold. `Underway` says that the
  stages before the writer run while it does; by `Custody` and `Ordered` memory is reserved in the
  order in which it is written, so the index whose turn it is never waits behind one whose turn
  comes later: it has its reservation, or nothing is in flight and the producer can have its own
  (`NoWakeupIsLost`).
* `EveryRequestRunsOut`: every step, also one of the client or of an error path, makes the number
  `Remaining` smaller, which starts at `15 * NumFiles + Cardinality(Workers) + 33`. `Remaining`
  weighs every file by how far it has come, every goroutine by its program point and every event
  by the step that receives it; a file that gives memory back pays for the two steps of a waiting
  producer that tests again. So nothing circles: not the producer that is woken too early, not the
  writer, not the handler that drains. With `NoDeadlock`: every request comes to its end after a
  bounded number of steps, if only one goroutine that can take a step eventually does.

`BookmarkStore_proofs`, for any number of handlers, faults and crashes:

* `TypeInvariant`, and `BackupCanBeRead`, `Spec => []WellFormed`, on POSIX and Windows: damage
  is never copied from the primary to another file (`BackupIsSound`), because the backup is
  written from bytes that passed `json.Valid` only. Assumed is that nobody puts JSON of another
  shape in the place of the primary (`"foreign" \notin DamageKinds`); below is what happens
  otherwise.
* `SavesSurvive` (`AcknowledgedSurvives`), `NoSaveIsLost` (the action property `NoLostUpdate`)
  and `SavesAreNotForgotten` (`NeverSilentlyEmpty`), assuming `~SharedDelete` (Windows: a file
  that is open can be neither removed nor renamed) and `"read" \notin FaultKinds` (an intact
  file can be read), the last with `DamageKinds \subseteq {"corrupt", "foreign"}` (bytes of the
  primary are changed, the file is neither emptied nor removed). The other two assumptions are
  needed: `BookmarkStorePosix.cfg` and `BookmarkStoreReadFault.cfg` violate the properties
  without them. The argument is who may write: `LockHeld` (one saving operation, or readers),
  `OpenedOnce` (a temporary file has one writer), `PayloadsAreCurrent` (what is being written
  was made from what is in the file now), `TempsAreWhole` (what is renamed over the target is a
  whole payload), and that of primary and backup one always holds what was acknowledged
  (`SavedIsThere`).

`Bookmarks_proofs`, for any paths and folds, identifiers and imports and for histories of any
length: `BookmarksStayWellFormed` (`WellFormed`), `HistoriesMatchTheLedger`
(`HistoryMatchesLedger`) and the action property `OnlyReorderingReorders` (`OrderIsStable`).
The older file is any one of well-formed bookmarks whose identifiers are `OldIds` and whose
orders are `OldOrders`. The invariant, `BookInv`, says that no path has two bookmarks but those
that are `doubled`, that no timestamp occurs twice in what a bookmark holds (its history, or in a
file of an older version its last result), and that the ledger is what the bookmarks hold; that
the numbers are complete follows for what is loaded, not for the file. Every operation saves a
good collection of which the ledger is true, and `SavedInOrder` does the rest: what is
written after two normalizations is what was to be saved (`Kept`), tidied, numbered by rank in
the same order. `Ranks` shows that ranks of a strict order have no gaps or ties, `RankCounts` that
`Rank` is one;
`SortIsPermutation` and `Sorted` that sorting loses nothing; `AppendedAll`, `OthersStay`,
`NamedType` and `MergedAll` are what the four loops of the code do, for every length (an import
of `Next` has at most `MaxListed` bookmarks, which bounds the instances, not the lemma; since an
entry may go to several places, `Made` is the set of what an import may have made so far). They
are folds, and a proof about one is an induction: tlapm cannot instantiate the library's
induction principles, but it can show that a set of numbers has a least element (`Least` of
`FiniteSums`, from the well-foundedness of `<`), which is induction for one predicate at a time.
`FoldExists` and `FoldValue` make that usable for any fold.

`FiniteSums` does the same for sums. `Total(a, T)`, the sum of the amounts `a[x]` for `x` in `T`,
is the number of pairs of an `x` and a number up to `a[x]`, so that the library's facts about
cardinalities say how it changes when an element comes, goes, is replaced or renamed; a second
part shows that the recursive sums of the specifications (`MapThenSumSet`) have this value.

`Services_proofs`, about the scan: `ListsOnlyScope`, `ScanSpec => []ListedIsInScope`, for every tree of
paths, every set of rules and every choice of `.gitignore` files, directories that cannot be
read and links. Two inductive invariants: `Known` (the parent of every entry still to be
visited has been entered, so its rules are there) and `Scope` (the rules of a directory are
exactly those of the `.gitignore` files above it, every directory entered is reached through
directories that git does not ignore, and every listed file is in scope). What links the layers
to git's rule is `IgnoresDecided`: a path that the layered rules do not ignore is not ignored
by git's rule, though the scan also matches a rule against the directories on the way.
`ListsAllScope`, `ScanSpec => []CompleteUnlessReincluded`, is the converse. `IgnoredIsDecided`:
where no rule re-includes a directory, what the layers ignore git ignores too. `Progress`:
every file in scope is listed, or it or a directory above it is still to be visited; how far
down the walk has come towards it is found by `Least`. It is assumed that the paths form a tree
(`TreeAssumption`; that a directory is an entry or the root is part of it, since without it a
directory outside the tree would be in scope and never visited); nothing is assumed of the
rules beyond their type.

About the versions: `NewerIsStrictOrder`, the comparison of valid tags is
irreflexive and transitive, by the first segment or identifier in which two tags differ; no
induction is needed, since the comparison itself is stated by that first difference.
`NeverReturns`, `VersionsSpec => []NoReturn`, follows: every earlier version is older than the
installed one. `PrecedenceDecides`, `VersionsSpec => []PrecedenceIsHonoured`: each rule of
precedence makes the comparison true (`ClimbsIsNewer`), so a ladder of any length ascends
(`LadderAscends`) and, the comparison being a strict order, it is true in no other direction.
`LadderAssumption` is a statement about the instance; TLC evaluates it on the 13 tags of
`Services.cfg`.
About the cache: `CountsAgree`, `TokenSpec => []OneCountPerText`, for any calls at once and any
texts, sizes and limits. `Typing` says that one goroutine initializes, `Agreement` that
whatever is cached, held or was returned after that is the count of the chosen mode, and that
nothing is before. `MapAndListMatch`: the map and the recency list hold the same texts, each
once. `TokenCacheConsistent`, `TokenSpec => []CacheIsConsistent`: `Balanced` adds that the
account of bytes is the sum of what is cached, and that the text just stored, which fits alone, is
at the front: the eviction that restores the limit ends before it reaches that text.
About the vocabulary: `NothingUnverified`, `VocabularySpec => []VocabularyIsSound`, for any
number of instances, with kills anywhere. `Sound` adds that what is renamed into place or
loaded from there has been verified, and so has the encoding a process shares.
`StepsKeepVerified` is the action property `VocabularySteps`.

`Processes_proofs`, about the pool: `EveryFile`, `StatsSpec => []CountsEveryFile`, for every
number of files and workers. `Order` says which closing follows which, `Covered` that until a
cancellation every file is still to be sent, in a channel, held by a worker or summed. `NoSend`
follows from `Order`: no worker sends on the closed channel.
About the lifecycle: `ExitTellsTheTruth`, `LifecycleSpec => []ExitIsHonest`, for any requests
and stoppers on any platform. `ErrorIsThere` follows the error of the server through its
channel to the exit code, `RequestsAreDrained` says that a drain that ended before its timer
has no request left.
About the page: `ContentStaysCurrent` (`ContentIsCurrent`) and `ControlsFollowTheWork`
(`ControlsMatchWork`), for any documents, copies and saved results. `ContentInv` says for every
answer that may still come which document it is of, which button it holds and whether it will
be listened to. `CardFollowsTheUpdate`, `UpdateSpec => []CardMatchesUpdate`: `Calm` says which
card, timers and requests go with which state of the server as long as no check overlaps a
download.

`UpdateHelper_proofs`: `OnlyStartedConfirms` (`WellFormed`), `PreviousIsKept` and
`EndsWithItsVersion` (`EndsAsAnnounced`), for any number of failing renames and a kill at any
point. The invariant says at which program points of the helper which executable stands under
which name (`Files`), that it confirms once, at the end of its waiting (`Confirmation`), and
that the token comes from the one application it started (`Token`). `Files` holds until an
ordinary launch cleans up (`intruded`).

`UpdateManager_proofs`, for any number of calls, on POSIX and Windows: `OneDownloadAndClose`
(`WellFormed`), `ReadyMeansVerified`, `HelperMeansVerified` and the action property
`ClosedStaysSilent`. The invariant, `IInv`, is the types and, as long as no check has disturbed
a download or an installation, `Quiet`: at most one download is before its cleanup, it owns the
progress state and the cancel function, and the files are what its program point has made them,
even if the cleanup of a failed download took `.tmp` away; the same for the one installation.
Why `disturbed` is needed is what `UpdateManagerCheck.cfg` shows.

Only model-checked: liveness (`EveryGoroutineEnds`, `OperationsEnd`, `HelperEnds`,
`CountingEnds`, `ExitsWhenAsked`, `ReadyIsShown`), which needs `ENABLED` and is outside what
the prover can do. Of `EveryGoroutineEnds` the two halves are proved, that no state before the end
is stuck and that every step makes a number smaller; the step from there to `<>Quiescent` needs
`ENABLED`. That the guards in `NeverStuck` are those of the actions is checked by
`GenerationReady.cfg` (`CanStepMeansEnabled`), kept beside the runs. Every invariant and action
property of a passing run is also a theorem.

## What is abstracted, what is left out

* Generation: text, markers' wording, counters of the summary, speed and percentages; failures
  of the `os.Remove` and `Close` in the deferred cleanup; a killed process (it leaves its `.part`
  file behind, which no code removes).
* Store: contents of bookmarks; damage while an operation runs; another application instance on
  the same file. With `DamageKinds = {"foreign"}`, JSON of another shape, `BackupDecodes` does not
  hold: `json.Valid` is the only guard of the backup. That needs a primary replaced by another
  program's JSON while the repair of the primary fails.
* Operations: dates and wording; entries of one stored file whose inner identifiers clash, of which
  a load keeps an arbitrary one; an older file with histories next to its last results. Import draws
  fresh identifiers, so a clash with those of the file is only one between its own entries.
* Update manager: rules for URLs, release metadata and percentages; a check that fails and one
  that finds an unusable release end alike. Helper: removal of its own file and of temporary files.
* Scan: patterns are sequences of names with `*` for any name; `**`, character classes and case
  folding are left to the matcher. A `.gitignore` that is cut short by a read error (`faulty`) is a
  behaviour of the model, but no property speaks about it. Counting: lines and bytes of a file.
* Tokens: the encoder is a library; the heuristic count is a pure function. Vocabulary: other
  programs that change the cache directory; the library's own download.
* Lifecycle: `net/http`, signals and the window library are modelled from their use. A pending request
  is long; short ones end at once.
* Page: text and layout; the modules know a document by its name. `UpdateView` keeps of the
  application's states those the page distinguishes. One page; a second tab on the same application
  is what `disturbed` (a check during a download) covers.
* Not modelled: `tree.go` and the wording of documents (pure formatting), `binary.go` (an outcome of
  the download's validation), `config.go` (flags and constants), the bookmark list and the token tool
  of the page, routing and headers in `server.go`, the handlers that read a file and keep no state,
  build and release scripts. Two instances on one bookmark file, the `.part` file of a killed
  generation and the sorting of histories by timestamp text are known and have no property: the
  code has nothing that handles them.

## Plan

1. Done: pipeline, store, operations, update manager, helper, scan, statistics, tokens, vocabulary,
   versions, lifecycle, page; proofs about all of these.
2. Done: proofs of the sums (`MemoryAccounted`, `CacheIsConsistent`), of the order of versions,
   that no wakeup is lost, that the goroutines of a request never all wait, and that a request
   takes a bounded number of steps.
3. The page against `UpdateManager` in detail instead of the states it reports; two instances of the
   application on one bookmark file.
