---------------------------- MODULE ProjectScan ----------------------------
(***************************************************************************)
(* ScanProjectFilesContext (internal/scanner/scanner.go, ignore.go): the   *)
(* walk over a project with the excluded names, the .gitignore of every    *)
(* directory it enters, links it does not follow, directories it cannot    *)
(* read and a context that may be cancelled.                               *)
(*                                                                         *)
(* A path is the sequence of names below the root, the root itself <<>>.   *)
(* The tree is a constant; the .gitignore files are chosen once, at the    *)
(* start.  The reference the scan is compared with is git's own rule, on   *)
(* the files themselves and not on the layers the scan builds from them.   *)
(***************************************************************************)
EXTENDS Integers, Sequences

CONSTANTS
    Listing,        \* the entries of every directory, in lexical order
    Links,          \* the entries that are symbolic links
    ExcludedDirs,   \* paths; a path of one name excludes that name anywhere
    ExcludedFiles,  \* names
    Rules,          \* the rules a .gitignore may contain
    IgnoreFiles,    \* the .gitignore files the directories may have
    DirFaults,      \* whether directories may be unreadable
    IgnoreFaults,   \* whether .gitignore files may be unreadable or cut short
    NoDirectory

Dirs == DOMAIN Listing
ChildrenOf(d) == {Listing[d][i] : i \in DOMAIN Listing[d]}
Entries == UNION {ChildrenOf(d) : d \in Dirs}
Regular == Entries \ (Dirs \cup Links)
Root == <<>>
Prefix(p, n) == SubSeq(p, 1, n)
Parent(p) == Prefix(p, Len(p) - 1)
Base(p) == p[Len(p)]

\* a rule names a sequence of names below its directory, or one name anywhere;
\* "*" stands for any name
RuleType ==
    [segments : Seq(STRING), anchored : BOOLEAN, negated : BOOLEAN, directoryOnly : BOOLEAN]

ASSUME TreeAssumption ==
    /\ Root \in Dirs
    /\ \A d \in Dirs : \A p \in ChildrenOf(d) : p \in Seq(STRING) /\ p # Root /\ Parent(p) = d
    /\ \A d \in Dirs : Listing[d] \in Seq(Entries) /\ d \in Seq(STRING)
    /\ Links \subseteq Entries \ Dirs
    /\ Dirs \subseteq Entries \cup {Root}
ASSUME RulesAssumption == Rules \subseteq RuleType /\ IgnoreFiles \subseteq [Dirs -> Seq(Rules)]
ASSUME FaultsAssumption == DirFaults \in BOOLEAN /\ IgnoreFaults \in BOOLEAN
ASSUME NoDirectoryAssumption == NoDirectory \notin Dirs

VARIABLES
    gitignore,  \* the rules in the .gitignore of each directory
    phase,      \* "start", "walking", "done" or "failed"
    stack,      \* the entries not yet visited of each directory being walked
    reading,    \* the directory WalkDir reads next, or NoDirectory
    layer,      \* ignoreByDir: for each directory entered, the rules in force
                \* there, by the depth of the directory they come from
    files,      \* the files listed
    cancelled,
    faulty,     \* history: a .gitignore could not be read to its end
    unread      \* history: the directories that could not be read

walk == <<phase, stack, reading, layer, files, faulty, unread>>
scanVars == <<gitignore, cancelled, walk>>

ScanTypeOK ==
    /\ gitignore \in [Dirs -> Seq(Rules)]
    /\ phase \in {"start", "walking", "done", "failed"}
    /\ stack \in Seq(Seq(Entries))
    /\ reading \in Dirs \cup {NoDirectory}
    /\ DOMAIN layer \subseteq Dirs
    /\ \A d \in DOMAIN layer : layer[d] \in [0..Len(d) -> Seq(Rules)]
    /\ files \subseteq Entries
    /\ cancelled \in BOOLEAN /\ faulty \in BOOLEAN /\ unread \subseteq Dirs

ScanInit ==
    /\ gitignore \in IgnoreFiles
    /\ phase = "start" /\ stack = <<>> /\ reading = NoDirectory
    /\ layer = [d \in {} |-> <<>>] /\ files = {}
    /\ cancelled \in BOOLEAN /\ faulty = FALSE /\ unread = {}

-------------------------------------------------------------------------------
(* Rules *)

Names(segment, name) == segment = "*" \/ segment = name

\* the regular expression `exact', without the directory condition
Exact(rule, local) ==
    IF rule.anchored
    THEN /\ Len(local) = Len(rule.segments)
         /\ \A i \in DOMAIN local : Names(rule.segments[i], local[i])
    ELSE Names(rule.segments[1], Base(local))

\* the regular expression `descendant'
Descendant(rule, local) == \E n \in 1..(Len(local) - 1) : Exact(rule, Prefix(local, n))

\* Fault: a negation re-includes everything below the directory it names
MatchesBelowNegated(rule, local, isDir) ==
    (Exact(rule, local) /\ (rule.directoryOnly => isDir)) \/ Descendant(rule, local)

Matches(rule, local, isDir) ==
    \/ Exact(rule, local) /\ (rule.directoryOnly => isDir)
    \/ ~rule.negated /\ Descendant(rule, local)

\* the path as the rules of its ancestor at this depth see it
Local(path, depth) == SubSeq(path, depth + 1, Len(path))

Later(m, j, n, i) == m > n \/ (m = n /\ j > i)

\* ignored: parents first, and in each layer the last rule that matches decides
Ignored(rules, path, isDir) ==
    \E n \in DOMAIN rules : \E i \in DOMAIN rules[n] :
        /\ ~rules[n][i].negated /\ Matches(rules[n][i], Local(path, n), isDir)
        /\ \A m \in DOMAIN rules : \A j \in DOMAIN rules[m] :
              Later(m, j, n, i) /\ rules[m][j].negated
                  => ~Matches(rules[m][j], Local(path, m), isDir)

Excluded(dir) == <<Base(dir)>> \in ExcludedDirs \/ dir \in ExcludedDirs

\* loadIgnoreLayer: what is loaded of a .gitignore when it cannot be opened, or
\* the scanner stops at a line too long; a layer without rules is left out
Loadable(rules) ==
    {rules} \cup (IF IgnoreFaults THEN {SubSeq(rules, 1, n) : n \in 0..Len(rules)} ELSE {})

\* enter a directory whose parent has the rules `above'
Enter(dir, above) ==
    \E loaded \in Loadable(gitignore[dir]) :
        /\ layer' = [d \in DOMAIN layer \cup {dir} |->
                        IF d # dir THEN layer[d]
                        ELSE [n \in 0..Len(dir) |-> IF n = Len(dir) THEN loaded ELSE above[n]]]
        /\ faulty' = (faulty \/ loaded # gitignore[dir])

-------------------------------------------------------------------------------
(* The walk *)

\* os.Stat, which may fail, the rules of the root, and the callback for it
Start ==
    /\ phase = "start"
    /\ \/ phase' = "failed" /\ UNCHANGED <<reading, layer, faulty>>
       \/ /\ ~cancelled /\ phase' = "walking" /\ reading' = Root
          /\ Enter(Root, <<>>)
    /\ UNCHANGED <<stack, files, unread>>

Fail == phase' = "failed" /\ UNCHANGED <<stack, reading, layer, files, faulty, unread>>

\* WalkDir reads a directory; when it cannot it calls back a second time, which
\* fails for the root, and once cancelled, and skips any other directory
ReadDir ==
    /\ reading # NoDirectory
    /\ \/ /\ stack' = Append(stack, Listing[reading]) /\ reading' = NoDirectory
          /\ UNCHANGED <<phase, layer, files, faulty, unread>>
       \/ /\ DirFaults /\ (cancelled \/ reading = Root)
          /\ Fail
       \/ /\ DirFaults /\ ~cancelled /\ reading # Root
          /\ reading' = NoDirectory /\ unread' = unread \cup {reading}
          /\ UNCHANGED <<phase, stack, layer, files, faulty>>

Top == stack[Len(stack)]
TopEntry == Head(Top)
TopRest == [stack EXCEPT ![Len(stack)] = Tail(@)]

\* Fault: SkipDir for a link, which WalkDir takes for the rest of the directory
SkipLinkDir ==
    /\ stack' = SubSeq(stack, 1, Len(stack) - 1)
    /\ UNCHANGED <<layer, files, reading, faulty>>
SkipLink == stack' = TopRest /\ UNCHANGED <<layer, files, reading, faulty>>

VisitDir ==
    LET above == layer[Parent(TopEntry)] IN
    /\ stack' = TopRest /\ UNCHANGED files
    /\ \/ /\ Excluded(TopEntry) \/ Ignored(above, TopEntry, TRUE)
          /\ UNCHANGED <<layer, reading, faulty>>
       \/ /\ ~Excluded(TopEntry) /\ ~Ignored(above, TopEntry, TRUE)
          /\ Enter(TopEntry, above) /\ reading' = TopEntry

VisitFile ==
    /\ stack' = TopRest
    /\ files' = IF \/ Base(TopEntry) \in ExcludedFiles
                   \/ Ignored(layer[Parent(TopEntry)], TopEntry, FALSE)
                THEN files ELSE files \cup {TopEntry}
    /\ UNCHANGED <<layer, reading, faulty>>

\* the callback of WalkDir
Visit ==
    /\ reading = NoDirectory /\ stack # <<>> /\ Top # <<>>
    /\ \/ cancelled /\ Fail
       \/ /\ ~cancelled /\ UNCHANGED <<phase, unread>>
          /\ \/ TopEntry \in Links /\ SkipLink
             \/ TopEntry \in Dirs /\ VisitDir
             \/ TopEntry \in Regular /\ VisitFile

LeaveDir ==
    /\ reading = NoDirectory /\ stack # <<>> /\ Top = <<>>
    /\ stack' = SubSeq(stack, 1, Len(stack) - 1)
    /\ UNCHANGED <<phase, reading, layer, files, faulty, unread>>

Finish ==
    /\ reading = NoDirectory /\ stack = <<>>
    /\ phase' = "done"
    /\ UNCHANGED <<stack, reading, layer, files, faulty, unread>>

Walk ==
    /\ Start \/ (phase = "walking" /\ (ReadDir \/ Visit \/ LeaveDir \/ Finish))
    /\ UNCHANGED <<gitignore, cancelled>>

Cancel ==
    /\ ~cancelled /\ phase \in {"start", "walking"}
    /\ cancelled' = TRUE
    /\ UNCHANGED <<gitignore, walk>>

Returned == phase \in {"done", "failed"} /\ UNCHANGED scanVars

ScanNext == Walk \/ Cancel \/ Returned

ScanSpec == ScanInit /\ [][ScanNext]_scanVars

-------------------------------------------------------------------------------
(* Properties *)

\* git's rule: the last rule that names the path itself, in the .gitignore of its
\* deepest directory that has one, decides ...
Decided(path, isDir) ==
    \E n \in 0..(Len(path) - 1) : \E i \in DOMAIN gitignore[Prefix(path, n)] :
        LET rule == gitignore[Prefix(path, n)][i] IN
        /\ ~rule.negated
        /\ Exact(rule, SubSeq(path, n + 1, Len(path))) /\ (rule.directoryOnly => isDir)
        /\ \A m \in 0..(Len(path) - 1) : \A j \in DOMAIN gitignore[Prefix(path, m)] :
              LET other == gitignore[Prefix(path, m)][j] IN
              Later(m, j, n, i) /\ other.negated
                  => ~(Exact(other, SubSeq(path, m + 1, Len(path)))
                          /\ (other.directoryOnly => isDir))

\* ... and what is below an ignored or excluded directory is out of reach
InScope(file) ==
    /\ file \in Regular
    /\ \A n \in 1..(Len(file) - 1) :
          ~Decided(Prefix(file, n), TRUE) /\ ~Excluded(Prefix(file, n))
    /\ ~Decided(file, FALSE) /\ Base(file) \notin ExcludedFiles

\* No file git ignores is listed, nor one below an excluded directory, nor a
\* link: whatever lies in nested .gitignore files, whatever cannot be read, and
\* at every moment of the scan (scanner.go:73-123, ignore.go:54-90).
ListedIsInScope == ~faulty => \A f \in files : InScope(f)

\* A scan that ends well has listed every file in scope, as long as no rule
\* re-includes a directory that another rule ignored: no sibling is lost to a
\* link, an ignored or an unreadable directory or a nested .gitignore.
Reincludes(dir) ==
    \E n \in 0..(Len(dir) - 1) : \E j \in DOMAIN gitignore[Prefix(dir, n)] :
        LET rule == gitignore[Prefix(dir, n)][j] IN
        rule.negated /\ Exact(rule, SubSeq(dir, n + 1, Len(dir)))
ListsScope ==
    \A f \in Regular :
        InScope(f) /\ (\A n \in 1..Len(f) : Prefix(f, n) \notin unread) => f \in files
CompleteUnlessReincluded ==
    phase = "done" /\ ~faulty /\ (\A d \in Dirs : ~Reincludes(d)) => ListsScope

\* "It scans with `.gitignore` support" (README.md:3): a scan that ends well has
\* listed every file git does not ignore.
Complete == phase = "done" /\ ~faulty => ListsScope
===============================================================================
