--------------------------- MODULE Services_proofs ---------------------------
(***************************************************************************)
(* Proofs about four services that share no state with each other: the     *)
(* scan of a project (ProjectScan), the token counter with its cache       *)
(* (TokenCache), the vocabulary cache (Vocabulary) and the choice of an    *)
(* update (Versions), for every tree and all rules, for every set of       *)
(* goroutines, texts, tokenizers, processes and tags and all limits.       *)
(***************************************************************************)
EXTENDS ProjectScan, TokenCache, Vocabulary, Versions, FiniteSums

-------------------------------------------------------------------------------
(* ProjectScan: the scan lists no file that git ignores, and every other    *)
(* file, unless a rule re-includes a directory                              *)

(* Paths *)

\* The parent of a path is a path.
LEMMA ParentIsPath ==
    ASSUME NEW p \in Seq(STRING), p # Root
    PROVE  /\ Len(p) \in Nat \ {0} /\ Prefix(p, Len(p)) = p
           /\ Parent(p) \in Seq(STRING) /\ Len(Parent(p)) = Len(p) - 1
<1>1. Len(p) \in Nat \ {0} /\ Prefix(p, Len(p)) = p
  BY DEF Prefix, Root
<1>2. \A i \in 1..(Len(p) - 1) : p[i] \in STRING
  BY <1>1
<1>3. Parent(p) \in Seq(STRING) /\ Len(Parent(p)) = Len(p) - 1
  BY <1>1, <1>2 DEF Parent, Prefix
<1>4. QED
  BY <1>1, <1>3

\* A prefix of a prefix is a prefix.
LEMMA PrefixOfPrefix ==
    ASSUME NEW p \in Seq(STRING), p # Root, NEW n \in 0..(Len(p) - 1)
    PROVE  Prefix(Parent(p), n) = Prefix(p, n)
<1>1. Parent(p) \in Seq(STRING) /\ Len(Parent(p)) = Len(p) - 1
  BY ParentIsPath
<1>2. \A i \in 1..n : Prefix(Parent(p), n)[i] = p[i] /\ Prefix(p, n)[i] = p[i]
  BY <1>1 DEF Parent, Prefix
<1>3. Len(Prefix(Parent(p), n)) = n /\ Len(Prefix(p, n)) = n
  BY <1>1 DEF Prefix
<1>4. Prefix(Parent(p), n) \in Seq(STRING) /\ Prefix(p, n) \in Seq(STRING)
  BY <1>1 DEF Prefix
<1>5. QED
  BY <1>2, <1>3, <1>4

\* What the assumption on the tree says of the entries of its directories.
LEMMA Tree ==
    /\ \A e \in Entries : e \in Seq(STRING) /\ e # Root /\ Parent(e) \in Dirs
    /\ \A d \in Dirs : /\ d \in Seq(STRING) /\ Listing[d] \in Seq(Entries)
                       /\ \A i \in DOMAIN Listing[d] : Parent(Listing[d][i]) = d
<1>1. ASSUME NEW e \in Entries
      PROVE  e \in Seq(STRING) /\ e # Root /\ Parent(e) \in Dirs
  <2>1. PICK d \in Dirs : e \in ChildrenOf(d)
    BY DEF Entries
  <2>2. QED
    BY <2>1, TreeAssumption
<1>2. ASSUME NEW d \in Dirs
      PROVE  /\ d \in Seq(STRING) /\ Listing[d] \in Seq(Entries)
             /\ \A i \in DOMAIN Listing[d] : Parent(Listing[d][i]) = d
  BY TreeAssumption DEF ChildrenOf
<1>3. QED
  BY <1>1, <1>2

\* What is loaded of a .gitignore is a sequence of rules.
LEMMA Loaded ==
    ASSUME NEW rules \in Seq(Rules), NEW loaded \in Loadable(rules)
    PROVE  loaded \in Seq(Rules)
<1>1. \A n \in 0..Len(rules) : SubSeq(rules, 1, n) \in Seq(Rules)
  OBVIOUS
<1>2. QED
  BY <1>1 DEF Loadable

-------------------------------------------------------------------------------
(* Types, and the directories that are known *)

\* Whatever is visited or read has its rules in the map.
Known ==
    /\ reading # NoDirectory => reading \in DOMAIN layer
    /\ \A k \in DOMAIN stack : \A i \in DOMAIN stack[k] : Parent(stack[k][i]) \in DOMAIN layer

\* The rest of the stack once an entry is taken, or a directory left.
LEMMA Stacks ==
    ASSUME ScanTypeOK, Known, stack # <<>>
    PROVE  /\ SubSeq(stack, 1, Len(stack) - 1) \in Seq(Seq(Entries))
           /\ \A k \in DOMAIN SubSeq(stack, 1, Len(stack) - 1) :
                 \A i \in DOMAIN SubSeq(stack, 1, Len(stack) - 1)[k] :
                    Parent(SubSeq(stack, 1, Len(stack) - 1)[k][i]) \in DOMAIN layer
           /\ Top # <<>> =>
                 /\ TopRest \in Seq(Seq(Entries)) /\ TopEntry \in Entries
                 /\ Parent(TopEntry) \in DOMAIN layer
                 /\ \A k \in DOMAIN TopRest : \A i \in DOMAIN TopRest[k] :
                       Parent(TopRest[k][i]) \in DOMAIN layer
<1> USE DEF ScanTypeOK, Known
<1>1. SubSeq(stack, 1, Len(stack) - 1) \in Seq(Seq(Entries))
      /\ \A k \in DOMAIN SubSeq(stack, 1, Len(stack) - 1) :
            k \in DOMAIN stack /\ SubSeq(stack, 1, Len(stack) - 1)[k] = stack[k]
  OBVIOUS
<1>2. Top \in Seq(Entries) /\ Len(stack) \in DOMAIN stack /\ Top = stack[Len(stack)]
  BY DEF Top
<1>3. ASSUME Top # <<>>
      PROVE  /\ TopRest \in Seq(Seq(Entries)) /\ TopEntry \in Entries
             /\ Parent(TopEntry) \in DOMAIN layer
             /\ \A k \in DOMAIN TopRest : \A i \in DOMAIN TopRest[k] :
                   Parent(TopRest[k][i]) \in DOMAIN layer
  <2>1. /\ Tail(Top) \in Seq(Entries) /\ TopEntry \in Entries
        /\ TopEntry = Top[1] /\ 1 \in DOMAIN Top
        /\ \A i \in DOMAIN Tail(Top) : i + 1 \in DOMAIN Top /\ Tail(Top)[i] = Top[i + 1]
    BY <1>2, <1>3 DEF TopEntry
  <2>2. /\ TopRest \in Seq(Seq(Entries)) /\ DOMAIN TopRest = DOMAIN stack
        /\ \A k \in DOMAIN TopRest : TopRest[k] = IF k = Len(stack) THEN Tail(Top) ELSE stack[k]
    BY <1>2, <2>1 DEF TopRest
  <2>3. Parent(TopEntry) \in DOMAIN layer
    BY <1>2, <2>1
  <2>4. ASSUME NEW k \in DOMAIN TopRest, NEW i \in DOMAIN TopRest[k]
        PROVE  Parent(TopRest[k][i]) \in DOMAIN layer
    BY <1>2, <2>1, <2>2
  <2>5. QED
    BY <2>1, <2>2, <2>3, <2>4
<1>4. QED
  BY <1>1, <1>3

\* Entering a directory adds its rules to those above it.
LEMMA Entering ==
    ASSUME ScanTypeOK, NEW dir \in Dirs, NEW above, Enter(dir, above),
           \A n \in 0..(Len(dir) - 1) : above[n] \in Seq(Rules)
    PROVE  /\ DOMAIN layer' = DOMAIN layer \cup {dir} /\ faulty' \in BOOLEAN
           /\ \A d \in DOMAIN layer' : layer'[d] \in [0..Len(d) -> Seq(Rules)]
<1>1. PICK loaded \in Loadable(gitignore[dir]) :
          /\ layer' = [d \in DOMAIN layer \cup {dir} |->
                          IF d # dir THEN layer[d]
                          ELSE [n \in 0..Len(dir) |-> IF n = Len(dir) THEN loaded ELSE above[n]]]
          /\ faulty' = (faulty \/ loaded # gitignore[dir])
  BY DEF Enter
<1>2. loaded \in Seq(Rules) /\ Len(dir) \in Nat
  BY Loaded, Tree DEF ScanTypeOK
<1>3. [n \in 0..Len(dir) |-> IF n = Len(dir) THEN loaded ELSE above[n]]
          \in [0..Len(dir) -> Seq(Rules)]
  BY <1>2
<1>4. QED
  BY <1>1, <1>3 DEF ScanTypeOK

\* The types and the first invariant hold always.
LEMMA TypedAndKnown == ScanSpec => [](ScanTypeOK /\ Known)
<1>1. ScanInit => ScanTypeOK /\ Known
  <2>1. SUFFICES ASSUME ScanInit PROVE ScanTypeOK /\ Known
    OBVIOUS
  <2>2. gitignore \in [Dirs -> Seq(Rules)]
    BY <2>1, RulesAssumption DEF ScanInit
  <2>3. stack \in Seq(Seq(Entries)) /\ DOMAIN stack = {}
    BY <2>1 DEF ScanInit
  <2>4. QED
    BY <2>1, <2>2, <2>3 DEF ScanInit, ScanTypeOK, Known
<1>2. ASSUME ScanTypeOK, Known, [ScanNext]_scanVars
      PROVE  ScanTypeOK' /\ Known'
  <2> USE <1>2
  <2>1. ASSUME Start, UNCHANGED <<gitignore, cancelled>>
        PROVE  ScanTypeOK' /\ Known'
    <3>1. CASE phase' = "failed" /\ UNCHANGED <<reading, layer, faulty>>
      BY <2>1, <3>1 DEF Start, ScanTypeOK, Known
    <3>2. CASE phase' = "walking" /\ reading' = Root /\ Enter(Root, <<>>)
      <4>1. Root \in Dirs /\ Len(Root) = 0
        BY TreeAssumption DEF Root
      <4>2. /\ DOMAIN layer' = DOMAIN layer \cup {Root} /\ faulty' \in BOOLEAN
            /\ \A d \in DOMAIN layer' : layer'[d] \in [0..Len(d) -> Seq(Rules)]
        <5>1. \A n \in 0..(Len(Root) - 1) : <<>>[n] \in Seq(Rules)
          BY <4>1
        <5>2. QED
          BY <3>2, <4>1, <5>1, Entering
      <4>3. QED
        BY <2>1, <3>2, <4>1, <4>2 DEF Start, ScanTypeOK, Known
    <3>3. QED
      BY <2>1, <3>1, <3>2 DEF Start
  <2>2. ASSUME ReadDir, UNCHANGED <<gitignore, cancelled>>
        PROVE  ScanTypeOK' /\ Known'
    <3>1. CASE stack' = Append(stack, Listing[reading]) /\ reading' = NoDirectory
               /\ UNCHANGED <<phase, layer, files, faulty, unread>>
      <4>1. reading \in Dirs /\ reading \in DOMAIN layer
        BY <2>2 DEF ReadDir, ScanTypeOK, Known
      <4>2. Listing[reading] \in Seq(Entries)
            /\ \A i \in DOMAIN Listing[reading] : Parent(Listing[reading][i]) = reading
        BY <4>1, Tree
      <4>3. /\ stack' \in Seq(Seq(Entries))
            /\ \A k \in DOMAIN stack' : stack'[k] = IF k \in DOMAIN stack THEN stack[k]
                                                    ELSE Listing[reading]
        BY <3>1, <4>2 DEF ScanTypeOK
      <4>4. ASSUME NEW k \in DOMAIN stack', NEW i \in DOMAIN stack'[k]
            PROVE  Parent(stack'[k][i]) \in DOMAIN layer
        BY <4>1, <4>2, <4>3 DEF Known
      <4>5. QED
        BY <2>2, <3>1, <4>3, <4>4 DEF ScanTypeOK, Known
    <3>2. CASE Fail
      BY <2>2, <3>2 DEF Fail, ScanTypeOK, Known
    <3>3. CASE reading' = NoDirectory /\ unread' = unread \cup {reading}
               /\ UNCHANGED <<phase, stack, layer, files, faulty>>
      BY <2>2, <3>3 DEF ReadDir, ScanTypeOK, Known
    <3>4. QED
      BY <2>2, <3>1, <3>2, <3>3 DEF ReadDir
  <2>3. ASSUME Visit, UNCHANGED <<gitignore, cancelled>>
        PROVE  ScanTypeOK' /\ Known'
    <3>1. /\ TopRest \in Seq(Seq(Entries)) /\ TopEntry \in Entries
          /\ Parent(TopEntry) \in DOMAIN layer
          /\ \A k \in DOMAIN TopRest : \A i \in DOMAIN TopRest[k] :
                Parent(TopRest[k][i]) \in DOMAIN layer
      BY <2>3, Stacks DEF Visit
    <3>2. CASE Fail
      BY <2>3, <3>2 DEF Fail, ScanTypeOK, Known
    <3>3. CASE SkipLink /\ UNCHANGED <<phase, unread>>
      BY <2>3, <3>1, <3>3 DEF SkipLink, ScanTypeOK, Known
    <3>4. CASE VisitFile /\ UNCHANGED <<phase, unread>>
      BY <2>3, <3>1, <3>4 DEF VisitFile, ScanTypeOK, Known
    <3>5. CASE VisitDir /\ TopEntry \in Dirs /\ UNCHANGED <<phase, unread>>
      <4>1. CASE UNCHANGED <<layer, reading, faulty>>
        BY <2>3, <3>1, <3>5, <4>1 DEF VisitDir, ScanTypeOK, Known
      <4>2. CASE Enter(TopEntry, layer[Parent(TopEntry)]) /\ reading' = TopEntry
        <5>1. TopEntry \in Seq(STRING) /\ Len(Parent(TopEntry)) = Len(TopEntry) - 1
          BY <3>1, Tree, ParentIsPath
        <5>2. \A n \in 0..(Len(TopEntry) - 1) : layer[Parent(TopEntry)][n] \in Seq(Rules)
          BY <3>1, <5>1 DEF ScanTypeOK
        <5>3. /\ DOMAIN layer' = DOMAIN layer \cup {TopEntry} /\ faulty' \in BOOLEAN
              /\ \A d \in DOMAIN layer' : layer'[d] \in [0..Len(d) -> Seq(Rules)]
          BY <3>5, <4>2, <5>2, Entering
        <5>4. QED
          BY <2>3, <3>1, <3>5, <4>2, <5>3 DEF VisitDir, ScanTypeOK, Known
      <4>3. QED
        BY <3>5, <4>1, <4>2 DEF VisitDir
    <3>6. QED
      BY <2>3, <3>2, <3>3, <3>4, <3>5 DEF Visit
  <2>4. ASSUME LeaveDir, UNCHANGED <<gitignore, cancelled>>
        PROVE  ScanTypeOK' /\ Known'
    BY <2>4, Stacks DEF LeaveDir, ScanTypeOK, Known
  <2>5. ASSUME Finish, UNCHANGED <<gitignore, cancelled>>
        PROVE  ScanTypeOK' /\ Known'
    BY <2>5 DEF Finish, ScanTypeOK, Known
  <2>6. CASE Cancel
    BY <2>6 DEF Cancel, walk, ScanTypeOK, Known
  <2>7. CASE UNCHANGED scanVars
    BY <2>7 DEF scanVars, walk, ScanTypeOK, Known
  <2>8. QED
    BY <2>1, <2>2, <2>3, <2>4, <2>5, <2>6, <2>7 DEF ScanNext, Walk, Returned
<1>3. QED
  BY <1>1, <1>2, PTL DEF ScanSpec

\* The types: each directory that is entered has the rules of all its ancestors
\* (scanner.go:69-112).
THEOREM TypeInvariant == ScanSpec => []ScanTypeOK
  BY TypedAndKnown, PTL

-------------------------------------------------------------------------------
(* Scope *)

\* The rules of a known directory are those of git's files, from the root down.
Exactly ==
    \A d \in DOMAIN layer : \A n \in 0..Len(d) : layer[d][n] = gitignore[Prefix(d, n)]

\* Nothing above or at the path keeps git, or the excluded names, from it.
Reached(d) == \A n \in 1..Len(d) : ~Decided(Prefix(d, n), TRUE) /\ ~Excluded(Prefix(d, n))

Scope == ~faulty => /\ Exactly
                    /\ \A d \in DOMAIN layer : Reached(d)
                    /\ \A f \in files : InScope(f)

\* What git ignores by a rule that names the path, the scan ignores: its matches
\* include git's, and a negation matches no more than it names.
LEMMA IgnoresDecided ==
    ASSUME NEW path \in Seq(STRING), path # Root, NEW isDir \in BOOLEAN,
           NEW rules,
           DOMAIN rules = 0..(Len(path) - 1),
           \A n \in 0..(Len(path) - 1) : rules[n] = gitignore[Prefix(path, n)],
           Decided(path, isDir)
    PROVE  Ignored(rules, path, isDir)
<1>1. PICK n \in 0..(Len(path) - 1) : \E i \in DOMAIN gitignore[Prefix(path, n)] :
          LET rule == gitignore[Prefix(path, n)][i] IN
          /\ ~rule.negated
          /\ Exact(rule, SubSeq(path, n + 1, Len(path))) /\ (rule.directoryOnly => isDir)
          /\ \A m \in 0..(Len(path) - 1) : \A j \in DOMAIN gitignore[Prefix(path, m)] :
                LET other == gitignore[Prefix(path, m)][j] IN
                Later(m, j, n, i) /\ other.negated
                    => ~(Exact(other, SubSeq(path, m + 1, Len(path)))
                            /\ (other.directoryOnly => isDir))
  BY DEF Decided
<1>2. PICK i \in DOMAIN rules[n] :
          /\ ~rules[n][i].negated
          /\ Exact(rules[n][i], Local(path, n)) /\ (rules[n][i].directoryOnly => isDir)
          /\ \A m \in DOMAIN rules : \A j \in DOMAIN rules[m] :
                Later(m, j, n, i) /\ rules[m][j].negated
                    => ~(Exact(rules[m][j], Local(path, m))
                            /\ (rules[m][j].directoryOnly => isDir))
  BY <1>1 DEF Local
<1>3. Matches(rules[n][i], Local(path, n), isDir)
  BY <1>2 DEF Matches
<1>4. \A m \in DOMAIN rules : \A j \in DOMAIN rules[m] :
          Later(m, j, n, i) /\ rules[m][j].negated
              => ~Matches(rules[m][j], Local(path, m), isDir)
  BY <1>2 DEF Matches
<1>5. QED
  BY <1>2, <1>3, <1>4 DEF Ignored

\* The rules of the directory an entry is in are those that apply to it.
LEMMA RulesOfParent ==
    ASSUME ScanTypeOK, Exactly, NEW e \in Entries, Parent(e) \in DOMAIN layer
    PROVE  /\ DOMAIN layer[Parent(e)] = 0..(Len(e) - 1)
           /\ \A n \in 0..(Len(e) - 1) : layer[Parent(e)][n] = gitignore[Prefix(e, n)]
<1>1. e \in Seq(STRING) /\ e # Root
  BY Tree
<1>2. Len(Parent(e)) = Len(e) - 1
  BY <1>1, ParentIsPath
<1>3. \A n \in 0..(Len(e) - 1) : Prefix(Parent(e), n) = Prefix(e, n)
  BY <1>1, PrefixOfPrefix
<1>4. QED
  BY <1>2, <1>3 DEF ScanTypeOK, Exactly

\* An entry of a directory that was reached is reached, if it is not ignored
\* itself.
LEMMA EntryReached ==
    ASSUME ScanTypeOK, Exactly, NEW e \in Entries, Parent(e) \in DOMAIN layer, Reached(Parent(e))
    PROVE  /\ \A n \in 1..(Len(e) - 1) :
                 ~Decided(Prefix(e, n), TRUE) /\ ~Excluded(Prefix(e, n))
           /\ ~Ignored(layer[Parent(e)], e, TRUE) => ~Decided(e, TRUE)
           /\ ~Ignored(layer[Parent(e)], e, FALSE) => ~Decided(e, FALSE)
<1>1. e \in Seq(STRING) /\ e # Root /\ Len(Parent(e)) = Len(e) - 1 /\ Len(e) \in Nat
  BY Tree, ParentIsPath
<1>2. \A n \in 1..(Len(e) - 1) : n \in 0..(Len(e) - 1) /\ Prefix(Parent(e), n) = Prefix(e, n)
  BY <1>1, PrefixOfPrefix
<1>3. QED
  BY <1>1, <1>2, RulesOfParent, IgnoresDecided DEF Reached

\* A step that enters no directory and lists no file.
LEMMA ScopeUndisturbed ==
    ASSUME Scope, UNCHANGED <<gitignore, layer, files, faulty>>
    PROVE  Scope'
<1>1. \A p, isDir : Decided(p, isDir)' <=> Decided(p, isDir)
  BY DEF Decided
<1>2. QED
  BY <1>1 DEF Scope, Exactly, Reached, InScope

\* The second invariant holds always.
LEMMA ScopeInvariant == ScanSpec => []Scope
<1>1. ScanInit => Scope
  BY DEF ScanInit, Scope, Exactly
<1>2. ASSUME ScanTypeOK, Known, Scope, [ScanNext]_scanVars
      PROVE  Scope'
  <2> USE <1>2
  <2>1. ASSUME UNCHANGED gitignore
        PROVE  \A p, isDir : Decided(p, isDir)' <=> Decided(p, isDir)
    BY <2>1 DEF Decided
  <2>2. ASSUME Start, UNCHANGED <<gitignore, cancelled>>
        PROVE  Scope'
    <3>1. CASE UNCHANGED <<reading, layer, faulty>>
      BY <2>2, <3>1, ScopeUndisturbed DEF Start
    <3>2. CASE Enter(Root, <<>>)
      <4>1. SUFFICES ASSUME ~faulty' PROVE Scope'
        BY DEF Scope
      <4>2. /\ layer' = [d \in DOMAIN layer \cup {Root} |->
                            IF d # Root THEN layer[d]
                            ELSE [n \in 0..Len(Root) |-> IF n = Len(Root) THEN gitignore[Root]
                                                         ELSE <<>>[n]]]
            /\ ~faulty
        BY <3>2, <4>1 DEF Enter
      <4>3. Len(Root) = 0 /\ Prefix(Root, 0) = Root
        BY DEF Root, Prefix
      <4>4. Exactly'
        BY <2>2, <4>2, <4>3 DEF Scope, Exactly
      <4>5. \A d \in DOMAIN layer' : Reached(d)'
        <5>1. \A d \in DOMAIN layer : Reached(d)'
          BY <2>1, <2>2, <4>2 DEF Scope, Reached
        <5>2. Reached(Root)'
          BY <4>3 DEF Reached
        <5>3. QED
          BY <4>2, <5>1, <5>2
      <4>6. \A f \in files' : InScope(f)'
        BY <2>1, <2>2, <4>2 DEF Start, Scope, InScope
      <4>7. QED
        BY <4>4, <4>5, <4>6 DEF Scope
    <3>3. QED
      BY <2>2, <3>1, <3>2 DEF Start
  <2>3. ASSUME ReadDir, UNCHANGED <<gitignore, cancelled>>
        PROVE  Scope'
    BY <2>3, ScopeUndisturbed DEF ReadDir, Fail
  <2>4. ASSUME Visit, UNCHANGED <<gitignore, cancelled>>
        PROVE  Scope'
    <3>1. TopEntry \in Entries /\ Parent(TopEntry) \in DOMAIN layer
      BY <2>4, Stacks DEF Visit
    <3>2. CASE UNCHANGED <<layer, files, faulty>>
      BY <2>4, <3>2, ScopeUndisturbed
    <3>3. CASE VisitFile /\ TopEntry \in Regular
      <4>1. SUFFICES ASSUME ~faulty PROVE Scope'
        BY <3>3 DEF VisitFile, Scope
      <4>2. Exactly' /\ \A d \in DOMAIN layer' : Reached(d)'
        BY <2>1, <2>4, <3>3, <4>1 DEF VisitFile, Scope, Exactly, Reached
      <4>3. ASSUME NEW f \in files'
            PROVE  InScope(f)'
        <5>1. CASE f \in files
          BY <2>1, <2>4, <4>1, <5>1 DEF Scope, InScope
        <5>2. CASE f \notin files
          <6>1. /\ f = TopEntry /\ Base(f) \notin ExcludedFiles
                /\ ~Ignored(layer[Parent(f)], f, FALSE)
            BY <3>3, <4>3, <5>2 DEF VisitFile
          <6>2. InScope(f)
            BY <3>1, <3>3, <4>1, <6>1, EntryReached DEF Scope, InScope
          <6>3. QED
            BY <2>1, <2>4, <6>2 DEF InScope
        <5>3. QED
          BY <5>1, <5>2
      <4>4. QED
        BY <4>2, <4>3 DEF Scope
    <3>4. CASE /\ VisitDir /\ TopEntry \in Dirs /\ ~Excluded(TopEntry)
               /\ ~Ignored(layer[Parent(TopEntry)], TopEntry, TRUE)
               /\ Enter(TopEntry, layer[Parent(TopEntry)])
      <4>1. SUFFICES ASSUME ~faulty' PROVE Scope'
        BY DEF Scope
      <4>2. /\ layer' = [d \in DOMAIN layer \cup {TopEntry} |->
                            IF d # TopEntry THEN layer[d]
                            ELSE [n \in 0..Len(TopEntry) |->
                                     IF n = Len(TopEntry) THEN gitignore[TopEntry]
                                     ELSE layer[Parent(TopEntry)][n]]]
            /\ ~faulty
        BY <3>4, <4>1 DEF Enter
      <4>3. /\ TopEntry \in Seq(STRING) /\ TopEntry # Root /\ Len(TopEntry) \in Nat \ {0}
            /\ Prefix(TopEntry, Len(TopEntry)) = TopEntry
        BY <3>1, Tree, ParentIsPath
      <4>4. Exactly'
        <5>1. \A n \in 0..(Len(TopEntry) - 1) :
                 layer[Parent(TopEntry)][n] = gitignore[Prefix(TopEntry, n)]
          BY <3>1, <4>2, RulesOfParent DEF Scope
        <5>2. \A n \in 0..Len(TopEntry) : layer'[TopEntry][n] = gitignore[Prefix(TopEntry, n)]
          BY <4>2, <4>3, <5>1
        <5>3. QED
          BY <2>4, <4>2, <5>2 DEF Scope, Exactly
      <4>5. ASSUME NEW d \in DOMAIN layer'
            PROVE  Reached(d)'
        <5>1. CASE d # TopEntry
          BY <2>1, <2>4, <4>2, <5>1 DEF Scope, Reached
        <5>2. CASE d = TopEntry
          <6>1. /\ \A n \in 1..(Len(TopEntry) - 1) :
                      ~Decided(Prefix(TopEntry, n), TRUE) /\ ~Excluded(Prefix(TopEntry, n))
                /\ ~Decided(TopEntry, TRUE) /\ ~Excluded(TopEntry)
            BY <3>1, <3>4, <4>2, EntryReached DEF Scope
          <6>2. \A n \in 1..Len(TopEntry) : n = Len(TopEntry) \/ n \in 1..(Len(TopEntry) - 1)
            BY <4>3
          <6>3. Reached(TopEntry)
            BY <4>3, <6>1, <6>2 DEF Reached
          <6>4. QED
            BY <2>1, <2>4, <5>2, <6>3 DEF Reached
        <5>3. QED
          BY <5>1, <5>2
      <4>6. \A f \in files' : InScope(f)'
        BY <2>1, <2>4, <3>4, <4>2 DEF VisitDir, Scope, InScope
      <4>7. QED
        BY <4>4, <4>5, <4>6 DEF Scope
    <3>5. QED
      BY <2>4, <3>2, <3>3, <3>4 DEF Visit, Fail, SkipLink, VisitDir
  <2>5. ASSUME LeaveDir \/ Finish, UNCHANGED <<gitignore, cancelled>>
        PROVE  Scope'
    BY <2>5, ScopeUndisturbed DEF LeaveDir, Finish
  <2>6. CASE Cancel
    BY <2>6, ScopeUndisturbed DEF Cancel, walk
  <2>7. CASE UNCHANGED scanVars
    BY <2>7, ScopeUndisturbed DEF scanVars, walk
  <2>8. QED
    BY <2>2, <2>3, <2>4, <2>5, <2>6, <2>7 DEF ScanNext, Walk, Returned
<1>3. QED
  BY <1>1, <1>2, TypedAndKnown, PTL DEF ScanSpec

\* No file that git ignores is listed, at any moment of any scan
\* (scanner.go:73-123, ignore.go:54-90).
THEOREM ListsOnlyScope == ScanSpec => []ListedIsInScope
<1>1. Scope => ListedIsInScope
  BY DEF Scope, ListedIsInScope
<1>2. QED
  BY <1>1, ScopeInvariant, PTL
-------------------------------------------------------------------------------
(* Completeness *)

\* Whatever is above an entry is a directory, and listed in the one above it.
LEMMA Above ==
    ASSUME NEW e \in Entries, NEW n \in 0..(Len(e) - 1)
    PROVE  /\ Prefix(e, n) \in Dirs /\ Prefix(e, n + 1) \in Entries
           /\ Len(Prefix(e, n)) = n /\ Prefix(e, n + 1) \in ChildrenOf(Prefix(e, n))
<1>1. e \in Seq(STRING) /\ Len(e) \in Nat /\ Prefix(e, Len(e)) = e
  BY Tree, ParentIsPath
<1>2. ASSUME NEW m \in 0..(Len(e) - 1), Prefix(e, m + 1) \in Entries
      PROVE  /\ Prefix(e, m) \in Dirs /\ Len(Prefix(e, m)) = m
             /\ Prefix(e, m + 1) \in ChildrenOf(Prefix(e, m))
  <2>1. PICK d \in Dirs : Prefix(e, m + 1) \in ChildrenOf(d)
    BY <1>2 DEF Entries
  <2>2. Parent(Prefix(e, m + 1)) = d
    BY <2>1, TreeAssumption
  <2>3. Parent(Prefix(e, m + 1)) = Prefix(e, m)
    <3>1. Len(Prefix(e, m + 1)) = m + 1 /\ \A i \in 1..m : Prefix(e, m + 1)[i] = e[i]
      BY <1>1 DEF Prefix
    <3>2. Prefix(e, m + 1) \in Seq(STRING) /\ Prefix(e, m) \in Seq(STRING)
      BY <1>1 DEF Prefix
    <3>3. Len(Prefix(e, m)) = m /\ \A i \in 1..m : Prefix(e, m)[i] = e[i]
      BY <1>1 DEF Prefix
    <3>4. /\ Prefix(Prefix(e, m + 1), m) \in Seq(STRING) /\ Len(Prefix(Prefix(e, m + 1), m)) = m
          /\ \A i \in 1..m : Prefix(Prefix(e, m + 1), m)[i] = e[i]
      BY <3>1, <3>2 DEF Prefix
    <3>5. Prefix(Prefix(e, m + 1), m) = Prefix(e, m)
      BY <3>2, <3>3, <3>4
    <3>6. QED
      BY <3>1, <3>5 DEF Parent
  <2>4. Len(Prefix(e, m)) = m
    BY <1>1 DEF Prefix
  <2>5. QED
    BY <2>1, <2>2, <2>3, <2>4
<1> DEFINE Far == {k \in 0..(Len(e) - 1) : Prefix(e, Len(e) - k) \notin Entries}
<1>3. Far = {}
  <2>1. SUFFICES ASSUME Far # {} PROVE FALSE
    OBVIOUS
  <2>a. Far \subseteq Nat
    BY <1>1
  <2>2. PICK k \in Far : \A j \in Far : k <= j
    <3> HIDE DEF Far
    <3>1. QED
      BY <2>a, <2>1, Least
  <2>3. k # 0
    BY <1>1, <2>2
  <2>4. k - 1 \in 0..(Len(e) - 1) /\ k - 1 \notin Far
    BY <1>1, <2>2, <2>3
  <2>5. Prefix(e, Len(e) - (k - 1)) \in Entries
    BY <2>4
  <2>6. Len(e) - k \in 0..(Len(e) - 1) /\ (Len(e) - k) + 1 = Len(e) - (k - 1) /\ Len(e) - k # 0
    BY <1>1, <2>2, <2>3
  <2>7. Prefix(e, Len(e) - k) \in Dirs /\ Len(Prefix(e, Len(e) - k)) = Len(e) - k
    BY <1>2, <2>5, <2>6
  <2>8. Prefix(e, Len(e) - k) # Root
    BY <2>6, <2>7 DEF Root
  <2>9. QED
    BY <2>2, <2>7, <2>8, TreeAssumption
<1>4. Prefix(e, n + 1) \in Entries
  <2>1. Len(e) - (n + 1) \in 0..(Len(e) - 1) /\ Len(e) - (Len(e) - (n + 1)) = n + 1
    BY <1>1
  <2>2. Len(e) - (n + 1) \notin Far
    BY <1>3
  <2>3. QED
    BY <2>1, <2>2
<1>5. QED
  BY <1>2, <1>4

NoReinclude == \A d \in Dirs : ~Reincludes(d)

\* What the scan ignores, git ignores, by a rule that names the path or a
\* directory above it, as long as no directory is re-included.
LEMMA IgnoredIsDecided ==
    ASSUME NoReinclude, NEW e \in Entries, NEW isDir \in BOOLEAN, NEW rules,
           DOMAIN rules = 0..(Len(e) - 1),
           \A n \in 0..(Len(e) - 1) : rules[n] = gitignore[Prefix(e, n)],
           Ignored(rules, e, isDir)
    PROVE  Decided(e, isDir) \/ \E n \in 1..(Len(e) - 1) : Decided(Prefix(e, n), TRUE)
<1>0. e \in Seq(STRING) /\ Len(e) \in Nat
  BY Tree
<1>1. PICK n \in 0..(Len(e) - 1) : \E i \in DOMAIN rules[n] :
          /\ ~rules[n][i].negated /\ Matches(rules[n][i], Local(e, n), isDir)
          /\ \A m \in DOMAIN rules : \A j \in DOMAIN rules[m] :
                Later(m, j, n, i) /\ rules[m][j].negated
                    => ~Matches(rules[m][j], Local(e, m), isDir)
  BY DEF Ignored
<1>2. PICK i \in DOMAIN gitignore[Prefix(e, n)] :
          /\ ~gitignore[Prefix(e, n)][i].negated
          /\ Matches(gitignore[Prefix(e, n)][i], Local(e, n), isDir)
          /\ \A m \in 0..(Len(e) - 1) : \A j \in DOMAIN gitignore[Prefix(e, m)] :
                Later(m, j, n, i) /\ gitignore[Prefix(e, m)][j].negated
                    => ~Matches(gitignore[Prefix(e, m)][j], Local(e, m), isDir)
  BY <1>1
<1>3. CASE /\ Exact(gitignore[Prefix(e, n)][i], Local(e, n))
           /\ gitignore[Prefix(e, n)][i].directoryOnly => isDir
  BY <1>2, <1>3 DEF Decided, Matches, Local
<1>4. CASE Descendant(gitignore[Prefix(e, n)][i], Local(e, n))
  <2>1. PICK k \in 1..(Len(Local(e, n)) - 1) :
            Exact(gitignore[Prefix(e, n)][i], Prefix(Local(e, n), k))
    BY <1>4 DEF Descendant
  <2>2. Len(Local(e, n)) = Len(e) - n /\ Local(e, n) \in Seq(STRING)
    BY <1>0 DEF Local
  <2> DEFINE a == Prefix(e, n + k)
  <2>3. n + k \in 1..(Len(e) - 1) /\ n \in 0..((n + k) - 1)
    BY <1>0, <2>2
  <2>4. a \in Dirs /\ Len(a) = n + k /\ a \in Seq(STRING)
    BY <1>0, <2>3, Above, Tree
  <2>5. \A m \in 0..(Len(a) - 1) : m \in 0..(Len(e) - 1) /\ Prefix(a, m) = Prefix(e, m)
    <3>1. SUFFICES ASSUME NEW m \in 0..(Len(a) - 1)
                   PROVE  m \in 0..(Len(e) - 1) /\ Prefix(a, m) = Prefix(e, m)
      OBVIOUS
    <3>2. m \in 0..(Len(e) - 1) /\ m \in 0..(n + k) /\ m \in Nat
      BY <1>0, <2>3, <2>4
    <3>3. Len(Prefix(a, m)) = m /\ \A j \in 1..m : Prefix(a, m)[j] = e[j]
      BY <1>0, <2>3, <2>4, <3>2 DEF Prefix
    <3>4. Len(Prefix(e, m)) = m /\ \A j \in 1..m : Prefix(e, m)[j] = e[j]
      BY <1>0, <3>2 DEF Prefix
    <3>5. Prefix(a, m) \in Seq(STRING) /\ Prefix(e, m) \in Seq(STRING)
      BY <1>0, <2>4, <3>2 DEF Prefix
    <3>6. QED
      BY <3>2, <3>3, <3>4, <3>5
  <2>6. SubSeq(a, n + 1, Len(a)) = Prefix(Local(e, n), k)
    <3>1. \A j \in 1..(n + k) : a[j] = e[j]
      BY <1>0, <2>3 DEF Prefix
    <3>2. n \in Nat /\ k \in Nat \ {0}
      BY <1>0, <2>2
    <3> HIDE DEF a
    <3> DEFINE left == SubSeq(a, n + 1, Len(a))  right == Prefix(Local(e, n), k)
    <3>3. left \in Seq(STRING) /\ Len(left) = k /\ \A j \in 1..k : left[j] = a[n + j]
      BY <2>4, <3>2
    <3>4. right \in Seq(STRING) /\ Len(right) = k /\ \A j \in 1..k : right[j] = Local(e, n)[j]
      BY <2>2, <3>2 DEF Prefix
    <3>5. \A j \in 1..k : Local(e, n)[j] = e[n + j]
      BY <1>0, <2>2, <3>2 DEF Local
    <3>6. \A j \in 1..k : n + j \in 1..(n + k)
      BY <3>2
    <3>7. \A j \in 1..k : left[j] = right[j]
      BY <3>1, <3>3, <3>4, <3>5, <3>6
    <3> HIDE DEF left, right
    <3>8. left = right
      BY <3>3, <3>4, <3>7
    <3>9. QED
      BY <3>8 DEF left, right
  <2>7. \A m \in 0..(Len(a) - 1) : \A j \in DOMAIN gitignore[Prefix(a, m)] :
            gitignore[Prefix(a, m)][j].negated
                => ~Exact(gitignore[Prefix(a, m)][j], SubSeq(a, m + 1, Len(a)))
    BY <2>4 DEF NoReinclude, Reincludes
  <2>8. n \in 0..(Len(a) - 1) /\ Prefix(a, n) = Prefix(e, n)
    BY <2>3, <2>4, <2>5
  <2>9. Decided(a, TRUE)
    BY <1>2, <2>1, <2>6, <2>7, <2>8 DEF Decided
  <2>10. QED
    BY <2>3, <2>9
<1>5. QED
  BY <1>2, <1>3, <1>4 DEF Matches

\* What the walk has still to read or to visit.
Pending(p) ==
    \/ reading # NoDirectory /\ reading = p
    \/ \E k \in DOMAIN stack : \E i \in DOMAIN stack[k] : stack[k][i] = p

\* The file, or a directory above it, is still to come.
ToCome(f) == \E n \in 0..Len(f) : Pending(Prefix(f, n))

Wanted(f) == InScope(f) /\ \A n \in 1..Len(f) : Prefix(f, n) \notin unread

\* Every file in scope is listed or still to come.
Progress ==
    phase \in {"walking", "done"} /\ ~faulty /\ NoReinclude
        => \A f \in Regular : Wanted(f) => f \in files \/ (phase = "walking" /\ ToCome(f))

\* An entry of the stack stays there when the top one is taken.
LEMMA StillOnStack ==
    ASSUME ScanTypeOK, stack # <<>>, Top # <<>>, NEW k \in DOMAIN stack,
           NEW i \in DOMAIN stack[k], stack[k][i] # TopEntry
    PROVE  \E m \in DOMAIN TopRest : \E j \in DOMAIN TopRest[m] : TopRest[m][j] = stack[k][i]
<1>1. Top \in Seq(Entries) /\ Len(stack) \in DOMAIN stack /\ Top = stack[Len(stack)]
  BY DEF Top, ScanTypeOK
<1>2. /\ DOMAIN TopRest = DOMAIN stack
      /\ \A m \in DOMAIN TopRest : TopRest[m] = IF m = Len(stack) THEN Tail(Top) ELSE stack[m]
  BY <1>1 DEF TopRest, ScanTypeOK
<1>3. CASE k # Len(stack)
  BY <1>2, <1>3
<1>4. CASE k = Len(stack)
  <2>1. i \in DOMAIN Top /\ i # 1 /\ stack[k][i] = Top[i]
    BY <1>1, <1>4 DEF TopEntry
  <2>2. i - 1 \in DOMAIN Tail(Top) /\ Tail(Top)[i - 1] = Top[i]
    BY <1>1, <2>1
  <2>3. TopRest[k] = Tail(Top) /\ k \in DOMAIN TopRest
    BY <1>1, <1>2, <1>4
  <2>4. QED
    BY <2>1, <2>2, <2>3
<1>5. QED
  BY <1>3, <1>4

\* Only files and the directories above them are at the prefixes of a file.
LEMMA PrefixKinds ==
    ASSUME NEW f \in Regular, NEW n \in 0..Len(f)
    PROVE  /\ Len(f) \in Nat \ {0} /\ f \in Entries
           /\ n < Len(f) => Prefix(f, n) \in Dirs
           /\ n = Len(f) => Prefix(f, n) = f /\ f \notin Dirs \cup Links
           /\ Prefix(f, 0) = Root
<1>1. f \in Entries /\ f \notin Dirs \cup Links
  BY DEF Regular
<1>2. f \in Seq(STRING) /\ f # Root /\ Len(f) \in Nat \ {0} /\ Prefix(f, Len(f)) = f
  BY <1>1, Tree, ParentIsPath
<1>3. n < Len(f) => Prefix(f, n) \in Dirs
  BY <1>1, <1>2, Above
<1>4. Prefix(f, 0) = Root
  BY <1>2 DEF Prefix, Root
<1>5. QED
  BY <1>1, <1>2, <1>3, <1>4

\* A step of the walk that loses nothing to come keeps the invariant.
LEMMA ProgressKept ==
    ASSUME Progress, UNCHANGED gitignore, phase = "walking", phase' = "walking",
           faulty => faulty', files \subseteq files', unread \subseteq unread',
           ASSUME NEW f \in Regular, Wanted(f), Wanted(f)', ToCome(f), ~faulty, NoReinclude
           PROVE  f \in files' \/ ToCome(f)'
    PROVE  Progress'
<1>1. \A p, isDir : Decided(p, isDir)' <=> Decided(p, isDir)
  BY DEF Decided
<1>2. \A f : Wanted(f)' => Wanted(f)
  BY <1>1 DEF Wanted, InScope
<1>3. NoReinclude' => NoReinclude
  BY DEF NoReinclude, Reincludes
<1>4. SUFFICES ASSUME ~faulty', NoReinclude', NEW f \in Regular, Wanted(f)'
               PROVE  f \in files' \/ ToCome(f)'
  BY DEF Progress
<1>5. f \in files \/ ToCome(f)
  BY <1>2, <1>3, <1>4 DEF Progress
<1>6. QED
  BY <1>2, <1>3, <1>4, <1>5

\* A directory or file that is skipped keeps nothing in scope from the lists.
LEMMA SkippedIsUnwanted ==
    ASSUME ScanTypeOK, Known, Scope, ~faulty, NoReinclude, NEW e \in Entries,
           Parent(e) \in DOMAIN layer, NEW f \in Regular, NEW n \in 0..Len(f), Prefix(f, n) = e,
           \/ e \in Dirs /\ (Excluded(e) \/ Ignored(layer[Parent(e)], e, TRUE))
           \/ e \in Regular /\ (\/ Base(e) \in ExcludedFiles
                                \/ Ignored(layer[Parent(e)], e, FALSE))
    PROVE  ~InScope(f)
<1>1. SUFFICES ASSUME InScope(f) PROVE FALSE
  OBVIOUS
<1>2. /\ \A m \in 1..(Len(f) - 1) : ~Decided(Prefix(f, m), TRUE) /\ ~Excluded(Prefix(f, m))
      /\ ~Decided(f, FALSE) /\ Base(f) \notin ExcludedFiles
  BY <1>1 DEF InScope
<1>3. Len(f) \in Nat /\ f \in Seq(STRING) /\ e \in Seq(STRING) /\ e # Root
  BY Tree DEF Regular
<1>4. n \in 1..Len(f) /\ Len(e) = n
  BY <1>3, PrefixKinds DEF Prefix
<1>5. \A m \in 1..(Len(e) - 1) : m \in 1..(Len(f) - 1) /\ Prefix(e, m) = Prefix(f, m)
  <2>1. SUFFICES ASSUME NEW m \in 1..(Len(e) - 1)
                 PROVE  m \in 1..(Len(f) - 1) /\ Prefix(e, m) = Prefix(f, m)
    OBVIOUS
  <2>2. m \in 1..(Len(f) - 1) /\ m \in 0..n
    BY <1>3, <1>4
  <2>3. /\ Prefix(e, m) \in Seq(STRING) /\ Len(Prefix(e, m)) = m
        /\ \A j \in 1..m : Prefix(e, m)[j] = f[j]
    BY <1>3, <1>4, <2>2 DEF Prefix
  <2>4. /\ Prefix(f, m) \in Seq(STRING) /\ Len(Prefix(f, m)) = m
        /\ \A j \in 1..m : Prefix(f, m)[j] = f[j]
    BY <1>3, <2>2 DEF Prefix
  <2>5. QED
    BY <2>2, <2>3, <2>4
<1>6. ASSUME NEW isDir \in BOOLEAN, Ignored(layer[Parent(e)], e, isDir)
      PROVE  Decided(e, isDir)
  <2>1. Decided(e, isDir) \/ \E m \in 1..(Len(e) - 1) : Decided(Prefix(e, m), TRUE)
    BY <1>6, RulesOfParent, IgnoredIsDecided DEF Scope
  <2>2. QED
    BY <1>2, <1>5, <2>1
<1>7. CASE e \in Dirs
  <2>1. n \in 1..(Len(f) - 1)
    BY <1>3, <1>4, <1>7, PrefixKinds
  <2>2. ~Decided(e, TRUE) /\ ~Excluded(e)
    BY <1>2, <2>1
  <2>3. QED
    BY <1>6, <1>7, <2>2 DEF Regular
<1>8. CASE e \in Regular
  <2>1. e = f
    BY <1>3, <1>4, <1>8, PrefixKinds DEF Regular
  <2>2. QED
    BY <1>2, <1>6, <1>8, <2>1 DEF Regular
<1>9. QED
  BY <1>7, <1>8

\* Taking the top entry loses nothing but what that entry stands for.
LEMMA TakenFromStack ==
    ASSUME ScanTypeOK, reading = NoDirectory, stack # <<>>, Top # <<>>, stack' = TopRest,
           NEW f \in Regular, ToCome(f)
    PROVE  ToCome(f)' \/ \E n \in 0..Len(f) : Prefix(f, n) = TopEntry
<1>1. PICK n \in 0..Len(f) : Pending(Prefix(f, n))
  BY DEF ToCome
<1>2. PICK k \in DOMAIN stack : \E i \in DOMAIN stack[k] : stack[k][i] = Prefix(f, n)
  BY <1>1 DEF Pending
<1>3. PICK i \in DOMAIN stack[k] : stack[k][i] = Prefix(f, n)
  BY <1>2
<1>4. CASE Prefix(f, n) # TopEntry
  <2>1. \E m \in DOMAIN stack' : \E j \in DOMAIN stack'[m] : stack'[m][j] = Prefix(f, n)
    BY <1>3, <1>4, StillOnStack
  <2>2. QED
    BY <1>1, <2>1 DEF ToCome, Pending
<1>5. QED
  BY <1>1, <1>4

\* The third invariant holds always.
LEMMA ProgressInvariant == ScanSpec => []Progress
<1>1. ScanInit => Progress
  BY DEF ScanInit, Progress
<1>2. ASSUME ScanTypeOK, Known, Scope, Progress, [ScanNext]_scanVars
      PROVE  Progress'
  <2> USE <1>2
  <2>1. ASSUME Start, UNCHANGED <<gitignore, cancelled>>
        PROVE  Progress'
    <3>1. CASE phase' = "failed"
      BY <3>1 DEF Progress
    <3>2. CASE phase' = "walking" /\ reading' = Root
      <4>1. ASSUME NEW f \in Regular
            PROVE  ToCome(f)'
        BY <3>2, <4>1, PrefixKinds, TreeAssumption, NoDirectoryAssumption DEF ToCome, Pending
      <4>2. QED
        BY <3>2, <4>1 DEF Progress
    <3>3. QED
      BY <2>1, <3>1, <3>2 DEF Start
  <2>2. ASSUME ReadDir, phase = "walking", UNCHANGED <<gitignore, cancelled>>
        PROVE  Progress'
    <3>1. reading \in Dirs
      BY <2>2 DEF ReadDir, ScanTypeOK
    <3>2. CASE stack' = Append(stack, Listing[reading]) /\ reading' = NoDirectory
               /\ UNCHANGED <<phase, layer, files, faulty, unread>>
      <4>1. ASSUME NEW f \in Regular, ToCome(f)
            PROVE  ToCome(f)'
        <5>1. PICK n \in 0..Len(f) : Pending(Prefix(f, n))
          BY <4>1 DEF ToCome
        <5>2. Listing[reading] \in Seq(Entries)
          BY <3>1, Tree
        <5>3. /\ DOMAIN stack' = 1..(Len(stack) + 1) /\ Len(stack) \in Nat
              /\ \A k \in DOMAIN stack : k \in DOMAIN stack' /\ stack'[k] = stack[k]
              /\ stack'[Len(stack) + 1] = Listing[reading]
          BY <3>2, <5>2 DEF ScanTypeOK
        <5>4. CASE reading = Prefix(f, n)
          <6>1. n \in 0..(Len(f) - 1) /\ f \in Entries /\ n + 1 \in 0..Len(f)
            BY <3>1, <5>4, PrefixKinds
          <6>2. Prefix(f, n + 1) \in ChildrenOf(reading)
            BY <5>4, <6>1, Above
          <6>3. Pending(Prefix(f, n + 1))'
            BY <5>3, <6>2 DEF ChildrenOf, Pending
          <6>4. QED
            BY <6>1, <6>3 DEF ToCome
        <5>5. CASE reading # Prefix(f, n)
          BY <5>1, <5>3, <5>5 DEF ToCome, Pending
        <5>6. QED
          BY <5>4, <5>5
      <4>2. QED
        BY <2>2, <3>2, <4>1, ProgressKept
    <3>3. CASE Fail
      BY <3>3 DEF Fail, Progress
    <3>4. CASE /\ reading' = NoDirectory /\ unread' = unread \cup {reading} /\ reading # Root
               /\ UNCHANGED <<phase, stack, layer, files, faulty>>
      <4>1. ASSUME NEW f \in Regular, ToCome(f), Wanted(f)'
            PROVE  ToCome(f)'
        <5>1. PICK n \in 0..Len(f) : Pending(Prefix(f, n))
          BY <4>1 DEF ToCome
        <5>2. CASE reading = Prefix(f, n)
          <6>1. n \in 1..Len(f)
            BY <3>4, <5>2, PrefixKinds
          <6>2. QED
            BY <3>4, <4>1, <5>2, <6>1 DEF Wanted
        <5>3. CASE reading # Prefix(f, n)
          BY <3>4, <5>1, <5>3 DEF ToCome, Pending
        <5>4. QED
          BY <5>2, <5>3
      <4>2. QED
        BY <2>2, <3>4, <4>1, ProgressKept
    <3>5. QED
      BY <2>2, <3>2, <3>3, <3>4 DEF ReadDir
  <2>3. ASSUME Visit, phase = "walking", UNCHANGED <<gitignore, cancelled>>
        PROVE  Progress'
    <3>1. TopEntry \in Entries /\ Parent(TopEntry) \in DOMAIN layer
      BY <2>3, Stacks DEF Visit
    <3>2. CASE Fail
      BY <3>2 DEF Fail, Progress
    <3>3. ASSUME stack' = TopRest, UNCHANGED <<phase, unread>>, faulty => faulty',
                 files \subseteq files',
                 ASSUME NEW f \in Regular, Wanted(f), ~faulty, NoReinclude,
                        NEW n \in 0..Len(f), Prefix(f, n) = TopEntry
                 PROVE  f \in files' \/ ToCome(f)'
          PROVE  Progress'
      <4>1. ASSUME NEW f \in Regular, Wanted(f), ToCome(f), ~faulty, NoReinclude
            PROVE  f \in files' \/ ToCome(f)'
        BY <2>3, <3>3, <4>1, TakenFromStack DEF Visit
      <4>2. QED
        BY <2>3, <3>3, <4>1, ProgressKept
    <3>4. CASE SkipLink /\ TopEntry \in Links /\ UNCHANGED <<phase, unread>>
      <4>1. \A f \in Regular : \A n \in 0..Len(f) : Prefix(f, n) # TopEntry
        BY <3>4, PrefixKinds, TreeAssumption
      <4>2. QED
        BY <3>3, <3>4, <4>1 DEF SkipLink
    <3>5. CASE VisitFile /\ TopEntry \in Regular /\ UNCHANGED <<phase, unread>>
      <4>1. ASSUME NEW f \in Regular, Wanted(f), ~faulty, NoReinclude,
                   NEW n \in 0..Len(f), Prefix(f, n) = TopEntry
            PROVE  f \in files'
        <5>1. f = TopEntry
          BY <3>5, <4>1, PrefixKinds DEF Regular
        <5>2. /\ Base(TopEntry) \notin ExcludedFiles
              /\ ~Ignored(layer[Parent(TopEntry)], TopEntry, FALSE)
          BY <3>1, <3>5, <4>1, SkippedIsUnwanted DEF Wanted
        <5>3. QED
          BY <3>5, <5>1, <5>2 DEF VisitFile
      <4>2. stack' = TopRest /\ files \subseteq files' /\ faulty' = faulty
        BY <3>5 DEF VisitFile
      <4>3. QED
        BY <3>3, <3>5, <4>1, <4>2
    <3>6. CASE VisitDir /\ TopEntry \in Dirs /\ UNCHANGED <<phase, unread>>
      <4>1. ASSUME NEW f \in Regular, Wanted(f), ~faulty, NoReinclude,
                   NEW n \in 0..Len(f), Prefix(f, n) = TopEntry
            PROVE  ToCome(f)'
        <5>1. /\ ~Excluded(TopEntry)
              /\ ~Ignored(layer[Parent(TopEntry)], TopEntry, TRUE)
          BY <3>1, <3>6, <4>1, SkippedIsUnwanted DEF Wanted
        <5>2. reading' = TopEntry
          BY <3>6, <5>1 DEF VisitDir
        <5>3. QED
          BY <3>6, <4>1, <5>2, NoDirectoryAssumption DEF ToCome, Pending
      <4>a. Enter(TopEntry, layer[Parent(TopEntry)]) => (faulty => faulty')
        BY DEF Enter
      <4>b. stack' = TopRest /\ UNCHANGED files
        BY <3>6 DEF VisitDir
      <4>c. faulty => faulty'
        BY <3>6, <4>a DEF VisitDir
      <4>2. stack' = TopRest /\ files' = files /\ (faulty => faulty')
        BY <4>b, <4>c
      <4>3. QED
        BY <3>3, <3>6, <4>1, <4>2
    <3>7. QED
      BY <2>3, <3>2, <3>4, <3>5, <3>6 DEF Visit
  <2>4. ASSUME LeaveDir, phase = "walking", UNCHANGED <<gitignore, cancelled>>
        PROVE  Progress'
    <3>1. Len(stack) \in Nat \ {0} /\ DOMAIN stack = 1..Len(stack) /\ stack[Len(stack)] = <<>>
      BY <2>4 DEF LeaveDir, Top, ScanTypeOK
    <3>2. \A k \in DOMAIN stack : k # Len(stack) => k \in DOMAIN stack' /\ stack'[k] = stack[k]
      BY <2>4, <3>1 DEF LeaveDir, ScanTypeOK
    <3>3. \A p : Pending(p) => Pending(p)'
      BY <2>4, <3>1, <3>2 DEF LeaveDir, Pending
    <3>4. \A f : ToCome(f) => ToCome(f)'
      BY <3>3 DEF ToCome
    <3>5. QED
      BY <2>4, <3>4, ProgressKept DEF LeaveDir
  <2>5. ASSUME Finish, phase = "walking", UNCHANGED <<gitignore, cancelled>>
        PROVE  Progress'
    <3>1. \A f : ~ToCome(f)
      BY <2>5 DEF Finish, ToCome, Pending
    <3>2. \A f : Wanted(f)' => Wanted(f)
      BY <2>5 DEF Finish, Wanted, InScope, Decided
    <3>3. NoReinclude' => NoReinclude
      BY <2>5 DEF NoReinclude, Reincludes
    <3>4. QED
      BY <2>5, <3>1, <3>2, <3>3 DEF Finish, Progress
  <2>6. CASE UNCHANGED <<gitignore, walk>>
    <3>1. \A f : (Wanted(f)' <=> Wanted(f)) /\ (ToCome(f)' <=> ToCome(f))
      BY <2>6 DEF walk, Wanted, InScope, Decided, ToCome, Pending
    <3>2. NoReinclude' <=> NoReinclude
      BY <2>6 DEF NoReinclude, Reincludes
    <3>3. QED
      BY <2>6, <3>1, <3>2 DEF walk, Progress
  <2>7. QED
    BY <2>1, <2>2, <2>3, <2>4, <2>5, <2>6 DEF ScanNext, Walk, Cancel, Returned, scanVars
<1>3. QED
  BY <1>1, <1>2, TypedAndKnown, ScopeInvariant, PTL DEF ScanSpec

\* A scan that ends well has listed every file in scope, as long as no rule
\* re-includes a directory that another rule ignored: no sibling is lost to a
\* link, an ignored or an unreadable directory or a nested .gitignore
\* (scanner.go:73-123, ignore.go:54-90).
THEOREM ListsAllScope == ScanSpec => []CompleteUnlessReincluded
<1>1. Progress => CompleteUnlessReincluded
  BY DEF Progress, CompleteUnlessReincluded, ListsScope, Wanted, NoReinclude
<1>2. QED
  BY <1>1, ProgressInvariant, PTL

-------------------------------------------------------------------------------
(* TokenCache: a text has one count, and map and list agree                  *)

(* The recency list *)

\* Moving an element to the front permutes the list.
LEMMA MoveToFrontPermutes ==
    ASSUME NEW s \in Seq(Entry), NEW i \in DOMAIN s
    PROVE  /\ MoveToFront(s, i) \in Seq(Entry)
           /\ DOMAIN MoveToFront(s, i) = DOMAIN s
           /\ \A j \in DOMAIN s : \E k \in DOMAIN s :
                 MoveToFront(s, i)[j] = s[k]
           /\ \A k \in DOMAIN s : \E j \in DOMAIN s :
                 MoveToFront(s, i)[j] = s[k]
<1> DEFINE n == Len(s)
           from(j) == IF j = 1 THEN i ELSE IF j <= i THEN j - 1 ELSE j
           to(k) == IF k = i THEN 1 ELSE IF k < i THEN k + 1 ELSE k
<1>1. n \in Nat /\ DOMAIN s = 1..n /\ s \in [1..n -> Entry]
  OBVIOUS
<1>2. MoveToFront(s, i) = [j \in 1..n |-> s[from(j)]]
  BY <1>1 DEF MoveToFront
<1>3. \A j \in 1..n : from(j) \in 1..n
  BY <1>1
<1>4. \A k \in 1..n : to(k) \in 1..n /\ from(to(k)) = k
  BY <1>1
<1> HIDE DEF n, from, to
<1>5. MoveToFront(s, i) \in [1..n -> Entry]
  BY <1>1, <1>2, <1>3
<1>6. MoveToFront(s, i) \in Seq(Entry)
  BY <1>1, <1>5
<1>7. \A k \in DOMAIN s : MoveToFront(s, i)[to(k)] = s[k]
  BY <1>1, <1>2, <1>4
<1>8. \A j \in DOMAIN s : MoveToFront(s, i)[j] = s[from(j)]
  BY <1>1, <1>2, <1>3
<1>9. QED
  BY <1>1, <1>2, <1>3, <1>4, <1>6, <1>7, <1>8

\* It keeps the texts of the list apart.
LEMMA MoveToFrontKeepsApart ==
    ASSUME NEW s \in Seq(Entry), NEW i \in DOMAIN s,
           \A j, k \in DOMAIN s : s[j].text = s[k].text => j = k
    PROVE  \A j, k \in DOMAIN s :
               MoveToFront(s, i)[j].text = MoveToFront(s, i)[k].text => j = k
<1> DEFINE n == Len(s)
           from(j) == IF j = 1 THEN i ELSE IF j <= i THEN j - 1 ELSE j
<1>1. n \in Nat /\ DOMAIN s = 1..n
  OBVIOUS
<1>2. \A j \in 1..n : from(j) \in 1..n /\ MoveToFront(s, i)[j] = s[from(j)]
  <2>1. \A j \in 1..n : from(j) \in 1..n
    BY <1>1
  <2>2. \A j \in 1..n : MoveToFront(s, i)[j] = s[from(j)]
    BY <1>1, <2>1 DEF MoveToFront
  <2>3. QED
    BY <2>1, <2>2
<1>3. \A j, k \in 1..n : from(j) = from(k) => j = k
  BY <1>1
<1> HIDE DEF n, from
<1>4. ASSUME NEW j \in DOMAIN s, NEW k \in DOMAIN s,
             MoveToFront(s, i)[j].text = MoveToFront(s, i)[k].text
      PROVE  j = k
  <2>1. j \in 1..n /\ k \in 1..n
    BY <1>1
  <2>2. s[from(j)].text = s[from(k)].text
    BY <1>2, <1>4, <2>1
  <2>3. from(j) \in DOMAIN s /\ from(k) \in DOMAIN s
    BY <1>1, <1>2, <2>1
  <2>4. from(j) = from(k)
    BY <2>2, <2>3
  <2>5. QED
    BY <1>3, <2>1, <2>4
<1>5. QED
  BY <1>4

\* A new entry comes before the others.
LEMMA PushFrontShifts ==
    ASSUME NEW s \in Seq(Entry), NEW e \in Entry
    PROVE  /\ PushFront(s, e) \in Seq(Entry)
           /\ DOMAIN PushFront(s, e) = 1..(Len(s) + 1)
           /\ PushFront(s, e)[1] = e
           /\ \A j \in 2..(Len(s) + 1) : j - 1 \in DOMAIN s /\ PushFront(s, e)[j] = s[j - 1]
<1>1. Len(s) \in Nat /\ DOMAIN s = 1..Len(s)
  OBVIOUS
<1>2. PushFront(s, e) \in [1..(Len(s) + 1) -> Entry]
  BY <1>1 DEF PushFront
<1>3. PushFront(s, e) \in Seq(Entry)
  BY <1>1, <1>2
<1>4. DOMAIN PushFront(s, e) = 1..(Len(s) + 1) /\ PushFront(s, e)[1] = e
  BY <1>1 DEF PushFront
<1>5. ASSUME NEW j \in 2..(Len(s) + 1)
      PROVE  j - 1 \in DOMAIN s /\ PushFront(s, e)[j] = s[j - 1]
  <2>1. j \in 1..(Len(s) + 1) /\ j # 1 /\ j - 1 \in DOMAIN s
    BY <1>1
  <2>2. QED
    BY <2>1 DEF PushFront
<1>6. QED
  BY <1>3, <1>4, <1>5

-------------------------------------------------------------------------------
(* Types *)

\* One goroutine initializes.
OneInit == \A g, h \in Goroutines : pc[g] = "init" /\ pc[h] = "init" => g = h

Typing == TokenTypeOK /\ OneInit

\* A text has a positive size and, in the chosen mode, a count.
LEMMA CountsAreNumbers ==
    ASSUME Typing, NEW t \in Texts
    PROVE  CountIn[mode][t] \in Nat /\ Size[t] \in Nat \ {0}
BY CountsAssumption, TextsAssumption DEF Typing, TokenTypeOK

\* Updating the count of an entry leaves it an entry.
LEMMA UpdatedEntry ==
    ASSUME NEW s \in Seq(Entry), NEW i \in DOMAIN s, NEW c \in Nat
    PROVE  /\ [s EXCEPT ![i].count = c] \in Seq(Entry)
           /\ DOMAIN [s EXCEPT ![i].count = c] = DOMAIN s
           /\ \A j \in DOMAIN s : [s EXCEPT ![i].count = c][j].text = s[j].text
           /\ \A j \in DOMAIN s : [s EXCEPT ![i].count = c][j].size = s[j].size
           /\ \A j \in DOMAIN s : [s EXCEPT ![i].count = c][j].count
                                     = IF j = i THEN c ELSE s[j].count
<1> DEFINE e == [s[i] EXCEPT !.count = c]
           r == [s EXCEPT ![i] = e]
<1>1. s[i] \in Entry
  OBVIOUS
<1>2. e \in Entry /\ e.text = s[i].text /\ e.size = s[i].size /\ e.count = c
  BY <1>1 DEF Entry
<1>3. [s EXCEPT ![i].count = c] = r
  OBVIOUS
<1> HIDE DEF e
<1>4. /\ r \in Seq(Entry) /\ DOMAIN r = DOMAIN s
      /\ \A j \in DOMAIN s : r[j] = IF j = i THEN e ELSE s[j]
  BY <1>2
<1> HIDE DEF r
<1>5. QED
  BY <1>2, <1>3, <1>4

\* At the start no call runs and the cache is empty.
LEMMA TypingInit == TokenInit => Typing
<1> SUFFICES ASSUME TokenInit PROVE Typing
  OBVIOUS
<1>1. \A g \in Goroutines : pc[g] = "idle" /\ text[g] = Nil
  BY DEF TokenInit
<1>2. /\ pc \in [Goroutines -> {"idle", "get", "ensure", "init", "count", "add", "evict"}]
      /\ text \in [Goroutines -> Texts \cup {Nil}] /\ counted \in [Goroutines -> Nat]
      /\ answers \in [Watched -> SUBSET Nat]
  BY DEF TokenInit
<1>3. mutex = Nil /\ recency = <<>> /\ bytes = 0 /\ entries = {}
  BY DEF TokenInit
<1>4. QED
  BY <1>1, <1>2, <1>3, NilAssumption DEF TokenInit, Typing, TokenTypeOK, OneInit

\* Every step keeps the types and the single initialization.
LEMMA TypingStep == Typing /\ [TokenNext]_tokenVars => Typing'
<1> SUFFICES ASSUME Typing, [TokenNext]_tokenVars
             PROVE  Typing'
  OBVIOUS
<1> USE NilAssumption, WatchedAssumption
    DEF Typing, TokenTypeOK, OneInit, Goto, Answer, cacheVars, callVars
<1>1. CASE UNCHANGED tokenVars
  BY <1>1 DEF tokenVars
<1>2. ASSUME NEW g \in Goroutines, Get(g)
      PROVE  Typing'
  <2>1. ASSUME NEW i \in DOMAIN recency
        PROVE  recency[i] \in Entry /\ MoveToFront(recency, i) \in Seq(Entry)
    BY MoveToFrontPermutes
  <2>2. recency' \in Seq(Entry)
    BY <1>2, <2>1 DEF Get
  <2>3. answers' \in [Watched -> SUBSET Nat]
    <3>1. CASE UNCHANGED answers
      BY <3>1
    <3>2. ASSUME NEW i \in DOMAIN recency, Answer(g, recency[i].count)
          PROVE  answers' \in [Watched -> SUBSET Nat]
      <4>1. recency[i].count \in Nat
        BY <2>1 DEF Entry
      <4>2. QED
        BY <3>2, <4>1
    <3>3. QED
      BY <1>2, <3>1, <3>2 DEF Get
  <2>4. \/ pc' = [pc EXCEPT ![g] = "idle"] \/ pc' = [pc EXCEPT ![g] = "ensure"]
    BY <1>2 DEF Get
  <2>5. pc[g] = "get" /\ UNCHANGED <<text, counted, once, mode, entries, bytes, mutex>>
    BY <1>2 DEF Get
  <2>6. QED
    BY <2>2, <2>3, <2>4, <2>5
<1>3. ASSUME NEW g \in Goroutines, Add(g)
      PROVE  Typing'
  <2>1. pc[g] = "add" /\ text[g] \in Texts /\ counted[g] \in Nat
    BY <1>3 DEF Add
  <2>2. UNCHANGED <<text, counted, once, mode>>
    BY <1>3 DEF Add
  <2>3. CASE Answer(g, counted[g]) /\ UNCHANGED cacheVars
    BY <2>1, <2>2, <2>3
  <2>4. ASSUME NEW i \in DOMAIN recency, Answer(g, counted[g]),
               recency' = MoveToFront([recency EXCEPT ![i].count = counted[g]], i),
               UNCHANGED <<entries, bytes, mutex>>
        PROVE  Typing'
    <3>1. [recency EXCEPT ![i].count = counted[g]] \in Seq(Entry)
      BY <2>1, UpdatedEntry
    <3>2. i \in DOMAIN [recency EXCEPT ![i].count = counted[g]]
      BY <2>1, UpdatedEntry
    <3>3. recency' \in Seq(Entry)
      BY <2>4, <3>1, <3>2, MoveToFrontPermutes
    <3>4. QED
      BY <2>1, <2>2, <2>4, <3>3
  <2>5. ASSUME NEW e, e = [text |-> text[g], count |-> counted[g], size |-> Size[text[g]]],
               mutex = Nil, recency' = PushFront(recency, e),
               entries' = entries \cup {text[g]}, bytes' = bytes + Size[text[g]],
               mutex' = g, Goto(g, "evict"), UNCHANGED answers
        PROVE  Typing'
    <3>1. e \in Entry /\ Size[text[g]] \in Int
      <4>1. Size[text[g]] \in Nat
        BY <2>1, TextsAssumption
      <4>2. QED
        BY <2>1, <2>5, <4>1 DEF Entry
    <3>2. recency' \in Seq(Entry)
      BY <2>5, <3>1, PushFrontShifts
    <3>3. bytes' \in Int
      BY <2>5, <3>1
    <3>4. pc' = [pc EXCEPT ![g] = "evict"] /\ \A h \in Goroutines : pc[h] # "evict"
      BY <2>5
    <3>5. QED
      BY <2>1, <2>2, <2>5, <3>2, <3>3, <3>4
  <2>6. QED
    BY <1>3, <2>3, <2>4, <2>5 DEF Add
<1>4. ASSUME NEW g \in Goroutines, Evict(g)
      PROVE  Typing'
  <2>1. text[g] \in Texts /\ counted[g] \in Nat
    BY <1>4 DEF Evict
  <2>2. answers' \in [Watched -> SUBSET Nat]
    BY <1>4, <2>1 DEF Evict
  <2>3. recency' \in Seq(Entry) /\ bytes' \in Int
    <3>1. CASE recency # <<>> /\ recency' = SubSeq(recency, 1, Len(recency) - 1)
               /\ bytes' = bytes - recency[Len(recency)].size
      <4>1. Len(recency) \in Nat \ {0} /\ recency[Len(recency)] \in Entry
        BY <3>1
      <4>2. recency[Len(recency)].size \in Nat
        BY <4>1 DEF Entry
      <4>3. SubSeq(recency, 1, Len(recency) - 1) \in Seq(Entry)
        BY <4>1
      <4>4. QED
        BY <3>1, <4>2, <4>3
    <3>2. QED
      BY <1>4, <3>1 DEF Evict
  <2>4. QED
    BY <1>4, <2>1, <2>2, <2>3 DEF Evict
<1>5. ASSUME NEW g \in Goroutines, Ensure(g)
      PROVE  Typing'
  BY <1>5 DEF Ensure, AfterEnsure
<1>6. ASSUME NEW g \in Goroutines, InitDone(g)
      PROVE  Typing'
  BY <1>6, ModesAssumption DEF InitDone, AfterEnsure
<1>7. ASSUME NEW g \in Goroutines, Count(g)
      PROVE  Typing'
  <2>1. text[g] \in Texts /\ CountIn[mode][text[g]] \in Nat
    BY <1>7, CountsAreNumbers DEF Count
  <2>2. answers' \in [Watched -> SUBSET Nat]
    BY <1>7, <2>1 DEF Count
  <2>3. QED
    BY <1>7, <2>1, <2>2 DEF Count
<1>8. ASSUME NEW g \in Goroutines, AskMode(g)
      PROVE  Typing'
  BY <1>8 DEF AskMode
<1>9. ASSUME NEW g \in Goroutines, NEW t \in Texts, CountTokens(g, t)
      PROVE  Typing'
  BY <1>9 DEF CountTokens
<1>10. CASE Clear
  BY <1>10 DEF Clear
<1>11. QED
  BY <1>1, <1>2, <1>3, <1>4, <1>5, <1>6, <1>7, <1>8, <1>9, <1>10 DEF TokenNext, TokenStep

\* The types hold always.
LEMMA TypingInvariant == TokenSpec => []Typing
BY TypingInit, TypingStep, PTL DEF TokenSpec

-------------------------------------------------------------------------------
(* One count for every text *)

\* Before the initialization is over there is no count; after it every count that
\* is computed, cached or returned is the one of the mode it decided.
Agreement ==
    /\ once # "done" => recency = <<>> /\ \A t \in Watched : answers[t] = {}
    /\ \A i \in DOMAIN recency : recency[i].count = CountIn[mode][recency[i].text]
    /\ \A t \in Watched : answers[t] \subseteq {CountIn[mode][t]}
    /\ \A g \in Goroutines :
          pc[g] \in {"add", "evict"} => counted[g] = CountIn[mode][text[g]]

\* At the start nothing has been counted.
LEMMA AgreementInit == TokenInit => Agreement
<1> SUFFICES ASSUME TokenInit PROVE Agreement
  OBVIOUS
<1>1. recency = <<>> /\ \A g \in Goroutines : pc[g] = "idle"
  BY DEF TokenInit
<1>2. \A t \in Watched : answers[t] = {}
  BY DEF TokenInit
<1>3. QED
  BY <1>1, <1>2 DEF Agreement

\* The count of its text is what a goroutine answers.
LEMMA AnswerAgrees ==
    ASSUME Typing, Agreement, NEW g \in Goroutines, NEW c,
           once = "done", once' = once, mode' = mode, Answer(g, c),
           c = CountIn[mode][text[g]],
           UNCHANGED <<text, counted>>,
           \A i \in DOMAIN recency' : recency'[i].count = CountIn[mode][recency'[i].text]
    PROVE  Agreement'
<1>1. \A t \in Watched : answers'[t] \subseteq {CountIn[mode][t]}
  BY DEF Answer, Agreement
<1>2. \A h \in Goroutines : pc'[h] \in {"add", "evict"} => pc'[h] = pc[h]
  BY DEF Answer, Goto, Typing, TokenTypeOK
<1>3. QED
  BY <1>1, <1>2 DEF Agreement

\* Every step keeps cached, held and returned counts those of the chosen mode.
LEMMA AgreementStep == Typing /\ Agreement /\ [TokenNext]_tokenVars => Agreement'
<1> SUFFICES ASSUME Typing, Agreement, [TokenNext]_tokenVars
             PROVE  Agreement'
  OBVIOUS
<1> DEFINE Right(s) == \A i \in DOMAIN s : s[i].count = CountIn[mode][s[i].text]
<1>0. recency \in Seq(Entry) /\ Right(recency)
  BY DEF Typing, TokenTypeOK, Agreement
<1>1. CASE UNCHANGED tokenVars
  BY <1>1 DEF tokenVars, callVars, cacheVars, Agreement
<1>2. ASSUME NEW g \in Goroutines, Get(g)
      PROVE  Agreement'
  <2>1. ASSUME NEW i \in DOMAIN recency, recency[i].text = text[g],
               Answer(g, recency[i].count), recency' = MoveToFront(recency, i)
        PROVE  Agreement'
    <3>1. Right(recency')
      <4>1. /\ DOMAIN recency' = DOMAIN recency
            /\ \A j \in DOMAIN recency : \E k \in DOMAIN recency : recency'[j] = recency[k]
        BY <1>0, <2>1, MoveToFrontPermutes
      <4>2. QED
        BY <1>0, <4>1
    <3>2. once = "done"
      BY <2>1 DEF Agreement
    <3>3. recency[i].count = CountIn[mode][text[g]]
      BY <1>0, <2>1
    <3>4. QED
      BY <1>2, <2>1, <3>1, <3>2, <3>3, AnswerAgrees DEF Get
  <2>2. CASE Goto(g, "ensure") /\ UNCHANGED <<recency, answers>>
    BY <1>2, <2>2 DEF Get, Goto, Agreement, Typing, TokenTypeOK
  <2>3. QED
    BY <1>2, <2>1, <2>2 DEF Get
<1>3. ASSUME NEW g \in Goroutines, Add(g)
      PROVE  Agreement'
  <2>1. /\ pc[g] = "add" /\ once = "done" /\ text[g] \in Texts
        /\ counted[g] \in Nat /\ counted[g] = CountIn[mode][text[g]]
    BY <1>3 DEF Add, Typing, TokenTypeOK, Agreement
  <2>2. UNCHANGED <<text, counted, once, mode>>
    BY <1>3 DEF Add
  <2>3. CASE Answer(g, counted[g]) /\ UNCHANGED cacheVars
    BY <1>0, <2>1, <2>2, <2>3, AnswerAgrees DEF cacheVars
  <2>4. ASSUME NEW i \in DOMAIN recency, recency[i].text = text[g],
               recency' = MoveToFront([recency EXCEPT ![i].count = counted[g]], i),
               Answer(g, counted[g])
        PROVE  Agreement'
    <3> DEFINE s == [recency EXCEPT ![i].count = counted[g]]
    <3>1. /\ s \in Seq(Entry) /\ DOMAIN s = DOMAIN recency
          /\ \A j \in DOMAIN recency : s[j].text = recency[j].text
          /\ \A j \in DOMAIN recency :
                s[j].count = IF j = i THEN counted[g] ELSE recency[j].count
      BY <1>0, <2>1, UpdatedEntry
    <3> HIDE DEF s
    <3>2. Right(s)
      BY <1>0, <2>1, <2>4, <3>1
    <3>3. recency' = MoveToFront(s, i)
      BY <2>4 DEF s
    <3>4. Right(recency')
      <4>1. /\ DOMAIN recency' = DOMAIN s
            /\ \A j \in DOMAIN s : \E k \in DOMAIN s : recency'[j] = s[k]
        BY <3>1, <3>3, MoveToFrontPermutes
      <4>2. QED
        BY <3>2, <4>1
    <3>5. QED
      BY <2>1, <2>2, <2>4, <3>4, AnswerAgrees
  <2>5. ASSUME NEW e, e = [text |-> text[g], count |-> counted[g], size |-> Size[text[g]]],
               recency' = PushFront(recency, e), Goto(g, "evict"), UNCHANGED answers
        PROVE  Agreement'
    <3>1. e.count = CountIn[mode][e.text] /\ e \in Entry
      BY <2>1, <2>5, TextsAssumption DEF Entry
    <3>2. Right(recency')
      <4>1. /\ DOMAIN recency' = 1..(Len(recency) + 1) /\ recency'[1] = e
            /\ \A j \in 2..(Len(recency) + 1) :
                  j - 1 \in DOMAIN recency /\ recency'[j] = recency[j - 1]
        <5>1. /\ DOMAIN PushFront(recency, e) = 1..(Len(recency) + 1)
              /\ PushFront(recency, e)[1] = e
              /\ \A j \in 2..(Len(recency) + 1) :
                    j - 1 \in DOMAIN recency /\ PushFront(recency, e)[j] = recency[j - 1]
          <6>1. recency \in Seq(Entry) /\ e \in Entry
            BY <1>0, <3>1
          <6>2. QED
            BY ONLY <6>1, PushFrontShifts
        <5>2. recency' = PushFront(recency, e)
          BY <2>5
        <5>3. QED
          BY ONLY <5>1, <5>2
      <4>2. \A j \in DOMAIN recency' : j = 1 \/ j \in 2..(Len(recency) + 1)
        BY <1>0, <4>1
      <4>3. recency'[1].count = CountIn[mode][recency'[1].text]
        BY <3>1, <4>1
      <4>4. ASSUME NEW j \in 2..(Len(recency) + 1)
            PROVE  recency'[j].count = CountIn[mode][recency'[j].text]
        BY <1>0, <4>1
      <4>5. QED
        BY <4>2, <4>3, <4>4
    <3>3. \A h \in Goroutines : pc'[h] \in {"add", "evict"} => pc'[h] = pc[h] \/ h = g
      BY <2>5 DEF Goto, Typing, TokenTypeOK
    <3>4. QED
      BY <2>1, <2>2, <2>5, <3>2, <3>3 DEF Agreement
  <2>6. QED
    BY <1>3, <2>3, <2>4, <2>5 DEF Add
<1>4. ASSUME NEW g \in Goroutines, Evict(g)
      PROVE  Agreement'
  <2>1. once = "done" /\ counted[g] = CountIn[mode][text[g]]
    BY <1>4 DEF Evict, Typing, TokenTypeOK, Agreement
  <2>2. UNCHANGED <<text, counted, once, mode>>
    BY <1>4 DEF Evict
  <2>3. CASE recency # <<>> /\ recency' = SubSeq(recency, 1, Len(recency) - 1)
             /\ UNCHANGED <<pc, answers>>
    <3>1. Right(recency')
      BY <1>0, <2>3
    <3>2. QED
      BY <2>1, <2>2, <2>3, <3>1 DEF Agreement
  <2>4. CASE Answer(g, counted[g]) /\ UNCHANGED recency
    BY <1>0, <2>1, <2>2, <2>4, AnswerAgrees
  <2>5. QED
    BY <1>4, <2>3, <2>4 DEF Evict
<1>5. ASSUME NEW g \in Goroutines, Ensure(g)
      PROVE  Agreement'
  BY <1>5 DEF Ensure, AfterEnsure, Goto, cacheVars, Agreement, Typing, TokenTypeOK
<1>6. ASSUME NEW g \in Goroutines, InitDone(g)
      PROVE  Agreement'
  <2>1. once = "running" /\ recency = <<>> /\ recency' = <<>>
    BY <1>6 DEF InitDone, Typing, TokenTypeOK, Agreement, cacheVars
  <2>2. \A t \in Watched : answers'[t] = {}
    BY <1>6, <2>1 DEF InitDone, Agreement
  <2>3. \A h \in Goroutines : pc'[h] \notin {"add", "evict"}
    BY <1>6, <2>1 DEF InitDone, Goto, AfterEnsure, Typing, TokenTypeOK
  <2>4. QED
    BY <1>6, <2>1, <2>2, <2>3 DEF InitDone, Agreement
<1>7. ASSUME NEW g \in Goroutines, Count(g)
      PROVE  Agreement'
  <2>1. once = "done" /\ UNCHANGED <<text, once, mode, recency>>
    BY <1>7 DEF Count, Typing, TokenTypeOK, cacheVars
  <2>2. \A h \in Goroutines :
            counted'[h] = IF h = g THEN CountIn[mode][text[g]] ELSE counted[h]
    BY <1>7 DEF Count, Typing, TokenTypeOK
  <2>3. \A h \in Goroutines : pc'[h] \in {"add", "evict"} => pc'[h] = pc[h] \/ h = g
    BY <1>7 DEF Count, Goto, Answer, Typing, TokenTypeOK
  <2>4. \A t \in Watched : answers'[t] \subseteq {CountIn[mode][t]}
    BY <1>7 DEF Count, Answer, Agreement
  <2>5. QED
    BY <2>1, <2>2, <2>3, <2>4 DEF Agreement
<1>8. ASSUME NEW g \in Goroutines, AskMode(g)
      PROVE  Agreement'
  BY <1>8 DEF AskMode, Goto, cacheVars, Agreement, Typing, TokenTypeOK
<1>9. ASSUME NEW g \in Goroutines, NEW t \in Texts, CountTokens(g, t)
      PROVE  Agreement'
  BY <1>9 DEF CountTokens, Goto, cacheVars, Agreement, Typing, TokenTypeOK
<1>10. CASE Clear
  BY <1>10 DEF Clear, callVars, Agreement, Typing, TokenTypeOK
<1>11. QED
  BY <1>1, <1>2, <1>3, <1>4, <1>5, <1>6, <1>7, <1>8, <1>9, <1>10 DEF TokenNext, TokenStep

\* Whoever initializes, whoever waits and whatever is evicted or cleared, the
\* counts that are returned for one text are the same (tokenizer.go:82-92,
\* 144-170, cache.go:34-82).
THEOREM CountsAgree == TokenSpec => []OneCountPerText
<1>1. TokenSpec => []Agreement
  BY AgreementInit, AgreementStep, TypingInvariant, PTL DEF TokenSpec
<1>2. Agreement => OneCountPerText
  BY DEF Agreement, OneCountPerText
<1>3. QED
  BY <1>1, <1>2, PTL

-------------------------------------------------------------------------------
(* Map and list *)

\* Moving an entry to the front keeps map and list in step.
LEMMA MoveKeepsMatch ==
    ASSUME NEW s \in Seq(Entry), NEW i \in DOMAIN s, recency' = MoveToFront(s, i),
           entries' = {s[j].text : j \in DOMAIN s},
           \A j, k \in DOMAIN s : s[j].text = s[k].text => j = k
    PROVE  MapMatchesList'
<1>1. /\ DOMAIN recency' = DOMAIN s
      /\ \A j \in DOMAIN s : \E k \in DOMAIN s : recency'[j] = s[k]
      /\ \A k \in DOMAIN s : \E j \in DOMAIN s : recency'[j] = s[k]
  BY MoveToFrontPermutes
<1>2. entries' = {recency'[j].text : j \in DOMAIN recency'}
  <2>1. ASSUME NEW j \in DOMAIN recency' PROVE recency'[j].text \in entries'
    <3>1. PICK k \in DOMAIN s : recency'[j] = s[k]
      BY <1>1
    <3>2. QED
      BY <3>1
  <2>2. ASSUME NEW x \in entries' PROVE \E j \in DOMAIN recency' : recency'[j].text = x
    <3>1. PICK k \in DOMAIN s : s[k].text = x
      OBVIOUS
    <3>2. PICK j \in DOMAIN s : recency'[j] = s[k]
      BY <1>1
    <3>3. QED
      BY <1>1, <3>1, <3>2
  <2>3. QED
    BY ONLY <2>1, <2>2
<1>3. \A j, k \in DOMAIN s : recency'[j].text = recency'[k].text => j = k
  BY MoveToFrontKeepsApart
<1>4. QED
  BY <1>1, <1>2, <1>3 DEF MapMatchesList

\* Every step keeps the map and the list of the same texts.
LEMMA MapStep == Typing /\ MapMatchesList /\ [TokenNext]_tokenVars => MapMatchesList'
<1> SUFFICES ASSUME Typing, MapMatchesList, [TokenNext]_tokenVars
             PROVE  MapMatchesList'
  OBVIOUS
<1>0. /\ recency \in Seq(Entry)
      /\ entries = {recency[i].text : i \in DOMAIN recency}
      /\ \A i, j \in DOMAIN recency : recency[i].text = recency[j].text => i = j
  BY DEF Typing, TokenTypeOK, MapMatchesList
<1>1. CASE UNCHANGED cacheVars
  BY <1>1 DEF cacheVars, MapMatchesList
<1>2. ASSUME NEW g \in Goroutines, Get(g)
      PROVE  MapMatchesList'
  <2>1. CASE UNCHANGED recency
    BY <1>2, <2>1 DEF Get, MapMatchesList
  <2>2. ASSUME NEW i \in DOMAIN recency, recency' = MoveToFront(recency, i)
        PROVE  MapMatchesList'
    BY <1>0, <1>2, <2>2, MoveKeepsMatch DEF Get
  <2>3. QED
    BY <1>2, <2>1, <2>2 DEF Get
<1>3. ASSUME NEW g \in Goroutines, Add(g)
      PROVE  MapMatchesList'
  <2>1. text[g] \in Texts /\ counted[g] \in Nat /\ Size[text[g]] \in Nat
    BY <1>3, TextsAssumption DEF Add, Typing, TokenTypeOK
  <2>2. ASSUME NEW i \in DOMAIN recency, UNCHANGED entries,
               recency' = MoveToFront([recency EXCEPT ![i].count = counted[g]], i)
        PROVE  MapMatchesList'
    <3> DEFINE s == [recency EXCEPT ![i].count = counted[g]]
    <3>1. /\ s \in Seq(Entry) /\ DOMAIN s = DOMAIN recency
          /\ \A j \in DOMAIN recency : s[j].text = recency[j].text
      BY <1>0, <2>1, UpdatedEntry
    <3>2. recency' = MoveToFront(s, i)
      BY <2>2
    <3> HIDE DEF s
    <3>3. entries' = {s[j].text : j \in DOMAIN s}
      <4>1. \A x : x \in entries' <=> \E j \in DOMAIN recency : recency[j].text = x
        BY <1>0, <2>2
      <4>2. \A x : x \in entries' <=> \E j \in DOMAIN s : s[j].text = x
        BY ONLY <3>1, <4>1
      <4>3. QED
        BY ONLY <4>2
    <3>4. QED
      BY <1>0, <3>1, <3>2, <3>3, MoveKeepsMatch
  <2>3. ASSUME NEW e, e = [text |-> text[g], count |-> counted[g], size |-> Size[text[g]]],
               recency' = PushFront(recency, e), text[g] \notin entries,
               entries' = entries \cup {text[g]}
        PROVE  MapMatchesList'
    <3>1. e \in Entry /\ e.text = text[g]
      BY <2>1, <2>3 DEF Entry
    <3>2. /\ DOMAIN PushFront(recency, e) = 1..(Len(recency) + 1)
          /\ PushFront(recency, e)[1] = e
          /\ \A j \in 2..(Len(recency) + 1) :
                j - 1 \in DOMAIN recency /\ PushFront(recency, e)[j] = recency[j - 1]
      <4>1. recency \in Seq(Entry) /\ e \in Entry
        BY <1>0, <3>1
      <4>2. QED
        BY ONLY <4>1, PushFrontShifts
    <3>3. \A j \in 2..(Len(recency) + 1) :
              recency'[j].text = recency[j - 1].text /\ recency'[j].text \in entries
      BY <1>0, <2>3, <3>2
    <3>4. /\ DOMAIN recency' = 1..(Len(recency) + 1) /\ recency'[1].text = text[g]
          /\ \A j \in DOMAIN recency' : j = 1 \/ j \in 2..(Len(recency) + 1)
      BY <1>0, <2>3, <3>1, <3>2
    <3>5. \A j \in DOMAIN recency : j + 1 \in 2..(Len(recency) + 1) /\ (j + 1) - 1 = j
      BY <1>0
    <3>6. entries' = {recency'[j].text : j \in DOMAIN recency'}
      <4>1. ASSUME NEW x \in entries
            PROVE  \E j \in DOMAIN recency' : recency'[j].text = x
        <5>1. PICK j \in DOMAIN recency : recency[j].text = x
          BY <1>0
        <5>2. recency'[j + 1].text = x /\ j + 1 \in DOMAIN recency'
          BY <1>0, <3>3, <3>4, <3>5, <5>1
        <5>3. QED
          BY <5>2
      <4>2. 1 \in DOMAIN recency'
        BY <1>0, <3>4
      <4>3. \A j \in DOMAIN recency' : recency'[j].text \in entries'
        BY <2>3, <3>3, <3>4
      <4>4. QED
        BY <2>3, <3>4, <4>1, <4>2, <4>3
    <3>7. \A j, k \in DOMAIN recency' : recency'[j].text = recency'[k].text => j = k
      <4>1. ASSUME NEW j \in 2..(Len(recency) + 1), NEW k \in 2..(Len(recency) + 1),
                   recency'[j].text = recency'[k].text
            PROVE  j = k
        <5>1. j - 1 = k - 1
          BY <1>0, <3>2, <3>3, <4>1
        <5>2. QED
          BY <1>0, <5>1
      <4>2. QED
        BY <2>3, <3>3, <3>4, <4>1
    <3>8. QED
      BY <3>6, <3>7 DEF MapMatchesList
  <2>4. QED
    BY <1>1, <1>3, <2>2, <2>3 DEF Add
<1>4. ASSUME NEW g \in Goroutines, Evict(g)
      PROVE  MapMatchesList'
  <2>1. CASE recency # <<>> /\ recency' = SubSeq(recency, 1, Len(recency) - 1)
             /\ entries' = entries \ {recency[Len(recency)].text}
    <3> DEFINE n == Len(recency)
    <3>1. n \in Nat \ {0} /\ DOMAIN recency = 1..n
      BY <1>0, <2>1
    <3>2. DOMAIN recency' = 1..(n - 1) /\ \A j \in 1..(n - 1) : recency'[j] = recency[j]
      BY <1>0, <2>1, <3>1
    <3> HIDE DEF n
    <3>3. \A j \in 1..n : j \in 1..(n - 1) \/ j = n
      BY <3>1
    <3>4. \A j \in 1..(n - 1) : j \in 1..n /\ j # n /\ n \in 1..n
      BY <3>1
    <3>5. entries' = {recency'[j].text : j \in DOMAIN recency'}
      <4>1. ASSUME NEW j \in DOMAIN recency' PROVE recency'[j].text \in entries'
        <5>1. j \in DOMAIN recency /\ n \in DOMAIN recency /\ j # n
          BY <3>1, <3>2, <3>4
        <5>2. recency[j].text \in entries /\ recency[j].text # recency[n].text
          BY <1>0, <5>1
        <5>3. QED
          BY <2>1, <3>2, <5>2 DEF n
      <4>2. ASSUME NEW x \in entries' PROVE \E j \in DOMAIN recency' : recency'[j].text = x
        <5>1. x \in entries /\ x # recency[n].text
          BY <2>1 DEF n
        <5>2. PICK j \in DOMAIN recency : recency[j].text = x
          BY <1>0, <5>1
        <5>3. j \in DOMAIN recency'
          BY <3>1, <3>2, <3>3, <5>1, <5>2
        <5>4. QED
          BY <3>2, <5>2, <5>3
      <4>3. QED
        BY ONLY <4>1, <4>2
    <3>6. QED
      BY <1>0, <3>1, <3>2, <3>4, <3>5 DEF MapMatchesList
  <2>2. CASE UNCHANGED <<entries, recency>>
    BY <2>2 DEF MapMatchesList
  <2>3. QED
    BY <1>4, <2>1, <2>2 DEF Evict
<1>5. CASE Clear
  BY <1>5 DEF Clear, MapMatchesList
<1>6. QED
  BY <1>1, <1>2, <1>3, <1>4, <1>5
     DEF TokenNext, TokenStep, Ensure, InitDone, Count, AskMode, CountTokens, tokenVars

\* The map and the recency list of the cache hold the same texts, each once
\* (cache.go:34-82).
THEOREM MapAndListMatch == TokenSpec => []MapMatchesList
<1>1. TokenInit => MapMatchesList
  BY DEF TokenInit, MapMatchesList
<1>2. QED
  BY <1>1, MapStep, TypingInvariant, PTL DEF TokenSpec

-------------------------------------------------------------------------------
(* The byte account, both limits and the eviction that keeps them *)

\* The byte account is the sum of the sizes of the texts in the map.  An entry
\* that is being added is the first of the list, and fits alone.
Balanced ==
    /\ MapMatchesList
    /\ IsFiniteSet(entries) /\ bytes = Total(Size, entries)
    /\ \A i \in DOMAIN recency : recency[i].size = Size[recency[i].text]
    /\ EntriesBounded
    /\ mutex = Nil => bytes <= MaxBytes
    /\ \A g \in Goroutines : pc[g] = "evict" =>
          recency # <<>> /\ recency[1].text = text[g] /\ ~Refused(text[g])

\* The size of a text is a number, and so is the sum of any of them.
LEMMA SizesAreNumbers ==
    /\ Size \in [Texts -> Nat]
    /\ \A S \in SUBSET Texts : IsFiniteSet(S) => Total(Size, S) \in Nat
<1>1. Size \in [Texts -> Nat]
  BY TextsAssumption
<1>2. QED
  BY <1>1, TotalType

\* The cache is empty at the start.
LEMMA BalancedInit == TokenInit => Balanced
<1> SUFFICES ASSUME TokenInit PROVE Balanced
  OBVIOUS
<1>1. recency = <<>> /\ entries = {} /\ bytes = 0 /\ \A g \in Goroutines : pc[g] # "evict"
  BY DEF TokenInit
<1>2. IsFiniteSet(entries) /\ Total(Size, entries) = 0
  BY <1>1, FS_EmptySet, TotalEmpty
<1>3. MapMatchesList /\ EntriesBounded /\ bytes <= MaxBytes
  BY <1>1, LimitsAssumption DEF MapMatchesList, EntriesBounded
<1>4. QED
  BY <1>1, <1>2, <1>3 DEF Balanced

\* A move to the front leaves the account as it is.
LEMMA MoveKeepsBalance ==
    ASSUME Typing, Balanced, MapMatchesList', NEW s \in Seq(Entry), NEW i \in DOMAIN s,
           DOMAIN s = DOMAIN recency,
           \A j \in DOMAIN s : s[j].size = Size[s[j].text],
           recency' = MoveToFront(s, i), mutex = Nil,
           UNCHANGED <<entries, bytes, mutex, text>>,
           \A g \in Goroutines : pc'[g] = "evict" => pc[g] = "evict"
    PROVE  Balanced'
<1>1. /\ recency' \in Seq(Entry) /\ DOMAIN recency' = DOMAIN recency
      /\ \A j \in DOMAIN s : \E k \in DOMAIN s : recency'[j] = s[k]
  BY MoveToFrontPermutes
<1>2. \A j \in DOMAIN recency' : recency'[j].size = Size[recency'[j].text]
  BY <1>1
<1>3. Len(recency') = Len(recency)
  BY <1>1 DEF Typing, TokenTypeOK
<1>4. EntriesBounded'
  BY <1>3 DEF Balanced, EntriesBounded
<1>5. \A g \in Goroutines : pc'[g] # "evict"
  BY NilAssumption DEF Typing, TokenTypeOK
<1>6. QED
  BY <1>2, <1>4, <1>5 DEF Balanced

\* Every step keeps the account.
LEMMA BalancedStep ==
    Typing /\ Balanced /\ MapMatchesList' /\ [TokenNext]_tokenVars => Balanced'
<1> SUFFICES ASSUME Typing, Balanced, MapMatchesList', [TokenNext]_tokenVars
             PROVE  Balanced'
  OBVIOUS
<1>1. /\ recency \in Seq(Entry) /\ entries \subseteq Texts /\ bytes \in Int
      /\ text \in [Goroutines -> Texts \cup {Nil}]
      /\ \A g \in Goroutines : mutex = g <=> pc[g] = "evict"
      /\ \A g \in Goroutines : pc[g] \in {"add", "evict"} => text[g] \in Texts
  BY DEF Typing, TokenTypeOK
<1>2. /\ MapMatchesList /\ IsFiniteSet(entries) /\ bytes = Total(Size, entries)
      /\ \A i \in DOMAIN recency : recency[i].size = Size[recency[i].text]
      /\ EntriesBounded /\ (mutex = Nil => bytes <= MaxBytes)
      /\ \A g \in Goroutines : pc[g] = "evict" =>
            recency # <<>> /\ recency[1].text = text[g] /\ ~Refused(text[g])
  BY DEF Balanced
<1>3. ASSUME UNCHANGED cacheVars,
             \A g \in Goroutines : pc'[g] = "evict" => pc[g] = "evict" /\ text'[g] = text[g]
      PROVE  Balanced'
  BY <1>2, <1>3 DEF cacheVars, Balanced, EntriesBounded, Refused
<1>4. ASSUME NEW g \in Goroutines, Get(g)
      PROVE  Balanced'
  <2>1. \A h \in Goroutines : pc'[h] = "evict" => pc[h] = "evict"
    BY <1>4 DEF Get, Goto, Answer, Typing, TokenTypeOK
  <2>2. ASSUME NEW i \in DOMAIN recency, recency' = MoveToFront(recency, i)
        PROVE  Balanced'
    BY <1>1, <1>2, <1>4, <2>1, <2>2, MoveKeepsBalance DEF Get
  <2>3. CASE UNCHANGED recency
    BY <1>3, <1>4, <2>1, <2>3 DEF Get, cacheVars
  <2>4. QED
    BY <1>4, <2>2, <2>3 DEF Get
<1>5. ASSUME NEW g \in Goroutines, Add(g)
      PROVE  Balanced'
  <2>1. pc[g] = "add" /\ text[g] \in Texts /\ counted[g] \in Nat /\ UNCHANGED text
        /\ Size[text[g]] \in Nat
    BY <1>1, <1>5, SizesAreNumbers DEF Add, Typing, TokenTypeOK
  <2>2. CASE Answer(g, counted[g]) /\ UNCHANGED cacheVars
    BY <1>3, <2>1, <2>2 DEF Answer, Goto, Typing, TokenTypeOK
  <2>3. ASSUME NEW i \in DOMAIN recency, mutex = Nil, Answer(g, counted[g]),
               recency' = MoveToFront([recency EXCEPT ![i].count = counted[g]], i),
               UNCHANGED <<entries, bytes, mutex>>
        PROVE  Balanced'
    <3> DEFINE s == [recency EXCEPT ![i].count = counted[g]]
    <3>1. /\ s \in Seq(Entry) /\ DOMAIN s = DOMAIN recency
          /\ \A j \in DOMAIN recency : s[j].text = recency[j].text
          /\ \A j \in DOMAIN recency : s[j].size = recency[j].size
      BY <1>1, <2>1, UpdatedEntry
    <3>2. recency' = MoveToFront(s, i)
      BY <2>3
    <3> HIDE DEF s
    <3>3. \A j \in DOMAIN s : s[j].size = Size[s[j].text]
      BY <1>2, <3>1
    <3>4. \A h \in Goroutines : pc'[h] = "evict" => pc[h] = "evict"
      BY <2>3 DEF Answer, Goto, Typing, TokenTypeOK
    <3>5. QED
      BY <2>1, <2>3, <3>1, <3>2, <3>3, <3>4, MoveKeepsBalance
  <2>4. ASSUME NEW e, e = [text |-> text[g], count |-> counted[g], size |-> Size[text[g]]],
               ~Refused(text[g]), mutex = Nil, text[g] \notin entries,
               recency' = PushFront(recency, e), entries' = entries \cup {text[g]},
               bytes' = bytes + Size[text[g]], mutex' = g, Goto(g, "evict")
        PROVE  Balanced'
    <3>1. e \in Entry /\ e.text = text[g] /\ e.size = Size[text[g]]
      BY <2>1, <2>4 DEF Entry
    <3>2. /\ recency' \in Seq(Entry) /\ DOMAIN recency' = 1..(Len(recency) + 1)
          /\ recency'[1] = e
          /\ \A j \in 2..(Len(recency) + 1) :
                j - 1 \in DOMAIN recency /\ recency'[j] = recency[j - 1]
      <4>1. recency \in Seq(Entry) /\ e \in Entry
        BY <1>1, <3>1
      <4>2. /\ PushFront(recency, e) \in Seq(Entry)
            /\ DOMAIN PushFront(recency, e) = 1..(Len(recency) + 1)
            /\ PushFront(recency, e)[1] = e
            /\ \A j \in 2..(Len(recency) + 1) :
                  j - 1 \in DOMAIN recency /\ PushFront(recency, e)[j] = recency[j - 1]
        BY ONLY <4>1, PushFrontShifts
      <4>3. QED
        BY <2>4, <4>2
    <3>3. Len(recency) \in Nat /\ Len(recency') = Len(recency) + 1
      BY <1>1, <3>2
    <3>4. IsFiniteSet(entries') /\ Total(Size, entries') = Total(Size, entries) + Size[text[g]]
      <4>1. IsFiniteSet(entries \cup {text[g]})
        BY <1>2, FS_AddElement
      <4>2. Total(Size, entries \cup {text[g]}) = Total(Size, entries) + Size[text[g]]
        BY <1>1, <1>2, <2>1, <2>4, SizesAreNumbers, TotalAdd
      <4>3. QED
        BY <2>4, <4>1, <4>2
    <3>5. \A j \in DOMAIN recency' : recency'[j].size = Size[recency'[j].text]
      <4>1. ASSUME NEW j \in 2..(Len(recency) + 1)
            PROVE  recency'[j].size = Size[recency'[j].text]
        BY <1>2, <3>2
      <4>2. \A j \in DOMAIN recency' : j = 1 \/ j \in 2..(Len(recency) + 1)
        BY <3>2, <3>3
      <4>3. QED
        BY <3>1, <3>2, <4>1, <4>2
    <3>6. EntriesBounded'
      <4>1. Len(recency) <= MaxEntries
        BY <1>2, <2>4 DEF EntriesBounded
      <4>2. Len(recency') <= MaxEntries + 1
        BY <3>3, <4>1, LimitsAssumption
      <4>3. mutex' # Nil
        BY <2>4, NilAssumption
      <4>4. QED
        BY <4>2, <4>3 DEF EntriesBounded
    <3>7. \A h \in Goroutines : pc'[h] = "evict" => h = g
      BY <1>1, <2>4, NilAssumption DEF Goto, Typing, TokenTypeOK
    <3>8. recency' # <<>> /\ recency'[1].text = text'[g] /\ ~Refused(text'[g])
      BY <2>1, <2>4, <3>1, <3>2, <3>3
    <3>9. mutex' # Nil
      BY <2>4, NilAssumption
    <3>10. QED
      BY <1>2, <2>4, <3>4, <3>5, <3>6, <3>7, <3>8, <3>9 DEF Balanced, Refused
  <2>5. QED
    BY <1>5, <2>2, <2>3, <2>4 DEF Add
<1>6. ASSUME NEW g \in Goroutines, Evict(g)
      PROVE  Balanced'
  <2>1. /\ pc[g] = "evict" /\ mutex = g /\ mutex # Nil /\ text[g] \in Texts /\ UNCHANGED text
        /\ recency # <<>> /\ recency[1].text = text[g] /\ ~Refused(text[g])
    <3>1. pc[g] = "evict" /\ UNCHANGED text
      BY <1>6 DEF Evict
    <3>2. mutex = g /\ mutex # Nil /\ text[g] \in Texts
      BY <1>1, <3>1, NilAssumption
    <3>3. recency # <<>> /\ recency[1].text = text[g] /\ ~Refused(text[g])
      BY <1>2, <3>1
    <3>4. QED
      BY <3>1, <3>2, <3>3
  <2>2. CASE Over /\ recency # <<>>
    <3> DEFINE n == Len(recency)
               oldest == recency[n]
    <3>1. /\ entries' = entries \ {oldest.text} /\ bytes' = bytes - oldest.size
          /\ recency' = SubSeq(recency, 1, n - 1) /\ UNCHANGED <<pc, mutex>>
      BY <1>6, <2>1, <2>2 DEF Evict
    <3>2. n \in Nat \ {0} /\ DOMAIN recency = 1..n
      BY <1>1, <2>1
    <3>3. /\ Len(recency') = n - 1 /\ DOMAIN recency' = 1..(n - 1)
          /\ \A j \in 1..(n - 1) : recency'[j] = recency[j]
      BY <1>1, <3>1, <3>2
    <3> HIDE DEF n
    <3>4. oldest.text \in entries /\ oldest.size = Size[oldest.text]
          /\ Size[oldest.text] \in Nat
      BY <1>1, <1>2, <3>2, SizesAreNumbers DEF MapMatchesList
    <3> HIDE DEF oldest
    <3>5. /\ IsFiniteSet(entries') /\ Total(Size, entries') \in Nat
          /\ Total(Size, entries) = Total(Size, entries') + Size[oldest.text]
      <4>1. IsFiniteSet(entries \ {oldest.text})
        BY <1>2, FS_RemoveElement
      <4>2. Total(Size, entries) = Total(Size, entries \ {oldest.text}) + Size[oldest.text]
        <5>1. /\ Size \in [Texts -> Nat] /\ entries \in SUBSET Texts
              /\ IsFiniteSet(entries) /\ oldest.text \in entries
          BY <1>1, <1>2, <3>4, SizesAreNumbers
        <5>2. QED
          BY ONLY <5>1, TotalRemove
      <4>3. entries \ {oldest.text} \in SUBSET Texts
        BY <1>1
      <4>4. QED
        BY <3>1, <4>1, <4>2, <4>3, SizesAreNumbers
    <3>6. bytes' = Total(Size, entries')
      BY <1>2, <3>1, <3>4, <3>5
    <3>7. n > 1
      <4>1. SUFFICES ASSUME n = 1 PROVE FALSE
        BY <3>2
      <4>2. entries = {text[g]}
        BY <1>2, <2>1, <3>2, <4>1 DEF MapMatchesList
      <4>3. Total(Size, entries) = Size[text[g]]
        <5>1. /\ Size \in [Texts -> Nat] /\ entries \in SUBSET Texts
              /\ IsFiniteSet(entries) /\ text[g] \in entries
          BY <1>1, <1>2, <4>2, SizesAreNumbers
        <5>2. Total(Size, entries) = Total(Size, entries \ {text[g]}) + Size[text[g]]
          BY ONLY <5>1, TotalRemove
        <5>3. entries \ {text[g]} = {}
          BY <4>2
        <5>4. Total(Size, {}) = 0 /\ Size[text[g]] \in Nat
          BY <2>1, SizesAreNumbers, TotalEmpty
        <5>5. QED
          BY <5>2, <5>3, <5>4
      <4>4. bytes <= MaxBytes /\ Len(recency) <= MaxEntries
        <5>1. Size[text[g]] \in Nat
          BY <2>1, SizesAreNumbers
        <5>2. QED
          BY <1>2, <2>1, <4>1, <4>3, <5>1, LimitsAssumption DEF Refused, n
      <4>5. QED
        BY <2>2, <1>1, <4>4, LimitsAssumption, <3>2 DEF Over, n
    <3>8. recency' # <<>> /\ recency'[1] = recency[1]
      BY <3>2, <3>3, <3>7
    <3>9. \A j \in DOMAIN recency' : recency'[j].size = Size[recency'[j].text]
      BY <1>2, <3>2, <3>3
    <3>10. EntriesBounded'
      BY <1>2, <2>1, <3>1, <3>2, <3>3, LimitsAssumption DEF EntriesBounded, n
    <3>11. \A h \in Goroutines : pc'[h] = "evict" => h = g
      BY <1>1, <2>1, <3>1
    <3>12. QED
      BY <2>1, <3>1, <3>5, <3>6, <3>8, <3>9, <3>10, <3>11 DEF Balanced, Refused
  <2>3. CASE (~Over \/ recency = <<>>) /\ Answer(g, counted[g]) /\ mutex' = Nil
             /\ UNCHANGED <<entries, recency, bytes>>
    <3>1. bytes <= MaxBytes /\ Len(recency) <= MaxEntries
      BY <1>1, <2>1, <2>3, LimitsAssumption DEF Over
    <3>2. EntriesBounded'
      <4>1. Len(recency) \in Nat /\ UNCHANGED recency
        BY <1>1, <2>3
      <4>2. QED
        BY <3>1, <4>1, LimitsAssumption DEF EntriesBounded
    <3>3. \A h \in Goroutines : pc'[h] # "evict"
      BY <1>1, <2>1, <2>3 DEF Answer, Goto, Typing, TokenTypeOK
    <3>4. QED
      BY <1>2, <2>3, <3>1, <3>2, <3>3 DEF Balanced
  <2>4. QED
    BY <1>6, <2>2, <2>3 DEF Evict
<1>7. CASE Clear
  <2>1. /\ recency' = <<>> /\ entries' = {} /\ bytes' = 0
        /\ \A g \in Goroutines : pc'[g] # "evict"
    BY <1>1, <1>7, NilAssumption DEF Clear, callVars
  <2>2. IsFiniteSet({}) /\ Total(Size, {}) = 0
    BY FS_EmptySet, TotalEmpty
  <2>3. EntriesBounded' /\ bytes' <= MaxBytes
    BY <2>1, LimitsAssumption DEF EntriesBounded
  <2>4. QED
    BY <2>1, <2>2, <2>3 DEF Balanced
<1>8. ASSUME NEW g \in Goroutines, Ensure(g) \/ InitDone(g) \/ Count(g)
      PROVE  Balanced'
  BY <1>3, <1>8 DEF Ensure, InitDone, Count, AfterEnsure, Goto, Answer, Typing, TokenTypeOK
<1>9. ASSUME NEW g \in Goroutines, NEW t, AskMode(g) \/ CountTokens(g, t)
      PROVE  Balanced'
  BY <1>3, <1>9 DEF AskMode, CountTokens, Goto, Typing, TokenTypeOK
<1>10. CASE UNCHANGED tokenVars
  BY <1>3, <1>10 DEF tokenVars, callVars
<1>11. QED
  BY <1>4, <1>5, <1>6, <1>7, <1>8, <1>9, <1>10 DEF TokenNext, TokenStep

\* The recursion over the list is the sum over the texts.
LEMMA AccountIsSum ==
    ASSUME Typing, Balanced
    PROVE  BytesAccounted
<1> DEFINE n == Len(recency)
           size == [i \in 1..n |-> recency[i].size]
           name == [i \in 1..n |-> recency[i].text]
           Sums(sum) == sum = [m \in 0..Len(recency) |->
                                 IF m = 0 THEN 0 ELSE sum[m - 1] + recency[m].size]
<1>1. n \in Nat /\ DOMAIN recency = 1..n /\ \A i \in 1..n : recency[i] \in Entry
  BY DEF Typing, TokenTypeOK
<1>2. size \in [1..n -> Nat]
  BY <1>1 DEF Entry
<1>3. IsFiniteSet(1..n)
  BY <1>1, FS_Interval
<1>4. name \in Bijection(1..n, entries)
  <2>1. entries = {recency[i].text : i \in 1..n}
        /\ \A i, j \in 1..n : recency[i].text = recency[j].text => i = j
    BY <1>1 DEF Balanced, MapMatchesList
  <2>2. name \in Injection(1..n, entries)
    BY <2>1 DEF Injection, IsInjective
  <2>3. name \in Surjection(1..n, entries)
    BY <2>1 DEF Surjection
  <2>4. QED
    BY <2>2, <2>3 DEF Bijection
<1>5. \A i \in 1..n : Size[name[i]] = size[i]
  BY <1>1 DEF Balanced
<1>6. \A sum : Sums(sum) <=> SumsFirst(sum, size, n)
  <2>1. \A m \in 0..n : m # 0 => m \in 1..n
    BY <1>1
  <2>2. \A m \in 1..n : size[m] = recency[m].size
    OBVIOUS
  <2> HIDE DEF size
  <2>3. ASSUME NEW sum
        PROVE  [m \in 0..n |-> IF m = 0 THEN 0 ELSE sum[m - 1] + recency[m].size]
                 = [m \in 0..n |-> IF m = 0 THEN 0 ELSE sum[m - 1] + size[m]]
    BY <2>1, <2>2
  <2>4. QED
    BY <2>3 DEF SumsFirst
<1> HIDE DEF size, name
<1>7. Total(size, 1..n) = Total(Size, entries)
  <2> DEFINE I == 1..n
  <2>1. /\ IsFiniteSet(I) /\ size \in [I -> Nat]
        /\ Renames(name, I, entries, size, [t \in entries |-> Size[t]])
    <3>1. \A i \in I : [t \in entries |-> Size[t]][name[i]] = size[i]
      BY <1>4, <1>5 DEF Bijection, Injection
    <3>2. QED
      BY <1>2, <1>3, <1>4, <3>1 DEF Renames
  <2> HIDE DEF I
  <2>2. [t \in entries |-> Size[t]] \in [entries -> Nat]
    BY SizesAreNumbers DEF Typing, TokenTypeOK
  <2>3. Total([t \in entries |-> Size[t]], entries) = Total(size, I)
    BY ONLY <2>1, <2>2, TotalRenamed
  <2>4. Total([t \in entries |-> Size[t]], entries) = Total(Size, entries)
    BY TotalAgrees
  <2>5. QED
    BY <2>3, <2>4 DEF I
<1>8. /\ \E sum : Sums(sum)
      /\ \A sum : Sums(sum) => sum[n] = Total(size, 1..n)
  <2> HIDE DEF Sums, n
  <2>1. QED
    BY <1>1, <1>2, <1>6, SumOfFirst
<1>9. (CHOOSE sum : Sums(sum))[n] = Total(size, 1..n)
  <2> HIDE DEF Sums, n
  <2>1. Sums(CHOOSE sum : Sums(sum))
    BY <1>8
  <2>2. QED
    BY <1>8, <2>1
<1>10. BytesAccounted <=> bytes = (CHOOSE sum : Sums(sum))[n]
  BY DEF BytesAccounted
<1>11. QED
  BY <1>7, <1>9, <1>10 DEF Balanced

\* Map, list and byte account agree in every state, the states of an eviction
\* included, and both limits hold whenever the mutex is free (cache.go:34-82).
THEOREM TokenCacheConsistent == TokenSpec => []CacheIsConsistent
<1>1. TokenSpec => []Balanced
  BY TypingInvariant, MapAndListMatch, BalancedInit, BalancedStep, PTL DEF TokenSpec
<1>2. Typing /\ Balanced => CacheIsConsistent
  <2>1. SUFFICES ASSUME Typing, Balanced PROVE CacheIsConsistent
    OBVIOUS
  <2>2. BytesBounded
    <3>1. \A g \in Goroutines : pc[g] = "evict" => text[g] \in entries
      BY <2>1 DEF Balanced, MapMatchesList, Typing, TokenTypeOK
    <3>2. QED
      BY <2>1, <3>1 DEF Balanced, BytesBounded
  <2>3. QED
    BY <2>1, <2>2, AccountIsSum DEF Balanced, Typing, CacheIsConsistent
<1>3. QED
  BY TypingInvariant, <1>1, <1>2, PTL

-------------------------------------------------------------------------------
(* Vocabulary: nothing unverified is ever used                               *)

\* What a download leaves behind, and what the cache file may be once somebody
\* loads it: it was verified then, and since then only verified files came.
Downloads ==
    \A t \in Tokenizers :
        /\ at[t] \in {"commit", "reverify"} => temp[t] = "good"
        /\ at[t] = "load" => cache \in {"good", "missing"}

\* No encoding of a process comes from a file that was not verified.
SharedIsVerified == \A p \in Processes : shared[p] # "wrong"

Sound == VocabularyIsSound /\ Downloads /\ SharedIsVerified

\* At the start no tokenizer has decided anything.
LEMMA SoundInit == VocabularyInit => Sound
<1> SUFFICES ASSUME VocabularyInit PROVE Sound
  OBVIOUS
<1>1. \A t \in Tokenizers :
         at[t] = "shared" /\ outcome[t] = "undecided" /\ encoding[t] = "none"
             /\ temp[t] = "missing"
  BY DEF VocabularyInit
<1>2. VocabularyTypeOK
  <2>1. /\ at \in [Tokenizers -> PC] /\ encoding \in [Tokenizers -> Encodings]
        /\ outcome \in [Tokenizers -> {"undecided", "exact", "estimate"}]
        /\ temp \in [Tokenizers -> Files]
        /\ shared \in [Processes -> Encodings]
    BY DEF VocabularyInit, PC, Files, Encodings
  <2>2. orphans \in BOOLEAN
    BY Zenon DEF VocabularyInit
  <2>3. crashes = 0
    BY DEF VocabularyInit
  <2>4. crashes \in 0..MaxCrashes
    BY <2>3, CrashAssumption
  <2>5. QED
    BY <1>1, <2>1, <2>2, <2>4 DEF VocabularyInit, VocabularyTypeOK
<1>3. SharedIsVerified
  BY DEF VocabularyInit, SharedIsVerified
<1>4. QED
  BY <1>1, <1>2, <1>3 DEF Sound, VocabularyIsSound, ExactIsVerified, NoTempLeft, Downloads

\* Every step keeps what is exact verified.
LEMMA SoundStep == Sound /\ [VocabularyNext]_vocabularyVars => Sound'
<1> SUFFICES ASSUME Sound, [VocabularyNext]_vocabularyVars
             PROVE  Sound'
  OBVIOUS
<1> USE CrashAssumption, ProcessAssumption
    DEF Sound, VocabularyIsSound, VocabularyTypeOK, ExactIsVerified, NoTempLeft,
        Downloads, SharedIsVerified, PC, Files, Encodings, MoveTo, Verified, PlausibleSize
<1>1. CASE UNCHANGED vocabularyVars
  BY <1>1 DEF vocabularyVars
<1>2. ASSUME NEW t \in Tokenizers, InitStep(t)
      PROVE  Sound'
  <2>1. CASE UseShared(t)
    BY <2>1 DEF UseShared, Use
  <2>2. CASE Stat(t)
    BY <2>2 DEF Stat
  <2>3. CASE Verify(t)
    BY <2>3 DEF Verify
  <2>4. CASE RemoveCache(t)
    BY <2>4 DEF RemoveCache
  <2>5. CASE Cooldown(t)
    BY <2>5 DEF Cooldown
  <2>6. CASE Request(t)
    BY <2>6 DEF Request, MarkFailure
  <2>7. CASE CreateTemp(t)
    BY <2>7 DEF CreateTemp
  <2>8. CASE Stream(t)
    BY <2>8 DEF Stream, MarkFailure, Discard
  <2>9. CASE Commit(t)
    BY <2>9 DEF Commit, Discard
  <2>10. CASE Reverify(t)
    BY <2>10 DEF Reverify, Discard
  <2>11. CASE Load(t)
    BY <2>11 DEF Load, Use, Ranks
  <2>12. CASE Fallback(t)
    BY <2>12 DEF Fallback, Use
  <2>13. CASE PublishShared(t)
    BY <2>13 DEF PublishShared, Published
  <2>14. QED
    BY <1>2, <2>1, <2>2, <2>3, <2>4, <2>5, <2>6, <2>7, <2>8, <2>9, <2>10, <2>11, <2>12,
       <2>13 DEF InitStep
<1>3. CASE CooldownEnds
  BY <1>3 DEF CooldownEnds
<1>4. ASSUME NEW p \in Processes, Crash(p)
      PROVE  Sound'
  BY <1>4 DEF Crash
<1>5. CASE Rest
  BY <1>5 DEF Rest, vocabularyVars
<1>6. QED
  BY <1>1, <1>2, <1>3, <1>4, <1>5 DEF VocabularyNext

\* The invariant holds always.
LEMMA SoundInvariant == VocabularySpec => []Sound
BY SoundInit, SoundStep, PTL DEF VocabularySpec

\* Whatever the instances do to the one cache file at once, and wherever they are
\* killed, a tokenizer that counts exactly uses a verified vocabulary, and an
\* initialization that returned left no temporary file (vocab.go:39-130).
THEOREM NothingUnverified == VocabularySpec => []VocabularyIsSound
<1>1. Sound => VocabularyIsSound
  BY DEF Sound
<1>2. QED
  BY <1>1, SoundInvariant, PTL

\* The cache file changes only by the removal of a file, or to one that was
\* verified before the rename.
LEMMA CacheStep ==
    ASSUME Sound, VocabularyNext, cache' # cache
    PROVE  cache' \in {"good", "missing"}
<1> USE DEF Sound, Downloads
<1>1. ASSUME NEW t \in Tokenizers, InitStep(t)
      PROVE  cache' \in {"good", "missing"}
  <2>1. CASE RemoveCache(t)
    BY <2>1 DEF RemoveCache
  <2>2. CASE Commit(t)
    BY <2>2 DEF Commit
  <2>3. CASE ~RemoveCache(t) /\ ~Commit(t)
    BY <1>1, <2>3
       DEF InitStep, UseShared, Stat, Verify, Cooldown, Request, CreateTemp, Stream, Reverify,
           Load, Fallback, PublishShared
  <2>4. QED
    BY <2>1, <2>2, <2>3
<1>2. QED
  BY <1>1 DEF VocabularyNext, CooldownEnds, Crash, Rest, vocabularyVars

\* A process publishes its encoding once; only its end takes it back.
LEMMA SharedStep ==
    ASSUME Sound, VocabularyNext, NEW p \in Processes, shared[p] # "none", crashes' = crashes
    PROVE  shared'[p] = shared[p]
<1>1. ASSUME NEW t \in Tokenizers, InitStep(t)
      PROVE  shared'[p] = shared[p]
  <2>1. CASE PublishShared(t)
    BY <2>1, ProcessAssumption
       DEF PublishShared, Published, Sound, VocabularyIsSound, VocabularyTypeOK
  <2>2. CASE ~PublishShared(t)
    BY <1>1, <2>2
       DEF InitStep, UseShared, Stat, Verify, RemoveCache, Cooldown, Request, CreateTemp, Stream,
           Commit, Reverify, Load, Fallback
  <2>3. QED
    BY <2>1, <2>2
<1>2. ~ \E q \in Processes : Crash(q)
  BY CrashAssumption DEF Crash, Sound, VocabularyIsSound, VocabularyTypeOK
<1>3. QED
  BY <1>1, <1>2 DEF VocabularyNext, CooldownEnds, Rest, vocabularyVars

\* No step of any instance puts anything but a verified file in the cache, and a
\* process that lives keeps the encoding its tokenizers share (vocab.go:107-118,
\* tokenizer.go:134-140).
THEOREM StepsKeepVerified == VocabularySpec => VocabularySteps
<1>1. Sound /\ [VocabularyNext]_vocabularyVars
        => [cache' # cache => cache' \in {"good", "missing"}]_vocabularyVars
  BY CacheStep DEF vocabularyVars
<1>2. Sound /\ [VocabularyNext]_vocabularyVars
        => [\A p \in Processes : shared[p] # "none" /\ crashes' = crashes
                => shared'[p] = shared[p]]_vocabularyVars
  BY SharedStep DEF vocabularyVars
<1>3. QED
  BY <1>1, <1>2, SoundInvariant, PTL
     DEF VocabularySpec, VocabularySteps, OnlyVerifiedIsCommitted, SharedIsStable

-------------------------------------------------------------------------------
(* Versions: the comparison of tags is a strict order, so that no sequence  *)
(* of releases leads back to a version the application left                 *)

\* A segment of a valid tag is a natural number, and so is a padded one.
LEMMA Numbers ==
    ASSUME NEW v \in Tags, Valid(v), NEW i \in Nat
    PROVE  NumberAt(v, i) \in Nat
  BY TagsAssumption DEF Valid, NumberAt, Tag, Segment, NoNumber

\* MainNewer says that the first difference, at any index, is in favour of v.
LEMMA FirstDifference ==
    ASSUME NEW v \in Tags, NEW w \in Tags, Valid(v), Valid(w)
    PROVE  MainNewer(v, w) <=>
               \E i \in Nat \ {0} :
                   /\ NumberAt(v, i) > NumberAt(w, i)
                   /\ \A j \in 1 .. (i - 1) : NumberAt(v, j) = NumberAt(w, j)
<1>1. DOMAIN v.main \subseteq Nat \ {0}
      /\ \A i \in DOMAIN v.main : \A j \in 1 .. (i - 1) : j \in DOMAIN v.main
  BY TagsAssumption DEF Tag
<1>2. ASSUME NEW i \in Nat \ {0}, NumberAt(v, i) > NumberAt(w, i)
      PROVE  i \in DOMAIN v.main
  BY <1>2, Numbers DEF NumberAt
<1>3. QED
  BY <1>1, <1>2 DEF MainNewer, NumberAt

\* Of two versions at most one has the smaller numbers.
LEMMA MainAsymmetric ==
    ASSUME NEW v \in Tags, NEW w \in Tags, Valid(v), Valid(w), MainNewer(v, w)
    PROVE  ~MainNewer(w, v)
<1>1. SUFFICES ASSUME MainNewer(w, v) PROVE FALSE
  OBVIOUS
<1>2. PICK i \in Nat \ {0} :
          /\ NumberAt(v, i) > NumberAt(w, i)
          /\ \A k \in 1 .. (i - 1) : NumberAt(v, k) = NumberAt(w, k)
  BY FirstDifference
<1>3. PICK j \in Nat \ {0} :
          /\ NumberAt(w, j) > NumberAt(v, j)
          /\ \A k \in 1 .. (j - 1) : NumberAt(w, k) = NumberAt(v, k)
  BY <1>1, FirstDifference
<1>4. /\ NumberAt(v, i) \in Nat /\ NumberAt(w, i) \in Nat
      /\ NumberAt(v, j) \in Nat /\ NumberAt(w, j) \in Nat
  BY Numbers
<1>5. CASE i < j
  BY <1>2, <1>3, <1>4, <1>5
<1>6. CASE j < i
  BY <1>2, <1>3, <1>4, <1>6
<1>7. CASE i = j
  BY <1>2, <1>3, <1>4, <1>7
<1>8. QED
  BY <1>5, <1>6, <1>7

\* Equal main parts are equal at any index.
LEMMA MainSameIsEqual ==
    ASSUME NEW v \in Tags, NEW w \in Tags, Valid(v), Valid(w)
    PROVE  MainSame(v, w) <=> \A i \in Nat \ {0} : NumberAt(v, i) = NumberAt(w, i)
<1>1. DOMAIN v.main \subseteq Nat \ {0} /\ DOMAIN w.main \subseteq Nat \ {0}
  BY TagsAssumption DEF Tag
<1>2. QED
  BY <1>1 DEF MainSame, NumberAt

\* The order of the numbers is transitive.
LEMMA MainTransitive ==
    ASSUME NEW u \in Tags, NEW v \in Tags, NEW w \in Tags, Valid(u), Valid(v), Valid(w),
           MainNewer(u, v), MainNewer(v, w)
    PROVE  MainNewer(u, w)
<1>1. PICK i \in Nat \ {0} :
          /\ NumberAt(u, i) > NumberAt(v, i)
          /\ \A k \in 1 .. (i - 1) : NumberAt(u, k) = NumberAt(v, k)
  BY FirstDifference
<1>2. PICK j \in Nat \ {0} :
          /\ NumberAt(v, j) > NumberAt(w, j)
          /\ \A k \in 1 .. (j - 1) : NumberAt(v, k) = NumberAt(w, k)
  BY FirstDifference
<1>3. \A k \in Nat : NumberAt(u, k) \in Nat /\ NumberAt(v, k) \in Nat /\ NumberAt(w, k) \in Nat
  BY Numbers
<1> DEFINE First(n) ==
        /\ NumberAt(u, n) > NumberAt(w, n)
        /\ \A k \in 1 .. (n - 1) : NumberAt(u, k) = NumberAt(w, k)
<1>4. CASE i <= j
  <2>1. NumberAt(v, i) >= NumberAt(w, i)
    BY <1>2, <1>3, <1>4
  <2>2. NumberAt(u, i) > NumberAt(w, i)
    BY <1>1, <1>3, <2>1
  <2>3. ASSUME NEW k \in 1 .. (i - 1)
        PROVE  NumberAt(u, k) = NumberAt(w, k)
    <3>1. k \in 1 .. (j - 1)
      BY <1>4
    <3>2. QED
      BY <1>1, <1>2, <3>1
  <2>4. First(i)
    BY <2>2, <2>3
  <2>5. QED
    BY <2>4, FirstDifference
<1>5. CASE j < i
  <2>1. First(j)
    BY <1>1, <1>2, <1>3, <1>5
  <2>2. QED
    BY <2>1, FirstDifference
<1>6. QED
  BY <1>4, <1>5

\* What a tag is newer than does not depend on which of two equal main parts
\* is looked at.
LEMMA MainCongruent ==
    ASSUME NEW u \in Tags, NEW v \in Tags, NEW w \in Tags, Valid(u), Valid(v), Valid(w)
    PROVE  /\ MainNewer(u, v) /\ MainSame(v, w) => MainNewer(u, w)
           /\ MainSame(u, v) /\ MainNewer(v, w) => MainNewer(u, w)
           /\ MainSame(u, v) /\ MainSame(v, w) => MainSame(u, w)
           /\ MainSame(u, v) => ~MainNewer(u, v) /\ ~MainNewer(v, u)
<1>1. MainNewer(u, v) /\ MainSame(v, w) => MainNewer(u, w)
  BY FirstDifference, MainSameIsEqual
<1>2. MainSame(u, v) /\ MainNewer(v, w) => MainNewer(u, w)
  BY FirstDifference, MainSameIsEqual
<1>3. MainSame(u, v) /\ MainSame(v, w) => MainSame(u, w)
  BY MainSameIsEqual
<1>4. MainSame(u, v) => ~MainNewer(u, v) /\ ~MainNewer(v, u)
  BY FirstDifference, MainSameIsEqual, Numbers
<1>5. QED
  BY <1>1, <1>2, <1>3, <1>4

-------------------------------------------------------------------------------
(* Prereleases *)

\* Identifiers of a prerelease are strictly ordered.
LEMMA IdOrder ==
    ASSUME NEW a \in Identifier, NEW b \in Identifier, NEW c \in Identifier
    PROVE  /\ IdBefore(a, b) => ~IdBefore(b, a)
           /\ IdBefore(a, b) /\ IdBefore(b, c) => IdBefore(a, c)
           /\ ~IdBefore(a, a)
  BY DEF Identifier, Segment, IdBefore, NoNumber

\* Of two prereleases at most one is the smaller.
LEMMA PreAsymmetric ==
    ASSUME NEW v \in Tags, NEW w \in Tags, PreBefore(v, w)
    PROVE  ~PreBefore(w, v)
<1>1. SUFFICES ASSUME PreBefore(w, v) PROVE FALSE
  OBVIOUS
<1>2. v.pre \in Seq(Identifier) /\ w.pre \in Seq(Identifier)
  BY TagsAssumption DEF Tag
<1>3. v.pre # <<>> /\ w.pre # <<>>
  BY <1>1 DEF PreBefore
<1>4. PICK i \in DOMAIN w.pre :
          /\ \A j \in 1 .. (i - 1) : j \in DOMAIN v.pre /\ v.pre[j] = w.pre[j]
          /\ i \in DOMAIN v.pre => IdBefore(v.pre[i], w.pre[i])
  BY <1>3 DEF PreBefore
<1>5. PICK k \in DOMAIN v.pre :
          /\ \A j \in 1 .. (k - 1) : j \in DOMAIN w.pre /\ w.pre[j] = v.pre[j]
          /\ k \in DOMAIN w.pre => IdBefore(w.pre[k], v.pre[k])
  BY <1>1, <1>3 DEF PreBefore
<1>6. i \in Nat \ {0} /\ k \in Nat \ {0}
  BY <1>2
<1>7. CASE i < k
  <2>1. i \in DOMAIN v.pre /\ v.pre[i] = w.pre[i]
    BY <1>2, <1>5, <1>6, <1>7
  <2>2. QED
    BY <1>2, <1>4, <2>1, IdOrder
<1>8. CASE k < i
  <2>1. k \in DOMAIN w.pre /\ v.pre[k] = w.pre[k]
    BY <1>2, <1>4, <1>6, <1>8
  <2>2. QED
    BY <1>2, <1>5, <2>1, IdOrder
<1>9. CASE i = k
  BY <1>2, <1>4, <1>5, <1>9, IdOrder
<1>10. QED
  BY <1>6, <1>7, <1>8, <1>9

\* The order of prereleases is transitive.
LEMMA PreTransitive ==
    ASSUME NEW u \in Tags, NEW v \in Tags, NEW w \in Tags, PreBefore(u, v), PreBefore(v, w)
    PROVE  PreBefore(u, w)
<1>1. u.pre \in Seq(Identifier) /\ v.pre \in Seq(Identifier) /\ w.pre \in Seq(Identifier)
  BY TagsAssumption DEF Tag
<1>2. u.pre # <<>> /\ v.pre # <<>>
  BY DEF PreBefore
<1>3. CASE w.pre = <<>>
  BY <1>2, <1>3 DEF PreBefore
<1>4. CASE w.pre # <<>>
  <2>1. PICK i \in DOMAIN v.pre :
            /\ \A j \in 1 .. (i - 1) : j \in DOMAIN u.pre /\ u.pre[j] = v.pre[j]
            /\ i \in DOMAIN u.pre => IdBefore(u.pre[i], v.pre[i])
    BY <1>2 DEF PreBefore
  <2>2. PICK k \in DOMAIN w.pre :
            /\ \A j \in 1 .. (k - 1) : j \in DOMAIN v.pre /\ v.pre[j] = w.pre[j]
            /\ k \in DOMAIN v.pre => IdBefore(v.pre[k], w.pre[k])
    BY <1>4 DEF PreBefore
  <2>3. i \in Nat \ {0} /\ k \in Nat \ {0}
    BY <1>1
  <2> DEFINE First(n) ==
          /\ n \in DOMAIN w.pre
          /\ \A j \in 1 .. (n - 1) : j \in DOMAIN u.pre /\ u.pre[j] = w.pre[j]
          /\ n \in DOMAIN u.pre => IdBefore(u.pre[n], w.pre[n])
  <2>4. CASE i < k
    <3>1. i \in DOMAIN w.pre /\ v.pre[i] = w.pre[i]
      BY <1>1, <2>2, <2>3, <2>4
    <3>2. First(i)
      BY <1>1, <2>1, <2>2, <2>3, <2>4, <3>1
    <3>3. QED
      BY <1>2, <3>2 DEF PreBefore
  <2>5. CASE k < i
    <3>1. k \in DOMAIN u.pre /\ u.pre[k] = v.pre[k] /\ k \in DOMAIN v.pre
      BY <1>1, <2>1, <2>3, <2>5
    <3>2. First(k)
      BY <1>1, <2>1, <2>2, <2>3, <2>5, <3>1
    <3>3. QED
      BY <1>2, <3>2 DEF PreBefore
  <2>6. CASE i = k
    <3>1. k \in DOMAIN u.pre => IdBefore(u.pre[k], w.pre[k])
      BY <1>1, <2>1, <2>2, <2>6, IdOrder
    <3>2. First(k)
      BY <1>1, <2>1, <2>2, <2>3, <2>6, <3>1
    <3>3. QED
      BY <1>2, <3>2 DEF PreBefore
  <2>7. QED
    BY <2>3, <2>4, <2>5, <2>6
<1>5. QED
  BY <1>3, <1>4

-------------------------------------------------------------------------------
(* The order of the tags, and what follows for updates *)

\* For valid tags "newer than" is a strict order: of two tags at most one is
\* newer than the other, and being newer is inherited along a chain
\* (version.go:68-117).
THEOREM NewerIsStrictOrder ==
    ASSUME NEW u \in Tags, NEW v \in Tags, NEW w \in Tags, Valid(u), Valid(v), Valid(w)
    PROVE  /\ Newer(u, v) => ~Newer(v, u)
           /\ Newer(u, v) /\ Newer(v, w) => Newer(u, w)
<1>1. Newer(u, v) => ~Newer(v, u)
  <2>1. MainSame(u, v) <=> MainSame(v, u)
    BY MainSameIsEqual
  <2>2. QED
    BY <2>1, MainAsymmetric, MainCongruent, PreAsymmetric DEF Newer
<1>2. ASSUME Newer(u, v), Newer(v, w)
      PROVE  Newer(u, w)
  <2>1. CASE MainNewer(u, v) /\ MainNewer(v, w)
    BY <2>1, MainTransitive DEF Newer
  <2>2. CASE (MainNewer(u, v) /\ MainSame(v, w)) \/ (MainSame(u, v) /\ MainNewer(v, w))
    BY <2>2, MainCongruent DEF Newer
  <2>3. CASE MainSame(u, v) /\ PreBefore(v, u) /\ MainSame(v, w) /\ PreBefore(w, v)
    BY <2>3, MainCongruent, PreTransitive DEF Newer
  <2>4. /\ MainNewer(u, v) \/ (MainSame(u, v) /\ PreBefore(v, u))
        /\ MainNewer(v, w) \/ (MainSame(v, w) /\ PreBefore(w, v))
    BY <1>2 DEF Newer
  <2>5. QED
    BY <2>1, <2>2, <2>3, <2>4
<1>3. QED
  BY <1>1, <1>2

\* The version that runs is newer than each valid one that ran before.
IInv ==
    /\ VersionsTypeOK
    /\ \A v \in past : Valid(v) => Newer(installed, v)

\* Only tags that parse are ever installed as an update (version.go:18-20).
THEOREM VersionsTyped == VersionsSpec => []VersionsTypeOK
<1>1. VersionsInit => VersionsTypeOK
  BY DEF VersionsInit, VersionsTypeOK
<1>2. VersionsTypeOK /\ [VersionsNext]_versionsVars => VersionsTypeOK'
  BY DEF VersionsTypeOK, VersionsNext, Publish, Update, IsNewerVersion, versionsVars
<1>3. QED
  BY <1>1, <1>2, PTL DEF VersionsSpec

\* The invariant holds always.
LEMMA Inductive == VersionsSpec => []IInv
<1>1. VersionsInit => IInv
  BY DEF VersionsInit, IInv, VersionsTypeOK
<1>2. ASSUME IInv, [VersionsNext]_versionsVars
      PROVE  IInv'
  <2>1. VersionsTypeOK'
    BY <1>2 DEF IInv, VersionsTypeOK, VersionsNext, Publish, Update, IsNewerVersion, versionsVars
  <2>2. ASSUME NEW v \in past', Valid(v)
        PROVE  Newer(installed', v)
    <3>1. CASE installed' = installed /\ past' = past
      BY <1>2, <2>2, <3>1 DEF IInv
    <3>2. CASE Update
      <4>1. Valid(latest) /\ latest \in Tags /\ installed \in Tags /\ v \in Tags
        BY <1>2, <2>1, <3>2 DEF Update, IsNewerVersion, IInv, VersionsTypeOK
      <4>2. CASE v = installed
        BY <2>2, <3>2, <4>2 DEF Update, IsNewerVersion
      <4>3. CASE v \in past
        <5>1. Valid(installed)
          BY <1>2, <4>3 DEF IInv, VersionsTypeOK
        <5>2. Newer(latest, installed) /\ Newer(installed, v)
          BY <1>2, <2>2, <3>2, <4>3, <5>1 DEF Update, IsNewerVersion, IInv
        <5>3. QED
          BY <2>2, <3>2, <4>1, <5>1, <5>2, NewerIsStrictOrder DEF Update
      <4>4. QED
        BY <3>2, <4>2, <4>3 DEF Update
    <3>3. QED
      BY <1>2, <3>1, <3>2 DEF VersionsNext, Publish, versionsVars
  <2>3. QED
    BY <2>1, <2>2 DEF IInv
<1>3. QED
  BY <1>1, <1>2, PTL DEF VersionsSpec

\* No sequence of releases makes the application return to a version it has
\* left (version.go:15-25).
THEOREM NeverReturns == VersionsSpec => []NoReturn
<1>1. IInv => NoReturn
  <2>1. SUFFICES ASSUME IInv, NEW v \in past, IsNewerVersion(installed, v)
                 PROVE  FALSE
    BY DEF NoReturn
  <2>2. Valid(v) /\ Valid(installed) /\ v \in Tags /\ installed \in Tags
    BY <2>1 DEF IsNewerVersion, IInv, VersionsTypeOK
  <2>3. Newer(installed, v) /\ Newer(v, installed)
    BY <2>1, <2>2 DEF IsNewerVersion, IInv
  <2>4. QED
    BY <2>2, <2>3, NewerIsStrictOrder
<1>2. QED
  BY <1>1, Inductive, PTL

-------------------------------------------------------------------------------
(* The ladder: single steps of the precedence decide between any two tags *)

\* Each rule of the precedence makes a later version.
LEMMA ClimbsIsNewer ==
    ASSUME NEW v \in Tags, NEW w \in Tags, Valid(v), Valid(w), Climbs(v, w)
    PROVE  Newer(w, v)
<1>1. /\ v.main \in Seq(Segment) /\ w.main \in Seq(Segment)
      /\ v.pre \in Seq(Identifier) /\ w.pre \in Seq(Identifier)
  BY TagsAssumption DEF Tag
<1>2. ASSUME NEW i \in DOMAIN v.main \cap DOMAIN w.main,
             v.main[i] < w.main[i], SameBefore(v.main, w.main, i)
      PROVE  MainNewer(w, v)
  <2>1. \A j \in 1 .. (i - 1) : j \in DOMAIN v.main /\ j \in DOMAIN w.main
    BY <1>1
  <2>2. v.main[i] \in Int /\ w.main[i] \in Int
    BY <1>1 DEF Segment, NoNumber
  <2>3. QED
    BY <1>2, <2>1, <2>2 DEF MainNewer, NumberAt, SameBefore
<1>3. v.main = w.main => MainSame(w, v)
  BY DEF MainSame, NumberAt
<1>4. CASE v.pre # <<>> /\ w.pre = <<>>
  BY <1>2, <1>3, <1>4 DEF Climbs, Newer, PreBefore
<1>5. CASE /\ v.pre # <<>> /\ Len(v.pre) < Len(w.pre)
           /\ SameBefore(v.pre, w.pre, Len(v.pre) + 1)
  <2> DEFINE n == Len(v.pre) + 1
  <2>1. n \in DOMAIN w.pre /\ n \notin DOMAIN v.pre
        /\ \A j \in 1 .. (n - 1) : j \in DOMAIN v.pre
    BY <1>1, <1>5
  <2>2. PreBefore(v, w)
    BY <1>5, <2>1 DEF PreBefore, SameBefore
  <2>3. QED
    BY <1>2, <1>3, <2>2 DEF Climbs, Newer
<1>6. ASSUME NEW i \in DOMAIN v.pre \cap DOMAIN w.pre, SameBefore(v.pre, w.pre, i),
             IdBefore(v.pre[i], w.pre[i])
      PROVE  PreBefore(v, w)
  <2>1. v.pre # <<>> /\ \A j \in 1 .. (i - 1) : j \in DOMAIN v.pre
    BY <1>1
  <2>2. QED
    BY <1>6, <2>1 DEF PreBefore, SameBefore
<1>7. \A i \in DOMAIN v.pre \cap DOMAIN w.pre :
         LET a == v.pre[i]
             b == w.pre[i]
         IN  \/ a.num # NoNumber /\ (a.num < b.num \/ b.num = NoNumber)
             \/ a.num = NoNumber /\ b.num = NoNumber /\ a.text < b.text
             => IdBefore(a, b)
  <2>1. ASSUME NEW a \in Identifier, NEW b \in Identifier,
               \/ a.num # NoNumber /\ (a.num < b.num \/ b.num = NoNumber)
               \/ a.num = NoNumber /\ b.num = NoNumber /\ a.text < b.text
        PROVE  IdBefore(a, b)
    BY <2>1 DEF Identifier, Segment, NoNumber, IdBefore
  <2>2. \A i \in DOMAIN v.pre \cap DOMAIN w.pre :
           v.pre[i] \in Identifier /\ w.pre[i] \in Identifier
    BY <1>1
  <2>3. QED
    BY <2>1, <2>2
<1>8. CASE MainNewer(w, v)
  BY <1>8 DEF Newer
<1>9. CASE v.main = w.main /\ PreBefore(v, w)
  BY <1>3, <1>9 DEF Newer
<1>10. QED
  BY <1>2, <1>4, <1>5, <1>6, <1>7, <1>8, <1>9 DEF Climbs

\* A tag of the ladder is a later version than every one below it, not just than
\* the next one.
LEMMA LadderAscends ==
    ASSUME NEW i \in DOMAIN Ladder, NEW j \in DOMAIN Ladder, i < j
    PROVE  Newer(Ladder[j], Ladder[i])
<1> DEFINE n == Len(Ladder)
           Wrong == {k \in (i + 1) .. n : ~Newer(Ladder[k], Ladder[i])}
<1>1. n \in Nat /\ DOMAIN Ladder = 1 .. n
  BY LadderAssumption
<1>2. \A k \in 1 .. n : Ladder[k] \in Tags /\ Valid(Ladder[k])
  BY <1>1, LadderAssumption DEF Tags
<1>3. \A k \in 1 .. (n - 1) : k \in 1 .. n /\ k + 1 \in 1 .. n /\ Newer(Ladder[k + 1], Ladder[k])
  <2>1. ASSUME NEW k \in 1 .. (n - 1)
        PROVE  k \in 1 .. n /\ k + 1 \in 1 .. n /\ Climbs(Ladder[k], Ladder[k + 1])
    BY <1>1, LadderAssumption
  <2> HIDE DEF n
  <2>2. QED
    BY <1>2, <2>1, ClimbsIsNewer
<1> HIDE DEF n
<1>4. SUFFICES ASSUME Wrong # {} PROVE FALSE
  BY <1>1
<1>5. PICK k \in Wrong : \A l \in Wrong : k <= l
  <2>1. Wrong \subseteq Nat
    BY <1>1
  <2> HIDE DEF Wrong
  <2>2. QED
    BY <1>4, <2>1, Least
<1>6. k - 1 \in 1 .. (n - 1) /\ (k - 1) + 1 = k /\ k \in 1 .. n /\ i \in 1 .. n
  BY <1>1
<1>7. Newer(Ladder[k], Ladder[k - 1])
  BY <1>3, <1>6
<1>8. k # i + 1
  BY <1>1, <1>7
<1>9. k - 1 \in (i + 1) .. n /\ k - 1 \notin Wrong
  BY <1>1, <1>5, <1>8
<1>10. Newer(Ladder[k - 1], Ladder[i])
  BY <1>9
<1>11. Newer(Ladder[k], Ladder[i])
  <2>1. /\ Ladder[k] \in Tags /\ Ladder[k - 1] \in Tags /\ Ladder[i] \in Tags
        /\ Valid(Ladder[k]) /\ Valid(Ladder[k - 1]) /\ Valid(Ladder[i])
    BY <1>2, <1>3, <1>6
  <2>2. QED
    BY <1>7, <1>10, <2>1, NewerIsStrictOrder
<1>12. QED
  BY <1>11

\* The application moves from one tag of a ladder to another exactly if the other
\* is higher, however long the ladder of single steps of the precedence is
\* (version.go:15-25, 68-117).
THEOREM PrecedenceDecides == VersionsSpec => []PrecedenceIsHonoured
<1>1. PrecedenceIsHonoured
  <2>1. SUFFICES ASSUME NEW i \in DOMAIN Ladder, NEW j \in DOMAIN Ladder,
                        installed = Ladder[i], latest = Ladder[j]
                 PROVE  IsNewerVersion(installed, latest) <=> i < j
    BY DEF PrecedenceIsHonoured
  <2>2. installed \in Tags /\ latest \in Tags /\ Valid(installed) /\ Valid(latest)
    BY <2>1, LadderAssumption DEF Tags
  <2>3. i \in Int /\ j \in Int
    BY LadderAssumption
  <2>4. IsNewerVersion(installed, latest) <=> Newer(latest, installed)
    BY <2>2 DEF IsNewerVersion
  <2>5. i < j => Newer(latest, installed)
    BY <2>1, LadderAscends
  <2>6. j < i => ~Newer(latest, installed)
    BY <2>1, <2>2, LadderAscends, NewerIsStrictOrder
  <2>7. i = j => ~Newer(latest, installed)
    BY <2>1, <2>2, NewerIsStrictOrder
  <2>8. QED
    BY <2>3, <2>4, <2>5, <2>6, <2>7
<1>2. QED
  BY <1>1, PTL
===============================================================================
