------------------------------ MODULE Bookmarks ------------------------------
(***************************************************************************)
(* What the operations of bookmarks.Manager do to the saved bookmarks and  *)
(* their histories (internal/bookmarks/manager.go, history.go and          *)
(* normalizeBookmarks of storage.go).  Every operation loads, changes and  *)
(* saves under the write lock; that it does so in one step, or not at all, *)
(* is what module BookmarkStore is about.                                  *)
(*                                                                         *)
(* Identifiers and timestamps are numbers: all the code does with them is  *)
(* compare them as strings.  Timestamps are local times and come in any    *)
(* order.  An identifier is a random UUID: any that is not in use.         *)
(*                                                                         *)
(* A definition whose comment begins with "Fault:" is a seeded fault: no   *)
(* behaviour of Spec uses it, it shows which mistake a property rules out. *)
(***************************************************************************)
EXTENDS Naturals, FiniteSets, Sequences, SequencesExt

CONSTANTS
    Paths,     \* normalized paths
    Fold,      \* pathsEqual: paths of one fold are equal (case, on Windows)
    Ids, Stamps,
    Notes, NoNote,
    OldIds,    \* identifiers of the bookmarks in the file of an older version
    OldOrders, \* and their orders: 0 where it is missing, tied, or with gaps
    Incoming,  \* bookmarks an imported file may hold
    Keys,      \* the identifiers they have there
    NoKey,     \* that of a bookmark without one
    MaxResults,  \* bound on the results that are recorded at a time
    MaxListed,   \* bound on the lists of a request: to reorder, to import
    NoResult

ASSUME NumbersAssumption == Ids \subseteq Nat /\ Stamps \subseteq Nat /\ IsFiniteSet(Ids)
ASSUME OldAssumption == OldIds \subseteq Ids /\ OldOrders \subseteq Nat
ASSUME BoundsAssumption == MaxResults \in Nat /\ MaxListed \in Nat
ASSUME NotesAssumption == NoNote \in Notes
ASSUME FoldAssumption == DOMAIN Fold = Paths

Results == [at : Stamps, label : BOOLEAN]  \* BOOLEAN: whether the user named it
ASSUME NoResultAssumption == NoResult \notin Results
ASSUME IncomingAssumption ==
    Incoming \subseteq [key : Keys \cup {NoKey}, path : Paths, note : Notes,
                        history : Seq(Results), last : Results \cup {NoResult}]

VARIABLES
    stored,  \* the bookmarks on disk, by identifier
    ledger,  \* history variable: <<fold, identifier, timestamp>> of every result
             \* that was recorded in a bookmark and not deleted since
    doubled  \* history variable: pairs of identifiers that the file of an older
             \* version had under one path

vars == <<stored, ledger, doubled>>

\* a sequence that is strictly descending by timestamp
Descending(h) == \A i, j \in DOMAIN h : i < j => h[i].at > h[j].at

Bookmark == [path : Paths, note : Notes, order : Nat, history : Seq(Results),
             last : Results \cup {NoResult}]

TypeOK ==
    /\ DOMAIN stored \subseteq Ids
    /\ \A id \in DOMAIN stored : stored[id] \in Bookmark
    /\ ledger \subseteq Range(Fold) \X Ids \X Stamps
    /\ doubled \subseteq OldIds \X OldIds

-------------------------------------------------------------------------------
(* Histories, history.go *)

\* the stable sort: newer results come first, those of one timestamp as they were
Newer(h, i, j) == h[i].at > h[j].at \/ (h[i].at = h[j].at /\ i < j)
SortHistory(h) ==
    [k \in DOMAIN h |->
        h[CHOOSE i \in DOMAIN h : Cardinality({j \in DOMAIN h : Newer(h, j, i)}) = k - 1]]

\* appendOrUpdateHistory: the first result of the same timestamp is replaced
AppendOrUpdate(h, result) ==
    LET same == {i \in DOMAIN h : h[i].at = result.at}
    IN  SortHistory(IF same = {} THEN Append(h, result)
                    ELSE [h EXCEPT ![CHOOSE i \in same : \A j \in same : i <= j] = result])

\* syncLastResult: the last result is the newest of the history
SyncLastResult(b) ==
    LET sorted == SortHistory(b.history)
    IN  [b EXCEPT !.history = sorted,
                  !.last = IF sorted = <<>> THEN NoResult ELSE Head(sorted)]

-------------------------------------------------------------------------------
(* normalizeBookmarks, at every load and before every save *)

\* files of older versions have only a last result
Migrate(b) == IF b.history = <<>> /\ b.last # NoResult
              THEN [b EXCEPT !.history = <<b.last>>] ELSE b

\* what a bookmark is sorted by
Place(bs, id) == <<bs[id].order, id>>

\* Fault: bookmarks are sorted by identifier alone, or by their number alone
BeforeById(p, q) == p[2] < q[2]
BeforeByOrder(p, q) == p[1] < q[1]
Before(p, q) == p[1] < q[1] \/ (p[1] = q[1] /\ p[2] < q[2])

Rank(places, p) == Cardinality({q \in places : Before(q, p)})

\* the bookmarks are numbered anew, in the order they had
Renumber(bs) ==
    LET places == {Place(bs, id) : id \in DOMAIN bs}
    IN  [id \in DOMAIN bs |-> [bs[id] EXCEPT !.order = Rank(places, <<@, id>>)]]

Normalize(bs) == Renumber([id \in DOMAIN bs |-> SyncLastResult(Migrate(bs[id]))])

Loaded == Normalize(stored)

\* persistUnlocked and saveUnlocked
Persist(bs) == stored' = Normalize(Normalize(bs)) /\ UNCHANGED doubled

-------------------------------------------------------------------------------
(* The operations, manager.go *)

\* Fault: paths are compared as they are spelt
SameSpelling(p, q) == p = q
PathsEqual(p, q) == Fold[p] = Fold[q]

Matching(bs, path) == {id \in DOMAIN bs : PathsEqual(bs[id].path, path)}
With(bs, id, b) == [i \in DOMAIN bs \cup {id} |-> IF i = id THEN b ELSE bs[i]]
Without(bs, id) == [i \in DOMAIN bs \ {id} |-> bs[i]]

\* what the ledger holds of a bookmark
Entries(id) == {e \in ledger : e[2] = id}

NewBookmark(path, note, order) ==
    [path |-> path, note |-> note, order |-> order, history |-> <<>>, last |-> NoResult]

\* a bookmark of the path gets the new note and spelling; a new one goes last
SaveBookmark(path, note) ==
    LET local == Loaded
    IN  /\ \/ \E id \in Matching(local, path) :
                Persist([local EXCEPT ![id].path = path, ![id].note = note])
           \/ /\ Matching(local, path) = {}
              /\ \E id \in Ids \ DOMAIN local :
                   Persist(With(local, id, NewBookmark(path, note, Cardinality(DOMAIN local))))
        /\ UNCHANGED ledger

\* called when a document was generated: every bookmark of the path gets the result
SaveHistoryResult(path, result) ==
    LET local == Loaded
        found == Matching(local, path)
        add(b) == SyncLastResult([b EXCEPT !.history = AppendOrUpdate(@, result)])
    IN  /\ found # {}
        /\ Persist([id \in DOMAIN local |-> IF id \in found THEN add(local[id]) ELSE local[id]])
        /\ ledger' = ledger \cup {<<Fold[path], id, result.at>> : id \in found}
        /\ Cardinality(ledger') <= MaxResults

UpdateNote(id, note) ==
    /\ id \in DOMAIN stored
    /\ Persist([Loaded EXCEPT ![id].note = note])
    /\ UNCHANGED ledger

\* the identifiers that exist, each where it is first named
Named(bs, ids) ==
    FoldLeft(LAMBDA named, id : IF id \in DOMAIN bs /\ ~Contains(named, id)
                                THEN Append(named, id) ELSE named, <<>>, ids)

\* the named ones come first, the remaining ones after them in their old order
Reordered(bs, ids) ==
    LET named == Named(bs, ids)
        rest  == DOMAIN bs \ ToSet(named)
        place(id) == IF id \in rest
                     THEN Len(named) + Rank({Place(bs, i) : i \in rest}, Place(bs, id))
                     ELSE (CHOOSE k \in DOMAIN named : named[k] = id) - 1
    IN  [id \in DOMAIN bs |-> [bs[id] EXCEPT !.order = place(id)]]

ReorderBookmarks(ids) ==
    LET local == Loaded
    IN  Persist(Reordered(local, ids)) /\ UNCHANGED ledger

DeleteBookmark(id) ==
    /\ Persist(Without(Loaded, id))
    /\ ledger' = ledger \ Entries(id)

\* the results of other timestamps, in the order they had
OfOtherTimes(h, at) ==
    FoldLeft(LAMBDA kept, r : IF r.at = at THEN kept ELSE Append(kept, r), <<>>, h)

DeleteHistoryItem(id, at) ==
    LET without(b) == SyncLastResult([b EXCEPT !.history = OfOtherTimes(@, at)])
    IN  /\ id \in DOMAIN stored
        /\ Persist([Loaded EXCEPT ![id] = without(@)])
        /\ ledger' = ledger \ {<<Fold[stored[id].path], id, at>>}

\* the first result of that timestamp gets the label
RenameHistoryItem(id, at, label) ==
    LET local == Loaded
    IN  /\ id \in DOMAIN local
        /\ \E i \in DOMAIN local[id].history :
             /\ local[id].history[i].at = at
             /\ \A j \in 1 .. i - 1 : local[id].history[j].at # at
             /\ Persist([local EXCEPT ![id] =
                           SyncLastResult([@ EXCEPT !.history[i].label = label])])
        /\ UNCHANGED ledger

\* Fault: the last result survives its history
ClearHistoryOnly(id) ==
    /\ id \in DOMAIN stored
    /\ Persist([Loaded EXCEPT ![id].history = <<>>])
    /\ ledger' = ledger \ Entries(id)
ClearHistory(id) ==
    /\ id \in DOMAIN stored
    /\ Persist([Loaded EXCEPT ![id].history = <<>>, ![id].last = NoResult])
    /\ ledger' = ledger \ Entries(id)

\* decodeImport: of the bookmarks that have one identifier the last one counts
Decoded(file) ==
    {k \in DOMAIN file : \/ file[k].key = NoKey
                         \/ \A l \in DOMAIN file : l > k => file[l].key # file[k].key}

\* an imported bookmark is merged into the bookmark id, which is new or of its path
Merge(bs, id, incoming) ==
    LET base  == IF id \in DOMAIN bs THEN bs[id]
                 ELSE NewBookmark(incoming.path, NoNote, Cardinality(DOMAIN bs))
        noted == IF incoming.note # NoNote THEN [base EXCEPT !.note = incoming.note] ELSE base
    IN  With(bs, id, SyncLastResult([noted EXCEPT
                       !.history = FoldLeft(AppendOrUpdate, @, Migrate(incoming).history)]))

\* where it may end up: in any bookmark of its path, or in a new one if there is none
Merges(now, incoming) ==
    LET known == Matching(now.books, incoming.path)
    IN  {[books  |-> Merge(now.books, id, incoming),
          ledger |-> now.ledger \cup
             {<<Fold[incoming.path], id, r.at>> : r \in ToSet(Migrate(incoming).history)}] :
         id \in IF known # {} THEN known ELSE Ids \ DOMAIN now.books}

\* ImportData goes through the imported bookmarks, and through the local ones
\* for each of them, in the order of a Go map, which is any
Imports(entries) ==
    FoldLeft(LAMBDA nows, incoming : UNION {Merges(now, incoming) : now \in nows},
             {[books |-> Loaded, ledger |-> ledger]}, entries)

ImportData(file) ==
    \E order \in SetToSeqs(Decoded(file)) :
      \E now \in Imports([k \in DOMAIN order |-> file[order[k]]]) :
        /\ Cardinality(now.ledger) <= MaxResults
        /\ Persist(now.books)
        /\ ledger' = now.ledger

\* The bookmarks of an older version: results, but no histories, and orders and
\* paths that nothing made distinct.  Without bookmarks it is the empty store.
OldBookmarks ==
    [path : Paths, note : {NoNote}, order : OldOrders, history : {<<>>},
     last : Results \cup {NoResult}]

Init ==
    /\ \E ids \in SUBSET OldIds : stored \in [ids -> OldBookmarks]
    /\ ledger = {<<Fold[stored[id].path], id, stored[id].last.at>> :
                    id \in {i \in DOMAIN stored : stored[i].last # NoResult}}
    /\ doubled = {pair \in (DOMAIN stored) \X (DOMAIN stored) :
                    /\ pair[1] # pair[2]
                    /\ Fold[stored[pair[1]].path] = Fold[stored[pair[2]].path]}

Next ==
    \/ \E path \in Paths, note \in Notes : SaveBookmark(path, note)
    \/ \E path \in Paths, at \in Stamps : SaveHistoryResult(path, [at |-> at, label |-> FALSE])
    \/ \E id \in Ids, note \in Notes : UpdateNote(id, note)
    \/ \E id \in Ids : DeleteBookmark(id) \/ ClearHistory(id)
    \/ \E id \in Ids, at \in Stamps :
          DeleteHistoryItem(id, at) \/ \E label \in BOOLEAN : RenameHistoryItem(id, at, label)
    \/ \E ids \in SeqOf(Ids, MaxListed) : ReorderBookmarks(ids)
    \/ \E file \in SeqOf(Incoming, MaxListed) : ImportData(file)

Spec == Init /\ [][Next]_vars

-------------------------------------------------------------------------------
(* Properties *)

\* Through any sequence of saves, imports, renames and deletions, and through
\* the migration every load does, the histories hold exactly the results that
\* were recorded and not deleted: none is lost, none comes back, none appears
\* twice (history.go:9-45, storage.go:154-176, manager.go:71-242).
HistoryMatchesLedger ==
    LET local == Loaded
    IN  /\ ledger = UNION {{<<Fold[local[id].path], id, r.at>> :
                              r \in ToSet(local[id].history)} : id \in DOMAIN local}
        /\ \A id \in DOMAIN local : Descending(local[id].history)

\* A path has one bookmark, however it is spelt and however it came in: only two
\* that the file of an older version had stay two (manager.go:40-69, 257-305).
OneBookmarkPerPath ==
    \A i, j \in DOMAIN stored :
        i # j /\ Fold[stored[i].path] = Fold[stored[j].path] => <<i, j>> \in doubled

\* What is loaded is numbered without gaps or ties, also after deletions and
\* imports, and whatever numbers an older version wrote (storage.go:178-190).
OrderIsComplete ==
    LET local == Loaded
    IN  {local[id].order : id \in DOMAIN local} = 0 .. Cardinality(DOMAIN local) - 1

\* Types, one bookmark per path, and a complete order.
WellFormed == TypeOK /\ OneBookmarkPerPath /\ OrderIsComplete

Unordered(bs) == [id \in DOMAIN bs |-> [bs[id] EXCEPT !.order = 0]]

\* which of two bookmarks of the file comes first, whatever numbers it has
Earlier(i, j) == stored[i].order < stored[j].order \/ (stored[i].order = stored[j].order /\ i < j)

\* A step that changes which of two bookmarks comes first changes nothing else,
\* and a new bookmark goes last: only reordering reorders, and it only reorders,
\* also where the file of an older version has ties (manager.go:110-150,
\* storage.go:178-190).
OrderIsStable ==
    [][/\ \A i \in DOMAIN stored, j \in DOMAIN stored' \ DOMAIN stored :
            i \in DOMAIN stored' => stored'[i].order < stored'[j].order
       /\ (\E i, j \in DOMAIN stored \cap DOMAIN stored' :
              Earlier(i, j) /\ stored'[i].order > stored'[j].order)
            => Unordered(stored') = Unordered(Loaded)]_vars
===============================================================================
