------------------------------ MODULE Versions ------------------------------
(***************************************************************************)
(* The comparison of release tags (internal/updater/version.go) and what   *)
(* it decides: which of the releases that are published, in any order, the *)
(* application moves to.  A tag is what parseSemanticVersion splits it     *)
(* into:                                                                   *)
(*   main   the segments before the first '-', 0 .. or NoNumber for one    *)
(*          that is refused: empty, zero-padded or not a uint64;           *)
(*   dash   whether there is a '-';                                        *)
(*   pre    the identifiers behind it: num, NoNumber if it is not a uint64,*)
(*          and text, its rank in byte order (0 is the empty text);        *)
(*   text   the tag itself, build metadata included.                       *)
(***************************************************************************)
EXTENDS Integers, Sequences

CONSTANTS
    Ladder,  \* tags, each of them one step of the precedence above the one before
    Others   \* more tags: builds of the same versions, malformed ones

NoNumber == -1

Tags == {Ladder[i] : i \in DOMAIN Ladder} \cup Others

Segment == Nat \cup {NoNumber}
Identifier == [num : Segment, text : Nat]
Tag == [main : Seq(Segment), dash : BOOLEAN, pre : Seq(Identifier), text : Nat]

ASSUME TagsAssumption == Tags \subseteq Tag

VARIABLES
    installed,  \* the version that runs
    latest,     \* the release the check finds
    past        \* history: the versions that ran before

versionsVars == <<installed, latest, past>>

-------------------------------------------------------------------------------
(* The comparison *)

\* parseSemanticVersion accepts the tag
Valid(v) ==
    /\ \A i \in DOMAIN v.main : v.main[i] # NoNumber
    /\ v.dash => v.pre # <<>>
    /\ \A i \in DOMAIN v.pre : v.pre[i].text # 0

NumberAt(v, i) == IF i \in DOMAIN v.main THEN v.main[i] ELSE 0

\* the first segment that differs is greater; missing ones are zeros
MainNewer(v, w) ==
    \E i \in DOMAIN v.main :
        /\ v.main[i] > NumberAt(w, i)
        /\ \A j \in 1 .. (i - 1) : v.main[j] = NumberAt(w, j)

MainSame(v, w) == \A i \in DOMAIN v.main \cup DOMAIN w.main : NumberAt(v, i) = NumberAt(w, i)

IdAsText(a, b) == a.text < b.text  \* Fault: numbers are compared as text

\* numbers before text; equal numbers that are written differently as text
IdBefore(a, b) ==
    \/ a.num # NoNumber /\ b.num # NoNumber /\ a.num < b.num
    \/ a.num # NoNumber /\ b.num = NoNumber
    \/ a.num = b.num /\ a.text < b.text

\* a prerelease comes before its release, a prefix before what extends it
PreBefore(v, w) ==
    \/ v.pre # <<>> /\ w.pre = <<>>
    \/ /\ v.pre # <<>>
       /\ \E i \in DOMAIN w.pre :
             /\ \A j \in 1 .. (i - 1) : j \in DOMAIN v.pre /\ v.pre[j] = w.pre[j]
             /\ i \in DOMAIN v.pre => IdBefore(v.pre[i], w.pre[i])

\* compareSemanticVersions(v, w) > 0
Newer(v, w) == MainNewer(v, w) \/ (MainSame(v, w) /\ PreBefore(w, v))

AnyOther(current, tag) == Valid(tag) /\ current.text # tag.text  \* Fault: not compared

IsNewerVersion(current, tag) ==
    /\ Valid(tag)
    /\ IF Valid(current) THEN Newer(tag, current) ELSE current.text # tag.text

-------------------------------------------------------------------------------
(* The precedence of semantic versioning, one rule per disjunct: a segment  *)
(* is raised; the release follows its prereleases; a prerelease gets one    *)
(* more identifier; numbers rise and come before words, words rise.         *)

SameBefore(s, t, i) == \A j \in 1 .. (i - 1) : s[j] = t[j]

Climbs(v, w) ==
    \/ \E i \in DOMAIN v.main \cap DOMAIN w.main :
          v.main[i] < w.main[i] /\ SameBefore(v.main, w.main, i)
    \/ v.main = w.main /\ v.pre # <<>> /\ w.pre = <<>>
    \/ /\ v.main = w.main /\ v.pre # <<>> /\ Len(v.pre) < Len(w.pre)
       /\ SameBefore(v.pre, w.pre, Len(v.pre) + 1)
    \/ /\ v.main = w.main
       /\ \E i \in DOMAIN v.pre \cap DOMAIN w.pre :
             LET a == v.pre[i]
                 b == w.pre[i]
             IN  /\ SameBefore(v.pre, w.pre, i)
                 /\ \/ a.num # NoNumber /\ (a.num < b.num \/ b.num = NoNumber)
                    \/ a.num = NoNumber /\ b.num = NoNumber /\ a.text < b.text

ASSUME LadderAssumption ==
    /\ Ladder \in Seq(Tag)
    /\ \A i \in DOMAIN Ladder : Valid(Ladder[i])
    /\ \A i \in 1 .. (Len(Ladder) - 1) : Climbs(Ladder[i], Ladder[i + 1])

-------------------------------------------------------------------------------
VersionsInit ==
    /\ installed \in Tags /\ latest \in Tags
    /\ past = {}

\* a release is published, withdrawn or marked as the latest
Publish ==
    /\ latest' \in Tags \ {latest}
    /\ UNCHANGED <<installed, past>>

\* the check offers the latest release, and it gets installed
Update ==
    /\ IsNewerVersion(installed, latest)
    /\ installed' = latest
    /\ past' = past \cup {installed}
    /\ UNCHANGED latest

VersionsNext == Publish \/ Update

VersionsSpec == VersionsInit /\ [][VersionsNext]_versionsVars

-------------------------------------------------------------------------------
(* Properties *)

\* Only a tag that parses is ever installed as an update (version.go:18-20).
VersionsTypeOK ==
    /\ installed \in Tags /\ latest \in Tags /\ past \subseteq Tags
    /\ past # {} => Valid(installed)

\* No sequence of releases, withdrawals and republications, whatever their
\* tags, makes the application return to a version it has left, nor to another
\* build of it (version.go:15-25, 68-117).
NoReturn == \A v \in past : ~IsNewerVersion(installed, v)

\* The latest release is offered exactly if it is the later version: each step
\* of the semantic-version precedence is honoured, from either side
\* (version.go:68-117).
PrecedenceIsHonoured ==
    \A i \in DOMAIN Ladder : installed = Ladder[i] =>
        \A j \in DOMAIN Ladder : latest = Ladder[j] =>
            (IsNewerVersion(installed, latest) <=> i < j)
===============================================================================
