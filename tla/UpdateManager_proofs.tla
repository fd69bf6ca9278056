------------------------- MODULE UpdateManager_proofs -------------------------
(***************************************************************************)
(* Proofs about UpdateManager, for any number of checks, downloads and     *)
(* installations at once, any releases, on POSIX and on Windows.           *)
(***************************************************************************)
EXTENDS UpdateManager, FiniteSetTheorems, TLAPS

-------------------------------------------------------------------------------
(* Types *)

\* The contents the code gives to files.
LEMMA Contents ==
    /\ Missing \in Content
    /\ \A a \in Assets : Part(a) \in Content /\ Whole(a) \in Content
    /\ \A a \in Assets : Part(a) # Missing /\ Whole(a) # Missing
    /\ \A a \in Assets, whole \in BOOLEAN : [asset |-> a, whole |-> whole] \in Content
BY NoneAssumption DEF Content, Missing, Part, Whole

\* The records of a call that starts and of one that has ended.
LEMMA Records ==
    /\ IdleDownload \in DownloadState /\ IdleDownload.pc = "idle"
    /\ IdleApply \in ApplyState /\ IdleApply.pc = "idle"
    /\ [IdleDownload EXCEPT !.pc = "idle"] = IdleDownload
    /\ [IdleDownload EXCEPT !.pc = "cleanup"] \in DownloadState
    /\ [IdleDownload EXCEPT !.pc = "cleanup"].pc = "cleanup"
    /\ \A a \in Assets :
          LET begun == [IdleDownload EXCEPT !.pc = "removeStale", !.asset = a] IN
          begun \in DownloadState /\ begun.pc = "removeStale" /\ begun.asset = a
    /\ \A a \in Assets : [pc |-> "hash", asset |-> a] \in ApplyState
<1>1. IdleDownload \in DownloadState /\ IdleDownload.pc = "idle"
  BY DEF IdleDownload, DownloadState
<1>2. IdleApply \in ApplyState /\ IdleApply.pc = "idle"
  BY DEF IdleApply, ApplyState
<1>3. [IdleDownload EXCEPT !.pc = "idle"] = IdleDownload
  BY <1>1 DEF DownloadState
<1>4. /\ [IdleDownload EXCEPT !.pc = "cleanup"] \in DownloadState
      /\ [IdleDownload EXCEPT !.pc = "cleanup"].pc = "cleanup"
  BY <1>1 DEF DownloadState
<1>5. ASSUME NEW a \in Assets
      PROVE  LET begun == [IdleDownload EXCEPT !.pc = "removeStale", !.asset = a] IN
             begun \in DownloadState /\ begun.pc = "removeStale" /\ begun.asset = a
  <2> DEFINE r == [IdleDownload EXCEPT !.pc = "removeStale"]
  <2>1. r \in DownloadState /\ r.pc = "removeStale"
    BY <1>1 DEF DownloadState
  <2>2. [IdleDownload EXCEPT !.pc = "removeStale", !.asset = a] = [r EXCEPT !.asset = a]
    OBVIOUS
  <2> HIDE DEF r
  <2>3. QED
    BY <2>1, <2>2 DEF DownloadState
<1>6. ASSUME NEW a \in Assets
      PROVE  [pc |-> "hash", asset |-> a] \in ApplyState
  BY DEF ApplyState
<1>7. QED
  BY <1>1, <1>2, <1>3, <1>4, <1>5, <1>6

\* A manager that was just created.
LEMMA Initial == ASSUME Init PROVE TypeOK
<1>1. /\ dl \in [Downloads -> DownloadState] /\ ap \in [Applies -> ApplyState]
      /\ content \in [Names -> Content] /\ check \in [Checks -> {"idle", "fetching"}]
      /\ opened \in [Downloads -> Names \cup {"none", "orphan"}]
      /\ \A d \in Downloads : opened[d] = "none"
  BY Records, Contents DEF Init
<1>2. closed \in BOOLEAN /\ disturbed \in BOOLEAN
  BY Zenon DEF Init
<1>3. QED
  BY <1>1, <1>2 DEF Init, TypeOK, States

\* A download that moves on, and its record.
LEMMA Advances ==
    ASSUME TypeOK, NEW d \in Downloads, NEW pc,
           pc \in {"idle", "removeStale", "request", "create", "stream", "verify", "validate",
                   "removeNew", "rename", "publish", "cleanup"},
           Advance(d, pc)
    PROVE  /\ dl' \in [Downloads -> DownloadState]
           /\ dl'[d].pc = pc /\ dl'[d].asset = dl[d].asset /\ dl'[d].match = dl[d].match
           /\ \A e \in Downloads : e # d => dl'[e] = dl[e]
<1>1. dl \in [Downloads -> DownloadState] /\ dl[d] \in DownloadState
  BY DEF TypeOK
<1>2. dl' = [dl EXCEPT ![d] = [dl[d] EXCEPT !.pc = pc]]
  BY DEF Advance
<1> DEFINE r == [dl[d] EXCEPT !.pc = pc]
<1>3. r \in DownloadState /\ r.pc = pc /\ r.asset = dl[d].asset /\ r.match = dl[d].match
  BY <1>1 DEF DownloadState
<1> HIDE DEF r
<1>4. dl' = [dl EXCEPT ![d] = r]
  BY <1>2 DEF r
<1>5. QED
  BY <1>1, <1>3, <1>4

\* A download that fails.
LEMMA Fails ==
    ASSUME TypeOK, NEW d \in Downloads, NEW pc \in {"idle", "cleanup"},
           FinishDownloadError(d, pc)
    PROVE  /\ dl' \in [Downloads -> DownloadState] /\ dl'[d].pc = pc
           /\ \A e \in Downloads : e # d => dl'[e] = dl[e]
           /\ cancel' = None /\ cancelled' = cancelled \ {d}
           /\ state' \in {state, "error"} /\ UNCHANGED <<compatible, prepared>>
<1>1. dl \in [Downloads -> DownloadState]
  BY DEF TypeOK
<1> DEFINE r == [IdleDownload EXCEPT !.pc = pc]
<1>2. r \in DownloadState /\ r.pc = pc
  BY Records DEF DownloadState
<1> HIDE DEF r
<1>3. dl' = [dl EXCEPT ![d] = r]
  BY DEF FinishDownloadError, r
<1>4. /\ dl' \in [Downloads -> DownloadState] /\ dl'[d].pc = pc
      /\ \A e \in Downloads : e # d => dl'[e] = dl[e]
  BY <1>1, <1>2, <1>3
<1>5. /\ cancel' = None /\ cancelled' = cancelled \ {d}
      /\ state' \in {state, "error"} /\ UNCHANGED <<compatible, prepared>>
  BY DEF FinishDownloadError
<1>6. QED
  BY <1>4, <1>5

\* A name that loses its file.
LEMMA Unlinking ==
    ASSUME TypeOK, NEW n
    PROVE  /\ Unlinked(n) \in [Downloads -> Names \cup {"none", "orphan"}]
           /\ \A d \in Downloads : Unlinked(n)[d] = IF opened[d] = n THEN "orphan" ELSE opened[d]
BY DEF TypeOK, Unlinked

\* A step of a download.
LEMMA DownloadTypes ==
    ASSUME TypeOK, NEW d \in Downloads, Download(d)
    PROVE  TypeOK'
<1> DEFINE Frame == UNCHANGED <<closed, check, applyVars, disturbed>>
<1>0. Frame
  BY DEF Download, DownloadFrame, RemoveStale, Request, CreateTemp, Stream, ReportVerifying,
         Validate, RemoveNew, RenameTemp, Publish, Cleanup
\* What is left to show for a step that keeps the calls' program points right.
<1> DEFINE Typed ==
      /\ state' \in States /\ compatible' \subseteq Assets
      /\ prepared' \in Assets \cup {None} /\ cancel' \in Downloads \cup {None}
      /\ dl' \in [Downloads -> DownloadState] /\ cancelled' \subseteq Downloads
      /\ content' \in [Names -> Content]
      /\ opened' \in [Downloads -> Names \cup {"none", "orphan"}]
      /\ \A e \in Downloads : opened'[e] # "none" => dl'[e].pc \in {"stream", "cleanup"}
<1>1. Typed => TypeOK'
  BY <1>0 DEF TypeOK, applyVars
<1>2. /\ \A n \in Names : [content EXCEPT ![n] = Missing] \in [Names -> Content]
      /\ {"tmp", "new", "helper"} = Names /\ None \notin Downloads
      /\ {"idle", "checking", "downloading", "verifying", "ready", "applying", "error"} = States
  BY Contents, NoneAssumption DEF TypeOK, Names, States
<1>3. /\ content \in [Names -> Content]
      /\ opened \in [Downloads -> Names \cup {"none", "orphan"}]
      /\ \A e \in Downloads : opened[e] # "none" => dl[e].pc \in {"stream", "cleanup"}
      /\ dl \in [Downloads -> DownloadState] /\ dl[d] \in DownloadState
      /\ state \in States /\ compatible \subseteq Assets
      /\ prepared \in Assets \cup {None} /\ cancel \in Downloads \cup {None}
      /\ cancelled \subseteq Downloads
  BY DEF TypeOK
<1> HIDE DEF Frame, Typed
<1>4. ASSUME FinishDownloadError(d, "idle"), UNCHANGED fileVars, opened[d] = "none"
      PROVE  TypeOK'
  <2>1. Typed
    BY <1>2, <1>3, <1>4, Fails DEF fileVars, Typed
  <2>2. QED
    BY <1>1, <2>1
<1>5. ASSUME FinishDownloadError(d, "cleanup"), UNCHANGED fileVars
      PROVE  TypeOK'
  <2>1. Typed
    BY <1>2, <1>3, <1>5, Fails DEF fileVars, Typed
  <2>2. QED
    BY <1>1, <2>1
\* A file that is removed, if it can be.
<1>6. ASSUME NEW n \in Names,
             IF Free(n, d) THEN content' = [content EXCEPT ![n] = Missing] /\ opened' = Unlinked(n)
                           ELSE UNCHANGED fileVars
      PROVE  /\ content' \in [Names -> Content]
             /\ opened' \in [Downloads -> Names \cup {"none", "orphan"}]
             /\ \A e \in Downloads : opened'[e] # "none" => opened[e] # "none"
  BY <1>2, <1>3, <1>6, Unlinking DEF fileVars, Names
<1>7. CASE RemoveStale(d)
  <2>1. opened[d] = "none"
    BY <1>3, <1>7 DEF RemoveStale
  <2>2. CASE FinishDownloadError(d, "idle") /\ UNCHANGED fileVars
    BY <1>4, <2>1, <2>2
  <2>3. CASE Advance(d, "request") /\ UNCHANGED <<progVars, cancelled>>
             /\ ~(FinishDownloadError(d, "idle") /\ UNCHANGED fileVars)
    <3>1. IF Free("tmp", d) THEN content' = [content EXCEPT !["tmp"] = Missing]
                                   /\ opened' = Unlinked("tmp")
                            ELSE UNCHANGED fileVars
      BY <1>7, <2>3 DEF RemoveStale
    <3>2. /\ content' \in [Names -> Content]
          /\ opened' \in [Downloads -> Names \cup {"none", "orphan"}]
          /\ \A e \in Downloads : opened'[e] # "none" => opened[e] # "none"
      BY <1>2, <1>6, <3>1
    <3>3. Typed
      BY <1>3, <2>1, <2>3, <3>2, Advances DEF progVars, Typed
    <3>4. QED
      BY <1>1, <3>3
  <2>4. QED
    BY <1>7, <2>2, <2>3 DEF RemoveStale
<1>8. CASE Request(d)
  <2>1. opened[d] = "none" /\ UNCHANGED fileVars
    BY <1>3, <1>8 DEF Request
  <2>2. CASE Advance(d, "create") /\ UNCHANGED <<progVars, cancelled>>
    <3>1. Typed
      BY <1>3, <2>1, <2>2, Advances DEF progVars, fileVars, Typed
    <3>2. QED
      BY <1>1, <3>1
  <2>3. QED
    BY <1>4, <1>8, <2>1, <2>2 DEF Request
<1>9. CASE CreateTemp(d)
  <2>1. opened[d] = "none"
    BY <1>3, <1>9 DEF CreateTemp
  <2>2. CASE FinishDownloadError(d, "idle") /\ UNCHANGED fileVars
    BY <1>4, <2>1, <2>2
  <2>3. CASE /\ content' = [content EXCEPT !["tmp"] = Part(dl[d].asset)]
             /\ opened' = [opened EXCEPT ![d] = "tmp"]
             /\ Advance(d, "stream") /\ UNCHANGED <<progVars, cancelled>>
    <3>1. Part(dl[d].asset) \in Content
      BY <1>3 DEF DownloadState, Content, Part
    <3>2. Typed
      BY <1>2, <1>3, <2>3, <3>1, Advances DEF progVars, Typed
    <3>3. QED
      BY <1>1, <3>2
  <2>4. QED
    BY <1>9, <2>2, <2>3 DEF CreateTemp
<1>10. CASE Stream(d)
  <2>1. CASE FinishDownloadError(d, "cleanup") /\ UNCHANGED fileVars
    BY <1>5, <2>1
  <2>2. ASSUME NEW match \in BOOLEAN,
               dl' = [dl EXCEPT ![d].pc = "verify", ![d].match = match],
               content' = IF opened[d] \in Names
                    THEN [content EXCEPT ![opened[d]] = [asset |-> dl[d].asset, whole |-> match]]
                    ELSE content,
               opened' = [opened EXCEPT ![d] = "none"],
               UNCHANGED <<progVars, cancelled>>
        PROVE  TypeOK'
    <3> DEFINE r == [[dl[d] EXCEPT !.pc = "verify"] EXCEPT !.match = match]
    <3>1. r \in DownloadState
      BY <1>3 DEF DownloadState
    <3>2. dl' = [dl EXCEPT ![d] = r]
      BY <1>3, <2>2
    <3> HIDE DEF r
    <3>3. [asset |-> dl[d].asset, whole |-> match] \in Content
      BY <1>3 DEF DownloadState, Content
    <3>4. content' \in [Names -> Content]
      BY <1>3, <2>2, <3>3
    <3>5. /\ dl' \in [Downloads -> DownloadState]
          /\ \A e \in Downloads : e # d => dl'[e] = dl[e]
      BY <1>3, <3>1, <3>2
    <3>6. /\ opened' \in [Downloads -> Names \cup {"none", "orphan"}] /\ opened'[d] = "none"
          /\ \A e \in Downloads : e # d => opened'[e] = opened[e]
      BY <1>3, <2>2
    <3>7. Typed
      BY <1>3, <2>2, <3>4, <3>5, <3>6 DEF progVars, Typed
    <3>8. QED
      BY <1>1, <3>7
  <2>3. QED
    BY <1>10, <2>1, <2>2 DEF Stream
\* The program points between the stream and the publication have no file open.
<1>11. CASE ReportVerifying(d)
  <2>1. opened[d] = "none" /\ UNCHANGED fileVars
    BY <1>3, <1>11 DEF ReportVerifying
  <2>2. Typed
    BY <1>2, <1>3, <1>11, <2>1, Advances DEF ReportVerifying, fileVars, Typed
  <2>3. QED
    BY <1>1, <2>2
<1>12. CASE Validate(d)
  <2>1. opened[d] = "none" /\ UNCHANGED fileVars
    BY <1>3, <1>12 DEF Validate
  <2>2. CASE Advance(d, "removeNew") /\ UNCHANGED <<progVars, cancelled>>
    <3>1. Typed
      BY <1>3, <2>1, <2>2, Advances DEF progVars, fileVars, Typed
    <3>2. QED
      BY <1>1, <3>1
  <2>3. QED
    BY <1>5, <1>12, <2>1, <2>2 DEF Validate
<1>13. CASE RemoveNew(d)
  <2>1. opened[d] = "none"
    BY <1>3, <1>13 DEF RemoveNew
  <2>2. /\ content' \in [Names -> Content]
        /\ opened' \in [Downloads -> Names \cup {"none", "orphan"}]
        /\ \A e \in Downloads : opened'[e] # "none" => opened[e] # "none"
    BY <1>2, <1>6, <1>13 DEF RemoveNew
  <2>3. Typed
    BY <1>3, <1>13, <2>1, <2>2, Advances DEF RemoveNew, progVars, Typed
  <2>4. QED
    BY <1>1, <2>3
<1>14. CASE RenameTemp(d)
  <2>1. opened[d] = "none"
    BY <1>3, <1>14 DEF RenameTemp
  <2>2. CASE FinishDownloadError(d, "cleanup") /\ UNCHANGED fileVars
    BY <1>5, <2>2
  <2>3. CASE /\ content' = [content EXCEPT !["new"] = content["tmp"], !["tmp"] = Missing]
             /\ opened' = [e \in Downloads |-> IF opened[e] = "tmp" THEN "new"
                                               ELSE Unlinked("new")[e]]
             /\ Advance(d, "publish") /\ UNCHANGED <<progVars, cancelled>>
    <3>1. content' \in [Names -> Content]
      BY <1>2, <1>3, <2>3, Contents
    <3>2. /\ opened' \in [Downloads -> Names \cup {"none", "orphan"}]
          /\ \A e \in Downloads : opened'[e] # "none" => opened[e] # "none"
      BY <1>2, <1>3, <2>3, Unlinking
    <3>3. Typed
      BY <1>3, <2>1, <2>3, <3>1, <3>2, Advances DEF progVars, Typed
    <3>4. QED
      BY <1>1, <3>3
  <2>4. QED
    BY <1>14, <2>2, <2>3 DEF RenameTemp
\* A download that ends has closed its file.
<1>15. ASSUME dl' = [dl EXCEPT ![d] = IdleDownload]
       PROVE  /\ dl' \in [Downloads -> DownloadState]
              /\ \A e \in Downloads : e # d => dl'[e] = dl[e]
  BY <1>3, <1>15, Records
<1>16. CASE Publish(d)
  <2>1. opened[d] = "none" /\ dl[d].asset \in Assets \cup {None}
    BY <1>3, <1>16 DEF Publish, DownloadState
  <2>2. /\ content' \in [Names -> Content]
        /\ opened' \in [Downloads -> Names \cup {"none", "orphan"}]
        /\ \A e \in Downloads : opened'[e] # "none" => opened[e] # "none"
    <3>1. CASE UNCHANGED fileVars
      BY <1>3, <3>1 DEF fileVars
    <3>2. CASE ~ UNCHANGED fileVars
      BY <1>2, <1>6, <1>16, <3>2 DEF Publish
    <3>3. QED
      BY <3>1, <3>2
  <2>3. /\ state' \in States /\ prepared' \in Assets \cup {None} /\ cancel' = None
        /\ compatible' = compatible /\ cancelled' \subseteq Downloads
    BY <1>2, <1>3, <1>16, <2>1 DEF Publish
  <2>4. Typed
    BY <1>3, <1>15, <1>16, <2>1, <2>2, <2>3 DEF Publish, Typed
  <2>5. QED
    BY <1>1, <2>4
<1>17. CASE Cleanup(d)
  <2>1. content' \in [Names -> Content]
    BY <1>2, <1>3, <1>17 DEF Cleanup
  <2>2. /\ opened' \in [Downloads -> Names \cup {"none", "orphan"}] /\ opened'[d] = "none"
        /\ \A e \in Downloads : opened'[e] # "none" => opened[e] # "none"
    BY <1>2, <1>3, <1>17 DEF Cleanup
  <2>3. Typed
    BY <1>3, <1>15, <1>17, <2>1, <2>2 DEF Cleanup, progVars, Typed
  <2>4. QED
    BY <1>1, <2>3
<1>18. QED
  BY <1>7, <1>8, <1>9, <1>10, <1>11, <1>12, <1>13, <1>14, <1>16, <1>17 DEF Download

\* An installation that moves on, and its record.
LEMMA Continues ==
    ASSUME TypeOK, NEW a \in Applies, NEW pc,
           pc \in {"idle", "hash", "copy", "plan", "start", "finish"},
           Continue(a, pc)
    PROVE  /\ ap' \in [Applies -> ApplyState]
           /\ ap'[a].pc = pc /\ ap'[a].asset = ap[a].asset
           /\ \A b \in Applies : b # a => ap'[b] = ap[b]
<1>1. ap \in [Applies -> ApplyState] /\ ap[a] \in ApplyState
  BY DEF TypeOK
<1> DEFINE r == [ap[a] EXCEPT !.pc = pc]
<1>2. r \in ApplyState /\ r.pc = pc /\ r.asset = ap[a].asset
  BY <1>1 DEF ApplyState
<1> HIDE DEF r
<1>3. ap' = [ap EXCEPT ![a] = r]
  BY DEF Continue, r
<1>4. QED
  BY <1>1, <1>2, <1>3

\* An installation that ends.
LEMMA Stops ==
    ASSUME TypeOK, NEW a \in Applies, ap' = [ap EXCEPT ![a] = IdleApply]
    PROVE  /\ ap' \in [Applies -> ApplyState] /\ ap'[a].pc = "idle"
           /\ \A b \in Applies : b # a => ap'[b] = ap[b]
BY Records DEF TypeOK

\* A step of an installation.
LEMMA ApplyTypes ==
    ASSUME TypeOK, NEW a \in Applies, BeginApply(a) \/ Apply(a)
    PROVE  TypeOK'
<1>1. ApplyFrame
  BY DEF BeginApply, Apply, Rehash, CopyHelper, WritePlan, StartHelper, FinishApply
<1> DEFINE Typed ==
      /\ state' \in States /\ ap' \in [Applies -> ApplyState]
      /\ content' \in [Names -> Content] /\ plan' \in Assets \cup {None}
      /\ helpers' \subseteq [exe : Content, plan : Assets \cup {None}]
<1>2. Typed => TypeOK'
  BY <1>1 DEF TypeOK, ApplyFrame
<1>3. /\ state \in States /\ "ready" \in States /\ "applying" \in States
      /\ ap \in [Applies -> ApplyState] /\ ap[a].asset \in Assets \cup {None}
      /\ content \in [Names -> Content] /\ content["new"] \in Content
      /\ content["helper"] \in Content /\ Missing \in Content
      /\ plan \in Assets \cup {None} /\ prepared \in Assets \cup {None}
      /\ helpers \subseteq [exe : Content, plan : Assets \cup {None}]
  BY Contents DEF TypeOK, ApplyState, States, Names
<1>4. [content EXCEPT !["helper"] = Missing] \in [Names -> Content]
  BY <1>3 DEF Names
<1>5. FailApply(a) => state' \in States /\ ap' \in [Applies -> ApplyState]
  BY <1>3, Stops DEF FailApply
<1> HIDE DEF Typed
<1>6. CASE BeginApply(a)
  <2>1. [pc |-> "hash", asset |-> prepared] \in ApplyState
    BY <1>3 DEF ApplyState
  <2>2. ap' \in [Applies -> ApplyState]
    BY <1>3, <1>6, <2>1 DEF BeginApply
  <2>3. Typed
    BY <1>3, <1>6, <2>2 DEF BeginApply, Typed
  <2>4. QED
    BY <1>2, <2>3
<1>7. CASE Rehash(a)
  <2>1. Typed
    BY <1>3, <1>5, <1>7, Continues DEF Rehash, Typed
  <2>2. QED
    BY <1>2, <2>1
<1>8. CASE CopyHelper(a)
  <2>1. Typed
    BY <1>3, <1>5, <1>8, Continues DEF CopyHelper, Typed
  <2>2. QED
    BY <1>2, <2>1
<1>9. CASE WritePlan(a)
  <2>1. Typed
    BY <1>3, <1>4, <1>5, <1>9, Continues DEF WritePlan, Typed
  <2>2. QED
    BY <1>2, <2>1
<1>10. CASE StartHelper(a)
  <2>1. [exe |-> content["helper"], plan |-> plan] \in [exe : Content, plan : Assets \cup {None}]
    BY <1>3
  <2>2. helpers' \subseteq [exe : Content, plan : Assets \cup {None}]
    BY <1>3, <1>10, <2>1 DEF StartHelper
  <2>3. ap' \in [Applies -> ApplyState] /\ state' \in States
    BY <1>3, <1>5, <1>10, Continues DEF StartHelper
  <2>4. content' \in [Names -> Content] /\ plan' \in Assets \cup {None}
    BY <1>3, <1>4, <1>10 DEF StartHelper
  <2>5. QED
    BY <1>2, <2>2, <2>3, <2>4 DEF Typed
<1>11. CASE FinishApply(a)
  <2>1. Typed
    BY <1>3, <1>11, Stops DEF FinishApply, Typed
  <2>2. QED
    BY <1>2, <2>1
<1>12. QED
  BY <1>6, <1>7, <1>8, <1>9, <1>10, <1>11 DEF Apply

\* Any step keeps the types.
LEMMA TypeStep == ASSUME TypeOK, [Next]_vars PROVE TypeOK'
<1>1. CASE UNCHANGED vars
  BY <1>1 DEF TypeOK, vars, progVars, applyVars, fileVars
<1>2. ASSUME NEW c \in Checks, BeginCheck(c) PROVE TypeOK'
  BY <1>2 DEF TypeOK, States, BeginCheck, applyVars, fileVars
<1>3. ASSUME NEW c \in Checks, EndCheck(c) PROVE TypeOK'
  <2>1. disturbed' \in BOOLEAN
    BY <1>3, Zenon DEF EndCheck
  <2>2. /\ state' \in States /\ compatible' \subseteq Assets
        /\ prepared' \in Assets \cup {None} /\ check' \in [Checks -> {"idle", "fetching"}]
    BY <1>3 DEF TypeOK, States, EndCheck
  <2>3. UNCHANGED <<cancel, closed, dl, cancelled, ap, plan, helpers, content, opened>>
    BY <1>3 DEF EndCheck, applyVars, fileVars
  <2>4. QED
    BY <2>1, <2>2, <2>3 DEF TypeOK
<1>4. ASSUME NEW d \in Downloads, NEW a \in Assets, StartDownload(d, a) PROVE TypeOK'
  <2> DEFINE r == [IdleDownload EXCEPT !.pc = "removeStale", !.asset = a]
  <2>1. r \in DownloadState /\ r.pc = "removeStale"
    BY Records
  <2> HIDE DEF r
  <2>2. /\ dl' = [dl EXCEPT ![d] = r] /\ dl[d].pc = "idle" /\ state' \in States
        /\ prepared' = None /\ cancel' = d
        /\ UNCHANGED <<cancelled, compatible, content, opened, closed, check, ap, plan,
                       helpers, disturbed>>
    BY <1>4 DEF StartDownload, DownloadFrame, States, applyVars, fileVars, r
  <2>3. /\ dl' \in [Downloads -> DownloadState]
        /\ \A e \in Downloads : e # d => dl'[e] = dl[e]
    BY <2>1, <2>2 DEF TypeOK
  <2>4. \A e \in Downloads : opened'[e] # "none" => dl'[e].pc \in {"stream", "cleanup"}
    BY <2>2, <2>3 DEF TypeOK
  <2>5. QED
    BY <2>2, <2>3, <2>4 DEF TypeOK
<1>5. CASE Close
  <2>1. closed' \in BOOLEAN /\ cancelled' \subseteq Downloads /\ cancel' = None
    BY <1>5 DEF Close, TypeOK
  <2>2. QED
    BY <1>5, <2>1 DEF TypeOK, Close, applyVars, fileVars
<1>6. CASE Restart
  <2>1. /\ dl' \in [Downloads -> DownloadState] /\ ap' \in [Applies -> ApplyState]
        /\ content' \in [Names -> Content] /\ check' \in [Checks -> {"idle", "fetching"}]
        /\ opened' \in [Downloads -> Names \cup {"none", "orphan"}]
        /\ \A d \in Downloads : opened'[d] = "none"
    BY <1>6, Records, Contents DEF Restart
  <2>2. closed' \in BOOLEAN /\ disturbed' \in BOOLEAN
    BY <1>6, Zenon DEF Restart
  <2>3. QED
    BY <1>6, <2>1, <2>2 DEF Restart, TypeOK, States
<1>7. QED
  BY <1>1, <1>2, <1>3, <1>4, <1>5, <1>6, DownloadTypes, ApplyTypes DEF Next

-------------------------------------------------------------------------------
(* One call at a time, until a check disturbs it *)

Active(d) == dl[d].pc \notin {"idle", "cleanup"}
Working(a) == ap[a].pc # "idle"

\* The progress state and the cancel function belong to the only active download.
OwnsDownload(d) ==
    /\ state \in {"downloading", "verifying"}
    /\ dl[d].asset \in Assets
    /\ IF closed THEN d \in cancelled ELSE cancel = d

\* What the files hold at the program points of a download: its stream goes to
\* .tmp, or to a file without a name once another one's cleanup removed .tmp.
FileOf(d) ==
    /\ dl[d].pc = "stream" => \/ opened[d] = "tmp"
                              \/ opened[d] = "orphan" /\ content["tmp"] = Missing
    /\ dl[d].pc \in {"verify", "validate", "removeNew", "rename"} /\ dl[d].match =>
          content["tmp"] \in {Missing, Whole(dl[d].asset)}
    /\ dl[d].pc \in {"removeNew", "rename"} => dl[d].match
    /\ dl[d].pc = "publish" => content["new"] = Whole(dl[d].asset)

\* The progress state, the prepared update and the files of the only installation.
OwnsInstallation(a) ==
    /\ state = "applying"
    /\ prepared # None /\ prepared = ap[a].asset /\ content["new"] = Whole(prepared)
    /\ ap[a].pc \in {"plan", "start"} => content["helper"] = Whole(ap[a].asset)
    /\ ap[a].pc = "start" => plan = ap[a].asset

Downloading ==
    \A d \in Downloads : Active(d) =>
        OwnsDownload(d) /\ FileOf(d) /\ \A e \in Downloads \ {d} : ~ Active(e)
Installing ==
    \A a \in Applies : Working(a) =>
        OwnsInstallation(a) /\ \A b \in Applies \ {a} : ~ Working(b)
HelpersMatch == \A h \in helpers : h.exe = Whole(h.plan)

Quiet == Downloading /\ Installing /\ ReadyIsVerified /\ HelpersMatch

IInv == TypeOK /\ (disturbed \/ Quiet)

\* What the inductive invariant says of an active download.
LEMMA Alone ==
    ASSUME TypeOK, Quiet, NEW d \in Downloads, Active(d)
    PROVE  /\ OwnsDownload(d) /\ FileOf(d)
           /\ \A e \in Downloads \ {d} : ~ Active(e)
           /\ \A a \in Applies : ~ Working(a)
BY DEF Quiet, Downloading, Installing, OwnsDownload, OwnsInstallation

\* A step of the only active download that leaves it inactive, or its owner still.
LEMMA Moves ==
    ASSUME TypeOK, Quiet, NEW d \in Downloads, Active(d),
           \A e \in Downloads : e # d => dl'[e] = dl[e],
           ap' = ap, helpers' = helpers,
           ~ Active(d)' \/ (OwnsDownload(d)' /\ FileOf(d)'),
           ReadyIsVerified'
    PROVE  Quiet'
<1>1. /\ \A e \in Downloads \ {d} : ~ Active(e)
      /\ \A a \in Applies : ~ Working(a)
  BY Alone
<1>2. \A e \in Downloads \ {d} : ~ Active(e)'
  BY <1>1 DEF Active
<1>3. Downloading'
  BY <1>2 DEF Downloading
<1>4. Installing'
  BY <1>1 DEF Installing, Working
<1>5. HelpersMatch'
  BY DEF Quiet, HelpersMatch
<1>6. QED
  BY <1>3, <1>4, <1>5 DEF Quiet

\* An active download that fails.
LEMMA QuietFailure ==
    ASSUME TypeOK, Quiet, NEW d \in Downloads, Active(d), NEW pc \in {"idle", "cleanup"},
           FinishDownloadError(d, pc), DownloadFrame
    PROVE  Quiet'
<1>1. state' # "ready"
  BY Alone, Fails DEF OwnsDownload
<1>2. ~ Active(d)'
  BY Fails DEF Active
<1>3. ReadyIsVerified'
  BY <1>1 DEF ReadyIsVerified
<1>4. ap' = ap /\ helpers' = helpers
  BY DEF DownloadFrame, applyVars
<1>5. QED
  BY <1>2, <1>3, <1>4, Fails, Moves

\* An active download that goes on to pc and keeps what it owns.
LEMMA QuietAdvance ==
    ASSUME TypeOK, Quiet, NEW d \in Downloads, Active(d),
           NEW pc \in {"request", "create", "stream", "verify", "validate",
                       "removeNew", "rename", "publish"},
           Advance(d, pc), DownloadFrame, UNCHANGED <<cancel, cancelled>>,
           state' \in {"downloading", "verifying"}, FileOf(d)'
    PROVE  Quiet'
<1>1. /\ dl'[d].asset = dl[d].asset
      /\ \A e \in Downloads : e # d => dl'[e] = dl[e]
  BY Advances
<1>2. OwnsDownload(d)'
  BY <1>1, Alone DEF OwnsDownload, DownloadFrame
<1>3. ReadyIsVerified'
  BY DEF ReadyIsVerified
<1>4. ap' = ap /\ helpers' = helpers
  BY DEF DownloadFrame, applyVars
<1>5. QED
  BY <1>1, <1>2, <1>3, <1>4, Moves

\* The state an active download finds.
LEMMA Found ==
    ASSUME TypeOK, Quiet, NEW d \in Downloads, Active(d)
    PROVE  /\ state \in {"downloading", "verifying"} /\ dl[d].asset \in Assets
           /\ content \in [Names -> Content] /\ "tmp" \in Names /\ "new" \in Names
           /\ opened[d] # "none" => dl[d].pc = "stream"
           /\ FileOf(d)
BY Alone DEF TypeOK, Names, OwnsDownload, Active

\* Up to the end of the stream.
LEMMA QuietTransfer ==
    ASSUME TypeOK, Quiet, NEW d \in Downloads,
           RemoveStale(d) \/ Request(d) \/ CreateTemp(d) \/ Stream(d)
    PROVE  Quiet'
<1>1. Active(d) /\ DownloadFrame
  BY DEF Active, RemoveStale, Request, CreateTemp, Stream
<1>2. CASE \E pc \in {"idle", "cleanup"} : FinishDownloadError(d, pc)
  BY <1>1, <1>2, QuietFailure
<1>3. CASE /\ \E pc \in {"request", "create"} : Advance(d, pc)
           /\ UNCHANGED <<progVars, cancelled>>
  <2>1. PICK pc \in {"request", "create"} : Advance(d, pc)
    BY <1>3
  <2>2. FileOf(d)'
    BY <2>1, Advances DEF FileOf
  <2>3. QED
    BY <1>1, <1>3, <2>1, <2>2, Found, QuietAdvance DEF progVars
<1>4. CASE /\ opened' = [opened EXCEPT ![d] = "tmp"]
           /\ Advance(d, "stream") /\ UNCHANGED <<progVars, cancelled>>
  <2>1. opened'[d] = "tmp"
    BY <1>4 DEF TypeOK
  <2>2. FileOf(d)'
    BY <1>4, <2>1, Advances DEF FileOf
  <2>3. QED
    BY <1>1, <1>4, <2>2, Found, QuietAdvance DEF progVars
<1>5. ASSUME NEW match \in BOOLEAN, dl[d].pc = "stream",
             dl' = [dl EXCEPT ![d].pc = "verify", ![d].match = match],
             content' = IF opened[d] \in Names
                  THEN [content EXCEPT ![opened[d]] = [asset |-> dl[d].asset, whole |-> match]]
                  ELSE content,
             UNCHANGED <<progVars, cancelled>>
      PROVE  Quiet'
  <2> DEFINE r == [[dl[d] EXCEPT !.pc = "verify"] EXCEPT !.match = match]
  <2>1. r \in DownloadState /\ r.pc = "verify" /\ r.match = match /\ r.asset = dl[d].asset
    BY DEF TypeOK, DownloadState
  <2>2. dl' = [dl EXCEPT ![d] = r]
    BY <1>5 DEF TypeOK
  <2> HIDE DEF r
  <2>3. /\ dl'[d] = r
        /\ \A e \in Downloads : e # d => dl'[e] = dl[e]
    BY <2>2 DEF TypeOK
  <2>4. match => content'["tmp"] \in {Missing, Whole(dl[d].asset)}
    <3>1. CASE opened[d] = "tmp"
      BY <1>1, <1>5, <3>1, Found DEF Whole
    <3>2. CASE opened[d] = "orphan" /\ content["tmp"] = Missing
      BY <1>5, <3>2 DEF Names
    <3>3. QED
      BY <1>1, <1>5, <3>1, <3>2, Found DEF FileOf
  <2>5. FileOf(d)'
    BY <2>1, <2>3, <2>4 DEF FileOf
  <2>6. OwnsDownload(d)'
    BY <1>1, <1>5, <2>1, <2>3, Alone DEF OwnsDownload, DownloadFrame, progVars
  <2>7. ReadyIsVerified'
    BY <1>1, <1>5, Found DEF ReadyIsVerified, progVars
  <2>8. QED
    BY <1>1, <2>3, <2>5, <2>6, <2>7, Moves DEF DownloadFrame, applyVars
<1>6. QED
  <2>1. CASE RemoveStale(d)
    BY <1>2, <1>3, <2>1 DEF RemoveStale
  <2>2. CASE Request(d)
    BY <1>2, <1>3, <2>2 DEF Request
  <2>3. CASE CreateTemp(d)
    BY <1>2, <1>4, <2>3 DEF CreateTemp
  <2>4. CASE Stream(d)
    BY <1>2, <1>5, <2>4 DEF Stream
  <2>5. QED
    BY <2>1, <2>2, <2>3, <2>4

\* From the comparison of the digest to the rename.
LEMMA QuietVerification ==
    ASSUME TypeOK, Quiet, NEW d \in Downloads,
           ReportVerifying(d) \/ Validate(d) \/ RemoveNew(d) \/ RenameTemp(d)
    PROVE  Quiet'
<1>1. Active(d) /\ DownloadFrame
  BY DEF Active, ReportVerifying, Validate, RemoveNew, RenameTemp
<1>2. CASE \E pc \in {"idle", "cleanup"} : FinishDownloadError(d, pc)
  BY <1>1, <1>2, QuietFailure
<1>3. CASE ReportVerifying(d)
  <2>1. FileOf(d)'
    BY <1>1, <1>3, Found, Advances DEF ReportVerifying, FileOf, fileVars
  <2>2. QED
    BY <1>1, <1>3, <2>1, QuietAdvance DEF ReportVerifying
<1>4. CASE /\ dl[d].pc = "validate" /\ Valid(d) /\ Advance(d, "removeNew")
           /\ UNCHANGED <<progVars, cancelled, fileVars>>
  <2>1. FileOf(d)'
    BY <1>1, <1>4, Found, Advances DEF Valid, FileOf, fileVars
  <2>2. QED
    BY <1>1, <1>4, <2>1, Found, QuietAdvance DEF progVars
<1>5. CASE RemoveNew(d)
  <2>1. content'["tmp"] = content["tmp"]
    BY <1>1, <1>5, Found DEF RemoveNew, fileVars
  <2>2. FileOf(d)'
    BY <1>1, <1>5, <2>1, Found, Advances DEF RemoveNew, FileOf
  <2>3. QED
    BY <1>1, <1>5, <2>2, Found, QuietAdvance DEF RemoveNew, progVars
<1>6. CASE /\ dl[d].pc = "rename" /\ Exists("tmp")
           /\ content' = [content EXCEPT !["new"] = content["tmp"], !["tmp"] = Missing]
           /\ Advance(d, "publish") /\ UNCHANGED <<progVars, cancelled>>
  <2>1. content'["new"] = Whole(dl[d].asset)
    BY <1>1, <1>6, Found DEF FileOf, Exists
  <2>2. FileOf(d)'
    BY <1>1, <1>6, <2>1, Advances DEF FileOf
  <2>3. QED
    BY <1>1, <1>6, <2>2, Found, QuietAdvance DEF progVars
<1>7. QED
  <2>1. CASE Validate(d)
    BY <1>2, <1>4, <2>1 DEF Validate
  <2>2. CASE RenameTemp(d)
    BY <1>2, <1>6, <2>2 DEF RenameTemp
  <2>3. QED
    BY <1>3, <1>5, <2>1, <2>2

\* The publication: what it announces is what it renamed.
LEMMA QuietPublication ==
    ASSUME TypeOK, Quiet, NEW d \in Downloads, Publish(d)
    PROVE  Quiet'
<1>1. Active(d) /\ content["new"] = Whole(dl[d].asset) /\ dl[d].asset \in Assets
  BY Found DEF Active, FileOf, Publish
<1>2. ~ Active(d)' /\ \A e \in Downloads : e # d => dl'[e] = dl[e]
  BY Records DEF Publish, TypeOK, Active
<1>3. ReadyIsVerified'
  <2>1. CASE state' = state
    BY <1>1, <2>1, Found DEF ReadyIsVerified
  <2>2. CASE state' # state
    BY <1>1, <2>2, NoneAssumption DEF Publish, ReadyIsVerified, fileVars
  <2>3. QED
    BY <2>1, <2>2
<1>4. QED
  BY <1>1, <1>2, <1>3, Moves DEF Publish, DownloadFrame, applyVars

\* The cleanup of a download that failed: it may take .tmp away from another one.
LEMMA QuietCleanup ==
    ASSUME TypeOK, Quiet, NEW d \in Downloads, Cleanup(d)
    PROVE  Quiet'
<1>1. /\ ~ Active(d) /\ ~ Active(d)'
      /\ \A e \in Downloads : e # d => dl'[e] = dl[e]
      /\ UNCHANGED <<state, prepared, cancel, cancelled, closed, ap, plan, helpers>>
  BY Records DEF Cleanup, TypeOK, Active, progVars, DownloadFrame, applyVars
<1>2. /\ content'["tmp"] \in {content["tmp"], Missing}
      /\ content'["new"] = content["new"] /\ content'["helper"] = content["helper"]
  BY DEF Cleanup, TypeOK, Names
<1>3. ASSUME NEW e \in Downloads, Active(e)'
      PROVE  Active(e) /\ OwnsDownload(e)' /\ FileOf(e)'
  <2>1. e # d /\ Active(e) /\ dl'[e] = dl[e]
    BY <1>1, <1>3 DEF Active
  <2>2. opened'[e] = opened[e] \/ (opened'[e] = "orphan" /\ content'["tmp"] = Missing)
    BY <2>1 DEF Cleanup, TypeOK, Names
  <2>3. dl[e].pc = "stream" => \/ opened'[e] = "tmp"
                               \/ opened'[e] = "orphan" /\ content'["tmp"] = Missing
    BY <1>2, <2>1, <2>2, Found DEF FileOf
  <2>4. FileOf(e)'
    BY <1>2, <2>1, <2>3, Found DEF FileOf
  <2>5. OwnsDownload(e)'
    BY <1>1, <2>1, Alone DEF OwnsDownload
  <2>6. QED
    BY <2>1, <2>4, <2>5
<1>4. Downloading'
  BY <1>3, Alone DEF Downloading
<1>5. Installing'
  BY <1>1, <1>2 DEF Quiet, Installing, Working, OwnsInstallation
<1>6. ReadyIsVerified' /\ HelpersMatch'
  BY <1>1, <1>2 DEF Quiet, ReadyIsVerified, HelpersMatch
<1>7. QED
  BY <1>4, <1>5, <1>6 DEF Quiet

\* Any step of a download.
LEMMA QuietDownload ==
    ASSUME TypeOK, Quiet, NEW d \in Downloads, Download(d)
    PROVE  Quiet'
BY QuietTransfer, QuietVerification, QuietPublication, QuietCleanup DEF Download

\* A step of the only installation that leaves it at its end, or its owner still.
LEMMA Installs ==
    ASSUME TypeOK, Quiet, NEW a \in Applies,
           \A d \in Downloads : ~ Active(d),
           \A b \in Applies \ {a} : ~ Working(b),
           \A b \in Applies : b # a => ap'[b] = ap[b],
           ApplyFrame,
           ~ Working(a)' \/ OwnsInstallation(a)',
           ReadyIsVerified', HelpersMatch'
    PROVE  Quiet'
<1>1. Downloading'
  BY DEF Downloading, Active, ApplyFrame
<1>2. \A b \in Applies \ {a} : ~ Working(b)'
  BY DEF Working
<1>3. Installing'
  BY <1>2 DEF Installing
<1>4. QED
  BY <1>1, <1>3 DEF Quiet

\* A step of an installation.
LEMMA QuietApply ==
    ASSUME TypeOK, Quiet, NEW a \in Applies, BeginApply(a) \/ Apply(a)
    PROVE  Quiet'
<1>1. /\ \A d \in Downloads : ~ Active(d)
      /\ \A b \in Applies \ {a} : ~ Working(b)
      /\ Working(a) => OwnsInstallation(a)
      /\ ~ Working(a) => BeginApply(a)
      /\ ApplyFrame
  BY DEF Quiet, Downloading, Installing, Working, OwnsDownload, OwnsInstallation, BeginApply,
         Apply, Rehash, CopyHelper, WritePlan, StartHelper, FinishApply
<1>2. /\ content \in [Names -> Content] /\ "new" \in Names /\ "helper" \in Names
      /\ prepared' = prepared /\ HelpersMatch
  BY <1>1 DEF TypeOK, Names, ApplyFrame, Quiet
<1>3. CASE BeginApply(a)
  <2>1. ap' = [ap EXCEPT ![a] = [pc |-> "hash", asset |-> prepared]]
    BY <1>3 DEF BeginApply
  <2>2. /\ ap'[a].pc = "hash" /\ ap'[a].asset = prepared
        /\ \A b \in Applies : b # a => ap'[b] = ap[b]
    BY <2>1 DEF TypeOK
  <2>3. OwnsInstallation(a)'
    BY <1>2, <1>3, <2>2 DEF BeginApply, OwnsInstallation, Quiet, ReadyIsVerified
  <2>4. ReadyIsVerified' /\ HelpersMatch'
    BY <1>2, <1>3 DEF BeginApply, ReadyIsVerified, HelpersMatch
  <2>5. QED
    BY <1>1, <2>2, <2>3, <2>4, Installs
<1>4. ASSUME OwnsInstallation(a), FailApply(a), helpers' = helpers,
             content'["new"] = content["new"]
      PROVE  Quiet'
  <2>1. ~ Working(a)' /\ \A b \in Applies : b # a => ap'[b] = ap[b]
    BY <1>4, Stops DEF FailApply, Working
  <2>2. ReadyIsVerified' /\ HelpersMatch'
    BY <1>2, <1>4 DEF ReadyIsVerified, HelpersMatch, OwnsInstallation
  <2>3. QED
    BY <1>1, <2>1, <2>2, Installs
<1>5. ASSUME OwnsInstallation(a), NEW pc \in {"copy", "plan", "start", "finish"},
             Continue(a, pc), state' = state, content'["new"] = content["new"],
             pc \in {"plan", "start"} => content'["helper"] = Whole(ap[a].asset),
             pc = "start" => plan' = ap[a].asset,
             HelpersMatch'
      PROVE  Quiet'
  <2>1. /\ ap'[a].pc = pc /\ ap'[a].asset = ap[a].asset
        /\ \A b \in Applies : b # a => ap'[b] = ap[b]
    BY <1>5, Continues
  <2>2. OwnsInstallation(a)'
    BY <1>2, <1>5, <2>1 DEF OwnsInstallation
  <2>3. ReadyIsVerified'
    BY <1>5 DEF ReadyIsVerified, OwnsInstallation
  <2>4. QED
    BY <1>1, <1>5, <2>1, <2>2, <2>3, Installs
<1>6. CASE Rehash(a)
  <2>1. OwnsInstallation(a) /\ content' = content /\ helpers' = helpers /\ HelpersMatch'
    BY <1>1, <1>2, <1>6 DEF Rehash, Working, HelpersMatch
  <2>2. QED
    BY <1>4, <1>5, <1>6, <2>1 DEF Rehash
<1>7. CASE CopyHelper(a)
  <2>1. OwnsInstallation(a) /\ helpers' = helpers /\ HelpersMatch'
    BY <1>1, <1>2, <1>7 DEF CopyHelper, Working, HelpersMatch
  <2>2. CASE FailApply(a) /\ content' \in {content, [content EXCEPT !["helper"] = Missing]}
    <3>1. content'["new"] = content["new"]
      BY <1>2, <2>2
    <3>2. QED
      BY <1>4, <2>1, <2>2, <3>1
  <2>3. CASE /\ content' = [content EXCEPT !["helper"] = content["new"]]
             /\ Continue(a, "plan") /\ UNCHANGED state
    <3>1. /\ content'["new"] = content["new"]
          /\ content'["helper"] = Whole(ap[a].asset)
      BY <1>2, <2>1, <2>3 DEF OwnsInstallation
    <3>2. QED
      BY <1>5, <2>1, <2>3, <3>1
  <2>4. QED
    BY <1>7, <2>2, <2>3 DEF CopyHelper
<1>8. CASE WritePlan(a)
  <2>1. OwnsInstallation(a) /\ helpers' = helpers /\ HelpersMatch' /\ ap[a].pc = "plan"
    BY <1>1, <1>2, <1>8 DEF WritePlan, Working, HelpersMatch
  <2>2. CASE FailApply(a) /\ content' = [content EXCEPT !["helper"] = Missing]
    BY <1>2, <1>4, <2>1, <2>2
  <2>3. CASE plan' = ap[a].asset /\ Continue(a, "start") /\ UNCHANGED <<state, content>>
    BY <1>5, <2>1, <2>3 DEF OwnsInstallation
  <2>4. QED
    BY <1>8, <2>2, <2>3 DEF WritePlan
<1>9. CASE StartHelper(a)
  <2>1. OwnsInstallation(a) /\ ap[a].pc = "start"
    BY <1>1, <1>9 DEF StartHelper, Working
  <2>2. CASE FailApply(a) /\ content' = [content EXCEPT !["helper"] = Missing]
             /\ helpers' = helpers
    BY <1>2, <1>4, <2>1, <2>2
  <2>3. CASE /\ helpers' = helpers \cup {[exe |-> content["helper"], plan |-> plan]}
             /\ Continue(a, "finish") /\ UNCHANGED <<state, content, plan>>
    <3>1. content["helper"] = Whole(plan)
      BY <2>1 DEF OwnsInstallation
    <3>2. HelpersMatch'
      BY <1>2, <2>3, <3>1 DEF HelpersMatch
    <3>3. QED
      BY <1>5, <2>1, <2>3, <3>2
  <2>4. QED
    BY <1>9, <2>2, <2>3 DEF StartHelper
<1>10. CASE FinishApply(a)
  <2>1. ~ Working(a)' /\ \A b \in Applies : b # a => ap'[b] = ap[b]
    BY <1>10, Stops DEF FinishApply, Working
  <2>2. ReadyIsVerified' /\ HelpersMatch'
    BY <1>2, <1>10 DEF FinishApply, ReadyIsVerified, HelpersMatch
  <2>3. QED
    BY <1>1, <2>1, <2>2, Installs
<1>11. QED
  BY <1>3, <1>6, <1>7, <1>8, <1>9, <1>10 DEF Apply

\* A step with nothing active before it, or nothing after it.
LEMMA Resting ==
    ASSUME \A d \in Downloads : ~ Active(d)', \A a \in Applies : ~ Working(a)',
           ReadyIsVerified', HelpersMatch'
    PROVE  Quiet'
BY DEF Quiet, Downloading, Installing

\* The beginning of a check or of a download finds nothing active.
LEMMA NothingRuns ==
    ASSUME Quiet, state \notin {"downloading", "verifying", "applying"}
    PROVE  /\ \A d \in Downloads : ~ Active(d)
           /\ \A a \in Applies : ~ Working(a)
BY DEF Quiet, Downloading, Installing, OwnsDownload, OwnsInstallation

\* A check; its end disturbs nothing only when nothing runs.
LEMMA QuietCheck ==
    ASSUME TypeOK, Quiet, NEW c \in Checks, BeginCheck(c) \/ EndCheck(c), ~ disturbed'
    PROVE  Quiet'
<1>1. UNCHANGED <<dl, ap, helpers>> /\ state' # "ready"
  BY DEF BeginCheck, EndCheck, applyVars
<1>2. /\ \A d \in Downloads : ~ Active(d)
      /\ \A a \in Applies : ~ Working(a)
  <2>1. CASE BeginCheck(c)
    BY <2>1, NothingRuns DEF BeginCheck
  <2>2. CASE EndCheck(c)
    <3>1. ~ Running
      BY <2>2, Zenon DEF EndCheck
    <3>2. QED
      BY <3>1 DEF Running, Active, Working
  <2>3. QED
    BY <2>1, <2>2
<1>3. QED
  BY <1>1, <1>2, Resting DEF Active, Working, ReadyIsVerified, HelpersMatch, Quiet

\* The beginning of a download: it owns the progress state and the cancel function.
LEMMA QuietStart ==
    ASSUME TypeOK, Quiet, NEW d \in Downloads, NEW a \in Assets, StartDownload(d, a)
    PROVE  Quiet'
<1> DEFINE r == [IdleDownload EXCEPT !.pc = "removeStale", !.asset = a]
<1>1. r.pc = "removeStale" /\ r.asset = a
  BY Records
<1> HIDE DEF r
<1>2. /\ dl' = [dl EXCEPT ![d] = r] /\ ~closed /\ closed' = closed
      /\ state' = "downloading" /\ cancel' = d /\ UNCHANGED <<ap, helpers>>
      /\ state \notin {"downloading", "verifying", "applying"}
  BY DEF StartDownload, DownloadFrame, MayDownload, applyVars, r
<1>3. dl'[d] = r /\ \A e \in Downloads : e # d => dl'[e] = dl[e]
  BY <1>2 DEF TypeOK
<1>4. /\ \A e \in Downloads \ {d} : ~ Active(e)'
      /\ \A b \in Applies : ~ Working(b)'
  BY <1>2, <1>3, NothingRuns DEF Active, Working
<1>5. OwnsDownload(d)' /\ FileOf(d)'
  BY <1>1, <1>2, <1>3 DEF OwnsDownload, FileOf
<1>6. Downloading'
  BY <1>4, <1>5 DEF Downloading
<1>7. Installing'
  BY <1>4 DEF Installing
<1>8. ReadyIsVerified' /\ HelpersMatch'
  BY <1>2 DEF Quiet, ReadyIsVerified, HelpersMatch
<1>9. QED
  BY <1>6, <1>7, <1>8 DEF Quiet

\* Closing: the only active download is the one whose context is cancelled.
LEMMA QuietClose == ASSUME TypeOK, Quiet, Close PROVE Quiet'
<1>1. /\ ~closed /\ closed' /\ cancelled' = cancelled \cup ({cancel} \ {None})
      /\ UNCHANGED <<state, prepared, dl, ap, plan, helpers, content, opened>>
  BY DEF Close, applyVars, fileVars
<1>2. ASSUME NEW d \in Downloads, Active(d)
      PROVE  OwnsDownload(d)' /\ FileOf(d)'
  BY <1>1, <1>2, Alone, NoneAssumption DEF OwnsDownload, FileOf
<1>3. Downloading'
  BY <1>1, <1>2, Alone DEF Downloading, Active
<1>4. Installing'
  BY <1>1 DEF Quiet, Installing, Working, OwnsInstallation
<1>5. QED
  BY <1>1, <1>3, <1>4 DEF Quiet, ReadyIsVerified, HelpersMatch

\* At the start nothing is active and nothing announced.
LEMMA QuietInit == ASSUME Init PROVE Quiet
<1>1. /\ \A d \in Downloads : ~ Active(d)
      /\ \A a \in Applies : ~ Working(a)
  BY Records DEF Init, Active, Working
<1>2. QED
  BY <1>1 DEF Init, Quiet, Downloading, Installing, ReadyIsVerified, HelpersMatch

\* A restart leaves nothing active, prepared or started.
LEMMA QuietRestart == ASSUME Restart PROVE Quiet'
<1>1. /\ \A d \in Downloads : ~ Active(d)'
      /\ \A a \in Applies : ~ Working(a)'
  BY Records DEF Restart, Active, Working
<1>2. ReadyIsVerified' /\ HelpersMatch'
  BY DEF Restart, ReadyIsVerified, HelpersMatch
<1>3. QED
  BY <1>1, <1>2, Resting

\* Any step that is not disturbed.
LEMMA QuietStep == ASSUME TypeOK, Quiet, [Next]_vars, ~ disturbed' PROVE Quiet'
<1>1. CASE UNCHANGED vars
  BY <1>1 DEF Quiet, Downloading, Installing, ReadyIsVerified, HelpersMatch, Active, Working,
              OwnsDownload, FileOf, OwnsInstallation, vars, progVars, applyVars, fileVars
<1>2. CASE Next
  BY <1>2, QuietCheck, QuietStart, QuietDownload, QuietApply, QuietClose, QuietRestart DEF Next
<1>3. QED
  BY <1>1, <1>2

\* Nothing but a restart takes the disturbance back.
LEMMA Disturbance == ASSUME [Next]_vars, disturbed PROVE disturbed' \/ Restart
BY DEF Next, vars, BeginCheck, EndCheck, StartDownload, Download, DownloadFrame, RemoveStale,
       Request, CreateTemp, Stream, ReportVerifying, Validate, RemoveNew, RenameTemp, Publish,
       Cleanup, BeginApply, Apply, Rehash, CopyHelper, WritePlan, StartHelper, FinishApply,
       ApplyFrame, Close

\* The invariant holds at the start.
LEMMA IInvInit == Init => IInv
BY Initial, QuietInit DEF IInv

\* Every step keeps the invariant.
LEMMA IInvStep == IInv /\ [Next]_vars => IInv'
<1> SUFFICES ASSUME IInv, [Next]_vars PROVE IInv'
  OBVIOUS
<1>1. TypeOK'
  BY TypeStep DEF IInv
<1>2. CASE disturbed
  BY <1>1, <1>2, Disturbance, QuietRestart DEF IInv
<1>3. CASE ~ disturbed
  BY <1>1, <1>3, QuietStep DEF IInv
<1>4. QED
  BY <1>2, <1>3

\* The invariant holds always.
LEMMA Invariant == Spec => []IInv
BY IInvInit, IInvStep, PTL DEF Spec

-------------------------------------------------------------------------------
(* Theorems *)

\* Until a check disturbs it, one download at a time is before its cleanup.
LEMMA AtMostOne == IInv => OneDownload
<1> SUFFICES ASSUME IInv, ~ disturbed PROVE OneDownload
  BY Zenon DEF OneDownload
<1> DEFINE D == {d \in Downloads : dl[d].pc \notin {"idle", "cleanup"}}
<1>1. \A d, e \in D : d = e
  BY DEF IInv, Quiet, Downloading, Active
<1>2. CASE D = {}
  <2>1. Cardinality(D) = 0
    BY <1>2, FS_EmptySet
  <2>2. QED
    BY <2>1 DEF OneDownload
<1>3. CASE D # {}
  <2>1. PICK d \in D : D = {d}
    BY <1>1, <1>3
  <2>2. Cardinality(D) = 1
    BY <2>1, FS_Singleton
  <2>3. QED
    BY <2>2 DEF OneDownload
<1>4. QED
  BY <1>2, <1>3

\* Types; one download at a time; closing reaches the download on the network
\* (updater.go:136-144, download.go:30-72).
THEOREM OneDownloadAndClose == Spec => []WellFormed
<1>1. IInv => CloseCancels
  BY DEF IInv, Quiet, Downloading, Active, OwnsDownload, CloseCancels
<1>2. IInv => WellFormed
  BY <1>1, AtMostOne DEF IInv, WellFormed
<1>3. QED
  BY <1>2, Invariant, PTL

\* An update announced as verified and ready is, whatever downloads failed, were
\* cancelled or cleaned up late (download.go:179-231, apply.go:43-91).
THEOREM ReadyMeansVerified == Spec => []ReadyIsVerifiedUndisturbed
<1>1. IInv => ReadyIsVerifiedUndisturbed
  BY DEF IInv, Quiet, ReadyIsVerifiedUndisturbed
<1>2. QED
  BY <1>1, Invariant, PTL

\* A helper that was started is the release its plan names (apply.go:85-135).
THEOREM HelperMeansVerified == Spec => []HelperIsVerified
<1>1. IInv => HelperIsVerified
  BY DEF IInv, Quiet, HelpersMatch, HelperIsVerified
<1>2. QED
  BY <1>1, Invariant, PTL

\* Nothing that still runs makes a closed manager announce an update
\* (download.go:205-211, apply.go:62-76).
THEOREM ClosedStaysSilent == Spec => ClosedAnnouncesNothing
<1>1. ASSUME [Next]_vars, closed, closed', state # "ready"
      PROVE  state' # "ready"
  <2>1. CASE UNCHANGED vars
    BY <1>1, <2>1 DEF vars, progVars
  <2>2. ASSUME NEW c \in Checks, BeginCheck(c) \/ EndCheck(c) PROVE state' # "ready"
    BY <1>1, <2>2 DEF BeginCheck, EndCheck
  <2>3. ASSUME NEW d \in Downloads, NEW a \in Assets, StartDownload(d, a)
        PROVE  state' # "ready"
    BY <2>3 DEF StartDownload
  <2>4. ASSUME NEW d \in Downloads, Download(d) PROVE state' # "ready"
    BY <1>1, <2>4 DEF Download, RemoveStale, Request, CreateTemp, Stream, ReportVerifying,
       Validate, RemoveNew, RenameTemp, Publish, Cleanup, FinishDownloadError, progVars
  <2>5. ASSUME NEW a \in Applies, BeginApply(a) \/ Apply(a) PROVE state' # "ready"
    BY <1>1, <2>5 DEF BeginApply, Apply, Rehash, CopyHelper, WritePlan, StartHelper,
       FinishApply, FailApply
  <2>6. CASE Close \/ Restart
    BY <1>1, <2>6 DEF Close, Restart
  <2>7. QED
    BY <1>1, <2>1, <2>2, <2>3, <2>4, <2>5, <2>6 DEF Next
<1>2. QED
  BY <1>1, PTL DEF Spec, ClosedAnnouncesNothing
===============================================================================
