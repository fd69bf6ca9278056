----------------------------- MODULE ContentView -----------------------------
(***************************************************************************)
(* The document area of the page (web/js/generator.js, core.js and the     *)
(* restore of a saved result in bookmarks.js): one event handler runs at a *)
(* time, and every answer of the server arrives at some later moment, when *)
(* the user may have scanned, generated, restored, loaded, copied or       *)
(* cancelled something else.                                               *)
(*                                                                         *)
(* A handler runs to its next await without interruption.  Aborting a      *)
(* request rejects its promise before the next event, so the abort and the *)
(* `finally' block it leads to are one step with the handler that aborts.  *)
(* A closed EventSource delivers nothing.                                  *)
(*                                                                         *)
(* The history variable `crossed' records that the document on display was *)
(* exchanged while a copy was fetching the previous one, or that a saved   *)
(* result was restored during a scan or a generation: nothing in the code  *)
(* prevents either, and the properties say what holds until then.          *)
(***************************************************************************)
EXTENDS FiniteSets

CONSTANTS
    Generations,  \* generations the user starts; each one's document has its name
    Scans,        \* structure scans the user starts; each yields a tree
    Saved,        \* documents of saved results that still exist
    Copies,       \* copies that may be in flight at once
    NoDoc

ASSUME NamesAssumption ==
    /\ NoDoc \notin Generations \cup Scans \cup Saved
    /\ Generations \cap Saved = {} /\ Scans \cap (Generations \cup Saved) = {}

Docs == Generations \cup Saved
\* what a text field may hold; NoDoc stands for null, for '' and for messages
Text == [of : Docs, part : {"whole", "preview"}] \cup [of : Scans, part : {"tree"}]
Whole(d) == [of |-> d, part |-> "whole"]
Preview(d) == [of |-> d, part |-> "preview"]
Tree(s) == [of |-> s, part |-> "tree"]

ASSUME NoTextAssumption == NoDoc \notin Text

ContentControls ==
    {"generate", "cancel", "copy", "load", "loadEnabled", "banner", "renderAll", "stop"}

VARIABLES
    unused,     \* generations and scans not started yet
    stream,     \* activeSource: a generation and its mode, or NoStream
    scan,       \* operationController: a scan, or NoDoc
    load,       \* contentController: a document and how much is fetched, or NoLoad
    copies,     \* per copy: the document it fetches, or NoDoc
    shownFile,  \* lastGeneratedFile, which the download link names too
    cached,     \* cachedFullText
    truncated,  \* previewTruncated
    editor,     \* the text in the editor
    clipboard,
    controls,   \* the controls that are shown, and enabled where they can be disabled
    crossed     \* history, see above

contentRequests == <<unused, stream, scan, load, copies>>
content == <<shownFile, cached, truncated>>
contentVars == <<contentRequests, content, editor, clipboard, controls, crossed>>

NoStream == [gen |-> NoDoc, mode |-> "none"]
NoLoad == [doc |-> NoDoc, kind |-> "none"]

ContentTypeOK ==
    /\ unused \subseteq Generations \cup Scans
    /\ stream \in {NoStream} \cup [gen : Generations \ unused, mode : {"full", "stats"}]
    /\ scan \in {NoDoc} \cup (Scans \ unused)
    /\ load \in {NoLoad} \cup [doc : Docs, kind : {"preview", "full"}]
    /\ copies \in [Copies -> Docs \cup {NoDoc}]
    /\ shownFile \in Docs \cup {NoDoc}
    /\ cached \in Text \cup {NoDoc} /\ truncated \in BOOLEAN
    /\ editor \in Text \cup {NoDoc} /\ clipboard \in Text \cup {NoDoc}
    /\ controls \subseteq ContentControls /\ crossed \in BOOLEAN
    /\ truncated => cached = NoDoc

ContentInit ==
    /\ unused = Generations \cup Scans
    /\ stream = NoStream /\ scan = NoDoc /\ load = NoLoad
    /\ copies = [c \in Copies |-> NoDoc]
    /\ shownFile = NoDoc /\ cached = NoDoc /\ truncated = FALSE
    /\ editor = NoDoc /\ clipboard = NoDoc
    /\ controls = {"generate", "loadEnabled", "renderAll"} /\ crossed = FALSE

Working == stream # NoStream \/ scan # NoDoc
Copying == \E c \in Copies : copies[c] # NoDoc
CanLoad == {"load", "loadEnabled"} \subseteq controls \/ {"banner", "renderAll"} \subseteq controls

-------------------------------------------------------------------------------
(* What several handlers do *)

\* setBusy
Busy(shown) == (shown \ {"generate"}) \cup {"cancel"}
Idle(shown) == (shown \ {"cancel"}) \cup {"generate"}

\* stopContentLoad, and the end of loadFullContent
Stopped(shown, trunc) == (shown \ {"stop"}) \cup (IF trunc THEN {"renderAll"} ELSE {})
LoadEnded(shown, trunc) == Stopped(shown, trunc) \cup {"loadEnabled"}
\* what aborting the content request does to the controls, if there is one
Aborted(shown, trunc) == IF load.kind = "full" THEN LoadEnded(shown, trunc) ELSE shown

\* resetContentState: clears the document, its text and the request for it
ResetControls(shown) ==
    (Aborted(shown, FALSE) \ {"banner", "load", "copy"}) \cup {"loadEnabled"}
DropLoad == load' = NoLoad
ResetKeepingText ==  \* Fault: the text of the old document stays
    /\ truncated' = FALSE /\ UNCHANGED cached
    /\ DropLoad

ResetContent ==
    /\ cached' = NoDoc /\ truncated' = FALSE
    /\ DropLoad

\* setGeneratedFile while a request of the old document may be in flight
Cross(always) == crossed' = (crossed \/ Copying \/ always)

-------------------------------------------------------------------------------
(* What the user does *)

\* scanStructure up to its await.  cancelActiveWork finds at most a content
\* request, since the button is disabled while anything else runs.
StartScan(s) ==
    /\ "generate" \in controls /\ s \in unused
    /\ unused' = unused \ {s} /\ scan' = s /\ stream' = NoStream
    /\ ResetContent /\ shownFile' = NoDoc /\ editor' = NoDoc
    /\ controls' = Busy(ResetControls(controls \ {"stop"}))
    /\ Cross(FALSE)
    /\ UNCHANGED <<copies, clipboard>>

\* startGeneration
StartGeneration(g, mode) ==
    /\ "generate" \in controls /\ g \in unused
    /\ unused' = unused \ {g} /\ stream' = [gen |-> g, mode |-> mode] /\ scan' = NoDoc
    /\ ResetContent /\ shownFile' = NoDoc /\ editor' = NoDoc
    /\ controls' = Busy(ResetControls(controls \ {"stop"}))
    /\ Cross(FALSE)
    /\ UNCHANGED <<copies, clipboard>>

\* restoreResult: a saved result, whose document may be gone.  The history can
\* be used at any time, also while a scan or a generation runs.
Restore(d) ==
    /\ ResetContent /\ shownFile' = d /\ editor' = NoDoc
    /\ controls' = ResetControls(controls) \cup (IF d = NoDoc THEN {} ELSE {"load", "copy"})
    /\ Cross(Working)
    /\ UNCHANGED <<unused, stream, scan, copies, clipboard>>

\* cancelActiveWork(true)
CancelWork ==
    /\ "cancel" \in controls /\ (Working \/ load # NoLoad)
    /\ stream' = NoStream /\ scan' = NoDoc /\ load' = NoLoad
    /\ controls' = Idle(Aborted(controls, truncated) \ {"stop"})
    /\ UNCHANGED <<unused, copies, content, editor, clipboard, crossed>>

\* loadFullContent: show the text that is there, or fetch it
LoadFull ==
    /\ CanLoad /\ shownFile # NoDoc
    /\ \/ /\ cached # NoDoc /\ ~truncated
          /\ editor' = cached
          /\ controls' = controls \ {"banner", "load"}
          /\ UNCHANGED load
       \/ /\ cached = NoDoc \/ truncated
          /\ load' = [doc |-> shownFile, kind |-> "full"]
          /\ controls' = (controls \ {"loadEnabled", "renderAll"}) \cup {"banner", "stop"}
          /\ UNCHANGED editor
    /\ UNCHANGED <<unused, stream, scan, copies, content, clipboard, crossed>>

\* the button of the banner: stopContentLoad
StopLoad ==
    /\ {"banner", "stop"} \subseteq controls
    /\ load' = NoLoad
    /\ controls' = Aborted(Stopped(controls, truncated), truncated)
    /\ UNCHANGED <<unused, stream, scan, copies, content, editor, clipboard, crossed>>

\* copyCurrentContent: the cached text, else the document, else the editor
Copy(c) ==
    /\ copies[c] = NoDoc /\ "copy" \in controls
    /\ \/ /\ cached # NoDoc
          /\ clipboard' = cached
          /\ UNCHANGED <<copies, controls>>
       \/ /\ cached = NoDoc /\ shownFile = NoDoc
          /\ clipboard' = IF editor = NoDoc THEN clipboard ELSE editor
          /\ UNCHANGED <<copies, controls>>
       \/ /\ cached = NoDoc /\ shownFile # NoDoc
          /\ copies' = [copies EXCEPT ![c] = shownFile]
          /\ controls' = controls \ {"copy"}
          /\ UNCHANGED clipboard
    /\ UNCHANGED <<unused, stream, scan, load, content, editor, crossed>>

ContentUser ==
    \/ \E s \in Scans : StartScan(s)
    \/ \E g \in Generations, mode \in {"full", "stats"} : StartGeneration(g, mode)
    \/ \E d \in Saved \cup {NoDoc} : Restore(d)
    \/ CancelWork \/ LoadFull \/ StopLoad
    \/ \E c \in Copies : Copy(c)

-------------------------------------------------------------------------------
(* What the server answers *)

\* scanStructure after its await
ScanAnswered ==
    /\ scan # NoDoc
    /\ scan' = NoDoc
    /\ \/ /\ cached' = Tree(scan) /\ truncated' = FALSE /\ editor' = Tree(scan)
          /\ controls' = Idle(controls) \cup {"copy"}
       \/ /\ editor' = NoDoc /\ controls' = Idle(controls)
          /\ UNCHANGED <<cached, truncated>>
    /\ UNCHANGED <<unused, stream, load, copies, shownFile, clipboard, crossed>>

\* the `complete' event; in full mode the preview is requested at once
Complete ==
    /\ stream # NoStream
    /\ stream' = NoStream /\ shownFile' = stream.gen
    /\ \/ /\ stream.mode = "full"
          /\ load' = [doc |-> stream.gen, kind |-> "preview"]
          /\ controls' = Aborted(Stopped(Idle(controls), truncated), truncated) \cup {"copy"}
          /\ UNCHANGED editor
       \/ /\ stream.mode = "stats"
          /\ editor' = NoDoc
          /\ controls' = Idle(controls) \cup {"copy", "load"}
          /\ UNCHANGED load
    /\ UNCHANGED <<unused, scan, copies, cached, truncated, clipboard, crossed>>

StreamErrorBusy ==  \* Fault: the buttons stay disabled after an error
    /\ stream # NoStream
    /\ stream' = NoStream /\ editor' = NoDoc
    /\ UNCHANGED <<unused, scan, load, copies, content, clipboard, controls, crossed>>

\* the `error' event: sent by the server, or a connection that was lost
StreamError ==
    /\ stream # NoStream
    /\ stream' = NoStream /\ editor' = NoDoc
    /\ controls' = Idle(controls)
    /\ UNCHANGED <<unused, scan, load, copies, content, clipboard, crossed>>

CachedOf(d, trunc) == IF trunc THEN NoDoc ELSE Whole(d)

\* loadPreview after its awaits: the document fits into the preview or not
PreviewAnswered(trunc) ==
    /\ load.kind = "preview"
    /\ truncated' = trunc /\ cached' = CachedOf(load.doc, trunc)
    /\ editor' = IF trunc THEN Preview(load.doc) ELSE Whole(load.doc)
    /\ controls' = IF trunc THEN (controls \ {"stop"}) \cup {"copy", "load", "banner", "renderAll"}
                   ELSE (controls \ {"load", "banner"}) \cup {"copy"}
    /\ load' = NoLoad
    /\ UNCHANGED <<unused, stream, scan, copies, shownFile, clipboard, crossed>>

PreviewFails ==
    /\ load.kind = "preview"
    /\ load' = NoLoad /\ controls' = controls \cup {"load"}
    /\ UNCHANGED <<unused, stream, scan, copies, content, editor, clipboard, crossed>>

\* loadFullContent after its await
FullAnswered ==
    /\ load.kind = "full"
    /\ cached' = Whole(load.doc) /\ truncated' = FALSE /\ editor' = Whole(load.doc)
    /\ controls' = (LoadEnded(controls, FALSE) \ {"banner", "load"}) \cup {"copy"}
    /\ load' = NoLoad
    /\ UNCHANGED <<unused, stream, scan, copies, shownFile, clipboard, crossed>>

FullFails ==
    /\ load.kind = "full"
    /\ load' = NoLoad /\ controls' = LoadEnded(controls, truncated)
    /\ UNCHANGED <<unused, stream, scan, copies, content, editor, clipboard, crossed>>

\* copyCurrentContent after its await: nothing compares the document with the
\* one that is current now
CopyAnswered(c) ==
    /\ copies[c] # NoDoc
    /\ \/ /\ cached' = Whole(copies[c]) /\ truncated' = FALSE
          /\ clipboard' = Whole(copies[c])
       \/ UNCHANGED <<cached, truncated, clipboard>>
    /\ copies' = [copies EXCEPT ![c] = NoDoc]
    /\ controls' = controls \cup {"copy"}
    /\ UNCHANGED <<unused, stream, scan, load, shownFile, editor, crossed>>

StreamAnswered == Complete \/ StreamError
LoadAnswered == (\E trunc \in BOOLEAN : PreviewAnswered(trunc)) \/ PreviewFails
                \/ FullAnswered \/ FullFails
Server == ScanAnswered \/ StreamAnswered \/ LoadAnswered \/ (\E c \in Copies : CopyAnswered(c))

ContentNext == ContentUser \/ Server

ContentSpec == ContentInit /\ [][ContentNext]_contentVars

-------------------------------------------------------------------------------
(* Properties *)

\* The generate and scan buttons are enabled, and cancel is hidden, exactly
\* while neither runs (setBusy, core.js:237-241): no work goes on that cannot be
\* cancelled, two never run at once, and no end of one leaves the page locked.
BusyWhileWorking ==
    /\ Working <=> "cancel" \in controls
    /\ Working <=> "generate" \notin controls
    /\ stream = NoStream \/ scan = NoDoc

\* A part of a document is never taken for the whole: not as the cached text
\* that later loads and copies use, nor by a copy that falls back to the text
\* in the editor (generator.js:220, 296-304).
PartIsNeverWhole ==
    \A text \in {cached, clipboard} : text # NoDoc => text.part # "preview"

\* The editor never shows the preview of another document than the one the
\* download link names, whatever was restored or started while the preview was
\* fetched (generator.js:206-215, core.js:224-235).
PreviewIsCurrent ==
    editor # NoDoc /\ editor.part = "preview" => editor.of = shownFile

\* When nothing is in flight and there is a document, it can be copied, and
\* loaded unless its text has been fetched already: no order of failures, stops
\* and cancellations leaves the controls dead (generator.js:226-231, 272-282).
ContentUsable ==
    ~Working /\ load = NoLoad /\ ~Copying /\ shownFile # NoDoc =>
        /\ "copy" \in controls
        /\ CanLoad \/ cached # NoDoc

\* What "Load all" shows and "Copy" copies from the cache is the document the
\* page offers: "Load all or copy when you need the generated document."
\* (generator.js:178, and bookmarks.js:273 for saved results).  Nothing in the
\* code ensures it.
CachedIsCurrent == shownFile # NoDoc /\ cached # NoDoc => cached = Whole(shownFile)

\* It holds as long as no document is exchanged under a copy in flight and no
\* result is restored during a scan or a generation.
CachedIsCurrentUncrossed == ~crossed => CachedIsCurrent

\* What the page shows and copies is what it says it is.
ContentIsCurrent ==
    ContentTypeOK /\ PartIsNeverWhole /\ PreviewIsCurrent /\ CachedIsCurrentUncrossed

\* The controls follow the work.
ControlsMatchWork == BusyWhileWorking /\ ContentUsable
===============================================================================
