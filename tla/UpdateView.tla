----------------------------- MODULE UpdateView -----------------------------
(***************************************************************************)
(* The update part of the page (web/js/updater.js): one check after the    *)
(* start and others on demand, the download and the polls that follow it,  *)
(* and the restart, as asynchronous requests whose answers come in any     *)
(* order and apply to whatever state the page is in by then.               *)
(*                                                                         *)
(* The application behind it is what UpdateManager models in detail, here  *)
(* reduced to the state it reports; it may go away at any time and another *)
(* one answer in its place.  A request is one variable that holds where it *)
(* is, then its answer.                                                    *)
(***************************************************************************)
CONSTANTS Checks, Polls  \* the requests of each kind that may be in flight

States == {"idle", "checking", "downloading", "verifying", "ready", "applying", "error"}
Controls == {"check", "pill", "card", "download", "downloadOn", "restart", "restartOn"}

\* the states the page distinguishes
Rendered == {"downloading", "verifying", "ready", "error"}

VARIABLES
    ui,         \* updateState
    info,       \* updateInfo is there; it names a verified download
    shown,      \* the buttons that are shown, and those that are enabled
    polling,    \* updateTimer is set
    status, check, poll, post, apply,  \* the requests
    waiting,    \* waitForRestart: "no", "online" or "offline" (observedOffline)
    server,     \* the state the application reports
    offered,    \* it issued the URL of a download
    prepared,   \* it holds a verified update
    job,        \* its download: "none", "running" or "verifying"
    online,
    updated,    \* it has the version of the update
    disturbed   \* history: the application was replaced since the page was
                \* loaded, or a check overlapped a download or discarded one

pageVars == <<ui, info, shown, polling>>
requests == <<status, check, poll, post, apply, waiting>>
serverVars == <<server, offered, prepared, job, online, updated>>
system == <<pageVars, requests, serverVars>>
updateVars == <<system, disturbed>>

UpdateTypeOK ==
    /\ ui \in {"idle", "checking", "available", "downloading", "verifying", "ready", "applying"}
    /\ info \in BOOLEAN /\ shown \subseteq Controls /\ polling \in BOOLEAN
    /\ status \in {"none", "sent", "failed", "over", "downloading", "verifying", "ready"}
    /\ check \in [Checks -> {"none", "sent", "fetching", "update", "uptodate", "failed"}]
    /\ poll \in [Polls -> {"none", "sent", "failed", "other"} \cup Rendered]
    /\ post \in {"none", "sent", "done", "failed"}
    /\ apply \in {"none", "sent", "started", "done", "failed"}
    /\ waiting \in {"no", "online", "offline"}
    /\ server \in States /\ job \in {"none", "running", "verifying"}
    /\ offered \in BOOLEAN /\ prepared \in BOOLEAN /\ online \in BOOLEAN /\ updated \in BOOLEAN
    /\ disturbed \in BOOLEAN
    /\ waiting # "no" => apply = "none"

\* the page as it is loaded: initUpdater sends the first request
Loaded ==
    /\ ui' = "idle" /\ info' = FALSE /\ shown' = {"check", "downloadOn", "restartOn"}
    /\ polling' = FALSE /\ status' = "sent"
    /\ check' = [c \in Checks |-> "none"] /\ poll' = [p \in Polls |-> "none"]
    /\ post' = "none" /\ apply' = "none" /\ waiting' = "no"

UpdateInit ==
    /\ ui = "idle" /\ info = FALSE /\ shown = {"check", "downloadOn", "restartOn"}
    /\ polling = FALSE /\ status = "sent"
    /\ check = [c \in Checks |-> "none"] /\ poll = [p \in Polls |-> "none"]
    /\ post = "none" /\ apply = "none" /\ waiting = "no"
    /\ server = "idle" /\ offered = FALSE /\ prepared = FALSE /\ job = "none"
    /\ online = TRUE /\ updated = FALSE /\ disturbed = FALSE

-------------------------------------------------------------------------------
(* What the page does with an answer *)

Show(add, remove) == shown' = (shown \ remove) \cup add

\* renderProgress, for the states it knows
RenderError ==
    /\ ui' = "available" /\ polling' = FALSE
    /\ Show({"card", "downloadOn", "pill"} \cup (IF info THEN {"download"} ELSE {}),
            {"restart"} \cup (IF info THEN {} ELSE {"download"}))
RenderReady ==
    /\ ui' = "ready" /\ polling' = FALSE
    /\ Show({"card", "restart", "restartOn"}, {"download"})
RenderOther == Show({"card"}, {"download", "restart"}) /\ UNCHANGED ui

\* showAvailableUpdate
Available(set) == (set \ {"restart"}) \cup {"card", "download"}

\* loadStatus
StatusAnswered ==
    /\ status \notin {"none", "sent", "over"}
    /\ status' = "over"
    /\ \/ /\ status \in {"downloading", "verifying"}
          /\ ui' = status /\ polling' = TRUE
          /\ Show({"card"}, {"download", "restart"})
       \/ status = "ready" /\ RenderReady
       \/ status = "failed" /\ UNCHANGED pageVars
    /\ UNCHANGED <<info, check, poll, post, apply, waiting, serverVars>>

MayCheck == ui \in {"idle", "available"}

\* checkForUpdates up to its request
SendCheck ==
    /\ \E c \in Checks : check[c] = "none" /\ check' = [check EXCEPT ![c] = "sent"]
    /\ ui' = "checking" /\ Show({}, {"check"})

\* the check scheduled once loadStatus is over
FirstCheck ==
    /\ status = "over" /\ status' = "none"
    /\ \/ MayCheck /\ SendCheck
       \/ ~MayCheck /\ UNCHANGED <<ui, shown, check>>
    /\ UNCHANGED <<info, polling, poll, post, apply, waiting, serverVars>>

\* checkForUpdates after its request; nothing looks at what the state is by now
CheckAnswered(c) ==
    /\ check[c] \in {"update", "uptodate", "failed"}
    /\ check' = [check EXCEPT ![c] = "none"]
    /\ \/ /\ check[c] = "uptodate"
          /\ info' = FALSE /\ ui' = "idle" /\ Show({"check"}, {"pill", "card"})
       \/ /\ check[c] = "update"
          /\ info' = TRUE /\ ui' = "available"
          /\ \E manual \in BOOLEAN :
                shown' = (IF manual THEN Available(shown) ELSE shown) \cup {"check", "pill"}
       \/ /\ check[c] = "failed"
          /\ ui' = "idle" /\ Show({"check"}, {}) /\ UNCHANGED info
    /\ UNCHANGED <<polling, status, poll, post, apply, waiting, serverVars>>

\* downloadUpdate after its request
PostAnswered ==
    /\ post \in {"done", "failed"}
    /\ post' = "none"
    /\ \/ post = "done" /\ polling' = TRUE /\ UNCHANGED <<ui, shown>>
       \/ /\ post = "failed"
          /\ ui' = "available" /\ Show({"downloadOn", "pill"}, {}) /\ UNCHANGED polling
    /\ UNCHANGED <<info, status, check, poll, apply, waiting, serverVars>>

PollFires ==
    /\ polling /\ \E p \in Polls : poll[p] = "none" /\ poll' = [poll EXCEPT ![p] = "sent"]
    /\ polling' = FALSE
    /\ UNCHANGED <<ui, info, shown, status, check, post, apply, waiting, serverVars>>

FailedPollEnds == UNCHANGED <<ui, shown, polling>>  \* Fault: an unanswered poll is the last
FailedPoll ==
    /\ polling' = (polling \/ ui \in {"downloading", "verifying"})
    /\ UNCHANGED <<ui, shown>>

DownloadOnly == {"downloading"}  \* Fault: the verification is not followed
Watched == {"downloading", "verifying"}

\* pollProgress after its request
PollAnswered(p) ==
    /\ poll[p] \notin {"none", "sent"}
    /\ poll' = [poll EXCEPT ![p] = "none"]
    /\ \/ poll[p] = "failed" /\ FailedPoll
       \/ /\ poll[p] \in Watched
          /\ ui' = poll[p] /\ polling' = TRUE /\ Show({"card"}, {"download", "restart"})
       \/ poll[p] = "ready" /\ RenderReady
       \/ poll[p] = "error" /\ RenderError
       \/ /\ poll[p] \in (Rendered \ (Watched \cup {"ready", "error"})) \cup {"other"}
          /\ RenderOther /\ UNCHANGED polling
    /\ UNCHANGED <<info, status, check, post, apply, waiting, serverVars>>

\* the error path of applyUpdate, also when the restart takes too long
ApplyFails == ui' = "ready" /\ waiting' = "no" /\ Show({"restartOn"}, {})

ApplyAnswered ==
    /\ apply \in {"done", "failed"}
    /\ apply' = "none"
    /\ \/ apply = "done" /\ waiting' = "online" /\ UNCHANGED <<ui, shown>>
       \/ apply = "failed" /\ ApplyFails
    /\ UNCHANGED <<info, polling, status, check, poll, post, serverVars>>

\* waitForRestart: a ping that is answered reloads the page, ...
Restarted == waiting # "no" /\ online /\ (waiting = "offline" \/ (info /\ updated))

\* ... one that is not is noted, and there is a deadline
Ping ==
    /\ waiting # "no"
    /\ \/ /\ ~online /\ waiting' = "offline"
          /\ UNCHANGED <<ui, info, shown, polling, status, check, poll, post, apply>>
       \/ /\ ApplyFails
          /\ UNCHANGED <<info, polling, status, check, poll, post, apply>>
    /\ UNCHANGED serverVars

Page ==
    \/ StatusAnswered \/ FirstCheck \/ PostAnswered \/ PollFires \/ ApplyAnswered \/ Ping
    \/ \E c \in Checks : CheckAnswered(c)
    \/ \E p \in Polls : PollAnswered(p)

-------------------------------------------------------------------------------
(* The user *)

ManualCheck ==
    /\ "check" \in shown /\ MayCheck /\ SendCheck
    /\ UNCHANGED <<info, polling, status, poll, post, apply, waiting>>

ShowAvailable ==
    /\ "pill" \in shown /\ info
    /\ shown' = Available(shown)
    /\ UNCHANGED <<ui, info, polling, requests>>

ClickDownload ==
    /\ {"card", "download", "downloadOn"} \subseteq shown /\ info /\ post = "none"
    /\ ui' = "downloading" /\ post' = "sent"
    /\ Show({}, {"downloadOn", "pill"})
    /\ UNCHANGED <<info, polling, status, check, poll, apply, waiting>>

ClickRestart ==
    /\ {"card", "restart", "restartOn"} \subseteq shown /\ ui = "ready"
    /\ apply = "none" /\ waiting = "no"
    /\ ui' = "applying" /\ apply' = "sent"
    /\ Show({}, {"restartOn"})
    /\ UNCHANGED <<info, polling, status, check, poll, post, waiting>>

UpdateUser ==
    /\ ManualCheck \/ ShowAvailable \/ ClickDownload \/ ClickRestart
    /\ UNCHANGED serverVars

-------------------------------------------------------------------------------
(* The application *)

\* other states tell loadStatus as little as no answer does
ServeStatus ==
    /\ status = "sent"
    /\ status' = IF online /\ server \in Rendered \ {"error"} THEN server ELSE "failed"
    /\ UNCHANGED <<pageVars, check, poll, post, apply, waiting, serverVars>>

ServePoll(p) ==
    /\ poll[p] = "sent"
    /\ \/ online /\ poll' = [poll EXCEPT ![p] = IF server \in Rendered THEN server ELSE "other"]
       \/ poll' = [poll EXCEPT ![p] = "failed"]
    /\ UNCHANGED <<pageVars, status, check, post, apply, waiting, serverVars>>

\* the page is in a download, from its request to the end of its polls
Downloading ==
    \/ ui \in {"downloading", "verifying"} \/ polling \/ post # "none"
    \/ \E p \in Polls : poll[p] # "none"

\* beginCheck, which refuses during a download or an installation
ServeCheck(c) ==
    /\ check[c] = "sent"
    /\ \/ /\ online /\ server \notin {"downloading", "verifying", "applying"}
          /\ server' = "checking" /\ check' = [check EXCEPT ![c] = "fetching"]
       \/ /\ ~online \/ server \in {"downloading", "verifying", "applying"}
          /\ check' = [check EXCEPT ![c] = "failed"] /\ UNCHANGED server
    /\ UNCHANGED <<pageVars, status, poll, post, apply, waiting, offered, prepared, job, online,
                   updated>>

\* finishCheck or fail
EndCheck(c) ==
    /\ check[c] = "fetching"
    /\ \/ /\ check' = [check EXCEPT ![c] = IF updated THEN "uptodate" ELSE "update"]
          /\ server' = "idle" /\ offered' = ~updated /\ prepared' = FALSE
       \/ /\ check' = [check EXCEPT ![c] = "failed"]
          /\ server' = "error" /\ UNCHANGED <<offered, prepared>>
    /\ UNCHANGED <<pageVars, status, poll, post, apply, waiting, job, online, updated>>

\* StartBackgroundDownload
ServePost ==
    /\ post = "sent"
    /\ \/ /\ online /\ offered /\ server \notin {"downloading", "verifying", "applying"}
          /\ post' = "done" /\ server' = "downloading" /\ job' = "running" /\ prepared' = FALSE
       \/ /\ ~online \/ ~offered \/ server \in {"downloading", "verifying", "applying"}
          /\ post' = "failed" /\ UNCHANGED <<server, job, prepared>>
    /\ UNCHANGED <<pageVars, status, check, poll, apply, waiting, offered, online, updated>>

Job ==
    /\ \/ job = "running" /\ job' = "verifying" /\ server' = "verifying" /\ UNCHANGED prepared
       \/ job = "verifying" /\ job' = "none" /\ server' = "ready" /\ prepared' = TRUE
       \/ job # "none" /\ job' = "none" /\ server' = "error" /\ UNCHANGED prepared
       \/ /\ server = "checking" /\ \A c \in Checks : check[c] # "fetching"
          /\ server' = "error" /\ UNCHANGED <<job, prepared>>  \* the page that asked is gone
    /\ UNCHANGED <<pageVars, requests, offered, online, updated>>

\* ApplyPreparedUpdate
ServeApply ==
    /\ \/ /\ apply = "sent" /\ online /\ server = "ready" /\ prepared
          /\ apply' = "started" /\ server' = "applying"
       \/ /\ apply = "sent" /\ ~(online /\ server = "ready" /\ prepared)
          /\ apply' = "failed" /\ UNCHANGED server
       \/ /\ apply = "started"
          /\ \/ apply' = "done" /\ UNCHANGED server
             \/ apply' = "failed" /\ server' = (IF server = "applying" THEN "ready" ELSE server)
    /\ UNCHANGED <<pageVars, status, check, poll, post, waiting, offered, prepared, job, online,
                   updated>>

\* the application ends: for the update, or otherwise; what it was doing fails
Leave ==
    /\ online /\ online' = FALSE
    /\ server' = "idle" /\ offered' = FALSE /\ prepared' = FALSE /\ job' = "none"
    /\ check' = [c \in Checks |-> IF check[c] = "fetching" THEN "failed" ELSE check[c]]
    /\ apply' = (IF apply = "started" THEN "failed" ELSE apply)
    /\ UNCHANGED <<pageVars, status, poll, post, waiting, updated>>

\* the updated one answers, or the old one does
Return ==
    /\ ~online /\ online' = TRUE /\ updated' \in BOOLEAN
    /\ UNCHANGED <<pageVars, requests, server, offered, prepared, job>>

Serve ==
    \/ ServeStatus \/ ServePost \/ ServeApply \/ Job
    \/ \E c \in Checks : ServeCheck(c) \/ EndCheck(c)
    \/ \E p \in Polls : ServePoll(p)

\* loaded again, by waitForRestart or by the user
Reload == (Restarted \/ online) /\ Loaded /\ UNCHANGED serverVars

\* what the page does not guard against: a check during a download or after
\* one, and a first status that is answered after the user has begun
Overlap ==
    \/ /\ Downloading \/ prepared \/ job # "none"
       /\ server = "checking" \/ \E c \in Checks : check[c] # "none"
    \/ status \notin {"none", "over"} /\ ui # "idle"

UpdateNext ==
    \/ (Page \/ UpdateUser \/ Serve \/ Return) /\ disturbed' = (disturbed \/ Overlap')
    \/ Reload /\ disturbed' = Overlap'
    \/ Leave /\ disturbed' = TRUE

\* Answers arrive and timers fire, requests are served; neither the user nor
\* the application's comings and goings are fair.
UpdateFairness ==
    /\ \A c \in Checks :
          WF_system(CheckAnswered(c)) /\ WF_system(ServeCheck(c) \/ EndCheck(c))
    /\ \A p \in Polls :
          WF_system(PollAnswered(p)) /\ SF_system(ServePoll(p) /\ poll'[p] # "failed")
    /\ WF_system(StatusAnswered) /\ WF_system(FirstCheck)
    /\ WF_system(PostAnswered) /\ WF_system(PollFires)
    /\ WF_system(ApplyAnswered) /\ WF_system(Ping)
    /\ WF_system(ServeStatus) /\ WF_system(ServePost) /\ WF_system(ServeApply) /\ WF_system(Job)

UpdateSpec == UpdateInit /\ [][UpdateNext]_updateVars /\ UpdateFairness

-------------------------------------------------------------------------------
(* Properties *)

Quiet ==
    /\ ~polling /\ status = "none" /\ post = "none" /\ apply = "none" /\ waiting = "no"
    /\ \A c \in Checks : check[c] = "none"
    /\ \A p \in Polls : poll[p] = "none"

\* A page that shows a download watches it: a poll, its timer or the request
\* that started it is there, whatever answers and failures came in between
\* (updater.js:99-138).
DownloadIsWatched ==
    ui \in {"downloading", "verifying"} /\ ~disturbed =>
        polling \/ post # "none" \/ \E p \in Polls : poll[p] # "none"

\* What the page offers to restart into has been verified and is still there
\* (updater.js:160-172, 196-213).
RestartIsPrepared ==
    ui = "ready" /\ {"restart", "restartOn"} \subseteq shown /\ ~disturbed => prepared

\* When nothing is in flight the user can go on: look for an update, or restart
\* into one; no order of answers and failures leaves the card dead.
UpdateUsable ==
    Quiet /\ ~disturbed =>
        \/ ui \in {"idle", "available"} /\ "check" \in shown
        \/ ui = "ready" /\ {"card", "restart", "restartOn"} \subseteq shown

\* The card shows what goes on, and leaves the user a way on.
CardMatchesUpdate == UpdateTypeOK /\ DownloadIsWatched /\ RestartIsPrepared /\ UpdateUsable

\* A download that was verified is offered for a restart in the end, unless the
\* page is loaded again forever (updater.js:127-138, 160-172).
ReadyIsShown ==
    <>[][~Reload]_updateVars => []<>(server = "ready" /\ ~disturbed => ui = "ready")
===============================================================================
