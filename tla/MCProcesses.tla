----------------------------- MODULE MCProcesses -----------------------------
(***************************************************************************)
(* Four parts of the application that share no state, in one run: the pool *)
(* that counts a project, the lifecycle of the process, and the two halves *)
(* of the page, content and update.  A behaviour moves one of them, chosen *)
(* in the initial state, and leaves the others as they started.            *)
(***************************************************************************)
EXTENDS ProjectStats, Lifecycle, ContentView, UpdateView

VARIABLE part

Init ==
    /\ part \in {"stats", "lifecycle", "content", "update"}
    /\ part = "stats" \/ cancelled = FALSE
    /\ StatsInit
    /\ part = "lifecycle" \/ platform = "headless"
    /\ LifecycleInit
    /\ ContentInit
    /\ UpdateInit

Next ==
    /\ UNCHANGED part
    /\ \/ /\ part = "stats" /\ StatsNext
          /\ UNCHANGED <<lifecycleVars, contentVars, updateVars>>
       \/ /\ part = "lifecycle" /\ LifecycleNext
          /\ UNCHANGED <<statsVars, contentVars, updateVars>>
       \/ /\ part = "content" /\ ContentNext
          /\ UNCHANGED <<statsVars, lifecycleVars, updateVars>>
       \/ /\ part = "update" /\ UpdateNext
          /\ UNCHANGED <<statsVars, lifecycleVars, contentVars>>

\* the fairness of ProjectStats, Lifecycle and UpdateView, each where it moves
Fairness ==
    /\ WF_statsVars(part = "stats" /\ Producer) /\ WF_statsVars(part = "stats" /\ CloseResults)
    /\ WF_statsVars(part = "stats" /\ Sum)
    /\ \A w \in Pool : WF_statsVars(part = "stats" /\ Worker(w))
    /\ WF_lifecycleVars(part = "lifecycle" /\ Main)
    /\ WF_lifecycleVars(part = "lifecycle" /\ ServeEnds)
    /\ WF_lifecycleVars(part = "lifecycle" /\ Terminate)
    /\ \A s \in Stoppers : WF_lifecycleVars(part = "lifecycle" /\ Stop(RequestShutdown(s)))
    /\ \A c \in Checks :
          /\ WF_system(part = "update" /\ CheckAnswered(c))
          /\ WF_system(part = "update" /\ (ServeCheck(c) \/ EndCheck(c)))
    /\ \A p \in Polls :
          /\ WF_system(part = "update" /\ PollAnswered(p))
          /\ SF_system(part = "update" /\ ServePoll(p) /\ poll'[p] # "failed")
    /\ WF_system(part = "update" /\ StatusAnswered) /\ WF_system(part = "update" /\ FirstCheck)
    /\ WF_system(part = "update" /\ PostAnswered) /\ WF_system(part = "update" /\ PollFires)
    /\ WF_system(part = "update" /\ ApplyAnswered) /\ WF_system(part = "update" /\ Ping)
    /\ WF_system(part = "update" /\ ServeStatus) /\ WF_system(part = "update" /\ ServePost)
    /\ WF_system(part = "update" /\ ServeApply) /\ WF_system(part = "update" /\ Job)

Spec ==
    /\ Init /\ [][Next]_<<part, statsVars, lifecycleVars, contentVars, updateVars>>
    /\ Fairness

\* A count that moves ends (see ProjectStats).
CountingEnds == <>[](part = "stats" => Finished)
===============================================================================
