----------------------------- MODULE MCServices -----------------------------
(***************************************************************************)
(* Four parts of the application that share no state, in one run: the scan *)
(* of a project, the token counter with its cache, the vocabulary cache    *)
(* and the choice of an update.  A behaviour moves one of them, chosen in  *)
(* the initial state, and leaves the others as they started.               *)
(***************************************************************************)
EXTENDS MCProjectScan, MCTokenCache, MCVocabulary, MCVersions

VARIABLE part

Init ==
    /\ part \in {"scan", "tokens", "vocabulary", "versions"}
    /\ part = "scan" \/ (gitignore = [d \in Dirs |-> <<>>] /\ cancelled = FALSE)
    /\ ScanInit
    /\ part = "tokens" \/ once = "no"
    /\ TokenInit
    /\ part = "vocabulary" \/ (cache = "missing" /\ failure = "none")
    /\ VocabularyInit
    /\ part = "versions" \/ (installed = MCLadder[1] /\ latest = MCLadder[1])
    /\ VersionsInit

Next ==
    /\ UNCHANGED part
    /\ \/ /\ part = "scan" /\ ScanNext
          /\ UNCHANGED <<tokenVars, vocabularyVars, versionsVars>>
       \/ /\ part = "tokens" /\ TokenNext
          /\ UNCHANGED <<scanVars, vocabularyVars, versionsVars>>
       \/ /\ part = "vocabulary" /\ VocabularyNext
          /\ UNCHANGED <<scanVars, tokenVars, versionsVars>>
       \/ /\ part = "versions" /\ VersionsNext
          /\ UNCHANGED <<scanVars, tokenVars, vocabularyVars>>

Spec == Init /\ [][Next]_<<part, scanVars, tokenVars, vocabularyVars, versionsVars>>
===============================================================================
