----------------------------- MODULE Vocabulary -----------------------------
(***************************************************************************)
(* Tokenizer.init and EnsureVocabFileContext (internal/tokenizer/          *)
(* tokenizer.go, vocab.go): tokenizers of several processes find, verify,  *)
(* download and load one vocabulary file in the user's cache directory.    *)
(* The only thing they share is the file system: each downloads into a     *)
(* temporary file of its own and renames it onto the cache file.           *)
(*                                                                         *)
(* Nothing but the code and what is on disk at the start is assumed of the *)
(* cache file: no other program changes it meanwhile.  Any call may fail.  *)
(***************************************************************************)
EXTENDS Naturals, FiniteSets

CONSTANTS
    Tokenizers,
    Processes,
    ProcessOf,   \* the process of each tokenizer
    ReadFaults,  \* reading the cache file may fail
    MaxCrashes   \* bound: processes that are killed

ASSUME ProcessAssumption == ProcessOf \in [Tokenizers -> Processes]
ASSUME FaultAssumption == ReadFaults \in BOOLEAN
ASSUME CrashAssumption == MaxCrashes \in Nat

\* a file: missing, of a size that is out of range, of a plausible size with
\* other bytes, or the vocabulary
Files == {"missing", "short", "corrupt", "good"}
Encodings == {"none", "vocabulary", "upstream", "wrong"}

VARIABLES
    at,       \* program point of each tokenizer's init
    outcome,  \* "undecided" until init returns
    encoding, \* tok.t
    temp,     \* its temporary file
    cache,    \* o200k_base.tiktoken
    failure,  \* o200k_fail: "none", "fresh" or "old" (the cooldown is over)
    shared,   \* sharedEncoding of each process
    orphans,  \* temporary files of processes that were killed
    crashes

vocabularyVars == <<at, outcome, encoding, temp, cache, failure, shared, orphans, crashes>>

PC == {"shared", "stat", "verify", "remove", "cooldown", "request", "create", "stream",
       "commit", "reverify", "load", "fallback", "publish", "done"}

VocabularyTypeOK ==
    /\ at \in [Tokenizers -> PC]
    /\ outcome \in [Tokenizers -> {"undecided", "exact", "estimate"}]
    /\ encoding \in [Tokenizers -> Encodings]
    /\ temp \in [Tokenizers -> Files]
    /\ cache \in Files /\ failure \in {"none", "fresh", "old"}
    /\ shared \in [Processes -> Encodings]
    /\ orphans \in BOOLEAN /\ crashes \in 0..MaxCrashes
    /\ \A t \in Tokenizers :
        /\ at[t] \in {"publish", "done"} <=> outcome[t] # "undecided"
        /\ outcome[t] = "exact" <=> encoding[t] # "none"

VocabularyInit ==
    /\ at = [t \in Tokenizers |-> "shared"]
    /\ outcome = [t \in Tokenizers |-> "undecided"]
    /\ encoding = [t \in Tokenizers |-> "none"]
    /\ temp = [t \in Tokenizers |-> "missing"]
    /\ cache \in Files /\ failure \in {"none", "fresh", "old"}
    /\ shared = [p \in Processes |-> "none"]
    /\ orphans = FALSE /\ crashes = 0

MoveTo(t, p) == at' = [at EXCEPT ![t] = p]
MarkFailure == failure' = "fresh"

-------------------------------------------------------------------------------
(* EnsureVocabFileContext *)

\* os.MkdirAll may fail; os.Stat: only a file of a plausible size is read
PlausibleSize(file) == file \in {"good", "corrupt"}
Stat(t) ==
    /\ at[t] = "stat"
    /\ \/ MoveTo(t, "fallback")
       \/ MoveTo(t, IF PlausibleSize(cache) THEN "verify" ELSE "cooldown")
    /\ UNCHANGED <<outcome, encoding, temp, cache, failure, shared, orphans, crashes>>

SizeIsEnough(file) == PlausibleSize(file)  \* Fault: no digest is computed
\* verifySHA256; the file may be unreadable
Verified(file) == file = "good"
Verify(t) ==
    /\ at[t] = "verify"
    /\ \/ Verified(cache) /\ MoveTo(t, "load")
       \/ (~Verified(cache) \/ ReadFaults) /\ MoveTo(t, "remove")
    /\ UNCHANGED <<outcome, encoding, temp, cache, failure, shared, orphans, crashes>>

\* os.Remove with its error ignored: whatever the file is by now
RemoveCache(t) ==
    /\ at[t] = "remove"
    /\ cache' \in {cache, "missing"}
    /\ MoveTo(t, "cooldown")
    /\ UNCHANGED <<outcome, encoding, temp, failure, shared, orphans, crashes>>

\* no request for ten minutes after a failure
Cooldown(t) ==
    /\ at[t] = "cooldown"
    /\ MoveTo(t, IF failure = "fresh" THEN "fallback" ELSE "request")
    /\ UNCHANGED <<outcome, encoding, temp, cache, failure, shared, orphans, crashes>>

\* the response: an error, a bad status, an announced size out of range, or a body
Request(t) ==
    /\ at[t] = "request"
    /\ \/ MarkFailure /\ MoveTo(t, "fallback")
       \/ MoveTo(t, "create") /\ UNCHANGED failure
    /\ UNCHANGED <<outcome, encoding, temp, cache, shared, orphans, crashes>>

\* os.CreateTemp: a name of its own
CreateTemp(t) ==
    /\ at[t] = "create"
    /\ \/ MoveTo(t, "fallback") /\ UNCHANGED temp
       \/ temp' = [temp EXCEPT ![t] = "short"] /\ MoveTo(t, "stream")
    /\ UNCHANGED <<outcome, encoding, cache, failure, shared, orphans, crashes>>

\* the deferred clean-up of a download that was not committed
Discard(t) == temp' = [temp EXCEPT ![t] = "missing"]

\* the body is complete and its digest right; or it is not, which starts the
\* cooldown; or sync or close fails, which does not
Stream(t) ==
    /\ at[t] = "stream"
    /\ \E received \in {"short", "corrupt", "good"} :
        \/ /\ ~Verified(received)
           /\ MarkFailure /\ Discard(t) /\ MoveTo(t, "fallback")
        \/ /\ Verified(received)
           /\ Discard(t) /\ MoveTo(t, "fallback") /\ UNCHANGED failure
        \/ /\ Verified(received)
           /\ temp' = [temp EXCEPT ![t] = received]
           /\ MoveTo(t, "commit") /\ UNCHANGED failure
    /\ UNCHANGED <<outcome, encoding, cache, shared, orphans, crashes>>

\* os.Rename; it may fail, as onto a file that another instance has open
Commit(t) ==
    /\ at[t] = "commit"
    /\ \/ /\ cache' = temp[t] /\ Discard(t) /\ failure' = "none"
          /\ MoveTo(t, "load")
       \/ /\ MoveTo(t, "reverify")
          /\ UNCHANGED <<temp, cache, failure>>
    /\ UNCHANGED <<outcome, encoding, shared, orphans, crashes>>

\* Fault: the error return leaves the temporary file
ReverifyKeepingTemp(t) ==
    /\ at[t] = "reverify"
    /\ \/ /\ Verified(cache) /\ failure' = "none"
          /\ MoveTo(t, "load") /\ Discard(t)
       \/ /\ MoveTo(t, "fallback") /\ UNCHANGED <<failure, temp>>
    /\ UNCHANGED <<outcome, encoding, cache, shared, orphans, crashes>>

\* the file another instance may have put there meanwhile
Reverify(t) ==
    /\ at[t] = "reverify"
    /\ \/ /\ Verified(cache) /\ failure' = "none"
          /\ MoveTo(t, "load")
       \/ /\ MoveTo(t, "fallback") /\ UNCHANGED failure
    /\ Discard(t)
    /\ UNCHANGED <<outcome, encoding, cache, shared, orphans, crashes>>

-------------------------------------------------------------------------------
(* init *)

Use(t, enc) ==
    /\ outcome' = [outcome EXCEPT ![t] = "exact"] /\ encoding' = [encoding EXCEPT ![t] = enc]

\* the encoding another tokenizer of the process has published
UseShared(t) ==
    /\ at[t] = "shared"
    /\ \/ /\ shared[ProcessOf[t]] # "none"
          /\ Use(t, shared[ProcessOf[t]]) /\ MoveTo(t, "done")
       \/ /\ shared[ProcessOf[t]] = "none"
          /\ MoveTo(t, "stat") /\ UNCHANGED <<outcome, encoding>>
    /\ UNCHANGED <<temp, cache, failure, shared, orphans, crashes>>

\* loadTiktokenRanks passes over lines it cannot read: what is read need not be
\* the vocabulary
Ranks(file) == IF file = "good" THEN "vocabulary" ELSE "wrong"

\* the ranks and NewCoreBPE, from the name that was verified
Load(t) ==
    /\ at[t] = "load"
    /\ \/ /\ PlausibleSize(cache)
          /\ Use(t, Ranks(cache))
          /\ MoveTo(t, "publish")
       \/ /\ MoveTo(t, "fallback") /\ UNCHANGED <<outcome, encoding>>
    /\ UNCHANGED <<temp, cache, failure, shared, orphans, crashes>>

\* tiktoken.GetEncoding, from the library's own cache or download; else counts
\* are estimated
Fallback(t) ==
    /\ at[t] = "fallback"
    /\ \/ Use(t, "upstream") /\ MoveTo(t, "publish")
       \/ /\ outcome' = [outcome EXCEPT ![t] = "estimate"] /\ MoveTo(t, "done")
          /\ UNCHANGED encoding
    /\ UNCHANGED <<temp, cache, failure, shared, orphans, crashes>>

\* publishSharedEncoding: the first one stays
Published(old, new) == IF old = "none" THEN new ELSE old
PublishShared(t) ==
    /\ at[t] = "publish"
    /\ shared' = [shared EXCEPT ![ProcessOf[t]] = Published(@, encoding[t])]
    /\ MoveTo(t, "done")
    /\ UNCHANGED <<outcome, encoding, temp, cache, failure, orphans, crashes>>

-------------------------------------------------------------------------------

InitStep(t) ==
    \/ UseShared(t) \/ Stat(t) \/ Verify(t) \/ RemoveCache(t) \/ Cooldown(t)
    \/ Request(t) \/ CreateTemp(t) \/ Stream(t) \/ Commit(t) \/ Reverify(t)
    \/ Load(t) \/ Fallback(t) \/ PublishShared(t)

\* ten minutes pass
CooldownEnds ==
    /\ failure = "fresh" /\ failure' = "old"
    /\ UNCHANGED <<at, outcome, encoding, temp, cache, shared, orphans, crashes>>

\* a process is killed and started again; its temporary files stay behind
Crash(p) ==
    LET own == {t \in Tokenizers : ProcessOf[t] = p} IN
    /\ crashes < MaxCrashes /\ crashes' = crashes + 1
    /\ at' = [t \in Tokenizers |-> IF t \in own THEN "shared" ELSE at[t]]
    /\ outcome' = [t \in Tokenizers |-> IF t \in own THEN "undecided" ELSE outcome[t]]
    /\ encoding' = [t \in Tokenizers |-> IF t \in own THEN "none" ELSE encoding[t]]
    /\ temp' = [t \in Tokenizers |-> IF t \in own THEN "missing" ELSE temp[t]]
    /\ orphans' = (orphans \/ \E t \in own : temp[t] # "missing")
    /\ shared' = [shared EXCEPT ![p] = "none"]
    /\ UNCHANGED <<cache, failure>>

Settled == \A t \in Tokenizers : at[t] = "done"
\* every tokenizer has been initialized
Rest == Settled /\ UNCHANGED vocabularyVars

VocabularyNext ==
    \/ \E t \in Tokenizers : InitStep(t)
    \/ CooldownEnds \/ (\E p \in Processes : Crash(p)) \/ Rest

VocabularySpec == VocabularyInit /\ [][VocabularyNext]_vocabularyVars

-------------------------------------------------------------------------------
(* Properties *)

\* A tokenizer that counts exactly does so with the verified vocabulary or with
\* the library's own: the file is read again after it was verified, and every
\* instance may have removed or replaced it in between (vocab.go:47-56, 118-125,
\* tokenizer.go:96-118).  Mode: "the verified o200k_base encoder is ready".
ExactIsVerified == \A t \in Tokenizers : encoding[t] # "wrong"

\* Whatever the instances do at once, a cache file is only ever replaced by a
\* verified one (vocab.go:107-118).
OnlyVerifiedIsCommitted == [][cache' # cache => cache' \in {"good", "missing"}]_vocabularyVars

\* A process does not change the encoding its later tokenizers share, so they
\* count alike (tokenizer.go:134-140).
SharedIsStable ==
    [][\A p \in Processes : shared[p] # "none" /\ crashes' = crashes
            => shared'[p] = shared[p]]_vocabularyVars

\* An init that returned has left no temporary file, on any of its error
\* returns (vocab.go:84-89).
NoTempLeft ==
    \A t \in Tokenizers : temp[t] # "missing" => at[t] \in {"stream", "commit", "reverify"}

\* What a tokenizer counts with and leaves behind, and what no step may do.
VocabularyIsSound == VocabularyTypeOK /\ ExactIsVerified /\ NoTempLeft
VocabularySteps == OnlyVerifiedIsCommitted /\ SharedIsStable

\* "EnsureVocabFileContext retrieves the vocabulary into a verified atomic
\* cache." (vocab.go:39): once the verified file is in place it stays.  An
\* instance that found the old file corrupt may remove the new one.
VerifiedStays == [][cache = "good" => cache' = "good"]_vocabularyVars
===============================================================================
