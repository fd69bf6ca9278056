----------------------------- MODULE TokenCache -----------------------------
(***************************************************************************)
(* One Tokenizer: calls of CountTokens and Mode by several goroutines over *)
(* the LRU cache of counts (internal/tokenizer/cache.go) and the single    *)
(* initialization that decides whether counts are exact or estimated       *)
(* (tokenizer.go).  How an initialization ends is modelled in Vocabulary.  *)
(*                                                                         *)
(* The map and the recency list of the cache are `entries' and `recency';  *)
(* the eviction loop runs step by step under the mutex.  The history       *)
(* variable `answers' collects the counts returned for some of the texts.   *)
(***************************************************************************)
EXTENDS Integers, Sequences

CONSTANTS
    Goroutines,
    Texts,       \* non-empty texts; CountTokens("") touches nothing
    Size,        \* their lengths
    CountIn,     \* the count of a text in each mode
    MaxBytes, MaxEntries,  \* the limits of the cache
    MaxCached,   \* maxCachedTextBytes
    Modes,       \* how the initialization may end
    Watched,     \* the texts whose counts are collected
    Nil

ASSUME TextsAssumption == Size \in [Texts -> Nat \ {0}]
ASSUME WatchedAssumption == Watched \subseteq Texts
ASSUME ModesAssumption == Modes \subseteq {"exact", "estimate"}
ASSUME CountsAssumption == CountIn \in [{"exact", "estimate"} -> [Texts -> Nat]]
ASSUME LimitsAssumption == MaxBytes \in Nat /\ MaxEntries \in Nat /\ MaxCached \in Nat
ASSUME NilAssumption == Nil \notin Texts \cup Goroutines

VARIABLES
    pc,       \* program point of each goroutine
    text,     \* the text it counts, or Nil when it asks for the mode
    counted,  \* the count it computed
    once,     \* initOnce: "no", "running" or "done"
    mode,
    entries,  \* the keys of the map
    recency,  \* the list, most recently used first
    bytes,
    mutex,    \* the goroutine that holds the mutex between two steps, or Nil
    answers   \* history: counts returned

callVars == <<pc, text, counted>>
cacheVars == <<entries, recency, bytes, mutex>>
tokenVars == <<callVars, once, mode, cacheVars, answers>>

Entry == [text : Texts, count : Nat, size : Nat]

TokenTypeOK ==
    /\ pc \in [Goroutines -> {"idle", "get", "ensure", "init", "count", "add", "evict"}]
    /\ text \in [Goroutines -> Texts \cup {Nil}]
    /\ counted \in [Goroutines -> Nat]
    /\ once \in {"no", "running", "done"} /\ mode \in {"exact", "estimate"}
    /\ entries \subseteq Texts /\ recency \in Seq(Entry)
    /\ bytes \in Int
    /\ mutex \in Goroutines \cup {Nil}
    /\ answers \in [Watched -> SUBSET Nat]
    /\ \A g \in Goroutines :
        /\ mutex = g <=> pc[g] = "evict"
        /\ pc[g] \in {"get", "count", "add", "evict"} => text[g] # Nil
        /\ pc[g] = "init" => once = "running"
        /\ pc[g] \in {"count", "add", "evict"} => once = "done"

\* NewTokenizer, or NewEstimator, which uses up initOnce
TokenInit ==
    /\ pc = [g \in Goroutines |-> "idle"]
    /\ text = [g \in Goroutines |-> Nil]
    /\ counted = [g \in Goroutines |-> 0]
    /\ once \in {"no", "done"} /\ mode = "estimate"
    /\ entries = {} /\ recency = <<>> /\ bytes = 0 /\ mutex = Nil
    /\ answers = [t \in Watched |-> {}]

Goto(g, p) == pc' = [pc EXCEPT ![g] = p]
Answer(g, count) ==
    /\ answers' = [t \in Watched |-> IF t = text[g] THEN answers[t] \cup {count} ELSE answers[t]]
    /\ Goto(g, "idle")

-------------------------------------------------------------------------------
(* countCache *)

\* list.MoveToFront of the i-th element of s, and list.PushFront
MoveToFront(s, i) ==
    [j \in DOMAIN s |-> IF j = 1 THEN s[i] ELSE IF j <= i THEN s[j - 1] ELSE s[j]]
PushFront(s, e) ==
    [j \in 1..(Len(s) + 1) |-> IF j = 1 THEN e ELSE s[j - 1]]

\* get
Get(g) ==
    /\ pc[g] = "get" /\ mutex = Nil
    /\ \/ /\ text[g] \in entries
          /\ \E i \in DOMAIN recency :
                /\ recency[i].text = text[g]
                /\ Answer(g, recency[i].count)
                /\ recency' = MoveToFront(recency, i)
       \/ /\ text[g] \notin entries
          /\ Goto(g, "ensure")
          /\ UNCHANGED <<recency, answers>>
    /\ UNCHANGED <<text, counted, once, mode, entries, bytes, mutex>>

Refused(t) == MaxBytes = 0 \/ MaxEntries = 0 \/ Size[t] > MaxBytes

\* add: return at once, update an entry another goroutine added meanwhile, or
\* insert one and keep the mutex for the eviction
Add(g) ==
    /\ pc[g] = "add"
    /\ \/ /\ Refused(text[g])
          /\ Answer(g, counted[g])
          /\ UNCHANGED cacheVars
       \/ /\ ~Refused(text[g]) /\ mutex = Nil /\ text[g] \in entries
          /\ \E i \in DOMAIN recency :
                /\ recency[i].text = text[g]
                /\ recency' = MoveToFront([recency EXCEPT ![i].count = counted[g]], i)
          /\ Answer(g, counted[g])
          /\ UNCHANGED <<entries, bytes, mutex>>
       \/ /\ ~Refused(text[g]) /\ mutex = Nil /\ text[g] \notin entries
          /\ recency' = PushFront(recency, [text |-> text[g], count |-> counted[g],
                                            size |-> Size[text[g]]])
          /\ entries' = entries \cup {text[g]}
          /\ bytes' = bytes + Size[text[g]]
          /\ mutex' = g
          /\ Goto(g, "evict")
          /\ UNCHANGED answers
    /\ UNCHANGED <<text, counted, once, mode>>

Over == bytes > MaxBytes \/ Len(recency) > MaxEntries

\* one round of the eviction loop, or its end
Evict(g) ==
    /\ pc[g] = "evict"
    /\ \/ /\ Over /\ recency # <<>>
          /\ LET oldest == recency[Len(recency)] IN
                /\ entries' = entries \ {oldest.text}
                /\ bytes' = bytes - oldest.size
          /\ recency' = SubSeq(recency, 1, Len(recency) - 1)
          /\ UNCHANGED <<pc, mutex, answers>>
       \/ /\ ~Over \/ recency = <<>>
          /\ mutex' = Nil
          /\ Answer(g, counted[g])
          /\ UNCHANGED <<entries, recency, bytes>>
    /\ UNCHANGED <<text, counted, once, mode>>

ClearKeepingBytes ==  \* Fault: the byte account is not reset
    /\ mutex = Nil
    /\ entries' = {} /\ recency' = <<>>
    /\ UNCHANGED <<callVars, once, mode, bytes, mutex, answers>>

\* clear
Clear ==
    /\ mutex = Nil
    /\ entries' = {} /\ recency' = <<>> /\ bytes' = 0
    /\ UNCHANGED <<callVars, once, mode, mutex, answers>>

-------------------------------------------------------------------------------
(* Tokenizer *)

\* CountTokens
CountTokens(g, t) ==
    /\ pc[g] = "idle"
    /\ Goto(g, "get") /\ text' = [text EXCEPT ![g] = t]
    /\ UNCHANGED <<counted, once, mode, cacheVars, answers>>

\* Mode, as the goroutine that warms the tokenizer up calls it
AskMode(g) ==
    /\ pc[g] = "idle"
    /\ Goto(g, "ensure") /\ text' = [text EXCEPT ![g] = Nil]
    /\ UNCHANGED <<counted, once, mode, cacheVars, answers>>

AfterEnsure(g) == IF text[g] = Nil THEN "idle" ELSE "count"

\* Fault: only the first caller initializes and nobody waits for it
EnsureUnlessRunning(g) ==
    /\ pc[g] = "ensure"
    /\ \/ /\ once = "no" /\ once' = "running" /\ Goto(g, "init")
       \/ /\ once # "no" /\ Goto(g, AfterEnsure(g)) /\ UNCHANGED once
    /\ UNCHANGED <<text, counted, mode, cacheVars, answers>>

\* ensureInitialized: the first caller initializes, the others wait for it
Ensure(g) ==
    /\ pc[g] = "ensure"
    /\ \/ /\ once = "no" /\ once' = "running" /\ Goto(g, "init")
       \/ /\ once = "done" /\ Goto(g, AfterEnsure(g)) /\ UNCHANGED once
    /\ UNCHANGED <<text, counted, mode, cacheVars, answers>>

\* init returns, and Once.Do with it
InitDone(g) ==
    /\ pc[g] = "init"
    /\ once' = "done" /\ mode' \in Modes
    /\ Goto(g, AfterEnsure(g))
    /\ UNCHANGED <<text, counted, cacheVars, answers>>

\* CountTokensUncached after ensureInitialized; long texts are not cached
Count(g) ==
    /\ pc[g] = "count"
    /\ counted' = [counted EXCEPT ![g] = CountIn[mode][text[g]]]
    /\ \/ /\ Size[text[g]] <= MaxCached
          /\ Goto(g, "add") /\ UNCHANGED answers
       \/ /\ Size[text[g]] > MaxCached
          /\ Answer(g, CountIn[mode][text[g]])
    /\ UNCHANGED <<text, once, mode, cacheVars>>

TokenStep(g) == Get(g) \/ Add(g) \/ Evict(g) \/ Ensure(g) \/ InitDone(g) \/ Count(g)

TokenNext ==
    \/ \E g \in Goroutines : TokenStep(g) \/ AskMode(g) \/ \E t \in Texts : CountTokens(g, t)
    \/ Clear

TokenSpec == TokenInit /\ [][TokenNext]_tokenVars

-------------------------------------------------------------------------------
(* Properties *)

\* The map and the list hold the same texts, each once: no entry is reachable
\* by one and forgotten by the other, in whatever order goroutines look up, add
\* the same text and clear (cache.go:34-82).
MapMatchesList ==
    /\ entries = {recency[i].text : i \in DOMAIN recency}
    /\ \A i, j \in DOMAIN recency : recency[i].text = recency[j].text => i = j

\* The byte account is the sum of the sizes of the entries, in every state of
\* the eviction too (cache.go:61-72): else the limit drifts as texts come and go.
BytesAccounted ==
    LET sum[n \in 0..Len(recency)] == IF n = 0 THEN 0 ELSE sum[n - 1] + recency[n].size
    IN bytes = sum[Len(recency)]

\* The entry limit holds whenever the mutex is free, and is exceeded by one
\* entry at most before the eviction ("Token cache entries are bounded",
\* ARCHITECTURE.md:55).
EntriesBounded ==
    /\ Len(recency) <= MaxEntries + 1
    /\ mutex = Nil => Len(recency) <= MaxEntries

\* So does the byte limit; and the text that was just added survives the
\* eviction it causes (cache.go:44, 64).
BytesBounded ==
    /\ mutex = Nil => bytes <= MaxBytes
    /\ \A g \in Goroutines : pc[g] = "evict" => text[g] \in entries

\* A text has one count as long as the process runs: a count taken before the
\* initialization was decided is neither returned nor cached, whoever runs the
\* initialization and whoever waits for it (tokenizer.go:82-92, 144-170).
OneCountPerText == \A t \in Watched : \A m, n \in answers[t] : m = n

\* Map, list and account agree, and both limits hold.
CacheIsConsistent ==
    TokenTypeOK /\ MapMatchesList /\ BytesAccounted /\ EntriesBounded /\ BytesBounded
===============================================================================
