---------------------------- MODULE MCTokenCache ----------------------------
(* Instances of TokenCache for TLC. *)
EXTENDS TokenCache, TLC

CONSTANTS g1, g2, a1, a2, a3, big, huge, long

\* three small texts, one that displaces them all, one larger than the cache
\* and one too long to be cached
MCSize == [t \in Texts |-> IF t \in {a1, a2, a3} THEN 1
                           ELSE IF t = big THEN 3 ELSE IF t = huge THEN 4 ELSE 5]
MCCountIn == [m \in {"exact", "estimate"} |->
                [t \in Texts |-> IF m = "exact" THEN MCSize[t] ELSE MCSize[t] + 1]]
===============================================================================
