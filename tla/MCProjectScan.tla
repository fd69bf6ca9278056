--------------------------- MODULE MCProjectScan ---------------------------
EXTENDS ProjectScan, TLC

\* a/b/x, a/x, a/y, the link l, the excluded directory out, and x at the root
MCListing ==
    (<<>> :> << <<"a">>, <<"l">>, <<"out">>, <<"x">> >>) @@
    (<<"a">> :> << <<"a", "b">>, <<"a", "x">>, <<"a", "y">> >>) @@
    (<<"a", "b">> :> << <<"a", "b", "x">> >>) @@
    (<<"out">> :> << <<"out", "x">> >>)
MCLinks == {<<"l">>}
MCExcludedDirs == {<<"out">>}

Rule(segments, anchored, negated, directoryOnly) ==
    [segments |-> segments, anchored |-> anchored, negated |-> negated,
     directoryOnly |-> directoryOnly]

MCRules == {
    Rule(<<"x">>, FALSE, FALSE, FALSE),       \* x
    Rule(<<"x">>, FALSE, TRUE, FALSE),        \* !x
    Rule(<<"x">>, FALSE, FALSE, TRUE),        \* x/
    Rule(<<"b">>, FALSE, FALSE, TRUE),        \* b/
    Rule(<<"a">>, TRUE, TRUE, TRUE),          \* !/a/
    Rule(<<"*">>, TRUE, FALSE, FALSE),        \* /*
    Rule(<<"a", "*">>, TRUE, FALSE, FALSE),   \* a/*
    Rule(<<"b", "x">>, TRUE, TRUE, FALSE),    \* !b/x
    Rule(<<"*">>, FALSE, TRUE, TRUE) }        \* !*/

UpTo(n) == UNION {[1..k -> MCRules] : k \in 0..n}
MCIgnoreFiles ==
    {(<<>> :> top) @@ (<<"a">> :> nested) @@ (<<"a", "b">> :> <<>>) @@ (<<"out">> :> <<>>) :
        top \in UpTo(2), nested \in UpTo(1)}
===============================================================================
