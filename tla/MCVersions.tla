----------------------------- MODULE MCVersions -----------------------------
EXTENDS Versions

V(main, pre, t) == [main |-> main, dash |-> pre # <<>>, pre |-> pre, text |-> t]
N(n, t) == [num |-> n, text |-> t]        \* a number
W(t) == [num |-> NoNumber, text |-> t]    \* a word

\* the ranks in byte order of "01", "1", "11", "2", "alpha", "beta", "rc"
T01 == 1   T1 == 2   T11 == 3   T2 == 4   Alpha == 5   Beta == 6   RC == 7

\* 1.0.0-alpha < -alpha.1 < -alpha.beta < -beta < -beta.2 < -beta.11 < -rc.1
\* < 1.0.0 < 1.2 < 1.10.0
MCLadder ==
    << V(<<1, 0, 0>>, <<W(Alpha)>>, 1),
       V(<<1, 0, 0>>, <<W(Alpha), N(1, T1)>>, 2),
       V(<<1, 0, 0>>, <<W(Alpha), W(Beta)>>, 3),
       V(<<1, 0, 0>>, <<W(Beta)>>, 4),
       V(<<1, 0, 0>>, <<W(Beta), N(2, T2)>>, 5),
       V(<<1, 0, 0>>, <<W(Beta), N(11, T11)>>, 6),
       V(<<1, 0, 0>>, <<>>, 7),
       V(<<1, 2>>, <<>>, 8),
       V(<<1, 10, 0>>, <<>>, 9) >>

\* 1.0, 1.0.0-alpha.01, "dev", and "1.0.0-"
MCOthers ==
    { V(<<1, 0>>, <<>>, 20),
      V(<<1, 0, 0>>, <<W(Alpha), N(1, T01)>>, 21),
      V(<<NoNumber>>, <<>>, 22),
      [V(<<1, 0, 0>>, <<>>, 23) EXCEPT !.dash = TRUE] }
===============================================================================
