------------------------------- MODULE MCBrowser -------------------------------
(* Instances of Browser: calls of open, load checks, clients and scripts.  *)
EXTENDS Browser

CONSTANTS c1, m, s1, s2, o1, o2, k1, k2, sd, fin

OneClient == {c1}
OneCaller == {c1, m}
NoClient == {}
OnlyMonitor == {m}
OneScript == {s1}
OneTask == {s1, sd, fin}
NoTask == {sd, fin}
BothFinishers == {sd, fin}
OneOpener == {o1}
TwoOpeners == {o1, o2}
OneCheck == {k1}
TwoChecks == {k1, k2}
=============================================================================
