------------------------ MODULE MCBrowserScriptRunner ------------------------
(* Instances of BrowserScriptRunner: the worker's callers and tasks.       *)
EXTENDS BrowserScriptRunner

CONSTANTS c1, c2, m, s1, s2, s3, sd, fin

TwoClients == {c1, c2}
TwoCallers == {c1, c2, m}
OneClient == {c1}
OneCaller == {c1, m}
TwoScripts == {s1, s2}
TwoTasks == {s1, s2, sd, fin}
ThreeScripts == {s1, s2, s3}
ThreeTasks == {s1, s2, s3, sd, fin}
BothFinishers == {sd, fin}
OneUri == {s2}
=============================================================================
