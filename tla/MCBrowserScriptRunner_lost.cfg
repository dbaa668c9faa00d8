\* One thread runs a script while the page becomes loaded.
CONSTANTS
  c1 = c1
  c2 = c2
  m = m
  s1 = s1
  s2 = s2
  s3 = s3
  sd = sd
  fin = fin
  NoScript = NoScript
  Monitor = m
  ShutdownTask = sd
  FinishTask = fin
  Finishers <- BothFinishers
  Calls = {}
  MaxCalls = 0
  Swallow = FALSE
  Clients <- OneClient
  Callers <- OneCaller
  Scripts <- TwoScripts
  UriScripts = {}
  Tasks <- TwoTasks
SPECIFICATION BFairSpec
PROPERTY AcceptedScriptsResolve
CHECK_DEADLOCK FALSE
