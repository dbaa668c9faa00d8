\* The load check throws; threads go on.
CONSTANTS
  c1 = c1
  m = m
  s1 = s1
  s2 = s2
  o1 = o1
  o2 = o2
  k1 = k1
  k2 = k2
  sd = sd
  fin = fin
  NoScript = NoScript
  NoPage = NoPage
  Monitor = m
  ShutdownTask = sd
  FinishTask = fin
  Finishers <- BothFinishers
  Calls = {}
  MaxCalls = 0
  Swallow = FALSE
  UriScripts = {}
  Clients <- NoClient
  Callers <- OnlyMonitor
  Scripts = {}
  Tasks <- NoTask
  Openers <- OneOpener
  Timed <- OneOpener
  Checks <- OneCheck
  ChecksMayFail = TRUE
  SpuriousWakeUps = FALSE
SPECIFICATION WFairSpec
PROPERTY LoadingEnds
CHECK_DEADLOCK FALSE
