\* One call of open with a timeout, two load checks, one client and one script; load checks may throw, wait() may return by itself.
CONSTANTS
  c1 = c1
  m = m
  s1 = s1
  s2 = s2
  o1 = o1
  o2 = o2
  k1 = k1
  k2 = k2
  sd = sd
  fin = fin
  NoScript = NoScript
  NoPage = NoPage
  Monitor = m
  ShutdownTask = sd
  FinishTask = fin
  Finishers <- BothFinishers
  Calls = {}
  MaxCalls = 0
  Swallow = FALSE
  UriScripts = {}
  Clients <- OneClient
  Callers <- OneCaller
  Scripts <- OneScript
  Tasks <- OneTask
  Openers <- OneOpener
  Timed <- OneOpener
  Checks <- TwoChecks
  ChecksMayFail = TRUE
  SpuriousWakeUps = TRUE
SPECIFICATION WFairSpec
INVARIANTS OpenReports ErrorsAreRoused
PROPERTIES InjectionComesFirst UndisturbedLoadingEnds QueuedScriptsResolve
CHECK_DEADLOCK FALSE
