\* Two threads run three scripts, one of them by URI, while the status changes.
CONSTANTS
  c1 = c1
  c2 = c2
  m = m
  s1 = s1
  s2 = s2
  s3 = s3
  sd = sd
  fin = fin
  NoScript = NoScript
  Monitor = m
  ShutdownTask = sd
  FinishTask = fin
  Finishers <- BothFinishers
  Calls = {}
  MaxCalls = 0
  Swallow = FALSE
  Clients <- TwoClients
  Callers <- TwoCallers
  Scripts <- ThreeScripts
  UriScripts <- OneUri
  Tasks <- ThreeTasks
SPECIFICATION BSpec
INVARIANTS RunnerTypeOK WorkerNeverRefuses OrderWithinMode
PROPERTY ImplementsScriptService
CHECK_DEADLOCK FALSE
