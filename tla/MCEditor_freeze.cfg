\* The user may type while a document is loaded.
CONSTANTS
  e1 = e1
  e2 = e2
  d1 = d1
  d2 = d2
  NoDoc = NoDoc
  NoEditor = NoEditor
  Editors = {e1, e2}
  Docs = {d1, d2}
  MaxRev = 2
  MaxLoads = 3
  Habits = {"settles", "queues", "refocuses", "quiet", "differs"}
SPECIFICATION Spec
INVARIANT NoDeadlock
CHECK_DEADLOCK FALSE
