\* Two editors and two documents; the user and the clients let each other finish, and the system goes on.
CONSTANTS
  e1 = e1
  e2 = e2
  d1 = d1
  d2 = d2
  NoDoc = NoDoc
  NoEditor = NoEditor
  Editors = {e1, e2}
  Docs = {d1, d2}
  MaxRev = 2
  MaxLoads = 3
  Habits = {"settles", "waits", "queues", "refocuses", "quiet", "differs"}
SPECIFICATION FairSpec
INVARIANTS EditorTypeOK OwnContentOnly OthersReflect NothingIsLost NoDeadlock
PROPERTY EditsAreStored
CHECK_DEADLOCK FALSE
