\* One job and the UI thread set the source while the user edits; with and
\* without a delay, with and without listeners that throw.
CONSTANTS
  UI = UI
  Jobs = {j1}
  TimerThread = TimerThread
  NoThread = NoThread
  NoValue = NoValue
  a = a
  b = b
  Values = {a, b}
  Linked <- MCLinked
  Sources = {b}
  Notices = {"change"}
  MaxChanges = 3
  Delays = {TRUE, FALSE}
  Failures = {TRUE, FALSE}
SPECIFICATION CFairSpec
INVARIANTS NotifierTypeOK AtMostTwice LatestIsOwed
PROPERTIES SupersededNeverStarts CallersTellInOrder ChangesAreTold NewContentReachesClient
CHECK_DEADLOCK FALSE
