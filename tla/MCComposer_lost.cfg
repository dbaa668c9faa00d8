\* A delay, and listeners that do not throw.
CONSTANTS
  UI = UI
  Jobs = {j1}
  TimerThread = TimerThread
  NoThread = NoThread
  NoValue = NoValue
  a = a
  b = b
  Values = {a, b}
  Linked <- MCLinked
  Sources = {b}
  Notices = {"change"}
  MaxChanges = 3
  Delays = {TRUE}
  Failures = {FALSE}
SPECIFICATION CFairSpec
PROPERTY ContentReachesClient
CHECK_DEADLOCK FALSE
