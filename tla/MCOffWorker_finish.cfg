\* One thread starts, shuts down and finishes the worker and submits tasks;
\* tasks leave interrupts to the runner.
CONSTANTS
  Callers = {c1}
  Tasks = {t1, t2, f}
  Finishers = {f}
  Calls <- AllButPause
  MaxCalls = 3
  Swallow = FALSE
SPECIFICATION FairSpec
INVARIANT NothingAfterFinish
PROPERTIES FinishStopsRunner TasksComplete ShutdownIsFinal ShutdownStopsRunner
CHECK_DEADLOCK FALSE
