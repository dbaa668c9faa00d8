\* Two threads call everything, submit and finish; tasks may swallow interrupts.
CONSTANTS
  Callers = {c1, c2}
  Tasks = {t1, t2, f}
  Finishers = {f}
  Calls <- AllMethods
  MaxCalls = 3
  Swallow = TRUE
SPECIFICATION Spec
INVARIANTS TypeOK NoOvertaking FinishDrains
PROPERTY ImplementsSerialExecutor
CHECK_DEADLOCK FALSE
