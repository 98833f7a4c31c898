\* Every kind of wait, with a timer that expires during it.
CONSTANTS
  r1 = r1
  r2 = r2
  t1 = t1
  t2 = t2
  Runners <- MCRunners
  Jobs <- MCOneTimer
  Owner <- MCOwner
  Durations = {1, 2}
  EndOfTime = 3
  Kinds = {"duration", "condition", "token"}
  CallbacksWait = FALSE
  StartWhenStopped = FALSE
  MaxDepth = 3

SPECIFICATION Spec

INVARIANTS
  NobodySleepsTooLong

PROPERTIES
  WaitEndsForAReason

\* The runs of test scripts end.
CHECK_DEADLOCK FALSE
