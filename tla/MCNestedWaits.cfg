\* As MCWaits.cfg, but callbacks wait.  MaxDepth: a wait in a callback in a wait.
CONSTANTS
  r1 = r1
  r2 = r2
  t1 = t1
  t2 = t2
  Runners <- MCRunners
  Jobs <- MCOneTimer
  Owner <- MCOwner
  Durations = {1, 2}
  EndOfTime = 3
  Kinds = {"duration"}
  CallbacksWait = TRUE
  StartWhenStopped = FALSE
  MaxDepth = 3

SPECIFICATION Spec

PROPERTIES
  WaitEndsForAReason

\* The runs of test scripts end.
CHECK_DEADLOCK FALSE
