\* As MCTimers.cfg, but callbacks of timers that are stopped start them again.
CONSTANTS
  r1 = r1
  r2 = r2
  t1 = t1
  t2 = t2
  Runners <- MCRunners
  Jobs <- MCTimers
  Owner <- MCOwner
  Durations = {0, 1, 2}
  EndOfTime = 3
  Kinds = {"duration"}
  CallbacksWait = FALSE
  StartWhenStopped = TRUE
  MaxDepth = 3

SYMMETRY MCSymmetry

SPECIFICATION Spec

INVARIANTS
  AssertionsHold

\* The runs of test scripts end.
CHECK_DEADLOCK FALSE
