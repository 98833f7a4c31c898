\* Two timers of one runner, both runners use them.  MaxDepth: two callbacks in
\* a wait.
CONSTANTS
  r1 = r1
  r2 = r2
  t1 = t1
  t2 = t2
  Runners <- MCRunners
  Jobs <- MCTimers
  Owner <- MCOwner
  Durations = {0, 1, 2}
  EndOfTime = 3
  Kinds = {"duration"}
  CallbacksWait = FALSE
  StartWhenStopped = FALSE
  MaxDepth = 3

SYMMETRY MCSymmetry

SPECIFICATION Spec

INVARIANTS
  TypeOK
  AssertionsHold
  ReferencesCounted

PROPERTIES
  ImplementsAlarmClock

\* The runs of test scripts end.
CHECK_DEADLOCK FALSE
