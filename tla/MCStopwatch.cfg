\* Two conditions of any kinds on a stopwatch that is started, stopped and reset
\* at will.
CONSTANTS
  o1 = o1
  o2 = o2
  Operators <- MCOperators
  Kinds = {"==", "!=", ">", ">=", "<", "<="}
  Limits = {0, 1, 2}
  EndOfTime = 4

SYMMETRY MCSymmetry

SPECIFICATION Spec

INVARIANTS
  JobsAreSetUpOnce
  MeasuresTime
  ChangesAreNoticed

\* The test ends.
CHECK_DEADLOCK FALSE
