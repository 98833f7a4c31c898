\* One condition, stopwatch < limit, with the promise of the documentation.
CONSTANTS
  o1 = o1
  o2 = o2
  Operators <- MCOperators
  Kinds = {"<"}
  Limits = {1, 2}
  EndOfTime = 4

SPECIFICATION Spec

INVARIANTS
  ChangesAreSeenAtOnce

CHECK_DEADLOCK FALSE
