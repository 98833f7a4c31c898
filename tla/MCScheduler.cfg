\* Three coroutines and a three-bit clock: int64 is three bits wide here, so
\* infinity is 3, the epoche ends at 7, and a few sleeps reach that end.
CONSTANTS
  c1 = c1
  c2 = c2
  c3 = c3
  NoCoroutine = NoCoroutine
  Coroutines <- MCCoroutines
  Infinity = 3
  Durations = {0, 1}
  MaxNumberOfThreads = 3
  CounterModulus = 65536

SPECIFICATION FairSpec

INVARIANTS
  TypeOK
  OnePlaceEach
  SleepersAccounted
  AssertionsHold
  EndOfRunIsHonest

PROPERTIES
  TimeWaitsForRunnable
  NobodyOversleeps
  ImplementsSimulatedTime
  RunnableRuns

\* run() returns.
CHECK_DEADLOCK FALSE
