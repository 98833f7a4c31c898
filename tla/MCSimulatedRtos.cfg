\* Three threads share a mutex and a semaphore, with all timeouts.
CONSTANTS
  a = a
  b = b
  c = c
  mutex = mutex
  semaphore = semaphore
  Threads <- MCThreads
  Semaphores = {mutex, semaphore}
  Mutexes = {mutex}
  NoSemaphore = none
  Durations = {0, 1}
  EndOfTime = 3
  MaxCount = 2

SYMMETRY MCSymmetry

SPECIFICATION Spec

INVARIANTS
  WaitersLinked
  MutualExclusion

PROPERTIES
  ImplementsSemaphores

\* The program ends.
CHECK_DEADLOCK FALSE
