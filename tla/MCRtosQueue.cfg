\* Two slots, so that the ring wraps around while it is neither full nor
\* empty; three threads, so that two can race for what the third gave back.
\* Two values are enough to tell the order of elements apart.
CONSTANTS
  t1 = t1
  t2 = t2
  t3 = t3
  a = a
  b = b
  Nobody = Nobody
  Threads <- MCThreads
  Values <- MCValues
  N = 2

SPECIFICATION FairSpec

INVARIANTS
  TypeOK
  TokensConserved
  TokenIsGood
  InsideAlone
  BlockedForAReason

PROPERTIES
  ImplementsBlockingQueue
  MutexGivenBack

\* All threads may wait for an element that nobody pushes.
CHECK_DEADLOCK FALSE
