\* Five places: three levels, with a full pair of grandchildren of the root
\* on one side, and a sixth element that finds the heap full.  Three keys make
\* a chain of three levels, and elements with the same key make ties.
CONSTANTS
  e1 = e1
  e2 = e2
  e3 = e3
  e4 = e4
  e5 = e5
  e6 = e6
  Elements <- MCElements
  Key <- MCKey
  Null = Null
  N = 5

SPECIFICATION FairSpec

INVARIANTS
  TypeOK
  Linked
  Ordered
  OnlyFullThrows

PROPERTIES
  ImplementsPriorityQueue
  CallsReturn

\* Nothing follows an exception.
CHECK_DEADLOCK FALSE
