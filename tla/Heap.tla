-------------------------------- MODULE Heap --------------------------------
(***************************************************************************)
(* utils::Heap, the binary heap behind the sleep queue of the scheduler:   *)
(* an array of pointers, where every element keeps its own position in     *)
(* mIndex so that remove() finds it without a search.                      *)
(*                                                                         *)
(* A step is one iteration of a loop of push, remove or heapify, so that   *)
(* what the loops keep true can be stated.  Nothing else runs meanwhile.   *)
(***************************************************************************)
EXTENDS Integers, FiniteSets

CONSTANTS
  Elements, \* the objects that can be pushed
  Key,      \* per element: what operator< compares.  It does not change
            \* while the element is in the heap; an object that is pushed
            \* again with another key counts as another element.
  Null,     \* nullptr
  N         \* the capacity

ASSUME CapacityAssumption == N \in Nat \ {0}
ASSUME KeyAssumption == Key \in [Elements -> Int]
ASSUME NullAssumption == Null \notin Elements

VARIABLES
  buffer, \* mBuffer
  number, \* mNumberOfElements
  index,  \* per element: mIndex
  phase,  \* the loop that is executing
  at,     \* where the loop is: n in push and heapify, current in remove
  given   \* what the last call returned, if it was pop()

vars == <<buffer, number, index, phase, at, given>>

Positions == 0 .. N - 1
Phases == {"idle", "up", "shift", "down", "failed"}

TypeOK ==
  /\ buffer \in [Positions -> Elements \cup {Null}]
  /\ number \in 0 .. N
  /\ index \in [Elements -> Positions]
  /\ phase \in Phases
  /\ at \in Positions
  /\ given \in Elements \cup {Null}

Init ==
  /\ buffer = [i \in Positions |-> Null]
  /\ number = 0
  /\ index = [e \in Elements |-> 0]
  /\ phase = "idle"
  /\ at = 0
  /\ given = Null

-----------------------------------------------------------------------------
Members == {buffer[i] : i \in Positions} \ {Null}

Parent(n) == (n - 1) \div 2
Left(n) == 2 * n + 1
Right(n) == 2 * n + 2

Occupied(n) == n < N /\ buffer[n] # Null

\* operator< of the elements at two positions.
Less(n, m) == Key[buffer[n]] < Key[buffer[m]]

Swap(n, m) ==
  /\ buffer' = [buffer EXCEPT ![n] = buffer[m], ![m] = buffer[n]]
  /\ index' = [index EXCEPT ![buffer[n]] = m, ![buffer[m]] = n]

Fail ==
  /\ phase' = "failed"
  /\ UNCHANGED <<buffer, number, index, at, given>>

-----------------------------------------------------------------------------
(* push *)

\* Mutant: one element too many.
MutantPushPastEnd(e) ==
  /\ phase = "idle"
  /\ e \notin Members
  /\ IF number <= N
     THEN /\ buffer' = [buffer EXCEPT ![number] = e]
          /\ index' = [index EXCEPT ![e] = number]
          /\ phase' = "up"
          /\ at' = number
          /\ given' = Null
          /\ UNCHANGED number
     ELSE Fail

\* Mutant: the last place is never used.
MutantPushTooEarlyFull(e) ==
  /\ phase = "idle"
  /\ e \notin Members
  /\ IF number < N - 1
     THEN /\ buffer' = [buffer EXCEPT ![number] = e]
          /\ index' = [index EXCEPT ![e] = number]
          /\ phase' = "up"
          /\ at' = number
          /\ given' = Null
          /\ UNCHANGED number
     ELSE Fail

\* The new element is put behind the last one.
Push(e) ==
  /\ phase = "idle"
  /\ e \notin Members
  /\ IF number < N
     THEN /\ buffer' = [buffer EXCEPT ![number] = e]
          /\ index' = [index EXCEPT ![e] = number]
          /\ phase' = "up"
          /\ at' = number
          /\ given' = Null
          /\ UNCHANGED number
     ELSE Fail

\* Mutant: the loop moves on only when it has swapped.
MutantSiftUp ==
  /\ phase = "up"
  /\ at > 0
  /\ IF Less(at, Parent(at))
     THEN Swap(at, Parent(at)) /\ at' = Parent(at)
     ELSE UNCHANGED <<buffer, index, at>>
  /\ UNCHANGED <<number, phase, given>>

\* The loop goes all the way to the root, in order or not.
SiftUp ==
  /\ phase = "up"
  /\ at > 0
  /\ IF Less(at, Parent(at))
     THEN Swap(at, Parent(at))
     ELSE UNCHANGED <<buffer, index>>
  /\ at' = Parent(at)
  /\ UNCHANGED <<number, phase, given>>

EndOfPush ==
  /\ phase = "up"
  /\ at = 0
  /\ number' = number + 1
  /\ phase' = "idle"
  /\ UNCHANGED <<buffer, index, at, given>>

-----------------------------------------------------------------------------
(* pop and remove *)

\* The start of heapify(0): the last element takes the place of the root.
\* With a single element both are the same, and the heap is empty after it.
Heapify ==
  /\ buffer' = [buffer EXCEPT ![0] = buffer[number - 1], ![number - 1] = Null]
  /\ index' = [index EXCEPT ![buffer[number - 1]] = 0]
  /\ number' = number - 1
  /\ phase' = "down"
  /\ at' = 0

Pop ==
  /\ phase = "idle"
  /\ number > 0
  /\ given' = buffer[0]
  /\ Heapify

\* Mutant: the larger child.
MutantSmallerChild(n) ==
  IF Occupied(Right(n)) /\ Less(Left(n), Right(n)) THEN Right(n) ELSE Left(n)

\* The smaller child goes up; the right one when they are equal.
SmallerChild(n) ==
  IF Occupied(Right(n)) /\ ~Less(Left(n), Right(n)) THEN Right(n) ELSE Left(n)

\* Mutant: always the left child.
MutantSiftDown ==
  /\ phase = "down"
  /\ IF Occupied(Left(at)) /\ Less(Left(at), at)
     THEN /\ Swap(Left(at), at)
          /\ at' = Left(at)
          /\ UNCHANGED phase
     ELSE /\ phase' = "idle"
          /\ UNCHANGED <<buffer, index, at>>
  /\ UNCHANGED <<number, given>>

SiftDown ==
  /\ phase = "down"
  /\ IF Occupied(Right(at)) /\ ~Occupied(Left(at))
     THEN Fail
     ELSE /\ IF Occupied(Left(at)) /\ Less(SmallerChild(at), at)
             THEN /\ Swap(SmallerChild(at), at)
                  /\ at' = SmallerChild(at)
                  /\ UNCHANGED phase
             ELSE /\ phase' = "idle"
                  /\ UNCHANGED <<buffer, index, at>>
          /\ UNCHANGED <<number, given>>

\* remove() believes the element's mIndex.  The scheduler calls it only for
\* an element that is in the heap (Coroutine::mIsInSleepQueue).
Remove(e) ==
  /\ phase = "idle"
  /\ e \in Members
  /\ IF index[e] >= number
     THEN Fail
     ELSE IF index[e] # 0
     THEN /\ phase' = "shift"
          /\ at' = index[e]
          /\ UNCHANGED <<buffer, number, index, given>>
     ELSE Heapify /\ given' = Null

\* Mutant: the ancestor keeps its old position.
MutantShiftDown ==
  /\ phase = "shift"
  /\ at # 0
  /\ buffer' = [buffer EXCEPT ![at] = buffer[Parent(at)]]
  /\ at' = Parent(at)
  /\ UNCHANGED <<number, index, phase, given>>

\* Each ancestor of the removed element moves one level down.
ShiftDown ==
  /\ phase = "shift"
  /\ at # 0
  /\ buffer' = [buffer EXCEPT ![at] = buffer[Parent(at)]]
  /\ index' = [index EXCEPT ![buffer[Parent(at)]] = at]
  /\ at' = Parent(at)
  /\ given' = Null
  /\ UNCHANGED <<number, phase>>

\* The root is free now: what it holds has moved to its child.
EndOfShift ==
  /\ phase = "shift"
  /\ at = 0
  /\ Heapify
  /\ UNCHANGED given

-----------------------------------------------------------------------------
Iterate == SiftUp \/ EndOfPush \/ SiftDown \/ ShiftDown \/ EndOfShift

Next ==
  \/ Iterate
  \/ Pop
  \/ \E e \in Elements : Remove(e) \/ Push(e)

Spec == Init /\ [][Next]_vars

\* A loop that has begun goes on.
FairSpec == Spec /\ WF_vars(Iterate)

-----------------------------------------------------------------------------
\* How many positions are taken: push counts its element at the end.
Taken == IF phase = "up" THEN number + 1 ELSE number

\* The position whose content is not an element's own: while remove() shifts,
\* the place the loop is at is about to be overwritten.
Hole(i) == phase = "shift" /\ i = at

\* mIndex and mBuffer are inverse to each other, and nothing is left behind
\* the last element.  remove() goes by mIndex, and heapify tells a missing
\* child by the null pointer, so both go wrong on what an earlier call left.
Linked ==
  phase # "failed" =>
    /\ \A i \in Positions : buffer[i] # Null <=> i < Taken
    /\ \A i \in Positions : i < Taken /\ ~Hole(i) => index[buffer[i]] = i

\* No element is less than its parent, except, while a loop is at work, the
\* one that climbs or the one that sinks; the relatives of that one are in
\* order with each other.
Ordered ==
  phase # "failed" =>
    \A i \in Positions : i > 0 /\ i < Taken =>
      /\ \/ ~Less(i, Parent(i))
         \/ phase = "up" /\ i = at
         \/ phase = "down" /\ Parent(i) = at
      /\ phase \in {"up", "down"} /\ Parent(i) = at /\ at > 0
           => ~Less(i, Parent(at))

\* heapify never meets a right child without a left one, and remove() never
\* a position past the end: only a push on a full heap throws.
OnlyFullThrows == phase = "failed" => number = N

\* Every call returns: the loops climb or sink all the way.
CallsReturn == phase \in {"up", "shift", "down"} ~> phase = "idle"

\* The array implements a priority queue: push, pop and remove take effect
\* when they first write to it.
Abstract ==
  INSTANCE PriorityQueue WITH Nothing <- Null, members <- Members

ImplementsPriorityQueue == Abstract!Spec

=============================================================================
