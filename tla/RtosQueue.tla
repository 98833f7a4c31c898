----------------------------- MODULE RtosQueue -----------------------------
(***************************************************************************)
(* rtos::Queue on POSIX threads: a ring buffer, a mutex that callers take  *)
(* with acquire() and give back with release(), and two semaphores.  push  *)
(* and pop are called with the mutex held; they give it up while they wait *)
(* for their semaphore and take it again before they touch the buffer.     *)
(*                                                                         *)
(* A thread's pc names the next thing it does.  The mutex and the          *)
(* semaphores are those of the system: one step each.  A wait with a       *)
(* timeout may end without the semaphore at any moment: the waiter may     *)
(* have been late for a post that raced with its deadline.                 *)
(***************************************************************************)
EXTENDS Integers, FiniteSets

CONSTANTS
  Threads,
  Nobody, \* the owner of a free mutex
  Values, \* what T can be
  N       \* the capacity

ASSUME ThreadsAssumption == IsFiniteSet(Threads) /\ Nobody \notin Threads
ASSUME CapacityAssumption == N \in Nat \ {0}
ASSUME ValuesAssumption == Values # {}

VARIABLES
  owner,        \* who holds mMutex
  blockOnEmpty, \* the count of mSemaphoreBlockOnEmpty
  blockOnFull,  \* the count of mSemaphoreBlockOnFull
  buffer,       \* mRingBuffer.mBuffer
  currentIndex, \* mRingBuffer.mCurrentIndex
  number,       \* mRingBuffer.mNumberOfElements
  pc,           \* per thread
  value         \* per thread: the variable its calls refer to

ring == <<buffer, currentIndex, number>>
vars == <<owner, blockOnEmpty, blockOnFull, ring, pc, value>>

Waits == {"pushWait", "pushTimedWait", "popWait", "popTimedWait"}
Relocks == {"pushTaken", "popTaken", "late"}
Inside == {"in", "pushing", "pushPost", "popping", "popPost"}

TypeOK ==
  /\ owner \in Threads \cup {Nobody}
  /\ blockOnEmpty \in 0 .. N
  /\ blockOnFull \in 0 .. N
  /\ buffer \in [0 .. N - 1 -> Values]
  /\ currentIndex \in 0 .. N - 1
  /\ number \in 0 .. N
  /\ pc \in [Threads -> {"out", "failed"} \cup Waits \cup Relocks \cup Inside]
  /\ value \in [Threads -> Values]

\* The constructor posts mSemaphoreBlockOnFull once for every free slot.
Init ==
  LET zero == CHOOSE v \in Values : TRUE
  IN /\ owner = Nobody
     /\ blockOnEmpty = 0
     /\ blockOnFull = N
     /\ buffer = [i \in 0 .. N - 1 |-> zero]
     /\ currentIndex = 0
     /\ number = 0
     /\ pc = [t \in Threads |-> "out"]
     /\ value = [t \in Threads |-> zero]

-----------------------------------------------------------------------------
Goto(t, next) == pc' = [pc EXCEPT ![t] = next]

\* Mutex::acquire with the mutex free.
Lock(t) ==
  /\ owner = Nobody
  /\ owner' = t

\* Mutex::release
Unlock(t) ==
  /\ owner = t
  /\ owner' = Nobody

-----------------------------------------------------------------------------
(* Queue::acquire and Queue::release                                       *)

Acquire(t) ==
  /\ pc[t] = "out"
  /\ Lock(t)
  /\ Goto(t, "in")
  /\ UNCHANGED <<blockOnEmpty, blockOnFull, ring, value>>

Release(t) ==
  /\ pc[t] = "in"
  /\ Unlock(t)
  /\ Goto(t, "out")
  /\ UNCHANGED <<blockOnEmpty, blockOnFull, ring, value>>

-----------------------------------------------------------------------------
(* Queue::push                                                             *)

\* Mutant: the mutex is kept while waiting.
MutantPush(t, v, wait) ==
  /\ pc[t] = "in"
  /\ wait \in {"pushWait", "pushTimedWait"}
  /\ value' = [value EXCEPT ![t] = v]
  /\ Goto(t, wait)
  /\ UNCHANGED <<owner, blockOnEmpty, blockOnFull, ring>>

Push(t, v, wait) ==
  /\ pc[t] = "in"
  /\ wait \in {"pushWait", "pushTimedWait"}
  /\ value' = [value EXCEPT ![t] = v]
  /\ Unlock(t)
  /\ Goto(t, wait)
  /\ UNCHANGED <<blockOnEmpty, blockOnFull, ring>>

\* Mutant: a timed wait does not count down.
MutantTakeFull(t) ==
  /\ pc[t] \in {"pushWait", "pushTimedWait"}
  /\ blockOnFull > 0
  /\ blockOnFull' = IF pc[t] = "pushWait" THEN blockOnFull - 1 ELSE blockOnFull
  /\ Goto(t, "pushTaken")
  /\ UNCHANGED <<owner, blockOnEmpty, ring, value>>

\* mSemaphoreBlockOnFull.acquire() gets its token.
TakeFull(t) ==
  /\ pc[t] \in {"pushWait", "pushTimedWait"}
  /\ blockOnFull > 0
  /\ blockOnFull' = blockOnFull - 1
  /\ Goto(t, "pushTaken")
  /\ UNCHANGED <<owner, blockOnEmpty, ring, value>>

\* Mutant: the mutex is not taken again.
MutantRelockPush(t) ==
  /\ pc[t] = "pushTaken"
  /\ Goto(t, "pushing")
  /\ UNCHANGED <<owner, blockOnEmpty, blockOnFull, ring, value>>

RelockPush(t) ==
  /\ pc[t] = "pushTaken"
  /\ Lock(t)
  /\ Goto(t, "pushing")
  /\ UNCHANGED <<blockOnEmpty, blockOnFull, ring, value>>

\* RingBuffer::push increments the count of elements unless it is full now.
RingPush(t) ==
  /\ pc[t] = "pushing"
  /\ IF number = N
     THEN /\ Goto(t, "failed")
          /\ UNCHANGED ring
     ELSE /\ buffer' = [buffer EXCEPT ![currentIndex] = value[t]]
          /\ currentIndex' = IF currentIndex = N - 1 THEN 0
                                                     ELSE currentIndex + 1
          /\ number' = number + 1
          /\ Goto(t, "pushPost")
  /\ UNCHANGED <<owner, blockOnEmpty, blockOnFull, value>>

PostEmpty(t) ==
  /\ pc[t] = "pushPost"
  /\ blockOnEmpty' = blockOnEmpty + 1
  /\ Goto(t, "in")
  /\ UNCHANGED <<owner, blockOnFull, ring, value>>

-----------------------------------------------------------------------------
(* Queue::pop                                                              *)

Pop(t, wait) ==
  /\ pc[t] = "in"
  /\ wait \in {"popWait", "popTimedWait"}
  /\ Unlock(t)
  /\ Goto(t, wait)
  /\ UNCHANGED <<blockOnEmpty, blockOnFull, ring, value>>

\* mSemaphoreBlockOnEmpty.acquire() gets its token.
TakeEmpty(t) ==
  /\ pc[t] \in {"popWait", "popTimedWait"}
  /\ blockOnEmpty > 0
  /\ blockOnEmpty' = blockOnEmpty - 1
  /\ Goto(t, "popTaken")
  /\ UNCHANGED <<owner, blockOnFull, ring, value>>

RelockPop(t) ==
  /\ pc[t] = "popTaken"
  /\ Lock(t)
  /\ Goto(t, "popping")
  /\ UNCHANGED <<blockOnEmpty, blockOnFull, ring, value>>

\* Mutant: the place that is going to be written next.
MutantOldest == currentIndex

\* Where the oldest element is: (mCurrentIndex + N - mNumberOfElements) % N.
Oldest ==
  IF currentIndex >= number THEN currentIndex - number
                            ELSE currentIndex + N - number

RingPop(t) ==
  /\ pc[t] = "popping"
  /\ IF number = 0
     THEN /\ Goto(t, "failed")
          /\ UNCHANGED <<ring, value>>
     ELSE /\ value' = [value EXCEPT ![t] = buffer[Oldest]]
          /\ number' = number - 1
          /\ Goto(t, "popPost")
          /\ UNCHANGED <<buffer, currentIndex>>
  /\ UNCHANGED <<owner, blockOnEmpty, blockOnFull>>

\* Mutant: the slot is not given back.
MutantPostFull(t) ==
  /\ pc[t] = "popPost"
  /\ Goto(t, "in")
  /\ UNCHANGED <<owner, blockOnEmpty, blockOnFull, ring, value>>

\* Mutant: the slot is given back twice.
MutantPostFullTwice(t) ==
  /\ pc[t] = "popPost"
  /\ blockOnFull' = blockOnFull + 2
  /\ Goto(t, "in")
  /\ UNCHANGED <<owner, blockOnEmpty, ring, value>>

PostFull(t) ==
  /\ pc[t] = "popPost"
  /\ blockOnFull' = blockOnFull + 1
  /\ Goto(t, "in")
  /\ UNCHANGED <<owner, blockOnEmpty, ring, value>>

-----------------------------------------------------------------------------
(* The end of a wait by its timeout, in push and in pop.                   *)

\* Mutant: the caller goes on as if it had got the token.
MutantTimeOut(t) ==
  /\ pc[t] \in {"pushTimedWait", "popTimedWait"}
  /\ Goto(t, IF pc[t] = "pushTimedWait" THEN "pushTaken" ELSE "popTaken")
  /\ UNCHANGED <<owner, blockOnEmpty, blockOnFull, ring, value>>

TimeOut(t) ==
  /\ pc[t] \in {"pushTimedWait", "popTimedWait"}
  /\ Goto(t, "late")
  /\ UNCHANGED <<owner, blockOnEmpty, blockOnFull, ring, value>>

RelockLate(t) ==
  /\ pc[t] = "late"
  /\ Lock(t)
  /\ Goto(t, "in")
  /\ UNCHANGED <<blockOnEmpty, blockOnFull, ring, value>>

-----------------------------------------------------------------------------
Pushing(t) == TakeFull(t) \/ RelockPush(t) \/ RingPush(t) \/ PostEmpty(t)
Popping(t) == TakeEmpty(t) \/ RelockPop(t) \/ RingPop(t) \/ PostFull(t)

Call(t) ==
  \/ Release(t)
  \/ \E v \in Values : \E wait \in Waits : Push(t, v, wait)
  \/ \E wait \in Waits : Pop(t, wait)

Next ==
  \E t \in Threads :
    \/ Acquire(t)
    \/ Call(t)
    \/ Pushing(t)
    \/ Popping(t)
    \/ TimeOut(t)
    \/ RelockLate(t)

Spec == Init /\ [][Next]_vars

\* Threads that can go on do so, and a caller of acquire() goes on to push,
\* pop or release.  Nothing is assumed of who gets the mutex, of acquire()
\* being called, or of the outcome of a race.
FairSpec ==
  /\ Spec
  /\ \A t \in Threads : /\ WF_vars(Call(t))
                        /\ WF_vars(Pushing(t))
                        /\ WF_vars(Popping(t))
                        /\ WF_vars(TimeOut(t))

=============================================================================
