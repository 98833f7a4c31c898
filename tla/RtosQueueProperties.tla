------------------------ MODULE RtosQueueProperties ------------------------
(***************************************************************************)
(* What rtos::Queue must guarantee to threads that hold its mutex when     *)
(* they call push or pop.                                                  *)
(***************************************************************************)
EXTENDS RtosQueue

At(pcs) == {t \in Threads : pc[t] \in pcs}
Count(pcs) == Cardinality(At(pcs))

\* The threads that hold a token they have yet to turn into something else.
PromisedSlots == Count({"pushTaken", "pushing"})
EmptiedSlots == Count({"popPost"})
ClaimedElements == Count({"popTaken", "popping"})
FilledElements == Count({"pushPost"})

\* Every slot is accounted for: it is free for the taking, or promised to a
\* thread on its way to fill it, or filled, or emptied and about to be given
\* back; and so is every element.  The semaphores count what the ring buffer
\* will hold, ahead of it, as they are taken without the mutex.
TokensConserved ==
  /\ blockOnFull + PromisedSlots + number + EmptiedSlots = N
  /\ blockOnEmpty + ClaimedElements + FilledElements = number

\* The assertions of push and pop hold: a thread that has its token, however
\* late it gets the mutex, finds room or an element.
TokenIsGood == At({"failed"}) = {}

\* Whoever touches the buffer is alone, and holds the mutex.
InsideAlone ==
  /\ At(Inside) \subseteq {owner}
  /\ owner # Nobody => owner \in At(Inside)

\* The three that hold together, and the types of the variables.
Invariant ==
  /\ TypeOK
  /\ TokensConserved
  /\ TokenIsGood
  /\ InsideAlone

\* Threads never block each other for good: when all that are in the queue
\* wait for a semaphore, the pushing ones wait for room in a full buffer, or
\* the popping ones for an element in an empty one, not both.
BlockedForAReason ==
  At(Waits \cup {"out"}) = Threads =>
    /\ blockOnFull = 0 => number = N
    /\ blockOnEmpty = 0 => number = 0
    /\ blockOnFull > 0 \/ blockOnEmpty > 0

\* Nobody keeps the mutex while it waits: whoever has it gives it back.
MutexGivenBack == \A t \in Threads : owner = t ~> owner # t

-----------------------------------------------------------------------------
\* The elements in the ring buffer, oldest first.
Slot(i) == IF Oldest + i - 1 < N THEN Oldest + i - 1 ELSE Oldest + i - 1 - N

Content == [i \in 1 .. number |-> buffer[Slot(i)]]

Abstract ==
  INSTANCE BlockingQueue WITH Capacity <- N, content <- Content

\* The ring buffer, mutex and semaphores implement a bounded queue: each
\* value arrives once, in order, and a call that timed out had no effect.
ImplementsBlockingQueue == Abstract!Spec

=============================================================================
