----------------------- MODULE SimulatedRtosProperties -----------------------
(***************************************************************************)
(* What semaphores, mutexes and threads must guarantee to the program      *)
(* under test.                                                             *)
(***************************************************************************)
EXTENDS SimulatedRtos

\* The threads that release() has woken, and that have not run yet.
Granted(s) == {t \in Threads : waitsFor[t] = s /\ wakeUpEvent[t]}
Waiters(s) == {t \in Threads : waitsFor[t] = s /\ ~wakeUpEvent[t]}

\* The list of a semaphore has its waiters, each once, so that release() finds
\* them and remove() does, too.  Nobody is linked in a list by the same pointer
\* as in the scheduler's run queue.
WaitersLinked ==
  /\ ~failed
  /\ \A s \in Semaphores :
       /\ ToSet(waitingList[s]) = Waiters(s)
       /\ Len(waitingList[s]) = Cardinality(Waiters(s))
  /\ \A t \in Threads :
       waitsFor[t] # NoSemaphore /\ ~wakeUpEvent[t] =>
         state[t] \in {"sleeping", "running"}

\* One thread at most is between acquire() and release() of a mutex, and
\* isAcquired(), which protectedBy() looks at, says whether there is one.
MutualExclusion ==
  \A m \in Mutexes :
    /\ Cardinality(owner[m]) <= 1
    /\ m \in acquired <=> owner[m] # {}

Ideal ==
  INSTANCE IdealSemaphores
  WITH Initially <- [s \in Semaphores |-> IF s \in Mutexes THEN 1 ELSE 0],
       tokens <- [s \in Semaphores |-> count[s] + Cardinality(Granted(s))],
       waiting <- waitsFor

\* Tokens are neither lost nor doubled, those that are released reach a waiter
\* before time passes, and timeouts are exact: see IdealSemaphores.
ImplementsSemaphores == Ideal!Spec

=============================================================================
