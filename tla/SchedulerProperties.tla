------------------------ MODULE SchedulerProperties ------------------------
(***************************************************************************)
(* What the scheduler of modules/coro must guarantee.                      *)
(***************************************************************************)
EXTENDS Scheduler

Going == context \in {"setup", "main", "coroutine"}

Sleepers == {c \in Coroutines : call[c] = "wait" /\ isWaiting[c]}

Distinct(queue) ==
  \A i, j \in 1 .. Len(queue) : queue[i] = queue[j] => i = j

\* The coroutine's place in the scheduler is the one its suspended call and
\* its flags tell.
InItsPlace(c) ==
  /\ Queued(c) <=> \/ call[c] \in {"start", "yield"}
                   \/ call[c] = "wait" /\ ~isWaiting[c]
  /\ c \in sleepQueue <=> isInSleepQueue[c]
  /\ c \in sleepQueue => call[c] = "wait"
  /\ isWaiting[c] => call[c] = "wait"
  /\ c \in sleepQueue => isWaiting[c]
  /\ call[c] = "run" <=> Runs(c)

\* A coroutine is never in two places of the scheduler at once, nor twice in
\* one, nor in none while it could still go on.  It is running, or once in
\* the run queue, or waiting to be woken; it is in the heap only in the last
\* case, and its flag mIsInSleepQueue tells so, on which wakeup relies.  A
\* coroutine woken before its deadline that stayed in the heap would run
\* twice.
OnePlaceEach ==
  Going => Distinct(runQueue) /\ \A c \in Coroutines : InItsPlace(c)

\* mNumberOfSleepingCoroutines is exact and never wraps around, nobody is in
\* coroWait past its deadline, and one that is asleep outside the heap has no
\* deadline.  pushToSleepQueue, popFromSleepQueue, sleep and wakeup each
\* count on their own, and run() decides by the count.
SleepersAccounted ==
  Going =>
    /\ numSleeping = Cardinality(Sleepers)
    /\ \A c \in Coroutines : call[c] = "wait" => clock <= sleepUntil[c]
    /\ \A c \in Sleepers \ sleepQueue : sleepUntil[c] = EndOfEpoche

\* No PROTEST_ASSERT of Scheduler, Coroutine, LogicalClock, or of the queue
\* and heap underneath, ever fires.  The one exception is the check of run()
\* that its sleep queue is empty, when several coroutines sleep until the
\* very end of the epoche, as getNext removes only one of them.
AssertionsHold == context = "failed" => clock = EndOfEpoche

\* How run() ends: time is at the end of the epoche exactly when coroutines
\* remain that wait for ever, and otherwise all that were added have called
\* exit.  run() itself knows this only from mNumberOfSleepingCoroutines.
EndOfRunIsHonest ==
  context = "done" =>
    /\ \A c \in Coroutines : call[c] \in {"new", "exit", "wait"}
    /\ clock = EndOfEpoche <=> \E c \in Coroutines : call[c] = "wait"

\* The inductive invariant behind the four: before run() ends, time has not
\* reached the end of the epoche.
Invariant ==
  /\ TypeOK
  /\ OnePlaceEach
  /\ SleepersAccounted
  /\ AssertionsHold
  /\ EndOfRunIsHonest
  /\ Going => clock < EndOfEpoche

\* Simulated time moves only forward, and only when nothing can run.
TimeWaitsForRunnable ==
  [][clock' # clock =>
       clock' > clock /\ runQueue = <<>> /\ context # "coroutine"]_vars

\* A coroWait that times out ends exactly at its deadline, one that is woken
\* ends no later: nobody oversleeps, however much others run meanwhile.
NobodyOversleeps ==
  [][\A c \in Coroutines :
       call[c] = "wait" /\ call'[c] = "run" =>
         IF timedOut'[c]
         THEN clock' = sleepUntil[c]
         ELSE clock' = clock /\ clock <= sleepUntil[c]]_vars

\* Every coroutine in the run queue gets the CPU, even if the others yield
\* or wake each other for ever: the run queue is first-in first-out.
RunnableRuns ==
  \A c \in Coroutines : Queued(c) ~> call[c] = "run"

-----------------------------------------------------------------------------
\* The scheduler's queues, flags and counter implement SimulatedTime.
Doing(c) ==
  CASE call[c] = "new" -> "unknown"
    [] call[c] \in {"start", "yield"} -> "ready"
    [] call[c] = "run" -> "running"
    [] call[c] = "exit" -> "gone"
    [] call[c] = "wait" -> IF isWaiting[c] THEN "sleeping" ELSE "woken"

AbstractState == [c \in Coroutines |-> Doing(c)]

Simulated ==
  INSTANCE SimulatedTime
  WITH EndOfTime <- EndOfEpoche,
       now <- clock,
       state <- AbstractState,
       deadline <- sleepUntil,
       outcome <- timedOut,
       over <- ~Going

\* The scheduler keeps the promise of simulated time: see SimulatedTime.
ImplementsSimulatedTime == Simulated!Spec

=============================================================================
