----------------------------- MODULE Scheduler -----------------------------
(***************************************************************************)
(* The coroutine scheduler of modules/coro: coro::Scheduler, the calls of  *)
(* coro::Coroutine that enter it, and the logical clock it drives.         *)
(*                                                                         *)
(* Everything runs in one operating-system thread.  The CPU is either in   *)
(* a coroutine or in the scheduler's own context mMain; a coroutine leaves *)
(* the CPU only in coroYield, coroWait and coroExit, and the loop of       *)
(* Scheduler::run then picks the next one (getNext).  Simulated time moves *)
(* only there, when nothing is runnable.                                   *)
(*                                                                         *)
(* The sleep queue is a binary heap in the code.  Here it is the set of    *)
(* its members, and its top is any member with the least mSleepUntil: the  *)
(* code promises no order among equal ones.  A failing PROTEST_ASSERT      *)
(* throws out of the program; it is the context "failed".                  *)
(***************************************************************************)
EXTENDS Integers, Sequences, FiniteSets

CONSTANTS
  Coroutines,         \* the Coroutine objects
  NoCoroutine,        \* a null Coroutine*
  Infinity,           \* Duration::infinity(), the largest int64_t
  Durations,          \* the finite durations passed to coroWait
  MaxNumberOfThreads, \* Scheduler::maxNumberOfThreads, the heap's capacity
  CounterModulus      \* 2^16: mNumberOfSleepingCoroutines is a uint16_t

EndOfEpoche == 2 * Infinity + 1 \* the largest uint64_t
Times == 0 .. EndOfEpoche

ASSUME InfinityAssumption == Infinity \in Nat \ {0}
ASSUME DurationsAssumption == Durations \subseteq 0 .. Infinity - 1
ASSUME NoCoroutineAssumption == NoCoroutine \notin Coroutines
\* The scheduler is built for at most maxNumberOfThreads coroutines.
ASSUME CoroutinesAssumption ==
  /\ IsFiniteSet(Coroutines)
  /\ MaxNumberOfThreads \in Nat
  /\ Cardinality(Coroutines) <= MaxNumberOfThreads
  /\ CounterModulus \in Nat /\ MaxNumberOfThreads < CounterModulus

VARIABLES
  runQueue,       \* mRunQueue, first to run first
  sleepQueue,     \* the members of mSleepQueue
  numSleeping,    \* mNumberOfSleepingCoroutines
  clock,          \* mClock.mCurrentTime
  current,        \* mCurrent
  context,        \* whose stack is executing, or how run() ended
  call,           \* per coroutine: the call it is suspended in
  sleepUntil,     \* Coroutine::mSleepUntil
  isWaiting,      \* Coroutine::mIsWaiting
  isInSleepQueue, \* Coroutine::mIsInSleepQueue
  timedOut        \* what the coroutine's last coroWait returned

queues == <<runQueue, sleepQueue, numSleeping>>
perCoroutine == <<call, sleepUntil, isWaiting, isInSleepQueue, timedOut>>
vars == <<queues, clock, current, context, perCoroutine>>

Contexts == {"setup", "main", "coroutine", "done", "failed"}
Calls == {"new", "start", "run", "yield", "wait", "exit"}

TypeOK ==
  /\ runQueue \in Seq(Coroutines)
  /\ sleepQueue \in SUBSET Coroutines
  /\ numSleeping \in 0 .. CounterModulus - 1
  /\ clock \in Times
  /\ current \in Coroutines \cup {NoCoroutine}
  /\ context \in Contexts
  /\ call \in [Coroutines -> Calls]
  /\ sleepUntil \in [Coroutines -> Times]
  /\ isWaiting \in [Coroutines -> BOOLEAN]
  /\ isInSleepQueue \in [Coroutines -> BOOLEAN]
  /\ timedOut \in [Coroutines -> BOOLEAN]

Init ==
  /\ runQueue = <<>>
  /\ sleepQueue = {}
  /\ numSleeping = 0
  /\ clock = 0
  /\ current = NoCoroutine
  /\ context = "setup"
  /\ call = [c \in Coroutines |-> "new"]
  /\ sleepUntil = [c \in Coroutines |-> 0]
  /\ isWaiting = [c \in Coroutines |-> FALSE]
  /\ isInSleepQueue = [c \in Coroutines |-> FALSE]
  /\ timedOut = [c \in Coroutines |-> FALSE]

-----------------------------------------------------------------------------
Runs(c) == context = "coroutine" /\ current = c

InQueue(queue, c) == \E i \in 1 .. Len(queue) : queue[i] = c
Queued(c) == InQueue(runQueue, c)

\* Mutant: the woken coroutine goes to the front.
MutantPushFront(c) == runQueue' = <<c>> \o runQueue

\* Queue::push links a coroutine that is in no queue to the tail.
PushRunQueue(c) == runQueue' = Append(runQueue, c)

Incremented(n) == IF n = CounterModulus - 1 THEN 0 ELSE n + 1
Decremented(n) == IF n = 0 THEN CounterModulus - 1 ELSE n - 1

\* A PROTEST_ASSERT throws: nothing of the scheduler runs any more.
Fail ==
  /\ context' = "failed"
  /\ UNCHANGED <<queues, clock, current, perCoroutine>>

\* The last thing coroYield, coroWait and coroExit do: swap to mMain.
SwitchToMain(c, where) ==
  /\ context' = "main"
  /\ call' = [call EXCEPT ![c] = where]
  /\ UNCHANGED <<clock, current, timedOut>>

-----------------------------------------------------------------------------
(* What the program outside the loop, or the running coroutine, calls.     *)

\* Scheduler::addThread, before run() or by a coroutine that makes another.
AddThread(c) ==
  /\ context \in {"setup", "coroutine"}
  /\ call[c] = "new"
  /\ PushRunQueue(c)
  /\ call' = [call EXCEPT ![c] = "start"]
  /\ UNCHANGED <<sleepQueue, numSleeping, clock, current, context,
                 sleepUntil, isWaiting, isInSleepQueue, timedOut>>

\* coroYield
Yield(c) ==
  /\ Runs(c)
  /\ IF Queued(c)
     THEN Fail
     ELSE /\ PushRunQueue(c)
          /\ SwitchToMain(c, "yield")
          /\ UNCHANGED <<sleepQueue, numSleeping,
                         sleepUntil, isWaiting, isInSleepQueue>>

\* pushToSleepQueue refuses a coroutine that is in the heap already, one
\* that should have been awake by now, and, in Heap::push, one too many.
CanPushToSleepQueue(c, until) ==
  /\ ~isInSleepQueue[c]
  /\ until >= clock
  /\ Cardinality(sleepQueue) < MaxNumberOfThreads

\* coroWait with a finite duration.  A caller stays within the epoche.
Sleep(c, duration) ==
  LET until == clock + duration
  IN /\ Runs(c)
     /\ until <= EndOfEpoche
     /\ IF CanPushToSleepQueue(c, until)
        THEN /\ sleepUntil' = [sleepUntil EXCEPT ![c] = until]
             /\ isWaiting' = [isWaiting EXCEPT ![c] = TRUE]
             /\ isInSleepQueue' = [isInSleepQueue EXCEPT ![c] = TRUE]
             /\ sleepQueue' = sleepQueue \cup {c}
             /\ numSleeping' = Incremented(numSleeping)
             /\ SwitchToMain(c, "wait")
             /\ UNCHANGED runQueue
        ELSE Fail

\* Mutant: an infinite sleeper is not counted.
MutantSleepForeverUncounted(c) ==
  /\ Runs(c)
  /\ sleepUntil' = [sleepUntil EXCEPT ![c] = EndOfEpoche]
  /\ isWaiting' = [isWaiting EXCEPT ![c] = TRUE]
  /\ SwitchToMain(c, "wait")
  /\ UNCHANGED <<runQueue, sleepQueue, numSleeping, isInSleepQueue>>

\* coroWait(infinity): only coroWakeup ends it, so it is not in the heap.
SleepForever(c) ==
  /\ Runs(c)
  /\ sleepUntil' = [sleepUntil EXCEPT ![c] = EndOfEpoche]
  /\ isWaiting' = [isWaiting EXCEPT ![c] = TRUE]
  /\ numSleeping' = Incremented(numSleeping)
  /\ SwitchToMain(c, "wait")
  /\ UNCHANGED <<runQueue, sleepQueue, isInSleepQueue>>

\* Mutant: the woken coroutine stays in the heap.
MutantWakeupKeepsDeadline(c, thread) ==
  /\ Runs(c)
  /\ isWaiting[thread]
  /\ isWaiting' = [isWaiting EXCEPT ![thread] = FALSE]
  /\ numSleeping' = Decremented(numSleeping)
  /\ PushRunQueue(thread)
  /\ UNCHANGED <<sleepQueue, clock, current, context, call, sleepUntil,
                 isInSleepQueue, timedOut>>

\* coroWakeup of the sleeping thread by the running coroutine.  Callers
\* look at isWaiting() first (RunnerRaw::wakeup).
Wakeup(c, thread) ==
  /\ Runs(c)
  /\ isWaiting[thread]
  /\ IF thread = current \/ Queued(thread)
     THEN Fail
     ELSE /\ isWaiting' = [isWaiting EXCEPT ![thread] = FALSE]
          /\ sleepQueue' = {c2 \in sleepQueue :
                               ~(c2 = thread /\ isInSleepQueue[thread])}
          /\ isInSleepQueue' = [isInSleepQueue EXCEPT ![thread] = FALSE]
          /\ numSleeping' = Decremented(numSleeping)
          /\ PushRunQueue(thread)
          /\ UNCHANGED <<clock, current, context, call, sleepUntil, timedOut>>

\* coroExit: the coroutine never asks to run again.
Exit(c) ==
  /\ Runs(c)
  /\ SwitchToMain(c, "exit")
  /\ UNCHANGED <<queues, sleepUntil, isWaiting, isInSleepQueue>>

-----------------------------------------------------------------------------
(* The loop of Scheduler::run.                                             *)

\* Mutant: coroWait returns whether it was woken.
MutantResumeInverted(c) ==
  /\ current' = c
  /\ context' = "coroutine"
  /\ call' = [call EXCEPT ![c] = "run"]
  /\ IF call[c] = "wait"
     THEN /\ timedOut' = [timedOut EXCEPT ![c] = ~isWaiting[c]]
          /\ isWaiting' = [isWaiting EXCEPT ![c] = FALSE]
     ELSE UNCHANGED <<timedOut, isWaiting>>

\* contextSwitch: the coroutine goes on where it was suspended.  A coroWait
\* that finds mIsWaiting still set was not woken, so it timed out.
Resume(c) ==
  /\ current' = c
  /\ context' = "coroutine"
  /\ call' = [call EXCEPT ![c] = "run"]
  /\ IF call[c] = "wait"
     THEN /\ timedOut' = [timedOut EXCEPT ![c] = isWaiting[c]]
          /\ isWaiting' = [isWaiting EXCEPT ![c] = FALSE]
     ELSE UNCHANGED <<timedOut, isWaiting>>

\* The run queue comes first, at the start of run() and in getNext.
RunNext ==
  /\ context \in {"setup", "main"}
  /\ runQueue # <<>>
  /\ runQueue' = Tail(runQueue)
  /\ Resume(Head(runQueue))
  /\ UNCHANGED <<sleepQueue, numSleeping, clock, sleepUntil, isInSleepQueue>>

\* Mutant: the heap gives just any member.
MutantIsTopUnordered(c) == c \in sleepQueue

\* A possible result of mSleepQueue.peek().
IsTop(c) ==
  /\ c \in sleepQueue
  /\ \A other \in sleepQueue : sleepUntil[c] <= sleepUntil[other]

\* Mutant: the count is left alone.
MutantPopUncounted(c) ==
  /\ sleepQueue' = sleepQueue \ {c}
  /\ isInSleepQueue' = [isInSleepQueue EXCEPT ![c] = FALSE]
  /\ UNCHANGED numSleeping

\* Mutant: the flag is left alone.
MutantPopKeepsFlag(c) ==
  /\ sleepQueue' = sleepQueue \ {c}
  /\ numSleeping' = Decremented(numSleeping)
  /\ UNCHANGED isInSleepQueue

PopFromSleepQueue(c) ==
  /\ sleepQueue' = sleepQueue \ {c}
  /\ isInSleepQueue' = [isInSleepQueue EXCEPT ![c] = FALSE]
  /\ numSleeping' = Decremented(numSleeping)

\* Mutant: the clock moves by the deadline, not by the time until it.
MutantRunSleeperMovesTooFar(c) ==
  /\ context = "main"
  /\ runQueue = <<>>
  /\ IsTop(c)
  /\ sleepUntil[c] # EndOfEpoche
  /\ clock' = clock + sleepUntil[c]
  /\ PopFromSleepQueue(c)
  /\ Resume(c)
  /\ UNCHANGED <<runQueue, sleepUntil>>

\* Mutant: the deadlines come before the run queue.
MutantRunSleeperFirst(c) ==
  /\ context = "main"
  /\ IsTop(c)
  /\ sleepUntil[c] # EndOfEpoche
  /\ clock' = sleepUntil[c]
  /\ PopFromSleepQueue(c)
  /\ Resume(c)
  /\ UNCHANGED <<runQueue, sleepUntil>>

\* getNext with nothing runnable: time jumps to the earliest deadline.
RunSleeper(c) ==
  /\ context = "main"
  /\ runQueue = <<>>
  /\ IsTop(c)
  /\ sleepUntil[c] # EndOfEpoche
  /\ IF sleepUntil[c] >= clock /\ isInSleepQueue[c]
     THEN /\ clock' = clock + (sleepUntil[c] - clock)
          /\ PopFromSleepQueue(c)
          /\ Resume(c)
          /\ UNCHANGED <<runQueue, sleepUntil>>
     ELSE Fail

\* getNext meets a deadline at the end of the epoche: run() ends, and
\* checks that it leaves no coroutine behind in its queues.
ReachEndOfEpoche(c) ==
  /\ context = "main"
  /\ runQueue = <<>>
  /\ IsTop(c)
  /\ sleepUntil[c] = EndOfEpoche
  /\ clock' = EndOfEpoche
  /\ PopFromSleepQueue(c)
  /\ current' = NoCoroutine
  /\ context' = IF isInSleepQueue[c] /\ sleepQueue' = {}
                 THEN "done"
                 ELSE "failed"
  /\ UNCHANGED <<runQueue, call, sleepUntil, isWaiting, timedOut>>

\* Nothing left to run: time ends if some coroutine sleeps for ever.
AllDone ==
  /\ context \in {"setup", "main"}
  /\ runQueue = <<>>
  /\ sleepQueue = {}
  /\ clock' = IF numSleeping > 0 THEN EndOfEpoche ELSE clock
  /\ current' = NoCoroutine
  /\ context' = "done"
  /\ UNCHANGED <<queues, perCoroutine>>

-----------------------------------------------------------------------------
GiveUp(c) ==
  \/ Yield(c)
  \/ \E duration \in Durations : Sleep(c, duration)
  \/ SleepForever(c)
  \/ Exit(c)

Loop ==
  \/ RunNext
  \/ \E c \in Coroutines : RunSleeper(c) \/ ReachEndOfEpoche(c)
  \/ AllDone

Next ==
  \/ Loop
  \/ \E c \in Coroutines : GiveUp(c) \/ AddThread(c)
  \/ \E c, thread \in Coroutines : Wakeup(c, thread)

Spec == Init /\ [][Next]_vars

\* The loop never pauses, and the scheduling is cooperative: a coroutine
\* that has the CPU gives it up some time.
Fairness ==
  /\ WF_vars(Loop)
  /\ \A c \in Coroutines : WF_vars(GiveUp(c))

FairSpec == Spec /\ Fairness

=============================================================================
