---------------------------- MODULE SimulatedRtos ----------------------------
(***************************************************************************)
(* rtos::Semaphore, rtos::Mutex and rtos::Thread on the coroutine          *)
(* scheduler, on top of what it promises (SimulatedTime).                  *)
(*                                                                         *)
(* A semaphore keeps its waiters in a list that links them by              *)
(* Coroutine::mNext, the link of the scheduler's run queue.  A thread that *)
(* waits for a semaphore must therefore not be woken for another reason;   *)
(* here it is not: threads of the program under test have no jobs.  For    *)
(* the jobs of test runners see Runner.                                    *)
(***************************************************************************)
EXTENDS Integers, Sequences, SequencesExt, FiniteSets

CONSTANTS
  Threads,
  Semaphores,
  Mutexes,    \* the semaphores that belong to a mutex
  Durations,  \* the finite timeouts of acquire and sleep
  EndOfTime,  \* the end of the epoche; as a duration, infinity
  NoSemaphore,
  MaxCount    \* bound: the tokens that a semaphore accumulates

ASSUME ThreadsAssumption == IsFiniteSet(Threads)
ASSUME SemaphoresAssumption ==
  Mutexes \subseteq Semaphores /\ NoSemaphore \notin Semaphores
ASSUME TimeAssumption ==
  EndOfTime \in Nat \ {0} /\ Durations \subseteq 0 .. EndOfTime - 1
ASSUME MaxCountAssumption == MaxCount \in Nat \ {0}

VARIABLES
  now, state, deadline, outcome, over, \* see SimulatedTime
  count,       \* per semaphore: mCount
  waitingList, \* per semaphore: mWaitingList, first to be released first
  acquired,    \* the mutexes whose mAcquired is set
  waitsFor,    \* per thread: the semaphore that it is in acquire() of
  wakeUpEvent, \* per thread: mWakeUpEvent
  end,         \* per thread: when its wait times out
  owner,       \* history: per mutex, the threads that hold it
  failed       \* an assertion has thrown, or a link was used twice

timeVars == <<now, state, deadline, outcome, over>>
waitVars == <<waitsFor, wakeUpEvent, end>>
vars == <<timeVars, count, waitingList, acquired, waitVars, owner, failed>>

Time == INSTANCE SimulatedTime WITH Coroutines <- Threads

Times == 0 .. EndOfTime

TypeOK ==
  /\ now \in Times
  /\ state \in [Threads -> Time!States]
  /\ deadline \in [Threads -> Times]
  /\ outcome \in [Threads -> BOOLEAN]
  /\ over \in BOOLEAN
  /\ count \in [Semaphores -> Nat]
  /\ waitingList \in [Semaphores -> Seq(Threads)]
  /\ acquired \in SUBSET Mutexes
  /\ waitsFor \in [Threads -> Semaphores \cup {NoSemaphore}]
  /\ wakeUpEvent \in [Threads -> BOOLEAN]
  /\ end \in [Threads -> Times]
  /\ owner \in [Mutexes -> SUBSET Threads]
  /\ failed \in BOOLEAN

\* A mutex releases its semaphore once when it is constructed.
Init ==
  /\ Time!Init
  /\ count = [s \in Semaphores |-> IF s \in Mutexes THEN 1 ELSE 0]
  /\ waitingList = [s \in Semaphores |-> <<>>]
  /\ acquired = {}
  /\ waitsFor = [t \in Threads |-> NoSemaphore]
  /\ wakeUpEvent = [t \in Threads |-> FALSE]
  /\ end = [t \in Threads |-> 0]
  /\ owner = [m \in Mutexes |-> {}]
  /\ failed = FALSE

-----------------------------------------------------------------------------
\* The thread executes code of its own.
InCode(t) == state[t] = "running" /\ waitsFor[t] = NoSemaphore

\* Coroutine::mNext is in use: in a list of waiters, or in the run queue.
Linked(t) ==
  \/ \E s \in Semaphores : t \in ToSet(waitingList[s])
  \/ state[t] \in {"ready", "woken"}

\* When a wait that begins now is over.
Until(duration) == IF duration = EndOfTime THEN EndOfTime ELSE now + duration
InEpoche(duration) == duration = EndOfTime \/ now + duration < EndOfTime

\* The loop of waitInternal.
Doze(t, duration) ==
  IF duration > 0 THEN Time!Sleep(t, Until(duration)) ELSE UNCHANGED timeVars

\* acquire() has got a token of s: so does Mutex::acquire().
Take(t, s) ==
  /\ acquired' = acquired \cup ({s} \cap Mutexes)
  /\ owner' = [m \in Mutexes |-> IF m = s THEN owner[m] \cup {t}
                                          ELSE owner[m]]

-----------------------------------------------------------------------------
(* Threads.                                                                *)

\* Thread::start().  The first threads are started by the test's runners.
Start(t) ==
  /\ Time!Add(t)
  /\ UNCHANGED <<count, waitingList, acquired, waitVars, owner, failed>>

\* Thread::sleep(): see waitInternal.  A duration of zero does not even yield.
Sleep(t, duration) ==
  /\ InCode(t)
  /\ InEpoche(duration)
  /\ wakeUpEvent' = [wakeUpEvent EXCEPT ![t] = FALSE]
  /\ Doze(t, duration)
  /\ UNCHANGED <<count, waitingList, acquired, waitsFor, end, owner, failed>>

\* The thread gets the CPU.
Resume(t) ==
  /\ Time!Run(t) \/ Time!TimeOut(t)
  /\ UNCHANGED <<count, waitingList, acquired, waitVars, owner, failed>>

\* ThreadRunner::process() ends the coroutine after run(), which lets go of
\* what it has acquired.
Exit(t) ==
  /\ InCode(t)
  /\ \A m \in Mutexes : t \notin owner[m]
  /\ Time!Leave(t)
  /\ UNCHANGED <<count, waitingList, acquired, waitVars, owner, failed>>

-----------------------------------------------------------------------------
(* acquire().                                                              *)

\* A token is there.  No thread acquires a mutex twice.
AcquireAtOnce(t, s) ==
  /\ InCode(t)
  /\ s \in Mutexes => t \notin owner[s]
  /\ count[s] > 0
  /\ count' = [count EXCEPT ![s] = @ - 1]
  /\ Take(t, s)
  /\ UNCHANGED <<timeVars, waitingList, waitVars, failed>>

\* The runner is linked, and waits: see waitInternal.
BeginAcquire(t, s, duration) ==
  /\ InCode(t)
  /\ s \in Mutexes => t \notin owner[s]
  /\ count[s] = 0
  /\ InEpoche(duration)
  /\ waitingList' = [waitingList EXCEPT ![s] = <<t>> \o @]
  /\ failed' = Linked(t)
  /\ waitsFor' = [waitsFor EXCEPT ![t] = s]
  /\ wakeUpEvent' = [wakeUpEvent EXCEPT ![t] = FALSE]
  /\ end' = [end EXCEPT ![t] = Until(duration)]
  /\ Doze(t, duration)
  /\ UNCHANGED <<count, acquired, owner>>

\* Mutant: the thread stays in the list.
MutantGiveUp(t, s) ==
  /\ state[t] = "running"
  /\ waitsFor[t] = s
  /\ ~wakeUpEvent[t]
  /\ waitsFor' = [waitsFor EXCEPT ![t] = NoSemaphore]
  /\ end' = [end EXCEPT ![t] = 0]
  /\ UNCHANGED <<timeVars, count, waitingList, acquired, wakeUpEvent, owner,
                 failed>>

\* waitInternal returns: its time is over.
GiveUp(t, s) ==
  /\ state[t] = "running"
  /\ waitsFor[t] = s
  /\ ~wakeUpEvent[t]
  /\ waitingList' = [waitingList EXCEPT ![s] = RemoveFirst(@, t)]
  /\ failed' = (t \notin ToSet(waitingList[s]))
  /\ waitsFor' = [waitsFor EXCEPT ![t] = NoSemaphore]
  /\ end' = [end EXCEPT ![t] = 0]
  /\ UNCHANGED <<timeVars, count, acquired, wakeUpEvent, owner>>

\* waitInternal returns: release() has woken the thread.
EndAcquire(t, s) ==
  /\ state[t] = "running"
  /\ waitsFor[t] = s
  /\ wakeUpEvent[t]
  /\ Take(t, s)
  /\ waitsFor' = [waitsFor EXCEPT ![t] = NoSemaphore]
  /\ end' = [end EXCEPT ![t] = 0]
  /\ UNCHANGED <<timeVars, count, waitingList, wakeUpEvent, failed>>

-----------------------------------------------------------------------------
(* release().                                                              *)

\* Mutant: the thread takes it for the end of its time.
MutantWakeUp(t, other) == Time!Wake(t, other) /\ UNCHANGED wakeUpEvent

\* RunnerRaw::wakeup()
WakeUp(t, other) ==
  IF state[other] = "sleeping"
  THEN /\ Time!Wake(t, other)
       /\ wakeUpEvent' = [wakeUpEvent EXCEPT ![other] = TRUE]
  ELSE UNCHANGED <<timeVars, wakeUpEvent>>

\* Mutant: the token is given to a waiter, and kept.
MutantRelease(t, s) ==
  /\ InCode(t)
  /\ IF s \in Mutexes THEN t \in owner[s] ELSE count[s] < MaxCount
  /\ acquired' = acquired \ {s}
  /\ owner' = [m \in Mutexes |-> IF m = s THEN owner[m] \ {t} ELSE owner[m]]
  /\ IF waitingList[s] # <<>>
     THEN /\ waitingList' = [waitingList EXCEPT ![s] = Tail(@)]
          /\ WakeUp(t, Head(waitingList[s]))
     ELSE UNCHANGED <<timeVars, waitingList, wakeUpEvent>>
  /\ count' = [count EXCEPT ![s] = @ + 1]
  /\ UNCHANGED <<waitsFor, end, failed>>

\* Only the thread that holds a mutex releases it; anybody may release a
\* semaphore.
Release(t, s) ==
  /\ InCode(t)
  /\ IF s \in Mutexes THEN t \in owner[s] ELSE count[s] < MaxCount
  /\ acquired' = acquired \ {s}
  /\ owner' = [m \in Mutexes |-> IF m = s THEN owner[m] \ {t} ELSE owner[m]]
  /\ IF waitingList[s] # <<>>
     THEN /\ waitingList' = [waitingList EXCEPT ![s] = Tail(@)]
          /\ WakeUp(t, Head(waitingList[s]))
          /\ UNCHANGED count
     ELSE /\ count' = [count EXCEPT ![s] = @ + 1]
          /\ UNCHANGED <<timeVars, waitingList, wakeUpEvent>>
  /\ UNCHANGED <<waitsFor, end, failed>>

-----------------------------------------------------------------------------
\* The scheduler finds nothing to do any more.
End == Time!End /\ UNCHANGED <<count, waitingList, acquired, waitVars, owner,
                               failed>>

Acquire(t, s) ==
  \/ AcquireAtOnce(t, s)
  \/ \E duration \in Durations \cup {EndOfTime} : BeginAcquire(t, s, duration)
  \/ GiveUp(t, s)
  \/ EndAcquire(t, s)

Next ==
  /\ ~failed
  /\ \/ \E t \in Threads :
          \/ Start(t)
          \/ \E duration \in Durations : Sleep(t, duration)
          \/ Resume(t)
          \/ \E s \in Semaphores : Acquire(t, s) \/ Release(t, s)
          \/ Exit(t)
     \/ End

Spec == Init /\ [][Next]_vars

=============================================================================
