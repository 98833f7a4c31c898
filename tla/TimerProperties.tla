--------------------------- MODULE TimerProperties ---------------------------
(***************************************************************************)
(* What runners and timers must guarantee to test code.                    *)
(***************************************************************************)
EXTENDS Timer

\* How many callbacks of the timer are executing.
Ringing(t) == Cardinality(UNION {{r} \X CallbacksOf(r, t) : r \in Runners})

\* No assertion of runner, job or timer fires.
AssertionsHold == ~failed

\* Every reference is counted once: the script's handle, the job queue's,
\* and, while the callback runs, those of the callback and of the job that
\* is not let go of yet.  A timer nobody refers to is deleted, no other.
ReferencesCounted ==
  ~failed =>
    \A t \in Timers :
      references[t] =
        (IF handle[t] THEN 1 ELSE 0) + (IF t \in queue THEN 1 ELSE 0)
          + 2 * Ringing(t)

\* Nobody sleeps past a job, past the end of its wait, or with its condition
\* fulfilled or its token given.  A token that is released while its waiter
\* executes a callback, or was woken by a job already, is not given to anybody
\* (semaphore.cpp:97, runner_raw.cpp:243): that wait goes on.
NobodySleepsTooLong ==
  ~failed =>
    \A r \in Runners : state[r] = "sleeping" =>
      /\ deadline[r] <= Top(r).end
      /\ \A t \in JobsOf(r) : deadline[r] <= due[t]
      /\ ~(condition[r] /\ fulfilled[r])
      /\ Top(r).token # "given"

\* A wait returns when its time is over, or for what it waits for.
WaitEndsForAReason ==
  [][\A r \in Runners : InWait(r) /\ Len(stack'[r]) < Len(stack[r]) =>
       \/ now = Top(r).end
       \/ Top(r).kind = "condition" /\ fulfilled[r]
       \/ Top(r).kind = "token" /\ Top(r).token = "given"]_vars

Alarms ==
  INSTANCE AlarmClock
  WITH Off <- EndOfTime,
       alarm <- [t \in Timers |-> IF t \in queue THEN due[t] ELSE EndOfTime],
       ringing <- [t \in Timers |-> Ringing(t)]

\* The runners and their timers are an alarm clock: see AlarmClock.
ImplementsAlarmClock == Alarms!Spec

=============================================================================
