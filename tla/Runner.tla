------------------------------- MODULE Runner -------------------------------
(***************************************************************************)
(* Runners: coroutines that execute test code and, while they wait, the    *)
(* jobs that are due.  core::RunnerRaw and core::Job, on top of what the   *)
(* scheduler promises (SimulatedTime).                                     *)
(*                                                                         *)
(* The waits and the callbacks that a runner is in are a stack of frames:  *)
(* a wait executes callbacks, and a callback may wait.  Test code is at    *)
(* the bottom of the stack; it is arbitrary, and so are callbacks.  When   *)
(* process() returns its runner waits for ever, like any other wait.       *)
(*                                                                         *)
(* This module has the waits and the job queue.  What a job does is its    *)
(* listener's business: see Timer.  Pushing to a signal, which yields, is  *)
(* left out here.                                                          *)
(***************************************************************************)
EXTENDS Integers, Sequences, FiniteSets

CONSTANTS
  Runners,
  Jobs,
  Owner,      \* per job: the runner whose queue it goes to
  Durations,  \* what waits and jobs are given
  EndOfTime,  \* the end of the epoche; as a duration, infinity
  Kinds,      \* the kinds of waits in use
  CallbacksWait, \* whether callbacks call wait
  MaxDepth    \* bound: how deep waits and callbacks nest

ASSUME RunnersAssumption == IsFiniteSet(Runners)
ASSUME JobsAssumption == IsFiniteSet(Jobs) /\ Owner \in [Jobs -> Runners]
ASSUME TimeAssumption ==
  EndOfTime \in Nat \ {0} /\ Durations \subseteq 0 .. EndOfTime - 1
ASSUME WaitsAssumption ==
  /\ Kinds \subseteq {"duration", "condition", "token"}
  /\ CallbacksWait \in BOOLEAN
  /\ MaxDepth \in Nat

VARIABLES
  now, state, deadline, outcome, over, \* see SimulatedTime
  stack,       \* per runner: its waits and callbacks, innermost last
  wakeUpEvent, \* per runner: mWakeUpEvent
  condition,   \* per runner: mCondition is not null
  fulfilled,   \* per runner: what mCondition evaluates to, if there is one
  queue,       \* the jobs in any mPriorityQueue; they are the armed ones
  due,         \* per job: mDue
  failed       \* an assertion has thrown

timeVars == <<now, state, deadline, outcome, over>>
waitVars == <<stack, wakeUpEvent, condition, fulfilled>>
jobVars == <<queue, due>>

Time == INSTANCE SimulatedTime WITH Coroutines <- Runners

Times == 0 .. EndOfTime

\* A wait is for a duration, until a condition holds, or for a token
\* (Semaphore::acquire), by which a runner stands in the waiting list of the
\* semaphore: while its token is awaited it does, with its link cut if it is in
\* the run queue too, and a token that was given or lost has taken it off.
\* timeout is what is left of the wait, startAt when it
\* fell asleep, and end when its timeout is over.
Waits ==
  [kind : {"duration", "condition", "token"}, timeout : Times,
   stage : {"check", "asleep", "drain"}, startAt : Times, end : Times,
   token : {"none", "awaited", "cut", "given", "lost"}]

\* A callback runs because its job was due in a wait, or was taken out of
\* the queue when it was due, by stop or by reset.
Callbacks ==
  [kind : {"callback"}, job : Jobs, cause : {"wait", "stop", "reset"}]

RunnerTypeOK ==
  /\ now \in Times
  /\ state \in [Runners -> Time!States]
  /\ deadline \in [Runners -> Times]
  /\ outcome \in [Runners -> BOOLEAN]
  /\ over \in BOOLEAN
  /\ stack \in [Runners -> Seq(Waits \cup Callbacks)]
  /\ wakeUpEvent \in [Runners -> BOOLEAN]
  /\ condition \in [Runners -> BOOLEAN]
  /\ fulfilled \in [Runners -> BOOLEAN]
  /\ queue \in SUBSET Jobs
  /\ due \in [Jobs -> Times]
  /\ failed \in BOOLEAN

\* Context::run starts the scheduler when all runners are added.
RunnerInit ==
  /\ now = 0
  /\ state = [r \in Runners |-> "ready"]
  /\ deadline = [r \in Runners |-> 0]
  /\ outcome = [r \in Runners |-> FALSE]
  /\ over = FALSE
  /\ stack = [r \in Runners |-> <<>>]
  /\ wakeUpEvent = [r \in Runners |-> FALSE]
  /\ condition = [r \in Runners |-> FALSE]
  /\ fulfilled = [r \in Runners |-> FALSE]
  /\ queue = {}
  /\ due = [j \in Jobs |-> 0]
  /\ failed = FALSE

-----------------------------------------------------------------------------
Top(r) == stack[r][Len(stack[r])]
InWait(r) == stack[r] # <<>> /\ Top(r).kind # "callback"
InCallback(r) == \E i \in 1 .. Len(stack[r]) : stack[r][i].kind = "callback"

\* Test code or a callback is executing.
InCode(r) == state[r] = "running" /\ ~failed /\ ~InWait(r)
\* The loop of waitInternal is executing, in the given stage.
InLoop(r, stage) ==
  state[r] = "running" /\ ~failed /\ InWait(r) /\ Top(r).stage = stage

Push(r, frame) == stack' = [stack EXCEPT ![r] = Append(@, frame)]
Pop(r) == stack' = [stack EXCEPT ![r] = SubSeq(@, 1, Len(@) - 1)]
SetTop(r, frame) == stack' = [stack EXCEPT ![r][Len(stack[r])] = frame]

\* A PROTEST_ASSERT throws.  After a step that sets failed nothing runs, and
\* what else it does makes no difference.
Fail ==
  /\ failed' = TRUE
  /\ UNCHANGED <<timeVars, waitVars, jobVars>>

\* if (isWaiting()) coroWakeup(), called by r.
WakeIfWaiting(r, other) ==
  IF state[other] = "sleeping" THEN Time!Wake(r, other) ELSE UNCHANGED timeVars

\* Bound: what is started ends before the epoche does.  Infinite durations are
\* for waits only.
InEpoche(duration) == now + duration < EndOfTime

-----------------------------------------------------------------------------
(* The job queue.                                                          *)

JobsOf(r) == {j \in queue : Owner[j] = r}

\* A possible result of mPriorityQueue.peek().
IsNext(r, j) ==
  /\ j \in JobsOf(r)
  /\ \A other \in JobsOf(r) : due[j] <= due[other]

\* Mutant: the runner sleeps on.
MutantAddJob(r, j, at) ==
  /\ queue' = queue \cup {j}
  /\ due' = [due EXCEPT ![j] = at]
  /\ UNCHANGED timeVars

\* Job::setDue and RunnerRaw::add, by the running r.
AddJob(r, j, at) ==
  /\ queue' = queue \cup {j}
  /\ due' = [due EXCEPT ![j] = at]
  /\ WakeIfWaiting(r, Owner[j])

-----------------------------------------------------------------------------
(* waitInternal                                                            *)

\* Mutant: an event of an earlier wait ends this one.
MutantWait(r, kind, duration, value) ==
  /\ InCode(r)
  /\ kind \in Kinds
  /\ InCallback(r) => CallbacksWait /\ kind # "token"
  /\ Len(stack[r]) < MaxDepth
  /\ duration = EndOfTime \/ InEpoche(duration)
  /\ Push(r, [kind |-> kind, timeout |-> duration, stage |-> "check",
              startAt |-> 0,
              token |-> IF kind = "token" THEN "awaited" ELSE "none",
              end |-> IF duration = EndOfTime THEN EndOfTime
                                              ELSE now + duration])
  /\ condition' = [condition EXCEPT ![r] = @ \/ kind = "condition"]
  /\ fulfilled' = [fulfilled EXCEPT ![r] = IF kind = "condition" THEN value
                                                                 ELSE @]
  /\ failed' = (kind = "condition" /\ condition[r])
  /\ UNCHANGED <<timeVars, wakeUpEvent, jobVars>>

\* The condition, if there is one, is enabled and has some value.  Test code
\* acquires semaphores in process(), each runner one of its own.
Wait(r, kind, duration, value) ==
  /\ InCode(r)
  /\ kind \in Kinds
  /\ InCallback(r) => CallbacksWait /\ kind # "token"
  /\ Len(stack[r]) < MaxDepth
  /\ duration = EndOfTime \/ InEpoche(duration)
  /\ Push(r, [kind |-> kind, timeout |-> duration, stage |-> "check",
              startAt |-> 0,
              token |-> IF kind = "token" THEN "awaited" ELSE "none",
              end |-> IF duration = EndOfTime THEN EndOfTime
                                              ELSE now + duration])
  /\ condition' = [condition EXCEPT ![r] = @ \/ kind = "condition"]
  /\ fulfilled' = [fulfilled EXCEPT ![r] = IF kind = "condition" THEN value
                                                                 ELSE @]
  /\ wakeUpEvent' = [wakeUpEvent EXCEPT ![r] = FALSE]
  /\ failed' = (kind = "condition" /\ condition[r])
  /\ UNCHANGED <<timeVars, jobVars>>

Draining(r, j) == InLoop(r, "drain") /\ IsNext(r, j) /\ due[j] = now

AtLoopHead(r) ==
  \/ InLoop(r, "check")
  \/ InLoop(r, "drain") /\ ~ \E j \in Jobs : Draining(r, j)

GoesOn(r) ==
  /\ Top(r).timeout > 0
  /\ ~(condition[r] /\ fulfilled[r])
  /\ ~wakeUpEvent[r]

\* When the wait is over, and when a job is due, on the runner's clock.
Deadlines(r) ==
  {due[j] : j \in JobsOf(r)} \cup
  {IF Top(r).timeout = EndOfTime THEN EndOfTime ELSE now + Top(r).timeout}

\* Mutant: the jobs are left out of account.
MutantFallAsleep(r) ==
  /\ AtLoopHead(r)
  /\ GoesOn(r)
  /\ Top(r).timeout = EndOfTime \/ InEpoche(Top(r).timeout)
  /\ Time!Sleep(r, IF Top(r).timeout = EndOfTime THEN EndOfTime
                                                 ELSE now + Top(r).timeout)
  /\ SetTop(r, [Top(r) EXCEPT !.stage = "asleep", !.startAt = now])
  /\ UNCHANGED <<wakeUpEvent, condition, fulfilled, jobVars, failed>>

FallAsleep(r) ==
  /\ AtLoopHead(r)
  /\ GoesOn(r)
  /\ Top(r).timeout = EndOfTime \/ InEpoche(Top(r).timeout)
  /\ IF \E j \in JobsOf(r) : due[j] < now
     THEN Fail
     ELSE /\ \E until \in Deadlines(r) :
               /\ \A other \in Deadlines(r) : until <= other
               /\ Time!Sleep(r, until)
          /\ SetTop(r, [Top(r) EXCEPT !.stage = "asleep", !.startAt = now])
          /\ UNCHANGED <<wakeUpEvent, condition, fulfilled, jobVars, failed>>

\* The runner gets the CPU: at first, or at the end of coroWait, whose result
\* is not looked at.  The run queue has reset its link.
Resume(r) ==
  /\ ~failed
  /\ Time!Run(r) \/ Time!TimeOut(r)
  /\ IF InWait(r)
     THEN SetTop(r, [Top(r) EXCEPT
                       !.timeout = IF @ = EndOfTime
                                   THEN @
                                   ELSE @ - (now' - Top(r).startAt),
                       !.stage = "drain", !.startAt = 0,
                       !.token = IF @ = "cut" THEN "awaited" ELSE @])
     ELSE UNCHANGED stack
  /\ UNCHANGED <<wakeUpEvent, condition, fulfilled, jobVars>>
  /\ failed' = (InWait(r) /\ Top(r).timeout < now' - Top(r).startAt)

\* A runner whose acquire() has timed out takes itself off the waiting list; it
\* must stand there.
Return(r) ==
  /\ AtLoopHead(r)
  /\ ~GoesOn(r)
  /\ Pop(r)
  /\ failed' = (/\ Top(r).kind = "token" /\ ~wakeUpEvent[r]
                /\ Top(r).token # "awaited")
  /\ condition' = [condition EXCEPT ![r] = @ /\ Top(r).kind # "condition"]
  /\ fulfilled' = [fulfilled EXCEPT ![r] = @ /\ Top(r).kind # "condition"]
  /\ UNCHANGED <<timeVars, wakeUpEvent, jobVars>>

-----------------------------------------------------------------------------
(* What the running code does to the waits of others.                      *)

\* A value changes, and notifies the condition that is enabled during a wait.
ChangeCondition(r, other, value) ==
  /\ InCode(r)
  /\ condition[other]
  /\ fulfilled' = [fulfilled EXCEPT ![other] = value]
  /\ WakeIfWaiting(r, other)
  /\ UNCHANGED <<stack, wakeUpEvent, condition, jobVars, failed>>

(* Semaphore::release takes the waiter off the waiting list and calls its  *)
(* RunnerRaw::wakeup, which does nothing unless the waiter sleeps.         *)

Awaits(r, i) ==
  /\ i \in 1 .. Len(stack[r])
  /\ stack[r][i].kind = "token" /\ stack[r][i].token = "awaited"

\* The waiter sleeps: it gets the token.
WakeUp(r, other, i) ==
  /\ InCode(r)
  /\ Awaits(other, i)
  /\ state[other] = "sleeping"
  /\ Time!Wake(r, other)
  /\ wakeUpEvent' = [wakeUpEvent EXCEPT ![other] = TRUE]
  /\ stack' = [stack EXCEPT ![other][i].token = "given"]
  /\ UNCHANGED <<condition, fulfilled, jobVars, failed>>

\* A callback that the waiter executes releases: the token is lost.
ReleaseToSelf(r, i) ==
  /\ InCode(r)
  /\ Awaits(r, i)
  /\ stack' = [stack EXCEPT ![r][i].token = "lost"]
  /\ UNCHANGED <<timeVars, wakeUpEvent, condition, fulfilled, jobVars, failed>>

\* A job or a condition has woken the waiter: it is in the run queue and in the
\* waiting list, and both go by its mNext.  The last in the run queue links to
\* itself, so that it stays in the waiting list, with its link cut; if it is cut
\* already it is taken off.  But when others follow it, they get into the waiting
\* list, the run queue ends before them, and so does the model.
ReleaseToWoken(r, other, i) ==
  /\ InCode(r)
  /\ state[other] = "woken"
  /\ i \in 1 .. Len(stack[other])
  /\ stack[other][i].kind = "token"
  /\ \E before \in {"awaited", "cut"} :
       /\ stack[other][i].token = before
       /\ stack' = [stack EXCEPT ![other][i].token =
                       IF before = "awaited" THEN "cut" ELSE "lost"]
  /\ failed' \in {FALSE, \E x \in Runners \ {other} : state[x] \in {"ready", "woken"}}
  /\ UNCHANGED <<timeVars, wakeUpEvent, condition, fulfilled, jobVars>>

\* The scheduler finds nothing to do any more.
End ==
  /\ ~failed
  /\ Time!End
  /\ UNCHANGED <<waitVars, jobVars, failed>>

=============================================================================
