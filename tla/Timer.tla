-------------------------------- MODULE Timer --------------------------------
(***************************************************************************)
(* core::Timer: a job that runs a callback when it expires.  Test code     *)
(* holds a timer by a handle; the timer's shared part (TimerInternal)      *)
(* counts its references and deletes itself with the last one.             *)
(*                                                                         *)
(* A callback may do what test code does.  It belongs to the runner that   *)
(* executes it, which is not the owner of the timer if another runner      *)
(* stops it when it is due.                                                *)
(***************************************************************************)
EXTENDS Runner

CONSTANTS
  StartWhenStopped \* whether test code starts a timer in the callback that
                   \* is executed because the timer is stopped when due

ASSUME StartWhenStoppedAssumption == StartWhenStopped \in BOOLEAN

VARIABLES
  armed,      \* per timer: TimerInternal::mArmed
  remaining,  \* per timer: mRemaining
  startValue, \* per timer: mStartValue
  handle,     \* per timer: the script has its handle
  references  \* per timer: the reference count, 0 when it is deleted

timerVars == <<armed, remaining, startValue, handle, references>>
vars == <<timeVars, waitVars, jobVars, failed, timerVars>>

Timers == Jobs

TypeOK ==
  /\ RunnerTypeOK
  /\ armed \in [Timers -> BOOLEAN]
  /\ remaining \in [Timers -> Times]
  /\ startValue \in [Timers -> Times]
  /\ handle \in [Timers -> BOOLEAN]
  /\ references \in [Timers -> Nat]

\* A new timer has never been started: its times are infinite.
Init ==
  /\ RunnerInit
  /\ armed = [t \in Timers |-> FALSE]
  /\ remaining = [t \in Timers |-> EndOfTime]
  /\ startValue = [t \in Timers |-> EndOfTime]
  /\ handle = [t \in Timers |-> TRUE]
  /\ references = [t \in Timers |-> 1]

-----------------------------------------------------------------------------
CallbacksOf(r, t) ==
  {i \in 1 .. Len(stack[r]) : /\ stack[r][i].kind = "callback"
                              /\ stack[r][i].job = t}

\* A callback is given its timer.
CanUse(r, t) == InCode(r) /\ (handle[t] \/ CallbacksOf(r, t) # {})

BeingStopped(t) ==
  \E r \in Runners : \E i \in CallbacksOf(r, t) : stack[r][i].cause # "wait"

CanStart(r, t) == CanUse(r, t) /\ (BeingStopped(t) => StartWhenStopped)

\* Mutant: the end in place of the start.
MutantStartedAt(t) == due[t]

\* mStartedAt: while it is armed, a timer is due mRemaining after it.
StartedAt(t) == due[t] - remaining[t]

Count(t, change) == references' = [references EXCEPT ![t] = @ + change]

\* The end of start(): the job is armed, which must not be armed already.
Arm(r, t, duration) ==
  /\ AddJob(r, t, now + duration)
  /\ remaining' = [remaining EXCEPT ![t] = duration]
  /\ armed' = [armed EXCEPT ![t] = TRUE]
  /\ failed' = (t \in queue)

-----------------------------------------------------------------------------
(* start(), stop() and reset(), called by the running r.                   *)

\* Test code does not start a timer that runs.
Start(r, t, duration) ==
  /\ CanStart(r, t)
  /\ ~armed[t]
  /\ InEpoche(duration)
  /\ startValue' = [startValue EXCEPT ![t] = duration]
  /\ Arm(r, t, duration)
  /\ Count(t, 1)
  /\ UNCHANGED <<waitVars, handle>>

\* start() without a duration goes on with mRemaining.
Continue(r, t) ==
  /\ CanStart(r, t)
  /\ ~armed[t]
  /\ InEpoche(remaining[t])
  /\ Arm(r, t, remaining[t])
  /\ Count(t, 1)
  /\ UNCHANGED <<waitVars, startValue, handle>>

\* Mutant: the job stays in the queue.
MutantStop(r, t) ==
  /\ CanUse(r, t)
  /\ armed[t]
  /\ due[t] > now
  /\ remaining' = [remaining EXCEPT ![t] = now - StartedAt(t)]
  /\ armed' = [armed EXCEPT ![t] = FALSE]
  /\ Count(t, -1)
  /\ WakeIfWaiting(r, Owner[t])
  /\ UNCHANGED <<waitVars, jobVars, failed, startValue, handle>>

\* stop() of a timer that runs, before it is due.
Stop(r, t) ==
  /\ CanUse(r, t)
  /\ armed[t]
  /\ due[t] > now
  /\ remaining' = [remaining EXCEPT ![t] = now - StartedAt(t)]
  /\ queue' = queue \ {t}
  /\ armed' = [armed EXCEPT ![t] = FALSE]
  /\ failed' = (t \notin queue)
  /\ Count(t, -1)
  /\ WakeIfWaiting(r, Owner[t])
  /\ UNCHANGED <<waitVars, due, startValue, handle>>

\* reset() of a timer that does not run, or is not due yet.
Reset(r, t) ==
  /\ CanStart(r, t)
  /\ armed[t] => due[t] > now
  /\ InEpoche(startValue[t])
  /\ AddJob(r, t, now + startValue[t])
  /\ remaining' = [remaining EXCEPT ![t] = startValue[t]]
  /\ armed' = [armed EXCEPT ![t] = TRUE]
  /\ failed' = (armed[t] # (t \in queue))
  /\ Count(t, IF armed[t] THEN 0 ELSE 1)
  /\ UNCHANGED <<waitVars, startValue, handle>>

-----------------------------------------------------------------------------
(* The callback.                                                           *)

\* Job::execute and notify(): the callback has a handle of its own.
Execute(r, t, cause) ==
  /\ Len(stack[r]) < MaxDepth
  /\ queue' = queue \ {t}
  /\ armed' = [armed EXCEPT ![t] = FALSE]
  /\ failed' = ~armed[t]
  /\ Count(t, 1)
  /\ Push(r, [kind |-> "callback", job |-> t, cause |-> cause])
  /\ UNCHANGED <<timeVars, wakeUpEvent, condition, fulfilled, due,
                 startValue, handle>>

\* waitInternal executes a job that is due.
Expire(r, t) ==
  /\ Draining(r, t)
  /\ Execute(r, t, "wait")
  /\ UNCHANGED remaining

\* stop(), or reset(), of a timer that is due: remove() executes it.
StopDue(r, t, cause) ==
  /\ CanUse(r, t)
  /\ cause \in {"stop", "reset"}
  /\ cause = "reset" => InEpoche(startValue[t]) /\ CanStart(r, t)
  /\ t \in queue /\ armed[t]
  /\ due[t] <= now
  /\ remaining' = [remaining EXCEPT ![t] = now - StartedAt(t)]
  /\ Execute(r, t, cause)

\* The innermost callback of r returns.
EndsCallback(r, t, cause) ==
  /\ InCode(r)
  /\ stack[r] # <<>>
  /\ Top(r) = [kind |-> "callback", job |-> t, cause |-> cause]
  /\ Pop(r)

\* Mutant: the job's reference is kept.
MutantEndOfExpiry(r, t) ==
  /\ EndsCallback(r, t, "wait")
  /\ Count(t, -1)
  /\ UNCHANGED <<timeVars, wakeUpEvent, condition, fulfilled, jobVars, failed,
                 armed, remaining, startValue, handle>>

\* The callback returns to waitInternal, which lets go of the job.
EndOfExpiry(r, t) ==
  /\ EndsCallback(r, t, "wait")
  /\ Count(t, -2)
  /\ UNCHANGED <<timeVars, wakeUpEvent, condition, fulfilled, jobVars, failed,
                 armed, remaining, startValue, handle>>

\* The callback returns to remove() and stop().
EndOfStop(r, t) ==
  /\ EndsCallback(r, t, "stop")
  /\ Count(t, -2)
  /\ armed' = [armed EXCEPT ![t] = FALSE]
  /\ WakeIfWaiting(r, Owner[t])
  /\ UNCHANGED <<wakeUpEvent, condition, fulfilled, jobVars, failed,
                 remaining, startValue, handle>>

\* The callback returns to remove(), stop() and reset(), which starts again.
EndOfReset(r, t) ==
  /\ EndsCallback(r, t, "reset")
  /\ InEpoche(startValue[t])
  /\ Arm(r, t, startValue[t])
  /\ Count(t, -1)
  /\ UNCHANGED <<wakeUpEvent, condition, fulfilled, startValue, handle>>

\* The script's handle goes out of scope; not in the middle of a call on it.
Drop(r, t) ==
  /\ InCode(r)
  /\ handle[t]
  /\ ~BeingStopped(t)
  /\ handle' = [handle EXCEPT ![t] = FALSE]
  /\ Count(t, -1)
  /\ UNCHANGED <<timeVars, waitVars, jobVars, failed,
                 armed, remaining, startValue>>

-----------------------------------------------------------------------------
OnTimer(r, t) ==
  \/ \E duration \in Durations : Start(r, t, duration)
  \/ Continue(r, t)
  \/ Stop(r, t)
  \/ Reset(r, t)
  \/ \E cause \in {"stop", "reset"} : StopDue(r, t, cause)
  \/ Expire(r, t)
  \/ EndOfExpiry(r, t)
  \/ EndOfStop(r, t)
  \/ EndOfReset(r, t)
  \/ Drop(r, t)

Waiting(r) ==
  \/ \E kind \in Kinds : \E duration \in Durations \cup {EndOfTime} :
       \E value \in BOOLEAN : Wait(r, kind, duration, value)
  \/ FallAsleep(r)
  \/ Resume(r)
  \/ Return(r)
  \/ \E i \in 1 .. MaxDepth : ReleaseToSelf(r, i)

OnOther(r, other) ==
  \/ \E value \in BOOLEAN : ChangeCondition(r, other, value)
  \/ \E i \in 1 .. MaxDepth : \/ WakeUp(r, other, i)
                             \/ ReleaseToWoken(r, other, i)

Next ==
  \/ \E r \in Runners :
       \/ \E t \in Timers : OnTimer(r, t)
       \/ Waiting(r) /\ UNCHANGED timerVars
       \/ \E other \in Runners : OnOther(r, other) /\ UNCHANGED timerVars
  \/ End /\ UNCHANGED timerVars

Spec == Init /\ [][Next]_vars

=============================================================================
