----------------------------- MODULE TimerProofs -----------------------------
(***************************************************************************)
(* Proofs about Runner and Timer, for any runners, timers and durations,   *)
(* and any length of the test.  EveryReferenceCounted is about any test    *)
(* code.  The others are about test code whose callbacks do not wait, and  *)
(* do not start a timer that is being stopped: the runs nested_waits and   *)
(* restart_when_stopped show what happens otherwise.                       *)
(***************************************************************************)
EXTENDS TimerProperties, FiniteSetTheorems, TLAPS

Frames == Waits \cup Callbacks

\* What the proofs need of TypeOK.
Types ==
  /\ now \in Times
  /\ state \in [Runners -> {"ready", "woken", "running", "sleeping"}]
  /\ deadline \in [Runners -> Times]
  /\ stack \in [Runners -> Seq(Frames)]
  /\ wakeUpEvent \in [Runners -> BOOLEAN]
  /\ condition \in [Runners -> BOOLEAN]
  /\ fulfilled \in [Runners -> BOOLEAN]
  /\ queue \in SUBSET Jobs
  /\ due \in [Jobs -> Times]
  /\ armed \in [Timers -> BOOLEAN]
  /\ remaining \in [Timers -> Times]
  /\ startValue \in [Timers -> Times]

-----------------------------------------------------------------------------
(* The invariant.                                                          *)

\* The armed timers are in the queue.  None is overdue, and each was started
\* at some time before now.
TimerInv(t) ==
  /\ armed[t] <=> t \in queue
  /\ t \in queue =>
       /\ now <= due[t] /\ due[t] < EndOfTime
       /\ remaining[t] <= due[t] /\ due[t] <= now + remaining[t]

\* A timer that is being stopped is not armed, and is stopped once.
Stopping(r, i, t) ==
  /\ stack[r][i].kind = "callback"
  /\ stack[r][i].job = t
  /\ stack[r][i].cause # "wait"

StoppingInv ==
  \A t \in Timers, r \in Runners : \A i \in 1 .. Len(stack[r]) :
    Stopping(r, i, t) =>
      /\ t \notin queue
      /\ \A r2 \in Runners : \A i2 \in 1 .. Len(stack[r2]) :
           Stopping(r2, i2, t) => r2 = r /\ i2 = i

\* Test code waits only outside of callbacks, so a wait is the first frame.
Waiting1(r) == stack[r] # <<>> /\ stack[r][1].kind # "callback"

\* The waits of a runner are its first frame at most.  A runner that sleeps or
\* has been woken is in a wait, and has nothing else on its stack.
StackInv(r) ==
  /\ \A i \in 2 .. Len(stack[r]) : stack[r][i].kind = "callback"
  /\ state[r] = "ready" => stack[r] = <<>>
  /\ state[r] \in {"sleeping", "woken"} =>
       Len(stack[r]) = 1 /\ Waiting1(r) /\ stack[r][1].stage = "asleep"
  /\ state[r] = "running" /\ Waiting1(r) => stack[r][1].stage # "asleep"
  /\ condition[r] => Waiting1(r) /\ stack[r][1].kind = "condition"

\* What is left of a wait is exact, and the event is a token that was given.
WaitInv(r) ==
  Waiting1(r) =>
    LET w == stack[r][1] IN
    /\ w.kind \in Kinds
    /\ w.token = "given" <=> wakeUpEvent[r]
    /\ w.token # "none" <=> w.kind = "token"
    /\ w.timeout = EndOfTime => w.end = EndOfTime
    /\ w.timeout # EndOfTime =>
         w.end = (IF w.stage = "asleep" THEN w.startAt ELSE now) + w.timeout
    /\ w.stage = "asleep" => w.startAt <= now /\ now <= w.startAt + w.timeout

\* NobodySleepsTooLong, for a runner.
SleepInv(r) ==
  state[r] = "sleeping" =>
    /\ now <= deadline[r]
    /\ deadline[r] <= stack[r][1].startAt + stack[r][1].timeout
    /\ deadline[r] <= stack[r][1].end
    /\ \A t \in JobsOf(r) : deadline[r] <= due[t]
    /\ ~(condition[r] /\ fulfilled[r])
    /\ stack[r][1].token # "given"

RunnerInv(r) == StackInv(r) /\ WaitInv(r) /\ SleepInv(r)

\* Nothing is claimed of what an assertion that fails leaves behind.
Inv ==
  /\ Types
  /\ ~failed
  /\ \A t \in Timers : TimerInv(t)
  /\ StoppingInv
  /\ \A r \in Runners : RunnerInv(r)

-----------------------------------------------------------------------------
(* Stacks.                                                                 *)

LEMMA FrameFacts ==
  ASSUME Types, NEW r \in Runners
  PROVE  /\ stack[r] \in Seq(Frames) /\ Len(stack[r]) \in Nat
         /\ stack[r] # <<>> <=> Len(stack[r]) > 0
         /\ \A i \in 1 .. Len(stack[r]) :
              /\ stack[r][i] \in Frames
              /\ stack[r][i].kind # "callback" => stack[r][i] \in Waits
              /\ stack[r][i].kind = "callback" => stack[r][i] \in Callbacks
<1>1. stack[r] \in Seq(Frames)
  BY DEF Types
<1>2. \A f \in Frames : /\ f.kind # "callback" => f \in Waits
                        /\ f.kind = "callback" => f \in Callbacks
  BY DEF Frames, Waits, Callbacks
<1> QED
  BY <1>1, <1>2

LEMMA PushFacts ==
  ASSUME Types, NEW r \in Runners, NEW f \in Frames, Push(r, f)
  PROVE  /\ stack' \in [Runners -> Seq(Frames)]
         /\ \A x \in Runners \ {r} : stack'[x] = stack[x]
         /\ stack'[r] # <<>> /\ Len(stack'[r]) = Len(stack[r]) + 1
         /\ stack'[r][Len(stack[r]) + 1] = f
         /\ \A i \in 1 .. Len(stack[r]) : stack'[r][i] = stack[r][i]
<1>1. stack[r] \in Seq(Frames)
  BY DEF Types
<1>2. stack' = [stack EXCEPT ![r] = Append(stack[r], f)]
  BY DEF Push
<1>3. stack'[r] = Append(stack[r], f)
  BY <1>2 DEF Types
<1>4. Append(stack[r], f) \in Seq(Frames)
  BY <1>1
<1>5. stack' \in [Runners -> Seq(Frames)]
  BY <1>2, <1>4 DEF Types
<1>6. \A x \in Runners \ {r} : stack'[x] = stack[x]
  BY <1>2 DEF Types
<1>7. /\ Append(stack[r], f) # <<>>
      /\ Len(Append(stack[r], f)) = Len(stack[r]) + 1
      /\ Append(stack[r], f)[Len(stack[r]) + 1] = f
      /\ \A i \in 1 .. Len(stack[r]) : Append(stack[r], f)[i] = stack[r][i]
  BY <1>1
<1> QED
  BY <1>3, <1>5, <1>6, <1>7

LEMMA PopFacts ==
  ASSUME Types, NEW r \in Runners, stack[r] # <<>>, Pop(r)
  PROVE  /\ stack' \in [Runners -> Seq(Frames)]
         /\ \A x \in Runners \ {r} : stack'[x] = stack[x]
         /\ Len(stack'[r]) = Len(stack[r]) - 1
         /\ \A i \in 1 .. Len(stack[r]) - 1 : stack'[r][i] = stack[r][i]
<1>1. stack[r] \in Seq(Frames) /\ Len(stack[r]) > 0 /\ Len(stack[r]) \in Nat
  BY FrameFacts
<1> DEFINE rest == SubSeq(stack[r], 1, Len(stack[r]) - 1)
<1>2. stack' = [stack EXCEPT ![r] = rest]
  BY DEF Pop
<1>3. /\ rest \in Seq(Frames) /\ Len(rest) = Len(stack[r]) - 1
      /\ \A i \in 1 .. Len(stack[r]) - 1 : rest[i] = stack[r][i]
  BY <1>1
<1>4. stack'[r] = rest
  BY <1>2 DEF Types
<1> HIDE DEF rest
<1> QED
  BY <1>2, <1>3, <1>4 DEF Types

LEMMA SetTopFacts ==
  ASSUME Types, NEW r \in Runners, stack[r] # <<>>, NEW f \in Frames,
         SetTop(r, f)
  PROVE  /\ stack' \in [Runners -> Seq(Frames)]
         /\ \A x \in Runners \ {r} : stack'[x] = stack[x]
         /\ stack'[r] # <<>> /\ Len(stack'[r]) = Len(stack[r])
         /\ stack'[r][Len(stack[r])] = f
         /\ \A i \in 1 .. Len(stack[r]) - 1 : stack'[r][i] = stack[r][i]
<1>1. stack[r] \in Seq(Frames) /\ Len(stack[r]) > 0 /\ Len(stack[r]) \in Nat
  BY FrameFacts
<1> DEFINE other == [stack[r] EXCEPT ![Len(stack[r])] = f]
<1>2. stack' = [stack EXCEPT ![r] = other]
  BY DEF SetTop
<1>3. /\ other \in Seq(Frames) /\ Len(other) = Len(stack[r])
      /\ other[Len(stack[r])] = f
      /\ \A i \in 1 .. Len(stack[r]) - 1 : other[i] = stack[r][i]
  BY <1>1
<1>4. stack'[r] = other
  BY <1>2 DEF Types
<1> HIDE DEF other
<1> QED
  BY <1>1, <1>2, <1>3, <1>4 DEF Types

-----------------------------------------------------------------------------
(* What a step does to the runners and timers it is not about.             *)

LEMMA InitInv == Init => Inv
<1> SUFFICES ASSUME Init PROVE Inv
  OBVIOUS
<1> USE DEF Init, RunnerInit
<1>1. <<>> \in Seq(Frames)
  OBVIOUS
<1>2. /\ armed \in [Timers -> BOOLEAN] /\ wakeUpEvent \in [Runners -> BOOLEAN]
      /\ condition \in [Runners -> BOOLEAN] /\ fulfilled \in [Runners -> BOOLEAN]
      /\ ~failed
  BY Zenon
<1>3. Types
  BY <1>1, <1>2, TimeAssumption, JobsAssumption DEF Types, Times, Timers
<1>4. \A t \in Timers : ~armed[t] /\ t \notin queue
  BY Zenon
<1>5. \A r \in Runners : /\ state[r] = "ready" /\ stack[r] = <<>>
                         /\ ~condition[r] /\ ~wakeUpEvent[r]
  BY Zenon
<1>6. \A t \in Timers : TimerInv(t)
  BY <1>4 DEF TimerInv
<1>7. StoppingInv
  BY <1>5 DEF StoppingInv
<1>8. \A r \in Runners : RunnerInv(r)
  BY <1>5 DEF RunnerInv, StackInv, WaitInv, SleepInv, Waiting1
<1> QED
  BY <1>2, <1>3, <1>6, <1>7, <1>8 DEF Inv

\* A runner whose waits are left alone, but that may be woken.
LEMMA Unaffected ==
  ASSUME NEW x \in Runners, RunnerInv(x), now' = now, stack'[x] = stack[x],
         deadline'[x] = deadline[x], condition'[x] <=> condition[x],
         wakeUpEvent'[x] <=> wakeUpEvent[x],
         \/ state'[x] = state[x]
         \/ state[x] = "sleeping" /\ state'[x] = "woken",
         state'[x] = "sleeping" =>
           /\ fulfilled'[x] <=> fulfilled[x]
           /\ \A j \in queue' : Owner[j] = x => j \in queue /\ due'[j] = due[j]
  PROVE  RunnerInv(x)'
<1>1. StackInv(x)'
  BY DEF RunnerInv, StackInv, Waiting1
<1>2. WaitInv(x)'
  BY DEF RunnerInv, WaitInv, Waiting1
<1>3. ASSUME state'[x] = "sleeping" PROVE SleepInv(x)'
  <2>1. SleepInv(x) /\ state[x] = "sleeping"
    BY <1>3 DEF RunnerInv
  <2>2. ASSUME NEW j \in JobsOf(x)'
        PROVE  deadline'[x] <= due'[j]
    BY <1>3, <2>1, <2>2 DEF SleepInv, JobsOf
  <2> QED
    BY <1>3, <2>1, <2>2 DEF SleepInv, JobsOf
<1> QED
  BY <1>1, <1>2, <1>3 DEF RunnerInv, SleepInv

\* A step of the running r that leaves its wait alone, if it is in one.
OnlyCallbacks(r) ==
  /\ Waiting1(r)' <=> Waiting1(r)
  /\ Waiting1(r) => stack'[r][1] = stack[r][1]
  /\ \A i \in 2 .. Len(stack'[r]) : stack'[r][i].kind = "callback"

LEMMA CallbackPushed ==
  ASSUME Types, NEW r \in Runners, StackInv(r),
         NEW f \in Callbacks, Push(r, f)
  PROVE  OnlyCallbacks(r)
<1>1. f \in Frames /\ f.kind = "callback"
  BY DEF Frames, Callbacks
<1>2. /\ stack'[r] # <<>> /\ Len(stack'[r]) = Len(stack[r]) + 1
      /\ stack'[r][Len(stack[r]) + 1] = f
      /\ \A i \in 1 .. Len(stack[r]) : stack'[r][i] = stack[r][i]
  BY <1>1, PushFacts
<1>3. Len(stack[r]) \in Nat /\ (stack[r] # <<>> <=> Len(stack[r]) > 0)
  BY FrameFacts
<1>4. CASE stack[r] = <<>>
  <2>1. Len(stack[r]) = 0 /\ stack'[r][1].kind = "callback"
    BY <1>1, <1>2, <1>3, <1>4
  <2> QED
    BY <1>2, <1>4, <2>1 DEF OnlyCallbacks, Waiting1
<1>5. CASE stack[r] # <<>>
  <2>1. stack'[r][1] = stack[r][1]
    BY <1>2, <1>3, <1>5
  <2>2. ASSUME NEW i \in 2 .. Len(stack'[r]) PROVE stack'[r][i].kind = "callback"
    BY <1>1, <1>2, <1>3 DEF StackInv
  <2> QED
    BY <1>2, <1>5, <2>1, <2>2 DEF OnlyCallbacks, Waiting1
<1> QED
  BY <1>3, <1>4, <1>5

LEMMA CallbackPopped ==
  ASSUME Types, NEW r \in Runners, StackInv(r),
         stack[r] # <<>>, Top(r).kind = "callback", Pop(r)
  PROVE  OnlyCallbacks(r)
<1>1. /\ stack'[r] \in Seq(Frames)
      /\ Len(stack'[r]) = Len(stack[r]) - 1
      /\ \A i \in 1 .. Len(stack[r]) - 1 : stack'[r][i] = stack[r][i]
  BY PopFacts
<1>2. /\ stack[r] \in Seq(Frames)
      /\ Len(stack[r]) \in Nat /\ Len(stack[r]) > 0
  BY FrameFacts
<1>3. stack'[r] # <<>> <=> Len(stack[r]) > 1
  BY <1>1, <1>2
<1>4. CASE Len(stack[r]) = 1
  <2>1. stack[r][1].kind = "callback" /\ Len(stack'[r]) = 0
    BY <1>1, <1>4 DEF Top
  <2> QED
    BY <1>3, <1>4, <2>1 DEF OnlyCallbacks, Waiting1
<1>5. CASE Len(stack[r]) > 1
  <2>1. stack'[r][1] = stack[r][1]
    BY <1>1, <1>2, <1>5
  <2>2. ASSUME NEW i \in 2 .. Len(stack'[r]) PROVE stack'[r][i].kind = "callback"
    BY <1>1, <1>2 DEF StackInv
  <2> QED
    BY <1>3, <1>5, <2>1, <2>2 DEF OnlyCallbacks, Waiting1
<1>6. Len(stack[r]) = 1 \/ Len(stack[r]) > 1
  <2>1. \A n \in Nat : n > 0 => n = 1 \/ n > 1
    OBVIOUS
  <2> QED
    BY <1>2, <2>1
<1> QED
  BY <1>4, <1>5, <1>6

LEMMA Running ==
  ASSUME NEW r \in Runners, RunnerInv(r), now' = now, OnlyCallbacks(r),
         state[r] = "running", state'[r] = "running",
         condition'[r] <=> condition[r], wakeUpEvent'[r] <=> wakeUpEvent[r]
  PROVE  RunnerInv(r)'
<1>1. StackInv(r)'
  BY DEF RunnerInv, StackInv, OnlyCallbacks
<1>2. WaitInv(r)'
  BY DEF RunnerInv, WaitInv, OnlyCallbacks
<1> QED
  BY <1>1, <1>2 DEF RunnerInv, SleepInv

LEMMA WakeFacts ==
  ASSUME Types, NEW r \in Runners, NEW o \in Runners, state[r] = "running",
         WakeIfWaiting(r, o)
  PROVE  /\ now' = now /\ deadline' = deadline
         /\ state' \in [Runners -> {"ready", "woken", "running", "sleeping"}]
         /\ state'[r] = "running" /\ state'[o] # "sleeping"
         /\ \A x \in Runners :
              \/ state'[x] = state[x]
              \/ state[x] = "sleeping" /\ state'[x] = "woken"
<1>1. state \in [Runners -> {"ready", "woken", "running", "sleeping"}]
  BY DEF Types
<1>2. CASE state[o] = "sleeping"
  <2>1. state' = [state EXCEPT ![o] = "woken"]
    BY <1>2 DEF WakeIfWaiting, Time!Wake
  <2>2. now' = now /\ deadline' = deadline
    BY <1>2 DEF WakeIfWaiting, Time!Wake
  <2>3. /\ state' \in [Runners -> {"ready", "woken", "running", "sleeping"}]
        /\ state'[o] = "woken" /\ \A x \in Runners \ {o} : state'[x] = state[x]
    BY <1>1, <2>1
  <2> QED
    BY <1>2, <2>2, <2>3
<1>3. CASE state[o] # "sleeping"
  <2>1. now' = now /\ state' = state /\ deadline' = deadline
    BY <1>3 DEF WakeIfWaiting, timeVars
  <2> QED
    BY <1>1, <1>3, <2>1
<1> QED
  BY <1>2, <1>3

\* A step of the running r that is about the timer t.
LEMMA JobStep ==
  ASSUME Inv, NEW r \in Runners, NEW t \in Timers,
         state[r] = "running", state'[r] = "running",
         now' = now, deadline' = deadline, condition' = condition,
         fulfilled' = fulfilled, wakeUpEvent' = wakeUpEvent,
         \A x \in Runners :
           \/ state'[x] = state[x]
           \/ state[x] = "sleeping" /\ state'[x] = "woken",
         t \in queue' => \/ state'[Owner[t]] # "sleeping"
                         \/ t \in queue /\ due'[t] = due[t],
         \A x \in Runners \ {r} : stack'[x] = stack[x],
         OnlyCallbacks(r),
         \A u \in Timers \ {t} :
           /\ (u \in queue' <=> u \in queue) /\ due'[u] = due[u]
           /\ (armed'[u] <=> armed[u]) /\ remaining'[u] = remaining[u],
         Types', ~failed', TimerInv(t)', StoppingInv'
  PROVE  Inv'
<1>1. ASSUME NEW u \in Timers PROVE TimerInv(u)'
  BY DEF Inv, TimerInv
<1>2. ASSUME NEW x \in Runners PROVE RunnerInv(x)'
  <2>1. CASE x = r
    <3>1. RunnerInv(r)
      BY DEF Inv
    <3> QED
      BY <2>1, <3>1, Running
  <2>2. CASE x # r
    <3>1. RunnerInv(x) /\ stack'[x] = stack[x]
      BY <2>2 DEF Inv
    <3>2. queue' \subseteq Timers
      BY DEF Types, Timers
    <3>3. state'[x] = "sleeping" =>
            \A j \in queue' : Owner[j] = x => j \in queue /\ due'[j] = due[j]
      BY <3>2
    <3> QED
      BY <3>1, <3>3, Unaffected
  <2> QED
    BY <2>1, <2>2
<1> QED
  BY <1>1, <1>2 DEF Inv

LEMMA StoppingFewer ==
  ASSUME StoppingInv,
         \A t \in Timers, r \in Runners : \A i \in 1 .. Len(stack'[r]) :
           Stopping(r, i, t)' =>
             i \in 1 .. Len(stack[r]) /\ Stopping(r, i, t) /\ t \notin queue'
  PROVE  StoppingInv'
BY DEF StoppingInv

LEMMA NotBeingStopped ==
  ASSUME NEW t \in Timers, ~BeingStopped(t)
  PROVE  \A r \in Runners : \A i \in 1 .. Len(stack[r]) : ~Stopping(r, i, t)
BY DEF BeingStopped, CallbacksOf, Stopping

\* If no waits or callbacks begin or end, and only t may be new in the queue.
LEMMA SameStacks ==
  ASSUME StoppingInv, stack' = stack, NEW t \in Timers,
         queue' \subseteq queue \cup {t},
         t \in queue' \ queue => ~BeingStopped(t)
  PROVE  StoppingInv'
<1> SUFFICES ASSUME NEW u \in Timers, NEW r \in Runners,
                    NEW i \in 1 .. Len(stack[r]), Stopping(r, i, u)
             PROVE  u \notin queue'
  BY StoppingFewer DEF Stopping
<1>1. u \notin queue
  BY DEF StoppingInv
<1>2. u = t => BeingStopped(t)
  BY NotBeingStopped
<1> QED
  BY <1>1, <1>2

LEMMA OnlyCallbacksIfSame ==
  ASSUME NEW r \in Runners, StackInv(r), stack' = stack
  PROVE  OnlyCallbacks(r)
BY DEF OnlyCallbacks, Waiting1, StackInv

-----------------------------------------------------------------------------
(* start(), stop() and reset().                                            *)

\* Test code, or a callback, whose running r is given.
LEMMA InCodeFacts ==
  ASSUME Inv, NEW r \in Runners, InCode(r)
  PROVE  /\ state[r] = "running" /\ StackInv(r) /\ Types
         /\ stack[r] = <<>> \/ Top(r).kind = "callback"
BY DEF InCode, Inv, RunnerInv, InWait

LEMMA ArmInv ==
  ASSUME ~StartWhenStopped, Inv, NEW r \in Runners, NEW t \in Timers,
         CanStart(r, t), NEW d \in Times, InEpoche(d), AddJob(r, t, now + d),
         remaining' = [remaining EXCEPT ![t] = d],
         armed' = [armed EXCEPT ![t] = TRUE],
         ~failed', startValue' \in [Timers -> Times],
         UNCHANGED waitVars
  PROVE  Inv'
<1>1. state[r] = "running" /\ StackInv(r) /\ Types /\ ~BeingStopped(t)
  BY InCodeFacts DEF CanStart, CanUse
<1>2. WakeIfWaiting(r, Owner[t]) /\ Owner[t] \in Runners
  BY JobsAssumption DEF AddJob, Timers
<1>3. /\ now' = now /\ deadline' = deadline
      /\ state' \in [Runners -> {"ready", "woken", "running", "sleeping"}]
      /\ state'[r] = "running" /\ state'[Owner[t]] # "sleeping"
      /\ \A x \in Runners :
           \/ state'[x] = state[x]
           \/ state[x] = "sleeping" /\ state'[x] = "woken"
  BY <1>1, <1>2, WakeFacts
<1>4. /\ stack' = stack /\ condition' = condition
      /\ fulfilled' = fulfilled /\ wakeUpEvent' = wakeUpEvent
  BY DEF waitVars
<1>5. now \in Nat /\ d \in Nat /\ now + d \in Times /\ now + d < EndOfTime
  BY <1>1, TimeAssumption DEF Types, Times, InEpoche
<1>6. /\ queue' = queue \cup {t} /\ due' \in [Jobs -> Times]
      /\ due'[t] = now + d /\ \A u \in Timers \ {t} : due'[u] = due[u]
  BY <1>1, <1>5 DEF AddJob, Types, Timers
<1>7. /\ remaining' \in [Timers -> Times] /\ remaining'[t] = d
      /\ \A u \in Timers \ {t} : remaining'[u] = remaining[u]
  BY <1>1 DEF Types
<1>8. /\ armed' \in [Timers -> BOOLEAN] /\ armed'[t]
      /\ \A u \in Timers \ {t} : armed'[u] <=> armed[u]
  BY <1>1, Zenon DEF Types
<1>9. Types'
  <2>1. queue' \in SUBSET Jobs
    BY <1>1, <1>6 DEF Types, Timers
  <2> QED
    BY <1>1, <1>3, <1>4, <1>6, <1>7, <1>8, <2>1 DEF Types
<1>10. TimerInv(t)'
  BY <1>3, <1>5, <1>6, <1>7, <1>8 DEF TimerInv
<1>11. StoppingInv'
  BY <1>1, <1>4, <1>6, SameStacks DEF Inv
<1>12. OnlyCallbacks(r)
  BY <1>1, <1>4, OnlyCallbacksIfSame
<1> QED
  BY <1>1, <1>3, <1>4, <1>6, <1>7, <1>8, <1>9, <1>10, <1>11, <1>12, JobStep

LEMMA StartInv ==
  ASSUME ~StartWhenStopped, Inv, NEW r \in Runners, NEW t \in Timers,
         NEW duration \in Durations, Start(r, t, duration)
  PROVE  Inv'
<1>1. Types /\ (armed[t] <=> t \in queue)
  BY DEF Inv, TimerInv
<1>2. duration \in Times
  BY TimeAssumption DEF Times
<1>3. failed' = (t \in queue) /\ ~armed[t]
  BY DEF Start, Arm
<1>4. ~failed'
  <2>1. t \notin queue
    BY <1>1, <1>3, Zenon
  <2>2. failed' = (t \in queue)
    BY <1>3, Zenon
  <2> QED
    BY <2>1, <2>2, Zenon
<1>5. startValue' \in [Timers -> Times]
  BY <1>1, <1>2 DEF Start, Types
<1>6. /\ CanStart(r, t) /\ InEpoche(duration) /\ AddJob(r, t, now + duration)
      /\ remaining' = [remaining EXCEPT ![t] = duration]
      /\ armed' = [armed EXCEPT ![t] = TRUE] /\ UNCHANGED waitVars
  BY DEF Start, Arm
<1> QED
  BY <1>2, <1>4, <1>5, <1>6, ArmInv

LEMMA ContinueInv ==
  ASSUME ~StartWhenStopped, Inv, NEW r \in Runners, NEW t \in Timers,
         Continue(r, t)
  PROVE  Inv'
<1>1. Types /\ (armed[t] <=> t \in queue)
  BY DEF Inv, TimerInv
<1>2. remaining[t] \in Times
  BY <1>1 DEF Types
<1>3. failed' = (t \in queue) /\ ~armed[t]
  BY DEF Continue, Arm
<1>4. ~failed'
  <2>1. t \notin queue
    BY <1>1, <1>3, Zenon
  <2>2. failed' = (t \in queue)
    BY <1>3, Zenon
  <2> QED
    BY <2>1, <2>2, Zenon
<1>5. startValue' \in [Timers -> Times]
  BY <1>1 DEF Continue, Types
<1>6. /\ CanStart(r, t) /\ InEpoche(remaining[t])
      /\ AddJob(r, t, now + remaining[t])
      /\ remaining' = [remaining EXCEPT ![t] = remaining[t]]
      /\ armed' = [armed EXCEPT ![t] = TRUE] /\ UNCHANGED waitVars
  BY DEF Continue, Arm
<1> HIDE DEF Times
<1> QED
  BY <1>2, <1>4, <1>5, <1>6, ArmInv

LEMMA ResetInv ==
  ASSUME ~StartWhenStopped, Inv, NEW r \in Runners, NEW t \in Timers,
         Reset(r, t)
  PROVE  Inv'
<1>1. Types /\ (armed[t] <=> t \in queue)
  BY DEF Inv, TimerInv
<1>2. startValue[t] \in Times
  BY <1>1 DEF Types
<1>3. failed' = (armed[t] # (t \in queue)) /\ armed[t] \in BOOLEAN
  BY <1>1 DEF Reset, Types
<1>4. ~failed'
  <2>1. armed[t] \in BOOLEAN /\ (armed[t] <=> t \in queue)
    BY <1>1, <1>3, Zenon
  <2>2. CASE t \in queue
    <3>1. armed[t] = TRUE
      BY <2>1, <2>2
    <3> QED
      BY <1>3, <2>2, <3>1
  <2>3. CASE t \notin queue
    <3>1. armed[t] = FALSE
      BY <2>1, <2>3, Zenon
    <3> QED
      BY <1>3, <2>3, <3>1
  <2> QED
    BY <2>2, <2>3, Zenon
<1>5. startValue' \in [Timers -> Times]
  BY <1>1 DEF Reset, Types
<1>6. /\ CanStart(r, t) /\ InEpoche(startValue[t])
      /\ AddJob(r, t, now + startValue[t])
      /\ remaining' = [remaining EXCEPT ![t] = startValue[t]]
      /\ armed' = [armed EXCEPT ![t] = TRUE] /\ UNCHANGED waitVars
  BY DEF Reset
<1> QED
  BY <1>2, <1>4, <1>5, <1>6, ArmInv

LEMMA StopInv ==
  ASSUME Inv, NEW r \in Runners, NEW t \in Timers, Stop(r, t)
  PROVE  Inv'
<1>1. state[r] = "running" /\ StackInv(r) /\ Types
  BY InCodeFacts DEF Stop, CanUse
<1>2. WakeIfWaiting(r, Owner[t]) /\ Owner[t] \in Runners
  BY JobsAssumption DEF Stop, Timers
<1>3. /\ now' = now /\ deadline' = deadline
      /\ state' \in [Runners -> {"ready", "woken", "running", "sleeping"}]
      /\ state'[r] = "running"
      /\ \A x \in Runners :
           \/ state'[x] = state[x]
           \/ state[x] = "sleeping" /\ state'[x] = "woken"
  BY <1>1, <1>2, WakeFacts
<1>4. /\ stack' = stack /\ condition' = condition
      /\ fulfilled' = fulfilled /\ wakeUpEvent' = wakeUpEvent
      /\ due' = due /\ startValue' = startValue
  BY DEF Stop, waitVars
<1>5. t \in queue /\ queue' = queue \ {t}
  <2>1. armed[t]
    BY Zenon DEF Stop
  <2> QED
    BY <2>1 DEF Inv, TimerInv, Stop
<1>6. ~failed'
  <2>1. failed' = (t \notin queue)
    BY DEF Stop
  <2> QED
    BY <1>5, <2>1, Zenon
<1>7. now - StartedAt(t) \in Times
  <2>1. /\ now \in Int /\ due[t] \in Int /\ remaining[t] \in Int
        /\ remaining[t] <= EndOfTime /\ EndOfTime \in Int
    BY <1>1, TimeAssumption DEF Types, Times, Timers
  <2>2. due[t] <= now + remaining[t] /\ due[t] > now
    BY <1>5 DEF Inv, TimerInv, Stop
  <2> QED
    BY <2>1, <2>2 DEF StartedAt, Times
<1>8. /\ remaining' \in [Timers -> Times]
      /\ \A u \in Timers \ {t} : remaining'[u] = remaining[u]
  BY <1>1, <1>7 DEF Types, Stop
<1>9. /\ armed' \in [Timers -> BOOLEAN] /\ ~armed'[t]
      /\ \A u \in Timers \ {t} : armed'[u] <=> armed[u]
  BY <1>1, Zenon DEF Types, Stop
<1>10. Types'
  <2>1. queue' \in SUBSET Jobs
    BY <1>1, <1>5 DEF Types, Timers
  <2> QED
    BY <1>1, <1>3, <1>4, <1>6, <1>8, <1>9, <2>1 DEF Types
<1>11. TimerInv(t)'
  BY <1>5, <1>9 DEF TimerInv
<1>12. StoppingInv'
  BY <1>4, <1>5, SameStacks DEF Inv
<1>13. OnlyCallbacks(r)
  BY <1>1, <1>4, OnlyCallbacksIfSame
<1>14. t \notin queue' /\ \A u \in Timers \ {t} : u \in queue' <=> u \in queue
  BY <1>5
<1> QED
  BY <1>1, <1>3, <1>4, <1>6, <1>8, <1>9, <1>10, <1>11, <1>12, <1>13, <1>14,
     JobStep

-----------------------------------------------------------------------------
(* Callbacks.                                                              *)

LEMMA ExecuteInv ==
  ASSUME Inv, NEW r \in Runners, NEW t \in Timers,
         NEW cause \in {"wait", "stop", "reset"},
         state[r] = "running", t \in queue, Execute(r, t, cause),
         remaining' \in [Timers -> Times],
         \A u \in Timers \ {t} : remaining'[u] = remaining[u]
  PROVE  Inv'
<1> DEFINE f == [kind |-> "callback", job |-> t, cause |-> cause]
<1>1. f \in Callbacks /\ f.kind = "callback" /\ f.job = t /\ f.cause = cause
  BY DEF Callbacks, Timers
<1>2. f \in Frames /\ Push(r, f)
  BY <1>1 DEF Frames, Execute
<1>3. Types /\ StackInv(r) /\ StoppingInv
  BY DEF Inv, RunnerInv
<1> HIDE DEF f
<1>4. /\ stack' \in [Runners -> Seq(Frames)]
      /\ \A x \in Runners \ {r} : stack'[x] = stack[x]
      /\ Len(stack'[r]) = Len(stack[r]) + 1
      /\ stack'[r][Len(stack[r]) + 1] = f
      /\ \A i \in 1 .. Len(stack[r]) : stack'[r][i] = stack[r][i]
  BY <1>2, <1>3, PushFacts
<1>5. OnlyCallbacks(r)
  BY <1>1, <1>2, <1>3, CallbackPushed
<1>6. /\ now' = now /\ deadline' = deadline /\ state' = state
      /\ condition' = condition /\ fulfilled' = fulfilled
      /\ wakeUpEvent' = wakeUpEvent /\ due' = due /\ startValue' = startValue
  BY DEF Execute, timeVars
<1>7. t \notin queue' /\ queue' \subseteq queue
      /\ \A u \in Timers \ {t} : u \in queue' <=> u \in queue
  BY DEF Execute
<1>8. /\ armed' \in [Timers -> BOOLEAN] /\ ~armed'[t]
      /\ \A u \in Timers \ {t} : armed'[u] <=> armed[u]
  BY <1>3, Zenon DEF Types, Execute
<1>9. ~failed'
  <2>1. armed[t]
    BY DEF Inv, TimerInv
  <2>2. failed' = ~armed[t]
    BY DEF Execute
  <2> QED
    BY <2>1, <2>2, Zenon
<1>10. Types'
  BY <1>3, <1>4, <1>6, <1>7, <1>8 DEF Types
<1>11. TimerInv(t)'
  BY <1>7, <1>8 DEF TimerInv
<1>12. StoppingInv'
  <2> DEFINE top == Len(stack[r]) + 1
  <2>1. Len(stack[r]) \in Nat
    BY <1>3, FrameFacts
  <2>2. ASSUME NEW x \in Runners, NEW i \in 1 .. Len(stack'[x]),
               NEW u \in Timers, Stopping(x, i, u)'
        PROVE  \/ x = r /\ i = top /\ u = t
               \/ i \in 1 .. Len(stack[x]) /\ Stopping(x, i, u) /\ u # t
    <3>1. CASE x = r /\ i = top
      BY <1>1, <1>4, <2>2, <3>1 DEF Stopping
    <3>2. CASE ~(x = r /\ i = top)
      <4>1. i \in 1 .. Len(stack[x]) /\ stack'[x][i] = stack[x][i]
        BY <1>4, <2>1, <3>2
      <4>2. Stopping(x, i, u)
        BY <2>2, <4>1 DEF Stopping
      <4> QED
        BY <1>3, <4>1, <4>2 DEF StoppingInv
    <3> QED
      BY <3>1, <3>2
  <2> HIDE DEF top
  <2>3. ASSUME NEW x \in Runners, NEW i \in 1 .. Len(stack'[x]),
               NEW u \in Timers, Stopping(x, i, u)',
               NEW x2 \in Runners, NEW i2 \in 1 .. Len(stack'[x2]),
               Stopping(x2, i2, u)'
        PROVE  u \notin queue' /\ x2 = x /\ i2 = i
    <3>1. CASE u = t
      BY <1>7, <2>2, <2>3, <3>1
    <3>2. CASE u # t
      <4>1. /\ i \in 1 .. Len(stack[x]) /\ Stopping(x, i, u)
            /\ i2 \in 1 .. Len(stack[x2]) /\ Stopping(x2, i2, u)
        BY <2>2, <2>3, <3>2
      <4> QED
        BY <1>3, <1>7, <4>1 DEF StoppingInv
    <3> QED
      BY <3>1, <3>2
  <2> QED
    BY <2>3 DEF StoppingInv
<1> QED
  BY <1>4, <1>5, <1>6, <1>7, <1>8, <1>9, <1>10, <1>11, <1>12, JobStep

LEMMA ExpireInv ==
  ASSUME Inv, NEW r \in Runners, NEW t \in Timers, Expire(r, t)
  PROVE  Inv'
<1>1. state[r] = "running" /\ t \in queue /\ Execute(r, t, "wait")
  BY DEF Expire, Draining, InLoop, IsNext, JobsOf
<1>2. remaining' = remaining /\ Types
  BY DEF Expire, Inv
<1> QED
  BY <1>1, <1>2, ExecuteInv DEF Types

LEMMA StopDueInv ==
  ASSUME Inv, NEW r \in Runners, NEW t \in Timers,
         NEW cause \in {"stop", "reset"}, StopDue(r, t, cause)
  PROVE  Inv'
<1>1. state[r] = "running" /\ t \in queue /\ Execute(r, t, cause) /\ Types
  BY InCodeFacts DEF StopDue, CanUse
<1>2. now - StartedAt(t) \in Times
  <2>1. /\ now \in Nat /\ due[t] \in Nat /\ remaining[t] \in Nat
        /\ remaining[t] <= EndOfTime /\ EndOfTime \in Nat
    BY <1>1, TimeAssumption DEF Types, Times, Timers
  <2>2. due[t] <= now + remaining[t] /\ now <= due[t] /\ due[t] <= now
    BY <1>1 DEF Inv, TimerInv, StopDue
  <2> QED
    BY <2>1, <2>2 DEF StartedAt, Times
<1>3. /\ remaining' \in [Timers -> Times]
      /\ \A u \in Timers \ {t} : remaining'[u] = remaining[u]
  BY <1>1, <1>2 DEF Types, StopDue
<1> QED
  BY <1>1, <1>3, ExecuteInv

\* The running r whose callback ends.
LEMMA EndsFacts ==
  ASSUME Inv, NEW r \in Runners, NEW t \in Timers,
         NEW cause \in {"wait", "stop", "reset"}, EndsCallback(r, t, cause)
  PROVE  /\ Types /\ StackInv(r) /\ state[r] = "running"
         /\ stack' \in [Runners -> Seq(Frames)]
         /\ \A x \in Runners \ {r} : stack'[x] = stack[x]
         /\ OnlyCallbacks(r)
         /\ cause # "wait" => Len(stack[r]) \in 1 .. Len(stack[r]) /\
                              Stopping(r, Len(stack[r]), t)
         /\ \A x \in Runners : \A i \in 1 .. Len(stack'[x]) :
              /\ i \in 1 .. Len(stack[x]) /\ stack'[x][i] = stack[x][i]
              /\ ~(x = r /\ i = Len(stack[r]))
<1>1. /\ Types /\ StackInv(r) /\ state[r] = "running"
      /\ stack[r] # <<>> /\ Pop(r)
      /\ Top(r) = [kind |-> "callback", job |-> t, cause |-> cause]
  BY InCodeFacts DEF EndsCallback
<1>2. Top(r).kind = "callback" /\ Top(r).job = t /\ Top(r).cause = cause
  BY <1>1
<1>3. /\ stack' \in [Runners -> Seq(Frames)]
      /\ \A x \in Runners \ {r} : stack'[x] = stack[x]
      /\ Len(stack'[r]) = Len(stack[r]) - 1
      /\ \A i \in 1 .. Len(stack[r]) - 1 : stack'[r][i] = stack[r][i]
  BY <1>1, PopFacts
<1>4. OnlyCallbacks(r)
  BY <1>1, <1>2, CallbackPopped
<1>5. Len(stack[r]) \in Nat /\ Len(stack[r]) > 0
  BY <1>1, FrameFacts
<1>6. cause # "wait" => Len(stack[r]) \in 1 .. Len(stack[r]) /\
                        Stopping(r, Len(stack[r]), t)
  BY <1>2, <1>5 DEF Stopping, Top
<1>7. ASSUME NEW x \in Runners, NEW i \in 1 .. Len(stack'[x])
      PROVE  /\ i \in 1 .. Len(stack[x]) /\ stack'[x][i] = stack[x][i]
             /\ ~(x = r /\ i = Len(stack[r]))
  BY <1>3, <1>5
<1> QED
  BY <1>1, <1>3, <1>4, <1>6, <1>7

LEMMA EndOfExpiryInv ==
  ASSUME Inv, NEW r \in Runners, NEW t \in Timers, EndOfExpiry(r, t)
  PROVE  Inv'
<1>1. EndsCallback(r, t, "wait")
  BY DEF EndOfExpiry
<1>2. /\ Types /\ StackInv(r) /\ state[r] = "running"
      /\ stack' \in [Runners -> Seq(Frames)]
      /\ \A x \in Runners \ {r} : stack'[x] = stack[x]
      /\ OnlyCallbacks(r)
      /\ \A x \in Runners : \A i \in 1 .. Len(stack'[x]) :
           i \in 1 .. Len(stack[x]) /\ stack'[x][i] = stack[x][i]
  BY <1>1, EndsFacts
<1>3. /\ now' = now /\ deadline' = deadline /\ state' = state
      /\ condition' = condition /\ fulfilled' = fulfilled
      /\ wakeUpEvent' = wakeUpEvent /\ queue' = queue /\ due' = due
      /\ armed' = armed /\ remaining' = remaining
      /\ startValue' = startValue /\ (failed' <=> failed)
  BY DEF EndOfExpiry, timeVars, jobVars
<1>4. Types' /\ ~failed' /\ TimerInv(t)'
  BY <1>2, <1>3 DEF Types, Inv, TimerInv
<1>5. StoppingInv'
  <2> SUFFICES ASSUME NEW u \in Timers, NEW x \in Runners,
                      NEW i \in 1 .. Len(stack'[x]), Stopping(x, i, u)'
               PROVE  /\ i \in 1 .. Len(stack[x]) /\ Stopping(x, i, u)
                      /\ u \notin queue'
    BY StoppingFewer DEF Inv
  <2>1. i \in 1 .. Len(stack[x]) /\ stack'[x][i] = stack[x][i]
    BY <1>2
  <2>2. Stopping(x, i, u)
    BY <2>1 DEF Stopping
  <2> QED
    BY <1>3, <2>1, <2>2 DEF Inv, StoppingInv
<1> QED
  BY <1>2, <1>3, <1>4, <1>5, JobStep

\* When stop() or reset() goes on, nothing else stops the timer.
LEMMA StoppingEnds ==
  ASSUME Inv, NEW r \in Runners, NEW t \in Timers,
         NEW cause \in {"stop", "reset"}, EndsCallback(r, t, cause),
         queue' \subseteq queue \cup {t}
  PROVE  t \notin queue /\ StoppingInv'
<1>1. /\ Len(stack[r]) \in 1 .. Len(stack[r]) /\ Stopping(r, Len(stack[r]), t)
      /\ \A x \in Runners : \A i \in 1 .. Len(stack'[x]) :
           /\ i \in 1 .. Len(stack[x]) /\ stack'[x][i] = stack[x][i]
           /\ ~(x = r /\ i = Len(stack[r]))
  BY EndsFacts
<1>2. t \notin queue
  BY <1>1 DEF Inv, StoppingInv
<1>3. ASSUME NEW u \in Timers, NEW x \in Runners,
             NEW i \in 1 .. Len(stack'[x]), Stopping(x, i, u)'
      PROVE  /\ i \in 1 .. Len(stack[x]) /\ Stopping(x, i, u)
             /\ u \notin queue'
  <2>1. i \in 1 .. Len(stack[x]) /\ stack'[x][i] = stack[x][i]
    BY <1>1
  <2>2. Stopping(x, i, u)
    BY <1>3, <2>1 DEF Stopping
  <2>3. u # t
    BY <1>1, <2>1, <2>2 DEF Inv, StoppingInv
  <2>4. u \notin queue
    BY <2>1, <2>2 DEF Inv, StoppingInv
  <2> QED
    BY <2>1, <2>2, <2>3, <2>4
<1>4. StoppingInv'
  BY <1>3, StoppingFewer DEF Inv
<1> QED
  BY <1>2, <1>4

LEMMA EndOfStopInv ==
  ASSUME Inv, NEW r \in Runners, NEW t \in Timers, EndOfStop(r, t)
  PROVE  Inv'
<1>1. /\ EndsCallback(r, t, "stop") /\ WakeIfWaiting(r, Owner[t])
      /\ Owner[t] \in Runners
  BY JobsAssumption DEF EndOfStop, Timers
<1>2. /\ Types /\ StackInv(r) /\ state[r] = "running"
      /\ stack' \in [Runners -> Seq(Frames)]
      /\ \A x \in Runners \ {r} : stack'[x] = stack[x]
      /\ OnlyCallbacks(r)
  BY <1>1, EndsFacts
<1>3. /\ condition' = condition /\ fulfilled' = fulfilled
      /\ wakeUpEvent' = wakeUpEvent /\ queue' = queue /\ due' = due
      /\ remaining' = remaining /\ startValue' = startValue
      /\ (failed' <=> failed)
  BY DEF EndOfStop, jobVars
<1>4. /\ now' = now /\ deadline' = deadline
      /\ state' \in [Runners -> {"ready", "woken", "running", "sleeping"}]
      /\ state'[r] = "running" /\ state'[Owner[t]] # "sleeping"
      /\ \A x \in Runners :
           \/ state'[x] = state[x]
           \/ state[x] = "sleeping" /\ state'[x] = "woken"
  BY <1>1, <1>2, WakeFacts
<1>5. t \notin queue /\ StoppingInv'
  BY <1>1, <1>3, StoppingEnds
<1>6. /\ armed' \in [Timers -> BOOLEAN] /\ ~armed'[t]
      /\ \A u \in Timers \ {t} : armed'[u] <=> armed[u]
  BY <1>2, Zenon DEF Types, EndOfStop
<1>7. Types' /\ ~failed' /\ TimerInv(t)'
  BY <1>2, <1>3, <1>4, <1>5, <1>6 DEF Types, Inv, TimerInv
<1> QED
  BY <1>2, <1>3, <1>4, <1>5, <1>6, <1>7, JobStep

LEMMA EndOfResetInv ==
  ASSUME Inv, NEW r \in Runners, NEW t \in Timers, EndOfReset(r, t)
  PROVE  Inv'
<1> DEFINE d == startValue[t]
<1>1. /\ EndsCallback(r, t, "reset") /\ AddJob(r, t, now + d)
      /\ WakeIfWaiting(r, Owner[t]) /\ Owner[t] \in Runners
      /\ queue' = queue \cup {t}
  BY JobsAssumption DEF EndOfReset, Arm, AddJob, Timers
<1>2. /\ Types /\ StackInv(r) /\ state[r] = "running"
      /\ stack' \in [Runners -> Seq(Frames)]
      /\ \A x \in Runners \ {r} : stack'[x] = stack[x]
      /\ OnlyCallbacks(r)
  BY <1>1, EndsFacts
<1>3. /\ condition' = condition /\ fulfilled' = fulfilled
      /\ wakeUpEvent' = wakeUpEvent /\ startValue' = startValue
  BY DEF EndOfReset
<1>4. /\ now' = now /\ deadline' = deadline
      /\ state' \in [Runners -> {"ready", "woken", "running", "sleeping"}]
      /\ state'[r] = "running" /\ state'[Owner[t]] # "sleeping"
      /\ \A x \in Runners :
           \/ state'[x] = state[x]
           \/ state[x] = "sleeping" /\ state'[x] = "woken"
  BY <1>1, <1>2, WakeFacts
<1>5. t \notin queue /\ StoppingInv'
  BY <1>1, StoppingEnds
<1>6. /\ now \in Nat /\ d \in Nat /\ d \in Times
      /\ now + d \in Times /\ now + d < EndOfTime
  BY <1>2, TimeAssumption DEF Types, Times, InEpoche, EndOfReset
<1>7. /\ due' \in [Jobs -> Times] /\ due'[t] = now + d
      /\ \A u \in Timers \ {t} : due'[u] = due[u]
  BY <1>1, <1>2, <1>6 DEF AddJob, Types, Timers
<1>8. /\ remaining' \in [Timers -> Times] /\ remaining'[t] = d
      /\ \A u \in Timers \ {t} : remaining'[u] = remaining[u]
  BY <1>2, <1>6 DEF Types, EndOfReset, Arm
<1>9. /\ armed' \in [Timers -> BOOLEAN] /\ armed'[t]
      /\ \A u \in Timers \ {t} : armed'[u] <=> armed[u]
  BY <1>2, Zenon DEF Types, EndOfReset, Arm
<1>10. ~failed'
  <2>1. failed' = (t \in queue)
    BY DEF EndOfReset, Arm
  <2> QED
    BY <1>5, <2>1, Zenon
<1>11. queue' \in SUBSET Jobs
  BY <1>1, <1>2 DEF Types, Timers
<1>12. Types'
  BY <1>2, <1>3, <1>4, <1>7, <1>8, <1>9, <1>11 DEF Types
<1>13. TimerInv(t)'
  BY <1>1, <1>4, <1>6, <1>7, <1>8, <1>9 DEF TimerInv
<1>14. \A u \in Timers \ {t} : u \in queue' <=> u \in queue
  BY <1>1
<1> HIDE DEF d
<1> QED
  BY <1>2, <1>3, <1>4, <1>5, <1>7, <1>8, <1>9, <1>10, <1>12, <1>13, <1>14,
     JobStep

LEMMA DropInv ==
  ASSUME Inv, NEW r \in Runners, NEW t \in Timers, Drop(r, t)
  PROVE  Inv'
<1>1. /\ now' = now /\ deadline' = deadline /\ state' = state
      /\ stack' = stack /\ condition' = condition /\ fulfilled' = fulfilled
      /\ wakeUpEvent' = wakeUpEvent /\ queue' = queue /\ due' = due
      /\ armed' = armed /\ remaining' = remaining
      /\ startValue' = startValue /\ (failed' <=> failed)
      /\ state[r] = "running" /\ StackInv(r)
  BY InCodeFacts DEF Drop, timeVars, waitVars, jobVars
<1>2. Types' /\ ~failed' /\ TimerInv(t)'
  BY <1>1 DEF Types, Inv, TimerInv
<1>3. StoppingInv'
  BY <1>1, SameStacks DEF Inv
<1>4. OnlyCallbacks(r)
  BY <1>1, OnlyCallbacksIfSame
<1> QED
  BY <1>1, <1>2, <1>3, <1>4, JobStep

-----------------------------------------------------------------------------
(* Waits.                                                                  *)

\* A step that is not about timers, and begins no callback.
LEMMA WaitStep ==
  ASSUME Inv, UNCHANGED timerVars, UNCHANGED jobVars,
         \/ now' = now
         \/ now <= now' /\ \A t \in queue : now' <= due[t],
         \A x \in Runners : \A i \in 1 .. Len(stack'[x]) :
           stack'[x][i].kind = "callback" =>
             i \in 1 .. Len(stack[x]) /\ stack'[x][i] = stack[x][i],
         Types', ~failed', \A x \in Runners : RunnerInv(x)'
  PROVE  Inv'
<1>1. /\ queue' = queue /\ due' = due /\ armed' = armed
      /\ remaining' = remaining /\ startValue' = startValue
  BY DEF timerVars, jobVars
<1>2. ASSUME NEW t \in Timers PROVE TimerInv(t)'
  <2>1. TimerInv(t)
    BY DEF Inv
  <2>2. CASE now' = now
    BY <1>1, <2>1, <2>2 DEF TimerInv
  <2>3. CASE now <= now' /\ \A u \in queue : now' <= due[u]
    <3>1. /\ now \in Nat /\ now' \in Nat /\ due[t] \in Nat /\ remaining[t] \in Nat
      BY TimeAssumption DEF Inv, Types, Times, Timers
    <3> QED
      BY <1>1, <2>1, <2>3, <3>1 DEF TimerInv
  <2> QED
    BY <2>2, <2>3
<1>3. StoppingInv'
  <2> SUFFICES ASSUME NEW u \in Timers, NEW x \in Runners,
                      NEW i \in 1 .. Len(stack'[x]), Stopping(x, i, u)'
               PROVE  /\ i \in 1 .. Len(stack[x]) /\ Stopping(x, i, u)
                      /\ u \notin queue'
    BY StoppingFewer DEF Inv
  <2>1. i \in 1 .. Len(stack[x]) /\ stack'[x][i] = stack[x][i]
    BY DEF Stopping
  <2>2. Stopping(x, i, u)
    BY <2>1 DEF Stopping
  <2> QED
    BY <1>1, <2>1, <2>2 DEF Inv, StoppingInv
<1> QED
  BY <1>2, <1>3 DEF Inv

LEMMA WaitInvariant ==
  ASSUME ~CallbacksWait, Inv, NEW r \in Runners, NEW kind \in Kinds,
         NEW duration \in Durations \cup {EndOfTime}, NEW value \in BOOLEAN,
         Wait(r, kind, duration, value), UNCHANGED timerVars
  PROVE  Inv'
<1> DEFINE end == IF duration = EndOfTime THEN EndOfTime ELSE now + duration
           f == [kind |-> kind, timeout |-> duration, stage |-> "check",
                 startAt |-> 0,
                 token |-> IF kind = "token" THEN "awaited" ELSE "none",
                 end |-> end]
<1>1. state[r] = "running" /\ StackInv(r) /\ Types /\ ~InCallback(r)
  BY InCodeFacts DEF Wait
<1>2. stack[r] = <<>> /\ Len(stack[r]) = 0 /\ ~condition[r]
  <2>1. stack[r] = <<>>
    <3> SUFFICES ASSUME stack[r] # <<>> PROVE FALSE
      OBVIOUS
    <3>1. Top(r).kind = "callback"
      BY InCodeFacts DEF Wait
    <3>2. Len(stack[r]) \in 1 .. Len(stack[r])
      BY <1>1, FrameFacts
    <3> QED
      BY <1>1, <3>1, <3>2 DEF InCallback, Top
  <2> QED
    BY <1>1, <2>1 DEF StackInv, Waiting1
<1>3. /\ now \in Nat /\ now <= EndOfTime /\ EndOfTime \in Nat
      /\ duration \in Times /\ end \in Times
  BY <1>1, TimeAssumption DEF Types, Times, Wait, InEpoche
<1>4. kind \in {"duration", "condition", "token"}
  BY WaitsAssumption
<1>5. /\ f \in Waits /\ f.kind = kind /\ f.timeout = duration
      /\ f.stage = "check" /\ f.end = end /\ f.token # "given"
      /\ f.token # "none" <=> f.kind = "token"
  BY <1>3, <1>4 DEF Waits, Times
<1>6. duration = EndOfTime => end = EndOfTime
  OBVIOUS
<1>7. duration # EndOfTime => end = now + duration
  OBVIOUS
<1>8. /\ Push(r, f) /\ timeVars' = timeVars /\ jobVars' = jobVars
      /\ condition' = [condition EXCEPT ![r] = @ \/ kind = "condition"]
      /\ fulfilled' = [fulfilled EXCEPT ![r] = IF kind = "condition" THEN value
                                                                     ELSE @]
      /\ wakeUpEvent' = [wakeUpEvent EXCEPT ![r] = FALSE]
      /\ failed' = (kind = "condition" /\ condition[r])
  BY DEF Wait
<1> HIDE DEF end, f
<1>9. /\ stack' \in [Runners -> Seq(Frames)]
      /\ \A x \in Runners \ {r} : stack'[x] = stack[x]
      /\ stack'[r] # <<>> /\ Len(stack'[r]) = 1 /\ stack'[r][1] = f
  <2>1. f \in Frames
    BY <1>5 DEF Frames
  <2>2. /\ stack' \in [Runners -> Seq(Frames)]
        /\ \A x \in Runners \ {r} : stack'[x] = stack[x]
        /\ stack'[r] # <<>> /\ Len(stack'[r]) = Len(stack[r]) + 1
        /\ stack'[r][Len(stack[r]) + 1] = f
    BY <1>1, <1>8, <2>1, PushFacts
  <2> QED
    BY <1>2, <2>2
<1>10. now' = now /\ deadline' = deadline /\ state' = state
  BY <1>8 DEF timeVars
<1>11. /\ condition' \in [Runners -> BOOLEAN]
       /\ condition'[r] => kind = "condition"
       /\ \A x \in Runners \ {r} : condition'[x] <=> condition[x]
  BY <1>1, <1>2, <1>8, Zenon DEF Types
<1>12. /\ fulfilled' \in [Runners -> BOOLEAN]
       /\ \A x \in Runners \ {r} : fulfilled'[x] <=> fulfilled[x]
  BY <1>1, <1>8, Zenon DEF Types
<1>13. /\ wakeUpEvent' \in [Runners -> BOOLEAN] /\ ~wakeUpEvent'[r]
       /\ \A x \in Runners \ {r} : wakeUpEvent'[x] <=> wakeUpEvent[x]
  BY <1>1, <1>8, Zenon DEF Types
<1>14. ~failed'
  BY <1>2, <1>8, Zenon
<1>15. Types'
  BY <1>1, <1>8, <1>9, <1>10, <1>11, <1>12, <1>13
  DEF Types, timerVars, jobVars
<1>16. RunnerInv(r)'
  <2>1. StackInv(r)'
    BY <1>1, <1>5, <1>9, <1>10, <1>11, <1>4 DEF StackInv, Waiting1
  <2>2. WaitInv(r)'
    BY <1>5, <1>6, <1>7, <1>9, <1>10, <1>13 DEF WaitInv
  <2> QED
    BY <1>1, <1>10, <2>1, <2>2 DEF RunnerInv, SleepInv
<1>17. ASSUME NEW x \in Runners, x # r PROVE RunnerInv(x)'
  <2>1. RunnerInv(x) /\ queue' = queue /\ due' = due
    BY <1>8 DEF Inv, jobVars
  <2> QED
    BY <1>9, <1>10, <1>11, <1>12, <1>13, <1>17, <2>1, Unaffected
<1>18. ASSUME NEW x \in Runners, NEW i \in 1 .. Len(stack'[x]),
              stack'[x][i].kind = "callback"
       PROVE  i \in 1 .. Len(stack[x]) /\ stack'[x][i] = stack[x][i]
  <2>1. CASE x = r
    <3>1. i = 1 /\ stack'[x][i] = f
      BY <1>9, <2>1
    <3>2. f.kind # "callback"
      BY <1>4, <1>5
    <3> QED
      BY <1>18, <3>1, <3>2
  <2>2. CASE x # r
    BY <1>9, <2>2
  <2> QED
    BY <2>1, <2>2
<1> QED
  BY <1>8, <1>10, <1>14, <1>15, <1>16, <1>17, <1>18, WaitStep

\* A runner in a wait is in no callback.
LEMMA InWaitFacts ==
  ASSUME Inv, NEW r \in Runners, InWait(r)
  PROVE  /\ Types /\ RunnerInv(r) /\ Waiting1(r)
         /\ stack[r] # <<>> /\ Len(stack[r]) = 1 /\ Top(r) = stack[r][1]
         /\ stack[r][1] \in Waits
<1>1. Types /\ RunnerInv(r)
  BY DEF Inv
<1>2. stack[r] # <<>> /\ Top(r).kind # "callback"
  BY DEF InWait
<1>3. Len(stack[r]) \in Nat /\ Len(stack[r]) > 0
  BY <1>1, <1>2, FrameFacts
<1>4. Len(stack[r]) = 1
  <2> SUFFICES ASSUME Len(stack[r]) # 1 PROVE FALSE
    OBVIOUS
  <2>1. Len(stack[r]) \in 2 .. Len(stack[r])
    <3>1. \A n \in Nat : n > 0 /\ n # 1 => n \in 2 .. n
      OBVIOUS
    <3> QED
      BY <1>3, <3>1
  <2> QED
    BY <1>1, <1>2, <2>1 DEF Top, RunnerInv, StackInv
<1>5. Top(r) = stack[r][1]
  BY <1>4 DEF Top
<1>6. Waiting1(r)
  BY <1>2, <1>5 DEF Waiting1
<1>7. stack[r][1] \in Waits
  <2>1. 1 \in 1 .. Len(stack[r])
    BY <1>4
  <2> QED
    BY <1>1, <1>2, <1>5, <2>1, FrameFacts
<1> QED
  BY <1>1, <1>2, <1>4, <1>5, <1>6, <1>7

\* The frame of a wait is replaced.
LEMMA WaitReplaced ==
  ASSUME Inv, NEW r \in Runners, InWait(r), NEW w \in Waits, SetTop(r, w)
  PROVE  /\ stack' \in [Runners -> Seq(Frames)]
         /\ \A x \in Runners \ {r} : stack'[x] = stack[x]
         /\ stack'[r] # <<>> /\ Len(stack'[r]) = 1 /\ stack'[r][1] = w
         /\ w.kind # "callback" => Waiting1(r)'
         /\ w.kind # "callback" =>
              \A x \in Runners : \A i \in 1 .. Len(stack'[x]) :
                stack'[x][i].kind = "callback" =>
                  i \in 1 .. Len(stack[x]) /\ stack'[x][i] = stack[x][i]
<1>1. Types /\ stack[r] # <<>> /\ Len(stack[r]) = 1
  BY InWaitFacts
<1>2. w \in Frames
  BY DEF Frames
<1>3. /\ stack' \in [Runners -> Seq(Frames)]
      /\ \A x \in Runners \ {r} : stack'[x] = stack[x]
      /\ stack'[r] # <<>> /\ Len(stack'[r]) = Len(stack[r])
      /\ stack'[r][Len(stack[r])] = w
  BY <1>1, <1>2, SetTopFacts
<1>4. Len(stack'[r]) = 1 /\ stack'[r][1] = w
  BY <1>1, <1>3
<1>5. ASSUME w.kind # "callback",
             NEW x \in Runners, NEW i \in 1 .. Len(stack'[x]),
             stack'[x][i].kind = "callback"
      PROVE  i \in 1 .. Len(stack[x]) /\ stack'[x][i] = stack[x][i]
  <2>1. CASE x = r
    <3>1. i \in 1 .. 1 /\ stack'[x][1] = w
      BY <1>4, <2>1
    <3>2. i = 1
      BY <3>1
    <3> QED
      BY <1>5, <3>1, <3>2
  <2>2. CASE x # r
    BY <1>3, <2>2
  <2> QED
    BY <2>1, <2>2
<1> QED
  BY <1>3, <1>4, <1>5 DEF Waiting1

LEMMA FallAsleepInv ==
  ASSUME Inv, NEW r \in Runners, FallAsleep(r), UNCHANGED timerVars
  PROVE  Inv'
<1> DEFINE old == stack[r][1]
           w == [old EXCEPT !.stage = "asleep", !.startAt = now]
<1>1. state[r] = "running" /\ InWait(r) /\ old.stage # "asleep"
  <2>1. InWait(r) /\ state[r] = "running" /\ Top(r).stage \in {"check", "drain"}
    BY DEF FallAsleep, AtLoopHead, InLoop
  <2> QED
    BY <2>1, InWaitFacts
<1>2. /\ Types /\ RunnerInv(r) /\ Waiting1(r) /\ Top(r) = old /\ old \in Waits
  BY <1>1, InWaitFacts
<1>3. now \in Times /\ now \in Nat /\ EndOfTime \in Nat
  BY <1>2, TimeAssumption DEF Types, Times
<1>4. ~(\E j \in JobsOf(r) : due[j] < now)
  <2> SUFFICES ASSUME NEW j \in queue PROVE ~(due[j] < now)
    BY DEF JobsOf
  <2>1. j \in Timers /\ due[j] \in Nat
    BY <1>2 DEF Types, Times, Timers
  <2>2. now <= due[j]
    BY <2>1 DEF Inv, TimerInv
  <2> QED
    BY <1>3, <2>1, <2>2
<1>5. PICK until \in Deadlines(r) :
        (\A other \in Deadlines(r) : until <= other) /\ Time!Sleep(r, until)
  BY <1>4 DEF FallAsleep
<1>6. /\ SetTop(r, w) /\ UNCHANGED <<wakeUpEvent, condition, fulfilled, jobVars>>
      /\ (failed' <=> failed)
  BY <1>2, <1>4 DEF FallAsleep
<1>7. /\ wakeUpEvent' = wakeUpEvent /\ condition' = condition
      /\ fulfilled' = fulfilled /\ queue' = queue /\ due' = due
      /\ now' = now
  BY <1>5, <1>6 DEF jobVars, Time!Sleep
<1>8. /\ old.kind \in {"duration", "condition", "token"}
      /\ old.timeout \in Times /\ old.timeout \in Nat /\ old.end \in Times
      /\ old.end \in Nat
      /\ old.timeout <= EndOfTime
  BY <1>2, TimeAssumption DEF Waits, Times
<1>9. /\ w \in Waits /\ w.kind = old.kind /\ w.timeout = old.timeout
      /\ w.stage = "asleep" /\ w.startAt = now /\ w.end = old.end
      /\ w.token = old.token
  BY <1>2, <1>3 DEF Waits
<1> HIDE DEF w
<1>10. w.kind # "callback"
  BY <1>8, <1>9
<1>11. /\ stack' \in [Runners -> Seq(Frames)]
       /\ \A x \in Runners \ {r} : stack'[x] = stack[x]
       /\ stack'[r] # <<>> /\ Len(stack'[r]) = 1 /\ stack'[r][1] = w
       /\ Waiting1(r)'
       /\ \A x \in Runners : \A i \in 1 .. Len(stack'[x]) :
            stack'[x][i].kind = "callback" =>
              i \in 1 .. Len(stack[x]) /\ stack'[x][i] = stack[x][i]
  BY <1>1, <1>6, <1>9, <1>10, WaitReplaced
<1>12. /\ old.timeout = EndOfTime => old.end = EndOfTime
       /\ old.timeout # EndOfTime => old.end = now + old.timeout
       /\ old.kind \in Kinds
       /\ old.token = "given" <=> wakeUpEvent[r]
       /\ old.token # "none" <=> old.kind = "token"
  BY <1>1, <1>2 DEF RunnerInv, WaitInv
<1>13. /\ until \in Times /\ until \in Nat
       /\ until <= now + old.timeout /\ until <= old.end /\ now <= until
       /\ \A t \in JobsOf(r) : until <= due[t]
  <2>1. now <= until
    BY <1>5 DEF Time!Sleep
  <2>2. \A t \in JobsOf(r) : until <= due[t]
    BY <1>5 DEF Deadlines
  <2>3. \A t \in JobsOf(r) : due[t] \in Times
    BY <1>2 DEF JobsOf, Types
  <2>4. CASE old.timeout = EndOfTime
    <3>1. EndOfTime \in Deadlines(r)
      BY <1>2, <2>4 DEF Deadlines
    <3>2. until \in Times
      BY <1>2, <1>3, <2>3, <2>4 DEF Deadlines, Times
    <3>3. until <= EndOfTime
      BY <1>5, <3>1
    <3> QED
      BY <1>3, <1>12, <2>1, <2>2, <2>4, <3>2, <3>3 DEF Times
  <2>5. CASE old.timeout # EndOfTime
    <3>1. now + old.timeout \in Deadlines(r)
      BY <1>2, <2>5 DEF Deadlines
    <3>2. now + old.timeout \in Times
      BY <1>2, <1>3, <1>8, <2>5 DEF FallAsleep, InEpoche, Times
    <3>3. until \in Times
      BY <1>2, <2>3, <2>5, <3>2 DEF Deadlines
    <3>4. until <= now + old.timeout
      BY <1>5, <3>1
    <3> QED
      BY <1>3, <1>12, <2>1, <2>2, <2>5, <3>3, <3>4 DEF Times
  <2> QED
    BY <2>4, <2>5
<1>14. /\ state' \in [Runners -> {"ready", "woken", "running", "sleeping"}]
       /\ state'[r] = "sleeping"
       /\ \A x \in Runners \ {r} : state'[x] = state[x]
  <2>1. state' = [state EXCEPT ![r] = "sleeping"]
    BY <1>5 DEF Time!Sleep
  <2>2. state \in [Runners -> {"ready", "woken", "running", "sleeping"}]
    BY <1>2 DEF Types
  <2> QED
    BY <2>1, <2>2
<1>15. /\ deadline' \in [Runners -> Times] /\ deadline'[r] = until
       /\ \A x \in Runners \ {r} : deadline'[x] = deadline[x]
  <2>1. deadline' = [deadline EXCEPT ![r] = until]
    BY <1>5 DEF Time!Sleep
  <2>2. deadline \in [Runners -> Times]
    BY <1>2 DEF Types
  <2> QED
    BY <1>13, <2>1, <2>2
<1>16. Types' /\ ~failed'
  <2>1. /\ armed' = armed /\ remaining' = remaining
        /\ startValue' = startValue
    BY DEF timerVars
  <2> QED
    BY <1>2, <1>6, <1>7, <1>11, <1>14, <1>15, <2>1 DEF Types, Inv
<1>17. RunnerInv(r)'
  <2>1. StackInv(r)'
    BY <1>2, <1>7, <1>9, <1>11, <1>14 DEF RunnerInv, StackInv
  <2>2. WaitInv(r)'
    BY <1>3, <1>7, <1>8, <1>9, <1>11, <1>12 DEF WaitInv
  <2>3. ~(condition[r] /\ fulfilled[r]) /\ ~wakeUpEvent[r]
    BY DEF FallAsleep, GoesOn
  <2>4. \A t \in JobsOf(r)' : deadline'[r] <= due'[t]
    BY <1>7, <1>13, <1>15 DEF JobsOf
  <2>5. SleepInv(r)'
    BY <1>7, <1>9, <1>11, <1>12, <1>13, <1>15, <2>3, <2>4 DEF SleepInv
  <2> QED
    BY <2>1, <2>2, <2>5 DEF RunnerInv
<1>18. ASSUME NEW x \in Runners, x # r PROVE RunnerInv(x)'
  <2>1. RunnerInv(x)
    BY DEF Inv
  <2> QED
    BY <1>7, <1>11, <1>14, <1>15, <1>18, <2>1, Unaffected
<1> QED
  BY <1>6, <1>7, <1>11, <1>16, <1>17, <1>18, WaitStep

\* Time passes when all sleep.
LEMMA IdleFacts ==
  ASSUME Inv, Time!Idle, NEW x \in Runners
  PROVE  state[x] = "sleeping"
BY DEF Inv, Types, Time!Idle, Time!In, Time!Ready

LEMMA TimePasses ==
  ASSUME Inv, NEW x \in Runners, state[x] = "sleeping", state'[x] = "sleeping",
         Types', now <= now', now' <= deadline[x],
         stack'[x] = stack[x], deadline'[x] = deadline[x],
         condition'[x] <=> condition[x], fulfilled'[x] <=> fulfilled[x],
         wakeUpEvent'[x] <=> wakeUpEvent[x], queue' = queue, due' = due
  PROVE  RunnerInv(x)'
<1>1. Types /\ RunnerInv(x)
  BY DEF Inv
<1> DEFINE w == stack[x][1]
<1>2. /\ Len(stack[x]) = 1 /\ Waiting1(x) /\ w.stage = "asleep"
  BY <1>1 DEF RunnerInv, StackInv
<1>3. /\ now \in Nat /\ now' \in Nat /\ deadline[x] \in Nat
  BY <1>1, TimeAssumption DEF Types, Times
<1>4. /\ w.startAt \in Nat /\ w.timeout \in Nat
  <2>1. 1 \in 1 .. Len(stack[x]) /\ w.kind # "callback"
    BY <1>2 DEF Waiting1
  <2>2. w \in Waits
    BY <1>1, <2>1, FrameFacts
  <2> QED
    BY <2>2, TimeAssumption DEF Waits, Times
<1>5. /\ w.startAt <= now' /\ now' <= w.startAt + w.timeout
  BY <1>1, <1>2, <1>3, <1>4 DEF RunnerInv, WaitInv, SleepInv
<1>6. StackInv(x)'
  BY <1>1 DEF RunnerInv, StackInv, Waiting1
<1>7. WaitInv(x)'
  BY <1>1, <1>2, <1>5 DEF RunnerInv, WaitInv, Waiting1
<1>8. SleepInv(x)'
  BY <1>1 DEF RunnerInv, SleepInv, JobsOf
<1> QED
  BY <1>6, <1>7, <1>8 DEF RunnerInv

LEMMA EndInv ==
  ASSUME Inv, End, UNCHANGED timerVars
  PROVE  Inv'
<1>1. /\ Types /\ stack' = stack /\ condition' = condition
      /\ fulfilled' = fulfilled /\ wakeUpEvent' = wakeUpEvent
      /\ queue' = queue /\ due' = due /\ (failed' <=> failed)
      /\ state' = state /\ deadline' = deadline /\ UNCHANGED jobVars
  BY DEF Inv, End, Time!End, waitVars, jobVars
<1>2. \A x \in Runners : state[x] = "sleeping"
  BY IdleFacts DEF End, Time!End
<1>3. \A x \in Runners : deadline[x] = EndOfTime
  BY <1>2 DEF End, Time!End, Time!In
<1>4. /\ now \in Nat /\ now <= EndOfTime /\ EndOfTime \in Nat
      /\ now' = now \/ now' = EndOfTime
  BY <1>1, TimeAssumption DEF Types, Times, End, Time!End
<1>5. now <= now' /\ now' <= EndOfTime /\ now' \in Times
  BY <1>4 DEF Times
<1>6. \A t \in queue : FALSE
  <2> SUFFICES ASSUME NEW t \in queue PROVE FALSE
    OBVIOUS
  <2>1. t \in Timers /\ Owner[t] \in Runners /\ t \in JobsOf(Owner[t])
    BY <1>1, JobsAssumption DEF Types, Timers, JobsOf
  <2>2. deadline[Owner[t]] <= due[t] /\ due[t] < EndOfTime
    BY <1>2, <2>1 DEF Inv, RunnerInv, SleepInv, TimerInv
  <2>3. due[t] \in Nat
    BY <1>1, <2>1 DEF Types, Times, Timers
  <2> QED
    BY <1>3, <1>4, <2>1, <2>2, <2>3
<1>7. Types' /\ ~failed'
  <2>1. /\ armed' = armed /\ remaining' = remaining
        /\ startValue' = startValue
    BY DEF timerVars
  <2> QED
    BY <1>1, <1>5, <2>1 DEF Types, Inv
<1>8. \A x \in Runners : RunnerInv(x)'
  BY <1>1, <1>2, <1>3, <1>5, <1>7, TimePasses
<1> QED
  BY <1>1, <1>5, <1>6, <1>7, <1>8, WaitStep

LEMMA ResumeWait ==
  ASSUME Inv, NEW r \in Runners, InWait(r), Resume(r), UNCHANGED timerVars,
         state[r] \in {"woken", "sleeping"}, now' \in Times, now <= now',
         state[r] = "sleeping" => now' <= deadline[r],
         state[r] = "woken" => now' = now,
         state' = [state EXCEPT ![r] = "running"], deadline' = deadline
  PROVE  /\ stack' \in [Runners -> Seq(Frames)]
         /\ \A x \in Runners \ {r} : stack'[x] = stack[x]
         /\ \A x \in Runners : \A i \in 1 .. Len(stack'[x]) :
              stack'[x][i].kind = "callback" =>
                i \in 1 .. Len(stack[x]) /\ stack'[x][i] = stack[x][i]
         /\ ~failed' /\ RunnerInv(r)'
<1> DEFINE old == stack[r][1]
           slept == now' - old.startAt
           left == IF old.timeout = EndOfTime THEN old.timeout
                                              ELSE old.timeout - slept
           token == IF old.token = "cut" THEN "awaited" ELSE old.token
           w == [old EXCEPT !.timeout = left, !.stage = "drain", !.startAt = 0,
                            !.token = token]
<1>1. /\ Types /\ RunnerInv(r) /\ Waiting1(r) /\ Len(stack[r]) = 1
      /\ Top(r) = old /\ old \in Waits
  BY InWaitFacts
<1>2. /\ old.kind \in {"duration", "condition", "token"}
      /\ old.timeout \in Nat /\ old.timeout <= EndOfTime
      /\ old.startAt \in Nat /\ old.end \in Nat /\ EndOfTime \in Nat
  BY <1>1, TimeAssumption DEF Waits, Times
<1>3. now \in Nat /\ now' \in Nat /\ deadline[r] \in Nat
  BY <1>1, TimeAssumption DEF Types, Times
<1>4. /\ old.stage = "asleep" /\ old.startAt <= now
      /\ old.timeout = EndOfTime => old.end = EndOfTime
      /\ old.timeout # EndOfTime => old.end = old.startAt + old.timeout
      /\ now <= old.startAt + old.timeout
      /\ old.kind \in Kinds
      /\ old.token = "given" <=> wakeUpEvent[r]
      /\ old.token # "none" <=> old.kind = "token"
  BY <1>1 DEF RunnerInv, StackInv, WaitInv
<1>5. now' <= old.startAt + old.timeout
  <2>1. CASE state[r] = "woken"
    BY <1>4, <2>1
  <2>2. CASE state[r] = "sleeping"
    BY <1>1, <1>2, <1>3, <2>2 DEF RunnerInv, SleepInv
  <2> QED
    BY <2>1, <2>2
<1>6. slept \in Nat /\ slept <= old.timeout
  BY <1>2, <1>3, <1>4, <1>5
<1>7. /\ left \in Nat /\ left \in Times
      /\ left = EndOfTime => old.timeout = EndOfTime
      /\ old.timeout # EndOfTime => old.end = now' + left
  BY <1>2, <1>3, <1>4, <1>5, <1>6 DEF Times
<1>8. /\ SetTop(r, w) /\ condition' = condition /\ fulfilled' = fulfilled
      /\ wakeUpEvent' = wakeUpEvent
      /\ failed' = (InWait(r) /\ Top(r).timeout < now' - Top(r).startAt)
  BY <1>1 DEF Resume
<1>16. /\ token \in {"none", "awaited", "cut", "given", "lost"}
       /\ token = "given" <=> old.token = "given"
       /\ token # "none" <=> old.token # "none"
  BY <1>1 DEF Waits
<1> HIDE DEF left, token
<1>9. /\ w \in Waits /\ w.kind = old.kind /\ w.timeout = left
      /\ w.stage = "drain" /\ w.end = old.end /\ w.token = token
  <2>1. 0 \in Times /\ left \in Times /\ old \in Waits
    BY <1>1, <1>7, TimeAssumption DEF Times
  <2> USE <1>16
  <2> QED
    BY <2>1 DEF Waits
<1> HIDE DEF w
<1>10. w.kind # "callback"
  BY <1>2, <1>9
<1>11. /\ stack' \in [Runners -> Seq(Frames)]
       /\ \A x \in Runners \ {r} : stack'[x] = stack[x]
       /\ stack'[r] # <<>> /\ Len(stack'[r]) = 1 /\ stack'[r][1] = w
       /\ Waiting1(r)'
       /\ \A x \in Runners : \A i \in 1 .. Len(stack'[x]) :
            stack'[x][i].kind = "callback" =>
              i \in 1 .. Len(stack[x]) /\ stack'[x][i] = stack[x][i]
  BY <1>8, <1>9, <1>10, WaitReplaced
<1>12. ~failed'
  <2>1. ~(old.timeout < now' - old.startAt)
    BY <1>2, <1>6
  <2> QED
    BY <1>1, <1>8, <2>1, Zenon
<1>13. state'[r] = "running"
  BY <1>1 DEF Types
<1>14. StackInv(r)'
  BY <1>1, <1>8, <1>9, <1>11, <1>13 DEF RunnerInv, StackInv
<1>15. WaitInv(r)'
  <2>1. /\ w.kind \in Kinds
        /\ w.token = "given" <=> wakeUpEvent'[r]
        /\ w.token # "none" <=> w.kind = "token"
    BY <1>4, <1>8, <1>9, <1>16
  <2>2. w.timeout = EndOfTime => w.end = EndOfTime
    BY <1>4, <1>7, <1>9
  <2>3. w.timeout # EndOfTime => w.end = now' + w.timeout
    BY <1>7, <1>9 DEF left
  <2> QED
    BY <1>9, <1>11, <2>1, <2>2, <2>3 DEF WaitInv
<1> QED
  BY <1>11, <1>12, <1>13, <1>14, <1>15 DEF RunnerInv, SleepInv

LEMMA ResumeInv ==
  ASSUME Inv, NEW r \in Runners, Resume(r), UNCHANGED timerVars
  PROVE  Inv'
<1>1. /\ Types /\ RunnerInv(r) /\ condition' = condition
      /\ fulfilled' = fulfilled /\ wakeUpEvent' = wakeUpEvent
      /\ queue' = queue /\ due' = due /\ UNCHANGED jobVars
      /\ armed' = armed /\ remaining' = remaining
      /\ startValue' = startValue
  BY DEF Inv, Resume, jobVars, timerVars
<1>2. /\ state' = [state EXCEPT ![r] = "running"] /\ deadline' = deadline
      /\ \/ state[r] \in {"ready", "woken"} /\ now' = now
         \/ Time!TimeOut(r)
  BY DEF Resume, Time!Run, Time!TimeOut, Time!Ready, Time!In
<1>3. /\ state' \in [Runners -> {"ready", "woken", "running", "sleeping"}]
      /\ state'[r] = "running"
      /\ \A x \in Runners \ {r} : state'[x] = state[x]
  <2>1. state \in [Runners -> {"ready", "woken", "running", "sleeping"}]
    BY <1>1 DEF Types
  <2> QED
    BY <1>2, <2>1
<1>4. /\ now' \in Times /\ now <= now'
      /\ now' = now \/ \A t \in queue : now' <= due[t]
      /\ state[r] = "sleeping" => now' <= deadline[r]
      /\ state[r] # "sleeping" => now' = now
      /\ \A x \in Runners \ {r} :
           \/ now' = now
           \/ state[x] = "sleeping" /\ now' <= deadline[x]
  <2>1. CASE state[r] \in {"ready", "woken"} /\ now' = now
    <3>1. now \in Times /\ now \in Nat
      BY <1>1, TimeAssumption DEF Types, Times
    <3> QED
      BY <2>1, <3>1
  <2>2. CASE Time!TimeOut(r)
    <3>1. /\ now' = deadline[r] /\ state[r] = "sleeping"
          /\ \A x \in Runners : state[x] = "sleeping" =>
                                deadline[r] <= deadline[x]
      BY <2>2 DEF Time!TimeOut, Time!In
    <3>2. \A x \in Runners : state[x] = "sleeping"
      BY <2>2, IdleFacts DEF Time!TimeOut
    <3>3. deadline[r] \in Times /\ deadline[r] \in Nat /\ now \in Nat
      BY <1>1, TimeAssumption DEF Types, Times
    <3>4. now <= deadline[r]
      BY <1>1, <3>1 DEF RunnerInv, SleepInv
    <3>5. ASSUME NEW t \in queue PROVE now' <= due[t]
      <4>1. t \in Timers /\ Owner[t] \in Runners /\ t \in JobsOf(Owner[t])
        BY <1>1, JobsAssumption DEF Types, Timers, JobsOf
      <4>2. deadline[Owner[t]] <= due[t] /\ deadline[r] <= deadline[Owner[t]]
        BY <3>1, <3>2, <4>1 DEF Inv, RunnerInv, SleepInv
      <4>3. due[t] \in Nat /\ deadline[Owner[t]] \in Nat
        BY <1>1, <4>1, TimeAssumption DEF Types, Times, Timers
      <4> QED
        BY <3>1, <3>3, <4>2, <4>3
    <3> QED
      BY <3>1, <3>2, <3>3, <3>4, <3>5
  <2> QED
    BY <1>2, <2>1, <2>2
<1>5. /\ stack' \in [Runners -> Seq(Frames)]
      /\ \A x \in Runners \ {r} : stack'[x] = stack[x]
      /\ \A x \in Runners : \A i \in 1 .. Len(stack'[x]) :
           stack'[x][i].kind = "callback" =>
             i \in 1 .. Len(stack[x]) /\ stack'[x][i] = stack[x][i]
      /\ ~failed' /\ RunnerInv(r)'
  <2>1. CASE InWait(r)
    <3>1. state[r] \in {"woken", "sleeping"}
      <4>1. state[r] # "ready"
        BY <1>1, <2>1 DEF RunnerInv, StackInv, InWait
      <4>2. state[r] \in {"ready", "woken", "sleeping"}
        BY <1>2 DEF Time!TimeOut, Time!In
      <4> QED
        BY <4>1, <4>2
    <3> QED
      BY <1>2, <1>4, <2>1, <3>1, ResumeWait
  <2>2. CASE ~InWait(r)
    <3>1. stack' = stack
      BY <2>2 DEF Resume
    <3>2. failed' = (InWait(r) /\ Top(r).timeout < now' - Top(r).startAt)
      BY DEF Resume
    <3>3. ~failed'
      BY <2>2, <3>2, Zenon
    <3>4. state[r] \notin {"woken", "sleeping"}
      <4> SUFFICES ASSUME state[r] \in {"woken", "sleeping"} PROVE FALSE
        OBVIOUS
      <4> QED
        BY <1>1, <2>2 DEF RunnerInv, StackInv, Waiting1, InWait, Top
    <3>5. state[r] = "ready" /\ stack[r] = <<>> /\ ~condition[r]
      <4>1. state[r] = "ready"
        BY <1>2, <3>4 DEF Time!TimeOut, Time!In
      <4> QED
        BY <1>1, <4>1 DEF RunnerInv, StackInv, Waiting1
    <3>6. RunnerInv(r)'
      BY <1>1, <1>3, <3>1, <3>5
      DEF RunnerInv, StackInv, WaitInv, SleepInv, Waiting1
    <3> QED
      BY <1>1, <3>1, <3>3, <3>6 DEF Types
  <2> QED
    BY <2>1, <2>2
<1>6. Types'
  BY <1>1, <1>2, <1>3, <1>4, <1>5 DEF Types
<1>7. ASSUME NEW x \in Runners, x # r PROVE RunnerInv(x)'
  <2>1. /\ stack'[x] = stack[x] /\ state'[x] = state[x] /\ RunnerInv(x)
    BY <1>3, <1>5, <1>7 DEF Inv
  <2>2. CASE now' = now
    BY <1>1, <1>2, <2>1, <2>2, Unaffected
  <2>3. CASE state[x] = "sleeping" /\ now' <= deadline[x]
    BY <1>1, <1>2, <1>4, <1>6, <2>1, <2>3, TimePasses
  <2> QED
    BY <1>4, <1>7, <2>2, <2>3
<1> QED
  BY <1>1, <1>4, <1>5, <1>6, <1>7, WaitStep

\* A step in which the waiting lists of semaphores turn out to be wrong.
Stuck ==
  /\ failed' /\ Types' /\ UNCHANGED timerVars
  /\ "token" \in Kinds

LEMMA ReturnInv ==
  ASSUME Inv, NEW r \in Runners, Return(r), UNCHANGED timerVars
  PROVE  Inv' \/ Stuck
<1>1. state[r] = "running" /\ InWait(r)
  BY DEF Return, AtLoopHead, InLoop
<1>2. /\ Types /\ RunnerInv(r) /\ Waiting1(r) /\ stack[r] # <<>>
      /\ Len(stack[r]) = 1 /\ Top(r) = stack[r][1]
  BY <1>1, InWaitFacts
<1>3. /\ Pop(r) /\ timeVars' = timeVars /\ wakeUpEvent' = wakeUpEvent
      /\ jobVars' = jobVars
      /\ condition' = [condition EXCEPT ![r] = @ /\ Top(r).kind # "condition"]
      /\ fulfilled' = [fulfilled EXCEPT ![r] = @ /\ Top(r).kind # "condition"]
  BY DEF Return
<1>4. now' = now /\ state' = state /\ deadline' = deadline
      /\ queue' = queue /\ due' = due
  BY <1>3 DEF timeVars, jobVars
<1>5. /\ stack' \in [Runners -> Seq(Frames)]
      /\ \A x \in Runners \ {r} : stack'[x] = stack[x]
      /\ stack'[r] = <<>> /\ Len(stack'[r]) = 0
  <2>1. /\ stack' \in [Runners -> Seq(Frames)]
        /\ \A x \in Runners \ {r} : stack'[x] = stack[x]
        /\ Len(stack'[r]) = Len(stack[r]) - 1
    BY <1>2, <1>3, PopFacts
  <2>2. stack'[r] \in Seq(Frames) /\ Len(stack'[r]) = 0
    BY <1>2, <2>1
  <2> QED
    BY <2>1, <2>2
<1>6. /\ condition' \in [Runners -> BOOLEAN]
      /\ condition'[r] <=> condition[r] /\ Top(r).kind # "condition"
      /\ \A x \in Runners \ {r} : condition'[x] <=> condition[x]
  BY <1>2, <1>3, Zenon DEF Types
<1>7. /\ fulfilled' \in [Runners -> BOOLEAN]
      /\ \A x \in Runners \ {r} : fulfilled'[x] <=> fulfilled[x]
  BY <1>2, <1>3, Zenon DEF Types
<1>8. Types'
  <2>1. /\ armed' = armed /\ remaining' = remaining
        /\ startValue' = startValue
    BY DEF timerVars
  <2> QED
    BY <1>2, <1>3, <1>4, <1>5, <1>6, <1>7, <2>1 DEF Types
<1>9. ~condition'[r]
  BY <1>2, <1>6 DEF RunnerInv, StackInv
<1>10. RunnerInv(r)'
  BY <1>1, <1>4, <1>5, <1>9 DEF RunnerInv, StackInv, WaitInv, SleepInv, Waiting1
<1>11. ASSUME NEW x \in Runners, x # r PROVE RunnerInv(x)'
  <2>1. RunnerInv(x)
    BY DEF Inv
  <2> QED
    BY <1>3, <1>4, <1>5, <1>6, <1>7, <1>11, <2>1, Unaffected
<1>12. ASSUME NEW x \in Runners, NEW i \in 1 .. Len(stack'[x])
       PROVE  i \in 1 .. Len(stack[x]) /\ stack'[x][i] = stack[x][i]
  BY <1>5
<1>13. CASE ~failed'
  BY <1>3, <1>4, <1>8, <1>10, <1>11, <1>12, <1>13, WaitStep
<1>14. CASE failed'
  <2>1. failed' = (/\ Top(r).kind = "token" /\ ~wakeUpEvent[r]
                   /\ Top(r).token # "awaited")
    BY DEF Return
  <2>2. Top(r).kind = "token"
    BY <1>14, <2>1
  <2>3. "token" \in Kinds
    BY <1>2, <2>2 DEF RunnerInv, WaitInv
  <2> QED
    BY <1>8, <1>14, <2>3 DEF Stuck
<1> QED
  BY <1>13, <1>14

LEMMA ChangeConditionInv ==
  ASSUME Inv, NEW r \in Runners, NEW other \in Runners, NEW value \in BOOLEAN,
         ChangeCondition(r, other, value), UNCHANGED timerVars
  PROVE  Inv'
<1>1. /\ Types /\ state[r] = "running" /\ WakeIfWaiting(r, other)
      /\ stack' = stack /\ wakeUpEvent' = wakeUpEvent
      /\ condition' = condition /\ queue' = queue /\ due' = due
      /\ (failed' <=> failed) /\ UNCHANGED jobVars
  BY InCodeFacts DEF ChangeCondition, jobVars
<1>2. /\ now' = now /\ deadline' = deadline
      /\ state' \in [Runners -> {"ready", "woken", "running", "sleeping"}]
      /\ state'[other] # "sleeping"
      /\ \A x \in Runners :
           \/ state'[x] = state[x]
           \/ state[x] = "sleeping" /\ state'[x] = "woken"
  BY <1>1, WakeFacts
<1>3. /\ fulfilled' \in [Runners -> BOOLEAN]
      /\ \A x \in Runners \ {other} : fulfilled'[x] <=> fulfilled[x]
  BY <1>1, Zenon DEF Types, ChangeCondition
<1>4. Types' /\ ~failed'
  <2>1. /\ armed' = armed /\ remaining' = remaining
        /\ startValue' = startValue
    BY DEF timerVars
  <2> QED
    BY <1>1, <1>2, <1>3, <2>1 DEF Types, Inv
<1>5. ASSUME NEW x \in Runners PROVE RunnerInv(x)'
  <2>1. RunnerInv(x)
    BY DEF Inv
  <2>2. state'[x] = "sleeping" => (fulfilled'[x] <=> fulfilled[x])
    BY <1>2, <1>3
  <2> QED
    BY <1>1, <1>2, <2>1, <2>2, Unaffected
<1> QED
  BY <1>1, <1>2, <1>4, <1>5, WaitStep

\* The token is given to the wait that the sleeping runner is in.
LEMMA WakeUpFacts ==
  ASSUME Inv, NEW r \in Runners, NEW other \in Runners, NEW i \in 1 .. MaxDepth,
         WakeUp(r, other, i)
  PROVE  /\ InWait(other) /\ stack[other][1].kind = "token"
         /\ stack[other][1] \in Waits
         /\ SetTop(other, [stack[other][1] EXCEPT !.token = "given"])
<1>1. /\ Types /\ RunnerInv(other)
      /\ state[other] = "sleeping" /\ i \in 1 .. Len(stack[other])
      /\ stack[other][i].kind = "token"
  BY DEF WakeUp, Awaits, Inv
<1>2. Waiting1(other) /\ Len(stack[other]) = 1
  BY <1>1 DEF RunnerInv, StackInv
<1>3. i = 1
  <2>1. i \in 1 .. 1
    BY <1>1, <1>2
  <2> QED
    BY <2>1
<1>4. InWait(other)
  BY <1>2 DEF InWait, Waiting1, Top
<1>5. stack[other][1] \in Waits
  BY <1>4, InWaitFacts
<1>6. SetTop(other, [stack[other][1] EXCEPT !.token = "given"])
  <2>1. stack' = [stack EXCEPT ![other][1].token = "given"]
    BY <1>3 DEF WakeUp
  <2> QED
    BY <1>2, <2>1 DEF SetTop
<1> QED
  BY <1>1, <1>3, <1>4, <1>5, <1>6

LEMMA WakeUpInv ==
  ASSUME Inv, NEW r \in Runners, NEW other \in Runners, NEW i \in 1 .. MaxDepth,
         WakeUp(r, other, i), UNCHANGED timerVars
  PROVE  Inv'
<1> DEFINE old == stack[other][1]
           w == [old EXCEPT !.token = "given"]
<1>1. /\ Types /\ RunnerInv(other) /\ state[r] = "running"
      /\ state[other] = "sleeping" /\ old.kind = "token"
      /\ InWait(other) /\ old \in Waits /\ SetTop(other, w)
  BY InCodeFacts, WakeUpFacts DEF WakeUp, Inv
<1>2. Waiting1(other) /\ Len(stack[other]) = 1 /\ old.stage = "asleep"
  BY <1>1 DEF RunnerInv, StackInv
<1>3. /\ w \in Waits /\ w.kind = old.kind /\ w.timeout = old.timeout
      /\ w.stage = old.stage /\ w.end = old.end /\ w.startAt = old.startAt
      /\ w.token = "given" /\ w.kind = "token" /\ w.kind # "callback"
  BY <1>1 DEF Waits
<1> HIDE DEF w
<1>4. /\ stack' \in [Runners -> Seq(Frames)]
      /\ \A x \in Runners \ {other} : stack'[x] = stack[x]
      /\ stack'[other] # <<>> /\ Len(stack'[other]) = 1
      /\ stack'[other][1] = w /\ Waiting1(other)'
      /\ \A x \in Runners : \A k \in 1 .. Len(stack'[x]) :
           stack'[x][k].kind = "callback" =>
             k \in 1 .. Len(stack[x]) /\ stack'[x][k] = stack[x][k]
  BY <1>1, <1>3, WaitReplaced
<1>5. /\ now' = now /\ deadline' = deadline /\ condition' = condition
      /\ fulfilled' = fulfilled /\ queue' = queue /\ due' = due
      /\ (failed' <=> failed) /\ UNCHANGED jobVars
  BY DEF WakeUp, Time!Wake, jobVars
<1>6. /\ state' \in [Runners -> {"ready", "woken", "running", "sleeping"}]
       /\ state'[other] = "woken"
       /\ \A x \in Runners \ {other} : state'[x] = state[x]
  <2>1. state' = [state EXCEPT ![other] = "woken"]
    BY DEF WakeUp, Time!Wake
  <2>2. state \in [Runners -> {"ready", "woken", "running", "sleeping"}]
    BY <1>1 DEF Types
  <2> QED
    BY <2>1, <2>2
<1>7. /\ wakeUpEvent' \in [Runners -> BOOLEAN] /\ wakeUpEvent'[other]
       /\ \A x \in Runners \ {other} : wakeUpEvent'[x] <=> wakeUpEvent[x]
  BY <1>1, Zenon DEF Types, WakeUp
<1>8. Types' /\ ~failed'
  <2>1. /\ armed' = armed /\ remaining' = remaining
        /\ startValue' = startValue
    BY DEF timerVars
  <2> QED
    BY <1>1, <1>4, <1>5, <1>6, <1>7, <2>1 DEF Types, Inv
<1>9. RunnerInv(other)'
  <2>1. StackInv(other)'
    BY <1>1, <1>2, <1>3, <1>4, <1>5, <1>6 DEF RunnerInv, StackInv
  <2>2. WaitInv(other)'
    BY <1>1, <1>2, <1>3, <1>4, <1>5, <1>7 DEF RunnerInv, WaitInv
  <2> QED
    BY <1>6, <2>1, <2>2 DEF RunnerInv, SleepInv
<1>10. ASSUME NEW x \in Runners, x # other PROVE RunnerInv(x)'
  <2>1. RunnerInv(x)
    BY DEF Inv
  <2> QED
    BY <1>4, <1>5, <1>6, <1>7, <1>10, <2>1, Unaffected
<1> QED
  BY <1>4, <1>5, <1>8, <1>9, <1>10, WaitStep

\* The first frame of a stack is replaced, which is that of a wait.
SetFirst(r, w) == stack' = [stack EXCEPT ![r][1] = w]

LEMMA FirstReplaced ==
  ASSUME Types, NEW r \in Runners, Waiting1(r), NEW w \in Waits, SetFirst(r, w)
  PROVE  /\ stack' \in [Runners -> Seq(Frames)]
         /\ \A x \in Runners \ {r} : stack'[x] = stack[x]
         /\ stack'[r] # <<>> /\ Len(stack'[r]) = Len(stack[r])
         /\ stack'[r][1] = w
         /\ \A i \in 2 .. Len(stack[r]) : stack'[r][i] = stack[r][i]
<1> DEFINE s == [stack[r] EXCEPT ![1] = w]
<1>1. /\ stack[r] \in Seq(Frames) /\ Len(stack[r]) \in Nat
      /\ Len(stack[r]) > 0 /\ w \in Frames
  BY FrameFacts DEF Waiting1, Frames
<1>2. /\ s \in Seq(Frames) /\ Len(s) = Len(stack[r]) /\ s[1] = w
      /\ \A i \in 2 .. Len(stack[r]) : s[i] = stack[r][i]
  BY <1>1
<1>3. s # <<>>
  BY <1>1, <1>2
<1>4. stack' = [stack EXCEPT ![r] = s]
  BY DEF SetFirst
<1> HIDE DEF s
<1>5. stack'[r] = s
  BY <1>4 DEF Types
<1> QED
  BY <1>2, <1>3, <1>4, <1>5 DEF Types

\* The wait of a runner that does not sleep is not given its token.
TokenBecomes(r, i, v) ==
  /\ i \in 1 .. Len(stack[r])
  /\ stack[r][i].kind = "token" /\ stack[r][i].token \in {"awaited", "cut"}
  /\ v \in {"cut", "lost"}
  /\ stack' = [stack EXCEPT ![r][i].token = v]

LEMMA TokenFacts ==
  ASSUME Inv, NEW r \in Runners, NEW i, NEW v, TokenBecomes(r, i, v)
  PROVE  /\ Types /\ RunnerInv(r) /\ Waiting1(r)
         /\ stack[r][1] \in Waits /\ stack[r][1].kind = "token"
         /\ stack[r][1].token \in {"awaited", "cut"}
         /\ [stack[r][1] EXCEPT !.token = v] \in Waits
         /\ SetFirst(r, [stack[r][1] EXCEPT !.token = v])
         /\ Len(stack'[r]) = Len(stack[r])
         /\ \A x \in Runners \ {r} : stack'[x] = stack[x]
<1>1. /\ Types /\ RunnerInv(r)
      /\ i \in 1 .. Len(stack[r])
      /\ stack[r][i].kind = "token" /\ stack[r][i].token \in {"awaited", "cut"}
  BY DEF TokenBecomes, Inv
<1>2. stack[r] # <<>> /\ Len(stack[r]) \in Nat
  BY <1>1, FrameFacts
<1>3. i = 1
  <2> SUFFICES ASSUME i # 1 PROVE FALSE
    OBVIOUS
  <2>1. i \in 2 .. Len(stack[r])
    BY <1>1, <1>2
  <2> QED
    BY <1>1, <2>1 DEF RunnerInv, StackInv
<1>4. Waiting1(r) /\ 1 \in 1 .. Len(stack[r])
  BY <1>1, <1>2, <1>3 DEF Waiting1
<1>5. stack[r][1] \in Waits
  BY <1>1, <1>3, <1>4, FrameFacts
<1>6. [stack[r][1] EXCEPT !.token = v] \in Waits
  BY <1>5 DEF Waits, TokenBecomes
<1>7. SetFirst(r, [stack[r][1] EXCEPT !.token = v])
  BY <1>3 DEF TokenBecomes, SetFirst
<1>8. /\ Len(stack'[r]) = Len(stack[r])
      /\ \A x \in Runners \ {r} : stack'[x] = stack[x]
  BY <1>1, <1>4, <1>6, <1>7, FirstReplaced
<1> QED
  BY <1>1, <1>3, <1>4, <1>5, <1>6, <1>7, <1>8

LEMMA TokenInv ==
  ASSUME Inv, NEW r \in Runners, NEW i, NEW v, TokenBecomes(r, i, v), ~failed',
         state[r] # "sleeping",
         UNCHANGED <<timeVars, wakeUpEvent, condition, fulfilled, jobVars>>,
         UNCHANGED timerVars
  PROVE  Inv'
<1> DEFINE old == stack[r][1]
           w == [old EXCEPT !.token = v]
<1>1. /\ Types /\ RunnerInv(r) /\ Waiting1(r)
      /\ old \in Waits /\ old.kind = "token"
      /\ old.token \in {"awaited", "cut"} /\ v \in {"cut", "lost"}
      /\ w \in Waits /\ SetFirst(r, w)
  BY TokenFacts DEF TokenBecomes
<1>2. /\ w.kind = old.kind /\ w.timeout = old.timeout /\ w.stage = old.stage
      /\ w.end = old.end /\ w.startAt = old.startAt /\ w.token = v
      /\ w.kind # "callback"
  BY <1>1 DEF Waits
<1> HIDE DEF w
<1>3. /\ stack' \in [Runners -> Seq(Frames)]
      /\ \A x \in Runners \ {r} : stack'[x] = stack[x]
      /\ stack'[r] # <<>> /\ Len(stack'[r]) = Len(stack[r])
      /\ stack'[r][1] = w
      /\ \A k \in 2 .. Len(stack[r]) : stack'[r][k] = stack[r][k]
  BY <1>1, FirstReplaced
<1>4. /\ UNCHANGED timeVars /\ wakeUpEvent' = wakeUpEvent
      /\ condition' = condition /\ fulfilled' = fulfilled
      /\ UNCHANGED jobVars
  OBVIOUS
<1>5. /\ now' = now /\ state' = state /\ deadline' = deadline
      /\ queue' = queue /\ due' = due
  BY <1>4 DEF timeVars, jobVars
<1>6. Types'
  <2>1. /\ armed' = armed /\ remaining' = remaining
        /\ startValue' = startValue
    BY DEF timerVars
  <2> QED
    BY <1>1, <1>3, <1>4, <1>5, <2>1 DEF Types
<1>7. RunnerInv(r)'
  <2>1. Waiting1(r)'
    BY <1>2, <1>3 DEF Waiting1
  <2>2. StackInv(r)'
    BY <1>1, <1>2, <1>3, <1>4, <1>5, <2>1 DEF RunnerInv, StackInv
  <2>3. WaitInv(r)'
    BY <1>1, <1>2, <1>3, <1>4, <1>5 DEF RunnerInv, WaitInv
  <2> QED
    BY <1>1, <1>5, <2>2, <2>3 DEF RunnerInv, SleepInv
<1>8. ASSUME NEW x \in Runners, x # r PROVE RunnerInv(x)'
  <2>1. RunnerInv(x)
    BY DEF Inv
  <2> QED
    BY <1>3, <1>4, <1>5, <1>8, <2>1, Unaffected
<1>9. ASSUME NEW x \in Runners, NEW k \in 1 .. Len(stack'[x]),
             stack'[x][k].kind = "callback"
      PROVE  k \in 1 .. Len(stack[x]) /\ stack'[x][k] = stack[x][k]
  <2>1. CASE x = r
    <3>1. k # 1 /\ k \in 1 .. Len(stack[r]) /\ Len(stack[r]) \in Nat
      BY <1>1, <1>2, <1>3, <1>9, <2>1, FrameFacts
    <3>2. k \in 2 .. Len(stack[r])
      BY <3>1
    <3> QED
      BY <1>3, <2>1, <3>1, <3>2
  <2>2. CASE x # r
    BY <1>3, <2>2
  <2> QED
    BY <2>1, <2>2
<1> QED
  BY <1>4, <1>5, <1>6, <1>7, <1>8, <1>9, WaitStep

\* A callback of the waiter releases.
LEMMA ReleaseToSelfToken ==
  ASSUME NEW r \in Runners, NEW i, ReleaseToSelf(r, i)
  PROVE  TokenBecomes(r, i, "lost") /\ state[r] = "running"
BY DEF ReleaseToSelf, TokenBecomes, Awaits, InCode

LEMMA ReleaseToSelfInv ==
  ASSUME Inv, NEW r \in Runners, NEW i \in 1 .. MaxDepth, ReleaseToSelf(r, i),
         UNCHANGED timerVars
  PROVE  Inv'
<1>1. TokenBecomes(r, i, "lost") /\ state[r] = "running"
  BY ReleaseToSelfToken
<1>2. /\ UNCHANGED <<timeVars, wakeUpEvent, condition, fulfilled, jobVars>>
      /\ ~failed'
  BY DEF ReleaseToSelf, Inv
<1> QED
  BY <1>1, <1>2, TokenInv

\* A token is released to a runner in the run queue: it changes the link of the
\* runner, or breaks the queue.
LEMMA ReleaseToWokenToken ==
  ASSUME NEW r \in Runners, NEW other \in Runners, NEW i,
         ReleaseToWoken(r, other, i)
  PROVE  /\ state[other] = "woken"
         /\ \E v \in {"cut", "lost"} : TokenBecomes(other, i, v)
<1>1. PICK before \in {"awaited", "cut"} :
        /\ stack[other][i].token = before
        /\ stack' = [stack EXCEPT ![other][i].token =
                        IF before = "awaited" THEN "cut" ELSE "lost"]
  BY DEF ReleaseToWoken
<1> DEFINE v == IF before = "awaited" THEN "cut" ELSE "lost"
<1>2. v \in {"cut", "lost"}
  OBVIOUS
<1>3. TokenBecomes(other, i, v)
  BY <1>1, <1>2 DEF ReleaseToWoken, TokenBecomes
<1> QED
  BY <1>2, <1>3 DEF ReleaseToWoken

LEMMA ReleaseToWokenInv ==
  ASSUME Inv, NEW r \in Runners, NEW other \in Runners, NEW i \in 1 .. MaxDepth,
         ReleaseToWoken(r, other, i), UNCHANGED timerVars
  PROVE  Inv' \/ Stuck
<1>1. PICK v \in {"cut", "lost"} : TokenBecomes(other, i, v)
  BY ReleaseToWokenToken
<1>2. /\ state[other] = "woken"
      /\ UNCHANGED <<timeVars, wakeUpEvent, condition, fulfilled, jobVars>>
  BY DEF ReleaseToWoken
<1>3. CASE ~failed'
  BY <1>1, <1>2, <1>3, TokenInv
<1>4. CASE failed'
  <2>1. /\ Types /\ RunnerInv(other) /\ Waiting1(other)
        /\ stack[other][1].kind = "token"
        /\ [stack[other][1] EXCEPT !.token = v] \in Waits
        /\ SetFirst(other, [stack[other][1] EXCEPT !.token = v])
    BY <1>1, TokenFacts
  <2>2. "token" \in Kinds
    BY <2>1 DEF RunnerInv, WaitInv
  <2>3. stack' \in [Runners -> Seq(Frames)]
    BY <2>1, FirstReplaced
  <2>4. UNCHANGED <<now, state, deadline, queue, due, armed, remaining, startValue>>
    BY <1>2 DEF timeVars, jobVars, timerVars
  <2>5. Types'
    BY <1>2, <2>1, <2>3, <2>4 DEF Types
  <2> QED
    BY <1>4, <2>2, <2>5 DEF Stuck
<1> QED
  BY <1>3, <1>4

-----------------------------------------------------------------------------
(* The theorems.                                                           *)

LEMMA NextInv ==
  ASSUME ~CallbacksWait, ~StartWhenStopped, Inv, [Next]_vars
  PROVE  Inv' \/ Stuck
<1>1. ASSUME NEW r \in Runners, NEW t \in Timers, OnTimer(r, t)
      PROVE  Inv'
  BY <1>1, StartInv, ContinueInv, StopInv, ResetInv, StopDueInv, ExpireInv,
     EndOfExpiryInv, EndOfStopInv, EndOfResetInv, DropInv
  DEF OnTimer
<1>2. ASSUME NEW r \in Runners, Waiting(r), UNCHANGED timerVars
      PROVE  Inv' \/ Stuck
  <2>1. CASE \E kind \in Kinds : \E duration \in Durations \cup {EndOfTime} :
               \E value \in BOOLEAN : Wait(r, kind, duration, value)
    BY <1>2, <2>1, WaitInvariant
  <2>2. CASE FallAsleep(r)
    BY <1>2, <2>2, FallAsleepInv
  <2>3. CASE Resume(r)
    BY <1>2, <2>3, ResumeInv
  <2>4. CASE Return(r)
    BY <1>2, <2>4, ReturnInv
  <2>5. CASE \E i \in 1 .. MaxDepth : ReleaseToSelf(r, i)
    BY <1>2, <2>5, ReleaseToSelfInv
  <2> QED
    BY <1>2, <2>1, <2>2, <2>3, <2>4, <2>5 DEF Waiting
<1>3. ASSUME NEW r \in Runners, NEW other \in Runners, OnOther(r, other),
             UNCHANGED timerVars
      PROVE  Inv' \/ Stuck
  BY <1>3, ChangeConditionInv, WakeUpInv, ReleaseToWokenInv DEF OnOther
<1>4. CASE End /\ UNCHANGED timerVars
  BY <1>4, EndInv
<1>5. CASE UNCHANGED vars
  <2>1. /\ now' = now /\ state' = state /\ deadline' = deadline
        /\ stack' = stack /\ wakeUpEvent' = wakeUpEvent
        /\ condition' = condition /\ fulfilled' = fulfilled
        /\ queue' = queue /\ due' = due /\ (failed' <=> failed)
        /\ armed' = armed /\ remaining' = remaining
        /\ startValue' = startValue
        /\ UNCHANGED timerVars /\ UNCHANGED jobVars
    BY <1>5 DEF vars, timeVars, waitVars, jobVars, timerVars
  <2>2. Types' /\ ~failed'
    BY <2>1 DEF Inv, Types
  <2>3. ASSUME NEW x \in Runners PROVE RunnerInv(x)'
    <3>1. RunnerInv(x)
      BY DEF Inv
    <3> QED
      BY <2>1, <3>1, Unaffected
  <2> QED
    BY <2>1, <2>2, <2>3, WaitStep
<1> QED
  BY <1>1, <1>2, <1>3, <1>4, <1>5 DEF Next

\* Nothing runs any more when an assertion has failed.
LEMMA Stopped ==
  ASSUME failed, [Next]_vars
  PROVE  UNCHANGED vars
<1>1. ASSUME NEW r \in Runners, NEW t \in Timers, OnTimer(r, t) PROVE FALSE
  BY <1>1 DEF OnTimer, Start, Continue, Stop, Reset, StopDue, Expire, Draining,
     EndOfExpiry, EndOfStop, EndOfReset, EndsCallback, Drop, CanStart, CanUse,
     InCode, InLoop
<1>2. ASSUME NEW r \in Runners, Waiting(r) PROVE FALSE
  BY <1>2 DEF Waiting, Wait, FallAsleep, Resume, Return, ReleaseToSelf,
     AtLoopHead, InCode, InLoop
<1>3. ASSUME NEW r \in Runners, NEW other \in Runners, OnOther(r, other)
      PROVE  FALSE
  BY <1>3 DEF OnOther, ChangeCondition, WakeUp, ReleaseToWoken, InCode
<1>4. ~End
  BY DEF End
<1> QED
  BY <1>1, <1>2, <1>3, <1>4 DEF Next

LEMMA Invariance ==
  ASSUME ~CallbacksWait, ~StartWhenStopped
  PROVE  Spec => [](failed \/ Inv)
<1>1. ASSUME failed, [Next]_vars PROVE failed'
  BY <1>1, Stopped DEF vars
<1>2. ASSUME Inv, [Next]_vars PROVE failed' \/ Inv'
  BY <1>2, NextInv DEF Stuck
<1>3. (failed \/ Inv) /\ [Next]_vars => (failed \/ Inv)'
  BY <1>1, <1>2
<1> QED
  BY <1>3, InitInv, PTL DEF Spec

\* If callbacks do not wait, no timer is started while it is being stopped, and
\* nobody waits for tokens, then no assertion of runner, job or timer fails.
THEOREM NoAssertion ==
  ASSUME ~CallbacksWait, ~StartWhenStopped, "token" \notin Kinds
  PROVE  Spec => []AssertionsHold
<1>1. Inv /\ [Next]_vars => Inv'
  BY NextInv DEF Stuck
<1>2. Inv => AssertionsHold
  BY DEF Inv, AssertionsHold
<1> QED
  BY <1>1, <1>2, InitInv, PTL DEF Spec

\* If callbacks do not wait, and no timer is started while it is being stopped,
\* then nobody sleeps past a job of its queue or past the end of its wait, while
\* its condition holds, or with a token that it was given.  (A token released to
\* a runner that does not sleep is lost: that one sleeps on, to its timeout.)
THEOREM AwakeInTime ==
  ASSUME ~CallbacksWait, ~StartWhenStopped
  PROVE  Spec => []NobodySleepsTooLong
<1>1. ASSUME Inv, NEW r \in Runners, state[r] = "sleeping"
      PROVE  /\ deadline[r] <= Top(r).end
             /\ \A t \in JobsOf(r) : deadline[r] <= due[t]
             /\ ~(condition[r] /\ fulfilled[r])
             /\ Top(r).token # "given"
  <2>1. Top(r) = stack[r][1]
    BY <1>1 DEF Inv, RunnerInv, StackInv, Top
  <2> QED
    BY <1>1, <2>1 DEF Inv, RunnerInv, SleepInv
<1>2. failed \/ Inv => NobodySleepsTooLong
  BY <1>1 DEF NobodySleepsTooLong
<1> QED
  BY <1>2, Invariance, PTL

LEMMA SameLength ==
  ASSUME Types, NEW x \in Runners, stack[x] # <<>>, NEW w, SetTop(x, w)
  PROVE  Len(stack'[x]) = Len(stack[x])
         /\ \A y \in Runners \ {x} : stack'[y] = stack[y]
<1> DEFINE any == Frames \cup {w}
           other == [stack[x] EXCEPT ![Len(stack[x])] = w]
<1>1. stack[x] \in Seq(Frames) /\ Len(stack[x]) > 0 /\ Len(stack[x]) \in Nat
  BY FrameFacts
<1>2. stack[x] \in Seq(any)
  BY <1>1
<1>3. other \in Seq(any) /\ Len(other) = Len(stack[x])
  BY <1>1, <1>2
<1>4. stack' = [stack EXCEPT ![x] = other]
  BY DEF SetTop
<1> HIDE DEF other
<1> QED
  BY <1>3, <1>4 DEF Types

\* Only Return ends a wait.
LEMMA OnlyReturn ==
  ASSUME Inv, NEW r \in Runners, InWait(r), [Next]_vars,
         Len(stack'[r]) < Len(stack[r])
  PROVE  Return(r)
<1>1. /\ Types /\ RunnerInv(r) /\ stack[r] # <<>> /\ Len(stack[r]) = 1
      /\ stack'[r] # stack[r] /\ ~(Len(stack'[r]) >= 1)
  <2>1. ~(1 < 1)
    OBVIOUS
  <2>2. Types /\ RunnerInv(r) /\ stack[r] # <<>> /\ Len(stack[r]) = 1
    BY InWaitFacts
  <2>3. stack'[r] # stack[r]
    BY <2>1, <2>2
  <2>4. ~(Len(stack'[r]) >= 1)
    BY <2>2
  <2> QED
    BY <2>2, <2>3, <2>4
<1>2. ASSUME NEW x \in Runners, NEW f \in Frames, Push(x, f)
      PROVE  FALSE
  <2>1. CASE x = r
    BY <1>1, <1>2, <2>1, PushFacts
  <2>2. CASE x # r
    BY <1>1, <1>2, <2>2, PushFacts
  <2> QED
    BY <2>1, <2>2
<1>3. ASSUME NEW x \in Runners, NEW t \in Timers,
             NEW cause \in {"wait", "stop", "reset"}, Execute(x, t, cause)
      PROVE  FALSE
  <2> DEFINE f == [kind |-> "callback", job |-> t, cause |-> cause]
  <2>1. Push(x, f) /\ f \in Frames
    BY <1>3 DEF Execute, Frames, Callbacks, Timers
  <2> HIDE DEF f
  <2> QED
    BY <1>2, <2>1
<1>4. ASSUME NEW x \in Runners, NEW t \in Timers,
             NEW cause \in {"wait", "stop", "reset"}, EndsCallback(x, t, cause)
      PROVE  FALSE
  <2>1. x # r
    BY <1>4 DEF EndsCallback, InCode
  <2> QED
    BY <1>1, <1>4, <2>1, EndsFacts
<1>5. ASSUME NEW x \in Runners, InWait(x), NEW w, SetTop(x, w)
      PROVE  FALSE
  <2>1. Types /\ stack[x] # <<>>
    BY <1>5, InWaitFacts
  <2>2. /\ Len(stack'[x]) = Len(stack[x])
        /\ \A y \in Runners \ {x} : stack'[y] = stack[y]
    BY <1>5, <2>1, SameLength
  <2>3. CASE x = r
    BY <1>1, <2>2, <2>3
  <2>4. CASE x # r
    BY <1>1, <2>2, <2>4
  <2> QED
    BY <2>3, <2>4
<1>6. ASSUME NEW x \in Runners, NEW t \in Timers, OnTimer(x, t)
      PROVE  FALSE
  <2>1. CASE \/ \E duration \in Durations : Start(x, t, duration)
             \/ Continue(x, t) \/ Stop(x, t) \/ Reset(x, t) \/ Drop(x, t)
    <3>1. stack' = stack
      BY <2>1 DEF Start, Continue, Stop, Reset, Drop, waitVars
    <3> QED
      BY <1>1, <3>1
  <2>2. CASE \/ \E cause \in {"stop", "reset"} : StopDue(x, t, cause)
             \/ Expire(x, t)
    BY <1>3, <2>2 DEF StopDue, Expire
  <2>3. CASE EndOfExpiry(x, t) \/ EndOfStop(x, t) \/ EndOfReset(x, t)
    BY <1>4, <2>3 DEF EndOfExpiry, EndOfStop, EndOfReset
  <2> QED
    BY <1>6, <2>1, <2>2, <2>3 DEF OnTimer
<1>7. ASSUME NEW x \in Runners, NEW kind, NEW duration, NEW value,
             kind \in Kinds, duration \in Durations \cup {EndOfTime},
             Wait(x, kind, duration, value)
      PROVE  FALSE
  <2> DEFINE f == [kind |-> kind, timeout |-> duration, stage |-> "check",
                   startAt |-> 0,
                   token |-> IF kind = "token" THEN "awaited" ELSE "none",
                   end |-> IF duration = EndOfTime THEN EndOfTime
                                                   ELSE now + duration]
  <2>1. Push(x, f)
    BY <1>7 DEF Wait
  <2>2. f \in Frames
    <3>1. kind \in {"duration", "condition", "token"}
      BY <1>7, WaitsAssumption
    <3>2. now \in Nat /\ EndOfTime \in Nat /\ duration \in Times /\ 0 \in Times
      BY <1>1, <1>7, TimeAssumption DEF Types, Times
    <3>3. (IF duration = EndOfTime THEN EndOfTime ELSE now + duration) \in Times
      BY <1>7, <3>2 DEF Wait, InEpoche, Times
    <3> QED
      BY <3>1, <3>2, <3>3 DEF Frames, Waits
  <2> HIDE DEF f
  <2> QED
    BY <1>2, <2>1, <2>2
<1>8. ASSUME NEW x \in Runners, FallAsleep(x)
      PROVE  FALSE
  <2>1. InWait(x)
    BY <1>8 DEF FallAsleep, AtLoopHead, InLoop
  <2>2. CASE \E j \in JobsOf(x) : due[j] < now
    <3>1. stack' = stack
      BY <1>8, <2>2 DEF FallAsleep, Fail, waitVars
    <3> QED
      BY <1>1, <3>1
  <2>3. CASE ~ \E j \in JobsOf(x) : due[j] < now
    <3>1. SetTop(x, [Top(x) EXCEPT !.stage = "asleep", !.startAt = now])
      BY <1>8, <2>3 DEF FallAsleep
    <3> QED
      BY <1>5, <2>1, <3>1
  <2> QED
    BY <2>2, <2>3
<1>9. ASSUME NEW x \in Runners, Resume(x)
      PROVE  FALSE
  <2>1. CASE InWait(x)
    BY <1>5, <1>9, <2>1 DEF Resume
  <2>2. CASE ~InWait(x)
    <3>1. stack' = stack
      BY <1>9, <2>2 DEF Resume
    <3> QED
      BY <1>1, <3>1
  <2> QED
    BY <2>1, <2>2
<1>10. ASSUME NEW x \in Runners, Return(x)
       PROVE  x = r
  <2> SUFFICES ASSUME x # r PROVE FALSE
    OBVIOUS
  <2>1. stack[x] # <<>> /\ Pop(x)
    BY <1>10 DEF Return, AtLoopHead, InLoop, InWait
  <2> QED
    BY <1>1, <2>1, PopFacts
<1>11. ASSUME NEW x \in Runners, NEW other \in Runners, OnOther(x, other)
       PROVE  FALSE
  <2>1. CASE \E value \in BOOLEAN : ChangeCondition(x, other, value)
    <3>1. stack' = stack
      BY <2>1 DEF ChangeCondition
    <3> QED
      BY <1>1, <3>1
  <2>2. CASE \E i \in 1 .. MaxDepth : WakeUp(x, other, i)
    BY <1>5, <2>2, WakeUpFacts
  <2>3. CASE \E i \in 1 .. MaxDepth : ReleaseToWoken(x, other, i)
    <3>1. PICK i \in 1 .. MaxDepth : ReleaseToWoken(x, other, i)
      BY <2>3
    <3>2. PICK v \in {"cut", "lost"} : TokenBecomes(other, i, v)
      BY <3>1, ReleaseToWokenToken
    <3>3. /\ Len(stack'[other]) = Len(stack[other])
          /\ \A y \in Runners \ {other} : stack'[y] = stack[y]
      BY <3>2, TokenFacts
    <3> QED
      BY <1>1, <3>3
  <2> QED
    BY <1>11, <2>1, <2>2, <2>3 DEF OnOther
<1>12. CASE End
  <2>1. stack' = stack
    BY <1>12 DEF End, waitVars
  <2> QED
    BY <1>1, <2>1
<1>13. CASE UNCHANGED vars
  <2>1. stack' = stack
    BY <1>13 DEF vars, waitVars
  <2> QED
    BY <1>1, <2>1
<1>14. ASSUME NEW x \in Runners, Waiting(x)
       PROVE  Return(r)
  <2>1. ASSUME NEW i \in 1 .. MaxDepth, ReleaseToSelf(x, i) PROVE FALSE
    <3>1. TokenBecomes(x, i, "lost")
      BY <2>1, ReleaseToSelfToken
    <3>2. /\ Len(stack'[x]) = Len(stack[x])
          /\ \A y \in Runners \ {x} : stack'[y] = stack[y]
      BY <3>1, TokenFacts
    <3> QED
      BY <1>1, <3>2
  <2> QED
    BY <1>7, <1>8, <1>9, <1>10, <1>14, <2>1 DEF Waiting
<1> QED
  BY <1>6, <1>11, <1>12, <1>13, <1>14 DEF Next

\* Then a wait returns when its time is over, or for what it waits for: not
\* for the condition or the token of another wait.
THEOREM EndsForAReason ==
  ASSUME ~CallbacksWait, ~StartWhenStopped
  PROVE  Spec => WaitEndsForAReason
<1>1. ASSUME Inv, [Next]_vars, NEW r \in Runners, InWait(r),
             Len(stack'[r]) < Len(stack[r])
      PROVE  \/ now = Top(r).end
             \/ Top(r).kind = "condition" /\ fulfilled[r]
             \/ Top(r).kind = "token" /\ Top(r).token = "given"
  <2>1. Return(r)
    BY <1>1, OnlyReturn
  <2>2. /\ Types /\ RunnerInv(r) /\ Waiting1(r) /\ Top(r) = stack[r][1]
        /\ stack[r][1] \in Waits
    BY <1>1, InWaitFacts
  <2>3. Top(r).stage # "asleep"
    BY <2>1 DEF Return, AtLoopHead, InLoop
  <2>4. CASE ~(Top(r).timeout > 0)
    <3>1. Top(r).timeout \in Nat /\ now \in Nat
      BY <2>2, TimeAssumption DEF Types, Waits, Times
    <3>2. Top(r).timeout = 0 /\ EndOfTime # 0
      BY <2>4, <3>1, TimeAssumption
    <3> QED
      BY <2>2, <2>3, <3>1, <3>2 DEF RunnerInv, WaitInv
  <2>5. CASE condition[r] /\ fulfilled[r]
    BY <2>2, <2>5 DEF RunnerInv, StackInv
  <2>6. CASE wakeUpEvent[r]
    BY <2>2, <2>6 DEF RunnerInv, WaitInv
  <2> QED
    BY <2>1, <2>4, <2>5, <2>6 DEF Return, GoesOn
<1>2. ASSUME failed, [Next]_vars PROVE UNCHANGED vars
  BY <1>2, Stopped
<1>3. (failed \/ Inv) /\ [Next]_vars =>
        [\A r \in Runners : InWait(r) /\ Len(stack'[r]) < Len(stack[r]) =>
           \/ now = Top(r).end
           \/ Top(r).kind = "condition" /\ fulfilled[r]
           \/ Top(r).kind = "token" /\ Top(r).token = "given"]_vars
  BY <1>1, <1>2
<1> QED
  BY <1>3, Invariance, PTL DEF Spec, WaitEndsForAReason

-----------------------------------------------------------------------------
(* References.  They are counted for all test code: callbacks may wait, and *)
(* start a timer that is being stopped.  Times may then be negative, and    *)
(* only need to be integers here.                                           *)

AnyWaits ==
  [kind : {"duration", "condition", "token"}, timeout : Int,
   stage : {"check", "asleep", "drain"}, startAt : Int, end : Int,
   token : {"none", "awaited", "cut", "given", "lost"}]

AnyFrames == Callbacks \cup AnyWaits

AnyTypes ==
  /\ now \in Int
  /\ deadline \in [Runners -> Int]
  /\ stack \in [Runners -> Seq(AnyFrames)]
  /\ queue \subseteq Jobs
  /\ due \in [Jobs -> Int]
  /\ remaining \in [Timers -> Int]
  /\ startValue \in [Timers -> Int]
  /\ handle \in [Timers -> BOOLEAN]
  /\ references \in [Timers -> Int]

\* Where the callbacks of a timer are on the stacks.
Rings(t) == UNION {{r} \X CallbacksOf(r, t) : r \in Runners}

Counted(t) ==
  /\ IsFiniteSet(Rings(t))
  /\ references[t] =
       (IF handle[t] THEN 1 ELSE 0) + (IF t \in queue THEN 1 ELSE 0)
         + 2 * Ringing(t)

CountInv == AnyTypes /\ (~failed => \A t \in Timers : Counted(t))

LEMMA RingsMember ==
  ASSUME NEW t
  PROVE  /\ Ringing(t) = Cardinality(Rings(t))
         /\ Ringing(t)' = Cardinality(Rings(t)')
         /\ \A p : p \in Rings(t) <=>
              \E r \in Runners : \E i \in CallbacksOf(r, t) : p = <<r, i>>
         /\ \A p : p \in Rings(t)' <=>
              \E r \in Runners : \E i \in CallbacksOf(r, t)' : p = <<r, i>>
BY DEF Ringing, Rings

\* The callbacks of t are where they were.
LEMMA SameRings ==
  ASSUME NEW t, \A x \in Runners : CallbacksOf(x, t)' = CallbacksOf(x, t)
  PROVE  Rings(t)' = Rings(t) /\ Ringing(t)' = Ringing(t)
<1>1. ASSUME NEW p PROVE p \in Rings(t)' <=> p \in Rings(t)
  BY RingsMember
<1>2. Rings(t)' = Rings(t)
  BY <1>1
<1> QED
  BY <1>2, RingsMember

\* A callback of t begins, or ends.
LEMMA RingBegins ==
  ASSUME NEW t, NEW r \in Runners, NEW i, i \notin CallbacksOf(r, t),
         CallbacksOf(r, t)' = CallbacksOf(r, t) \cup {i},
         \A x \in Runners \ {r} : CallbacksOf(x, t)' = CallbacksOf(x, t),
         IsFiniteSet(Rings(t))
  PROVE  IsFiniteSet(Rings(t)') /\ Ringing(t)' = Ringing(t) + 1
<1>1. ASSUME NEW p PROVE p \in Rings(t)' <=> p \in Rings(t) \/ p = <<r, i>>
  <2>1. ASSUME NEW x \in Runners
        PROVE  \A k : k \in CallbacksOf(x, t)' <=>
                        k \in CallbacksOf(x, t) \/ (x = r /\ k = i)
    BY <2>1
  <2> QED
    BY <2>1, RingsMember
<1>2. Rings(t)' = Rings(t) \cup {<<r, i>>}
  BY <1>1
<1>3. <<r, i>> \notin Rings(t)
  BY RingsMember
<1> QED
  BY <1>2, <1>3, FS_AddElement, RingsMember

LEMMA RingEnds ==
  ASSUME NEW t, NEW r \in Runners, NEW i \in CallbacksOf(r, t),
         CallbacksOf(r, t)' = CallbacksOf(r, t) \ {i},
         \A x \in Runners \ {r} : CallbacksOf(x, t)' = CallbacksOf(x, t),
         IsFiniteSet(Rings(t))
  PROVE  IsFiniteSet(Rings(t)') /\ Ringing(t)' = Ringing(t) - 1
<1>1. ASSUME NEW p PROVE p \in Rings(t)' <=> p \in Rings(t) /\ p # <<r, i>>
  <2>1. ASSUME NEW x \in Runners
        PROVE  \A k : k \in CallbacksOf(x, t)' <=>
                        k \in CallbacksOf(x, t) /\ ~(x = r /\ k = i)
    BY <2>1
  <2> QED
    BY <2>1, RingsMember
<1>2. Rings(t)' = Rings(t) \ {<<r, i>>}
  BY <1>1
<1>3. <<r, i>> \in Rings(t)
  BY RingsMember
<1> QED
  BY <1>2, <1>3, FS_RemoveElement, RingsMember

LEMMA AnyFrameFacts ==
  ASSUME AnyTypes, NEW r \in Runners
  PROVE  /\ stack[r] \in Seq(AnyFrames) /\ Len(stack[r]) \in Nat
         /\ stack[r] # <<>> <=> Len(stack[r]) > 0
BY DEF AnyTypes

\* What becomes of the stack of r when a frame is pushed, popped, replaced.
LEMMA AnyPush ==
  ASSUME AnyTypes, NEW r \in Runners, NEW f \in AnyFrames, Push(r, f)
  PROVE  /\ stack' \in [Runners -> Seq(AnyFrames)]
         /\ \A x \in Runners \ {r} : stack'[x] = stack[x]
         /\ Len(stack'[r]) = Len(stack[r]) + 1
         /\ stack'[r][Len(stack[r]) + 1] = f
         /\ \A i \in 1 .. Len(stack[r]) : stack'[r][i] = stack[r][i]
<1> DEFINE s == Append(stack[r], f)
<1>1. stack[r] \in Seq(AnyFrames)
  BY DEF AnyTypes
<1>2. stack' = [stack EXCEPT ![r] = s]
  BY DEF Push
<1>3. /\ s \in Seq(AnyFrames) /\ Len(s) = Len(stack[r]) + 1
      /\ s[Len(stack[r]) + 1] = f
      /\ \A i \in 1 .. Len(stack[r]) : s[i] = stack[r][i]
  BY <1>1
<1> HIDE DEF s
<1>4. stack'[r] = s
  BY <1>2 DEF AnyTypes
<1> QED
  BY <1>2, <1>3, <1>4 DEF AnyTypes

LEMMA AnyPop ==
  ASSUME AnyTypes, NEW r \in Runners, stack[r] # <<>>, Pop(r)
  PROVE  /\ stack' \in [Runners -> Seq(AnyFrames)]
         /\ \A x \in Runners \ {r} : stack'[x] = stack[x]
         /\ Len(stack'[r]) = Len(stack[r]) - 1
         /\ \A i \in 1 .. Len(stack[r]) - 1 : stack'[r][i] = stack[r][i]
<1> DEFINE s == SubSeq(stack[r], 1, Len(stack[r]) - 1)
<1>1. stack[r] \in Seq(AnyFrames) /\ Len(stack[r]) > 0 /\ Len(stack[r]) \in Nat
  BY AnyFrameFacts
<1>2. stack' = [stack EXCEPT ![r] = s]
  BY DEF Pop
<1>3. /\ s \in Seq(AnyFrames) /\ Len(s) = Len(stack[r]) - 1
      /\ \A i \in 1 .. Len(stack[r]) - 1 : s[i] = stack[r][i]
  BY <1>1
<1> HIDE DEF s
<1>4. stack'[r] = s
  BY <1>2 DEF AnyTypes
<1> QED
  BY <1>2, <1>3, <1>4 DEF AnyTypes

Replaced(r, k, f) == stack' = [stack EXCEPT ![r][k] = f]

LEMMA AnyReplace ==
  ASSUME AnyTypes, NEW r \in Runners, NEW k \in 1 .. Len(stack[r]),
         NEW f \in AnyFrames, Replaced(r, k, f)
  PROVE  /\ stack' \in [Runners -> Seq(AnyFrames)]
         /\ \A x \in Runners \ {r} : stack'[x] = stack[x]
         /\ Len(stack'[r]) = Len(stack[r]) /\ stack'[r][k] = f
         /\ \A i \in 1 .. Len(stack[r]) : i # k => stack'[r][i] = stack[r][i]
<1> DEFINE s == [stack[r] EXCEPT ![k] = f]
<1>1. stack[r] \in Seq(AnyFrames)
  BY DEF AnyTypes
<1>2. /\ s \in Seq(AnyFrames) /\ Len(s) = Len(stack[r]) /\ s[k] = f
      /\ \A i \in 1 .. Len(stack[r]) : i # k => s[i] = stack[r][i]
  BY <1>1
<1>3. stack' = [stack EXCEPT ![r] = s]
  BY DEF Replaced
<1> HIDE DEF s
<1>4. stack'[r] = s
  BY <1>3 DEF AnyTypes
<1> QED
  BY <1>2, <1>3, <1>4 DEF AnyTypes

\* Waits begin and end, and callbacks stay.
LEMMA WaitPushed ==
  ASSUME AnyTypes, NEW r \in Runners, NEW f \in AnyFrames,
         f.kind # "callback", Push(r, f), NEW t
  PROVE  /\ stack' \in [Runners -> Seq(AnyFrames)]
         /\ \A x \in Runners : CallbacksOf(x, t)' = CallbacksOf(x, t)
<1>1. /\ stack' \in [Runners -> Seq(AnyFrames)]
      /\ \A x \in Runners \ {r} : stack'[x] = stack[x]
      /\ Len(stack'[r]) = Len(stack[r]) + 1
      /\ stack'[r][Len(stack[r]) + 1] = f
      /\ \A i \in 1 .. Len(stack[r]) : stack'[r][i] = stack[r][i]
  BY AnyPush
<1>2. Len(stack[r]) \in Nat
  BY AnyFrameFacts
<1>3. \A i : i \in 1 .. Len(stack'[r]) <=>
               i \in 1 .. Len(stack[r]) \/ i = Len(stack[r]) + 1
  BY <1>1, <1>2
<1>4. \A i : i \in CallbacksOf(r, t)' <=> i \in CallbacksOf(r, t)
  BY <1>1, <1>3 DEF CallbacksOf
<1>5. CallbacksOf(r, t)' = CallbacksOf(r, t)
  BY <1>4
<1> QED
  BY <1>1, <1>5 DEF CallbacksOf

LEMMA WaitPopped ==
  ASSUME AnyTypes, NEW r \in Runners, stack[r] # <<>>,
         Top(r).kind # "callback", Pop(r), NEW t
  PROVE  /\ stack' \in [Runners -> Seq(AnyFrames)]
         /\ \A x \in Runners : CallbacksOf(x, t)' = CallbacksOf(x, t)
<1>1. /\ stack' \in [Runners -> Seq(AnyFrames)]
      /\ \A x \in Runners \ {r} : stack'[x] = stack[x]
      /\ Len(stack'[r]) = Len(stack[r]) - 1
      /\ \A i \in 1 .. Len(stack[r]) - 1 : stack'[r][i] = stack[r][i]
  BY AnyPop
<1>2. Len(stack[r]) \in Nat /\ Len(stack[r]) > 0
  BY AnyFrameFacts
<1>3. \A i : i \in 1 .. Len(stack[r]) <=>
               i \in 1 .. Len(stack[r]) - 1 \/ i = Len(stack[r])
  BY <1>2
<1>4. \A i : i \in CallbacksOf(r, t)' <=> i \in CallbacksOf(r, t)
  BY <1>1, <1>3 DEF CallbacksOf, Top
<1>5. CallbacksOf(r, t)' = CallbacksOf(r, t)
  BY <1>4
<1> QED
  BY <1>1, <1>5 DEF CallbacksOf

LEMMA WaitChanged ==
  ASSUME AnyTypes, NEW r \in Runners, NEW k \in 1 .. Len(stack[r]),
         stack[r][k].kind # "callback", NEW f \in AnyFrames,
         f.kind # "callback", Replaced(r, k, f), NEW t
  PROVE  /\ stack' \in [Runners -> Seq(AnyFrames)]
         /\ \A x \in Runners : CallbacksOf(x, t)' = CallbacksOf(x, t)
<1>1. /\ stack' \in [Runners -> Seq(AnyFrames)]
      /\ \A x \in Runners \ {r} : stack'[x] = stack[x]
      /\ Len(stack'[r]) = Len(stack[r]) /\ stack'[r][k] = f
      /\ \A i \in 1 .. Len(stack[r]) : i # k => stack'[r][i] = stack[r][i]
  BY AnyReplace
<1>2. \A i : i \in CallbacksOf(r, t)' <=> i \in CallbacksOf(r, t)
  BY <1>1 DEF CallbacksOf
<1>3. CallbacksOf(r, t)' = CallbacksOf(r, t)
  BY <1>2
<1> QED
  BY <1>1, <1>3 DEF CallbacksOf

\* A callback of t begins, or ends.  The other timers' stay.
LEMMA CallbackBegins ==
  ASSUME AnyTypes, NEW r \in Runners, NEW t \in Timers,
         NEW cause \in {"wait", "stop", "reset"},
         Push(r, [kind |-> "callback", job |-> t, cause |-> cause])
  PROVE  /\ stack' \in [Runners -> Seq(AnyFrames)]
         /\ \A u \in Timers \ {t} : \A x \in Runners :
              CallbacksOf(x, u)' = CallbacksOf(x, u)
         /\ IsFiniteSet(Rings(t)) =>
              IsFiniteSet(Rings(t)') /\ Ringing(t)' = Ringing(t) + 1
<1> DEFINE f == [kind |-> "callback", job |-> t, cause |-> cause]
           n == Len(stack[r]) + 1
<1>1. f \in AnyFrames /\ f.kind = "callback" /\ f.job = t
  BY DEF AnyFrames, Callbacks, Timers
<1>2. Push(r, f)
  OBVIOUS
<1> HIDE DEF f
<1>3. /\ stack' \in [Runners -> Seq(AnyFrames)]
      /\ \A x \in Runners \ {r} : stack'[x] = stack[x]
      /\ Len(stack'[r]) = n /\ stack'[r][n] = f
      /\ \A i \in 1 .. Len(stack[r]) : stack'[r][i] = stack[r][i]
  BY <1>1, <1>2, AnyPush
<1>4. Len(stack[r]) \in Nat
  BY AnyFrameFacts
<1>5. /\ n \notin 1 .. Len(stack[r])
      /\ \A i : i \in 1 .. Len(stack'[r]) <=> i \in 1 .. Len(stack[r]) \/ i = n
  BY <1>3, <1>4
<1> HIDE DEF n
<1>6. ASSUME NEW u \in Timers \ {t}, NEW x \in Runners
      PROVE  CallbacksOf(x, u)' = CallbacksOf(x, u)
  <2>1. \A i : i \in CallbacksOf(r, u)' <=> i \in CallbacksOf(r, u)
    BY <1>1, <1>3, <1>5, <1>6 DEF CallbacksOf
  <2>2. CallbacksOf(r, u)' = CallbacksOf(r, u)
    BY <2>1
  <2> QED
    BY <1>3, <2>2 DEF CallbacksOf
<1>7. CallbacksOf(r, t)' = CallbacksOf(r, t) \cup {n} /\ n \notin CallbacksOf(r, t)
  <2>1. \A i : i \in CallbacksOf(r, t)' <=> i \in CallbacksOf(r, t) \/ i = n
    BY <1>1, <1>3, <1>5 DEF CallbacksOf
  <2> QED
    BY <1>5, <2>1 DEF CallbacksOf
<1>8. \A x \in Runners \ {r} : CallbacksOf(x, t)' = CallbacksOf(x, t)
  BY <1>3 DEF CallbacksOf
<1> QED
  BY <1>3, <1>6, <1>7, <1>8, RingBegins

LEMMA CallbackEnds ==
  ASSUME AnyTypes, NEW r \in Runners, NEW t \in Timers,
         NEW cause \in {"wait", "stop", "reset"}, EndsCallback(r, t, cause)
  PROVE  /\ stack' \in [Runners -> Seq(AnyFrames)]
         /\ \A u \in Timers \ {t} : \A x \in Runners :
              CallbacksOf(x, u)' = CallbacksOf(x, u)
         /\ IsFiniteSet(Rings(t)) =>
              IsFiniteSet(Rings(t)') /\ Ringing(t)' = Ringing(t) - 1
<1> DEFINE n == Len(stack[r])
<1>1. /\ stack[r] # <<>> /\ Pop(r)
      /\ Top(r).kind = "callback" /\ Top(r).job = t
  BY DEF EndsCallback
<1>2. /\ stack' \in [Runners -> Seq(AnyFrames)]
      /\ \A x \in Runners \ {r} : stack'[x] = stack[x]
      /\ Len(stack'[r]) = n - 1
      /\ \A i \in 1 .. n - 1 : stack'[r][i] = stack[r][i]
  BY <1>1, AnyPop
<1>3. n \in Nat /\ n > 0
  BY <1>1, AnyFrameFacts
<1>4. /\ n \notin 1 .. n - 1 /\ stack[r][n] = Top(r) /\ 1 .. Len(stack[r]) = 1 .. n
      /\ \A i : i \in 1 .. n <=> i \in 1 .. n - 1 \/ i = n
  BY <1>3 DEF Top
<1> HIDE DEF n
<1>5. ASSUME NEW u \in Timers \ {t}, NEW x \in Runners
      PROVE  CallbacksOf(x, u)' = CallbacksOf(x, u)
  <2>1. \A i : i \in CallbacksOf(r, u)' <=> i \in CallbacksOf(r, u)
    BY <1>1, <1>2, <1>4, <1>5 DEF CallbacksOf
  <2>2. CallbacksOf(r, u)' = CallbacksOf(r, u)
    BY <2>1
  <2> QED
    BY <1>2, <2>2 DEF CallbacksOf
<1>6. CallbacksOf(r, t)' = CallbacksOf(r, t) \ {n} /\ n \in CallbacksOf(r, t)
  <2>1. \A i : i \in CallbacksOf(r, t)' <=> i \in CallbacksOf(r, t) /\ i # n
    BY <1>1, <1>2, <1>4 DEF CallbacksOf
  <2> QED
    BY <1>1, <1>4, <2>1 DEF CallbacksOf
<1>7. \A x \in Runners \ {r} : CallbacksOf(x, t)' = CallbacksOf(x, t)
  BY <1>2 DEF CallbacksOf
<1> QED
  BY <1>2, <1>5, <1>6, <1>7, RingEnds

-----------------------------------------------------------------------------
(* One lemma for each action.                                              *)

\* Nothing is counted differently for u.
LEMMA CountedStill ==
  ASSUME NEW u \in Timers, Counted(u),
         \A x \in Runners : CallbacksOf(x, u)' = CallbacksOf(x, u),
         references'[u] = references[u], handle'[u] <=> handle[u],
         u \in queue' <=> u \in queue
  PROVE  Counted(u)'
<1>1. Rings(u)' = Rings(u) /\ Ringing(u)' = Ringing(u)
  BY SameRings
<1> QED
  BY <1>1 DEF Counted

\* A step that changes what is counted for t only.
LEMMA CountStep ==
  ASSUME CountInv, ~failed, AnyTypes', NEW t \in Timers,
         \A u \in Timers \ {t} : \A x \in Runners :
           CallbacksOf(x, u)' = CallbacksOf(x, u),
         \A u \in Timers \ {t} : /\ references'[u] = references[u]
                                 /\ handle'[u] <=> handle[u]
                                 /\ u \in queue' <=> u \in queue,
         ~failed' => Counted(t)'
  PROVE  CountInv'
<1>1. ASSUME NEW u \in Timers, u # t PROVE Counted(u)'
  BY <1>1, CountedStill DEF CountInv
<1> QED
  BY <1>1 DEF CountInv

\* No callback begins or ends.
SameCallbacks ==
  \A u \in Timers : \A x \in Runners : CallbacksOf(x, u)' = CallbacksOf(x, u)

\* A step that changes nothing that is counted.
LEMMA CountSame ==
  ASSUME CountInv, ~failed, UNCHANGED timerVars, UNCHANGED jobVars,
         now' \in Int, deadline' \in [Runners -> Int],
         stack' \in [Runners -> Seq(AnyFrames)], SameCallbacks
  PROVE  CountInv'
<1>1. AnyTypes'
  BY DEF CountInv, AnyTypes, timerVars, jobVars
<1>2. ASSUME NEW u \in Timers PROVE Counted(u)'
  BY <1>2, CountedStill DEF CountInv, SameCallbacks, timerVars, jobVars
<1> QED
  BY <1>1, <1>2 DEF CountInv

LEMMA WakeKeepsTime ==
  ASSUME NEW r, NEW o, WakeIfWaiting(r, o)
  PROVE  now' = now /\ deadline' = deadline
BY DEF WakeIfWaiting, Time!Wake, timeVars

LEMMA CountedBy ==
  ASSUME AnyTypes, NEW t \in Timers, NEW change \in Int, Count(t, change)
  PROVE  /\ references' \in [Timers -> Int]
         /\ references'[t] = references[t] + change
         /\ \A u \in Timers \ {t} : references'[u] = references[u]
BY DEF AnyTypes, Count

\* A callback neither begins nor ends when the stacks stay.
LEMMA StacksStay ==
  ASSUME stack' = stack
  PROVE  \A u : \A x \in Runners : CallbacksOf(x, u)' = CallbacksOf(x, u)
BY DEF CallbacksOf

\* What start() and reset() do to a timer, whatever else changes.
LEMMA ArmTypes ==
  ASSUME AnyTypes, NEW r \in Runners, NEW t \in Timers, NEW d \in Int,
         AddJob(r, t, now + d), remaining' = [remaining EXCEPT ![t] = d]
  PROVE  /\ now' \in Int /\ deadline' \in [Runners -> Int]
         /\ due' \in [Jobs -> Int] /\ remaining' \in [Timers -> Int]
         /\ t \in queue' /\ queue' \subseteq Jobs
         /\ \A u \in Timers \ {t} : u \in queue' <=> u \in queue
<1>1. now' = now /\ deadline' = deadline
  BY WakeKeepsTime DEF AddJob
<1> QED
  BY <1>1 DEF AnyTypes, AddJob, Timers

LEMMA StartCount ==
  ASSUME CountInv, NEW r \in Runners, NEW t \in Timers, NEW d \in Int,
         ~failed, Arm(r, t, d), Count(t, 1), UNCHANGED waitVars,
         UNCHANGED handle, startValue' \in [Timers -> Int]
  PROVE  CountInv'
<1>1. AnyTypes
  BY DEF CountInv
<1>2. /\ now' \in Int /\ deadline' \in [Runners -> Int]
      /\ due' \in [Jobs -> Int] /\ remaining' \in [Timers -> Int]
      /\ t \in queue' /\ queue' \subseteq Jobs
      /\ \A u \in Timers \ {t} : u \in queue' <=> u \in queue
  BY <1>1, ArmTypes DEF Arm
<1>3. /\ references' \in [Timers -> Int] /\ references'[t] = references[t] + 1
      /\ \A u \in Timers \ {t} : references'[u] = references[u]
  BY <1>1, CountedBy
<1>4. stack' = stack
  BY DEF waitVars
<1>5. AnyTypes'
  BY <1>1, <1>2, <1>3, <1>4 DEF AnyTypes
<1>6. ASSUME ~failed' PROVE Counted(t)'
  <2>1. failed' = (t \in queue)
    BY DEF Arm
  <2>2. t \notin queue
    BY <1>6, <2>1
  <2>3. Counted(t)
    BY DEF CountInv
  <2>4. Rings(t)' = Rings(t) /\ Ringing(t)' = Ringing(t)
    BY <1>4, StacksStay, SameRings
  <2>5. IsFiniteSet(Rings(t)) /\ Ringing(t) \in Nat
    BY <2>3, FS_CardinalityType, RingsMember DEF Counted
  <2> QED
    BY <1>2, <1>3, <2>2, <2>3, <2>4, <2>5 DEF Counted
<1> QED
  BY <1>2, <1>3, <1>4, <1>5, <1>6, StacksStay, CountStep

LEMMA StopCount ==
  ASSUME CountInv, NEW r \in Runners, NEW t \in Timers, Stop(r, t)
  PROVE  CountInv'
<1>1. AnyTypes /\ ~failed
  BY DEF CountInv, Stop, CanUse, InCode
<1>2. now' = now /\ deadline' = deadline
  BY WakeKeepsTime DEF Stop
<1>3. /\ references' \in [Timers -> Int] /\ references'[t] = references[t] - 1
      /\ \A u \in Timers \ {t} : references'[u] = references[u]
  <2>1. Count(t, -1) /\ -1 \in Int
    BY DEF Stop
  <2>2. /\ references' \in [Timers -> Int] /\ references'[t] = references[t] + (-1)
        /\ \A u \in Timers \ {t} : references'[u] = references[u]
    BY <1>1, <2>1, CountedBy
  <2> QED
    BY <1>1, <2>2 DEF AnyTypes
<1>4. /\ stack' = stack /\ queue' = queue \ {t} /\ handle' = handle
      /\ due' = due /\ startValue' = startValue
      /\ remaining' = [remaining EXCEPT ![t] = now - StartedAt(t)]
  BY DEF Stop, waitVars
<1>5. now - StartedAt(t) \in Int
  BY <1>1 DEF AnyTypes, StartedAt, Timers
<1>6. AnyTypes'
  BY <1>1, <1>2, <1>3, <1>4, <1>5 DEF AnyTypes
<1>7. ASSUME ~failed' PROVE Counted(t)'
  <2>1. failed' = (t \notin queue)
    BY DEF Stop
  <2>2. t \in queue /\ t \notin queue'
    BY <1>4, <1>7, <2>1
  <2>3. Counted(t)
    BY <1>1 DEF CountInv
  <2>4. Rings(t)' = Rings(t) /\ Ringing(t)' = Ringing(t)
    BY <1>4, StacksStay, SameRings
  <2>5. IsFiniteSet(Rings(t)) /\ Ringing(t) \in Nat
    BY <2>3, FS_CardinalityType, RingsMember DEF Counted
  <2> QED
    BY <1>3, <1>4, <2>2, <2>3, <2>4, <2>5 DEF Counted
<1> QED
  BY <1>1, <1>3, <1>4, <1>6, <1>7, StacksStay, CountStep

LEMMA ResetCount ==
  ASSUME CountInv, NEW r \in Runners, NEW t \in Timers, Reset(r, t)
  PROVE  CountInv'
<1> DEFINE c == IF armed[t] THEN 0 ELSE 1
<1>1. AnyTypes /\ ~failed /\ startValue[t] \in Int
  BY DEF CountInv, Reset, CanStart, CanUse, InCode, AnyTypes
<1>2. /\ now' \in Int /\ deadline' \in [Runners -> Int]
      /\ due' \in [Jobs -> Int] /\ remaining' \in [Timers -> Int]
      /\ t \in queue' /\ queue' \subseteq Jobs
      /\ \A u \in Timers \ {t} : u \in queue' <=> u \in queue
  BY <1>1, ArmTypes DEF Reset
<1>3. /\ references' \in [Timers -> Int] /\ references'[t] = references[t] + c
      /\ \A u \in Timers \ {t} : references'[u] = references[u]
  <2>1. Count(t, c) /\ c \in Int
    BY DEF Reset
  <2> HIDE DEF c
  <2> QED
    BY <1>1, <2>1, CountedBy
<1>4. stack' = stack /\ handle' = handle /\ startValue' = startValue
  BY DEF Reset, waitVars
<1>5. AnyTypes'
  BY <1>1, <1>2, <1>3, <1>4 DEF AnyTypes
<1>6. ASSUME ~failed' PROVE Counted(t)'
  <2>1. failed' = (armed[t] # (t \in queue))
    BY DEF Reset
  <2>2. armed[t] = (t \in queue)
    BY <1>6, <2>1, Zenon
  <2>3. c = IF t \in queue THEN 0 ELSE 1
    BY <2>2
  <2>4. Counted(t)
    BY <1>1 DEF CountInv
  <2>5. Rings(t)' = Rings(t) /\ Ringing(t)' = Ringing(t)
    BY <1>4, StacksStay, SameRings
  <2>6. IsFiniteSet(Rings(t)) /\ Ringing(t) \in Nat
    BY <2>4, FS_CardinalityType, RingsMember DEF Counted
  <2> HIDE DEF c
  <2> QED
    BY <1>2, <1>3, <1>4, <2>3, <2>4, <2>5, <2>6 DEF Counted
<1> HIDE DEF c
<1> QED
  BY <1>1, <1>2, <1>3, <1>4, <1>5, <1>6, StacksStay, CountStep

LEMMA ExecuteCount ==
  ASSUME CountInv, NEW r \in Runners, NEW t \in Timers,
         NEW cause \in {"wait", "stop", "reset"},
         ~failed, t \in queue, Execute(r, t, cause),
         remaining' \in [Timers -> Int]
  PROVE  CountInv'
<1>1. AnyTypes /\ Counted(t)
  BY DEF CountInv
<1>2. /\ stack' \in [Runners -> Seq(AnyFrames)]
      /\ \A u \in Timers \ {t} : \A x \in Runners :
           CallbacksOf(x, u)' = CallbacksOf(x, u)
      /\ IsFiniteSet(Rings(t)) =>
           IsFiniteSet(Rings(t)') /\ Ringing(t)' = Ringing(t) + 1
  BY <1>1, CallbackBegins DEF Execute
<1>3. /\ references' \in [Timers -> Int] /\ references'[t] = references[t] + 1
      /\ \A u \in Timers \ {t} : references'[u] = references[u]
  BY <1>1, CountedBy DEF Execute
<1>4. /\ now' = now /\ deadline' = deadline /\ due' = due
      /\ startValue' = startValue /\ handle' = handle /\ queue' = queue \ {t}
  BY DEF Execute, timeVars
<1>5. AnyTypes'
  BY <1>1, <1>2, <1>3, <1>4 DEF AnyTypes
<1>6. Counted(t)'
  <2>1. IsFiniteSet(Rings(t)) /\ Ringing(t) \in Nat
    BY <1>1, FS_CardinalityType, RingsMember DEF Counted
  <2> QED
    BY <1>1, <1>2, <1>3, <1>4, <2>1 DEF Counted
<1> QED
  BY <1>2, <1>3, <1>4, <1>5, <1>6, CountStep

LEMMA ExpireCount ==
  ASSUME CountInv, NEW r \in Runners, NEW t \in Timers, Expire(r, t)
  PROVE  CountInv'
<1>1. ~failed /\ t \in queue /\ Execute(r, t, "wait")
  BY DEF Expire, Draining, InLoop, IsNext, JobsOf
<1>2. remaining' \in [Timers -> Int]
  BY DEF Expire, CountInv, AnyTypes
<1> QED
  BY <1>1, <1>2, ExecuteCount

LEMMA StopDueCount ==
  ASSUME CountInv, NEW r \in Runners, NEW t \in Timers,
         NEW cause \in {"stop", "reset"}, StopDue(r, t, cause)
  PROVE  CountInv'
<1>1. ~failed /\ t \in queue /\ Execute(r, t, cause) /\ AnyTypes
  BY DEF StopDue, CanUse, InCode, CountInv
<1>2. now - StartedAt(t) \in Int
  BY <1>1 DEF AnyTypes, StartedAt, Timers
<1>3. remaining' \in [Timers -> Int]
  BY <1>1, <1>2 DEF StopDue, AnyTypes
<1> QED
  BY <1>1, <1>3, ExecuteCount

\* The references of a callback that returns: two, or one if the timer starts
\* again.
LEMMA EndsCount ==
  ASSUME CountInv, NEW r \in Runners, NEW t \in Timers,
         NEW cause \in {"wait", "stop", "reset"}, EndsCallback(r, t, cause),
         NEW more \in {0, 1}, Count(t, more - 2),
         ~failed' => (t \in queue' <=> t \in queue \/ more = 1),
         ~failed' /\ more = 1 => t \notin queue, queue' \subseteq Jobs,
         \A u \in Timers \ {t} : u \in queue' <=> u \in queue,
         now' \in Int, deadline' \in [Runners -> Int], due' \in [Jobs -> Int],
         remaining' \in [Timers -> Int], UNCHANGED <<startValue, handle>>
  PROVE  CountInv'
<1>1. AnyTypes /\ Counted(t) /\ ~failed
  BY DEF CountInv, EndsCallback, InCode
<1>2. /\ stack' \in [Runners -> Seq(AnyFrames)]
      /\ \A u \in Timers \ {t} : \A x \in Runners :
           CallbacksOf(x, u)' = CallbacksOf(x, u)
      /\ IsFiniteSet(Rings(t)) =>
           IsFiniteSet(Rings(t)') /\ Ringing(t)' = Ringing(t) - 1
  BY <1>1, CallbackEnds
<1>3. /\ references' \in [Timers -> Int]
      /\ references'[t] = references[t] + (more - 2)
      /\ \A u \in Timers \ {t} : references'[u] = references[u]
  BY <1>1, CountedBy
<1>4. AnyTypes'
  BY <1>1, <1>2, <1>3 DEF AnyTypes
<1>5. ASSUME ~failed' PROVE Counted(t)'
  <2>1. IsFiniteSet(Rings(t)) /\ Ringing(t) \in Nat
    BY <1>1, FS_CardinalityType, RingsMember DEF Counted
  <2> DEFINE h == IF handle[t] THEN 1 ELSE 0
  <2>2. (IF handle'[t] THEN 1 ELSE 0) = h /\ h \in Int
    OBVIOUS
  <2> HIDE DEF h
  <2>3. references[t] = h + (IF t \in queue THEN 1 ELSE 0) + 2 * Ringing(t)
    BY <1>1 DEF Counted, h
  <2>4. (IF t \in queue' THEN 1 ELSE 0) = (IF t \in queue THEN 1 ELSE 0) + more
    BY <1>5
  <2>5. references'[t] =
          h + (IF t \in queue' THEN 1 ELSE 0) + 2 * (Ringing(t) - 1)
    BY <1>3, <2>1, <2>2, <2>3, <2>4
  <2> QED
    BY <1>1, <1>2, <2>2, <2>5 DEF Counted
<1> QED
  BY <1>1, <1>2, <1>3, <1>4, <1>5, CountStep

LEMMA EndOfExpiryCount ==
  ASSUME CountInv, NEW r \in Runners, NEW t \in Timers, EndOfExpiry(r, t)
  PROVE  CountInv'
<1>1. EndsCallback(r, t, "wait") /\ Count(t, 0 - 2) /\ queue' = queue
  BY DEF EndOfExpiry, jobVars
<1>2. /\ queue' \subseteq Jobs
      /\ now' \in Int /\ deadline' \in [Runners -> Int]
      /\ due' \in [Jobs -> Int] /\ remaining' \in [Timers -> Int]
      /\ UNCHANGED <<startValue, handle>>
  BY DEF EndOfExpiry, timeVars, jobVars, CountInv, AnyTypes
<1> QED
  BY <1>1, <1>2, EndsCount

LEMMA EndOfStopCount ==
  ASSUME CountInv, NEW r \in Runners, NEW t \in Timers, EndOfStop(r, t)
  PROVE  CountInv'
<1>1. EndsCallback(r, t, "stop") /\ Count(t, 0 - 2) /\ queue' = queue
  BY DEF EndOfStop, jobVars
<1>2. now' = now /\ deadline' = deadline
  BY WakeKeepsTime DEF EndOfStop
<1>3. /\ queue' \subseteq Jobs
      /\ now' \in Int /\ deadline' \in [Runners -> Int]
      /\ due' \in [Jobs -> Int] /\ remaining' \in [Timers -> Int]
      /\ UNCHANGED <<startValue, handle>>
  BY <1>2 DEF EndOfStop, jobVars, CountInv, AnyTypes
<1> QED
  BY <1>1, <1>3, EndsCount

LEMMA EndOfResetCount ==
  ASSUME CountInv, NEW r \in Runners, NEW t \in Timers, EndOfReset(r, t)
  PROVE  CountInv'
<1> DEFINE d == startValue[t]
<1>1. /\ EndsCallback(r, t, "reset") /\ Count(t, 1 - 2)
      /\ Arm(r, t, d) /\ UNCHANGED <<startValue, handle>>
  BY DEF EndOfReset
<1>2. AnyTypes /\ d \in Int
  BY DEF CountInv, AnyTypes
<1> HIDE DEF d
<1>3. AddJob(r, t, now + d) /\ remaining' = [remaining EXCEPT ![t] = d]
  BY <1>1 DEF Arm
<1>4. /\ now' \in Int /\ deadline' \in [Runners -> Int]
      /\ due' \in [Jobs -> Int] /\ remaining' \in [Timers -> Int]
      /\ t \in queue' /\ queue' \subseteq Jobs
      /\ \A u \in Timers \ {t} : u \in queue' <=> u \in queue
  BY <1>2, <1>3, ArmTypes
<1>5. ~failed' => t \notin queue
  <2>1. failed' = (t \in queue)
    BY <1>1 DEF Arm
  <2> QED
    BY <2>1
<1> QED
  BY <1>1, <1>4, <1>5, EndsCount

LEMMA DropCount ==
  ASSUME CountInv, NEW r \in Runners, NEW t \in Timers, Drop(r, t)
  PROVE  CountInv'
<1>1. AnyTypes /\ Counted(t) /\ ~failed /\ handle[t]
  BY DEF CountInv, Drop, InCode
<1>2. /\ references' \in [Timers -> Int] /\ references'[t] = references[t] + (-1)
      /\ \A u \in Timers \ {t} : references'[u] = references[u]
  <2>1. Count(t, -1) /\ -1 \in Int
    BY DEF Drop
  <2> QED
    BY <1>1, <2>1, CountedBy
<1>3. /\ now' = now /\ deadline' = deadline /\ stack' = stack
      /\ queue' = queue /\ due' = due /\ remaining' = remaining
      /\ startValue' = startValue
  BY DEF Drop, timeVars, waitVars, jobVars
<1>4. /\ handle' \in [Timers -> BOOLEAN] /\ ~handle'[t]
      /\ \A u \in Timers \ {t} : handle'[u] <=> handle[u]
  BY <1>1, Zenon DEF Drop, AnyTypes
<1>5. AnyTypes'
  BY <1>1, <1>2, <1>3, <1>4 DEF AnyTypes
<1>6. Counted(t)'
  <2>1. Rings(t)' = Rings(t) /\ Ringing(t)' = Ringing(t)
    BY <1>3, StacksStay, SameRings
  <2>2. Ringing(t) \in Nat
    BY <1>1, FS_CardinalityType, RingsMember DEF Counted
  <2> QED
    BY <1>1, <1>2, <1>3, <1>4, <2>1, <2>2 DEF Counted
<1> QED
  BY <1>1, <1>2, <1>3, <1>4, <1>5, <1>6, StacksStay, CountStep

LEMMA WaitCount ==
  ASSUME CountInv, NEW r \in Runners, NEW kind \in Kinds,
         NEW duration \in Durations \cup {EndOfTime}, NEW value \in BOOLEAN,
         Wait(r, kind, duration, value), UNCHANGED timerVars
  PROVE  CountInv' /\ SameCallbacks
<1> DEFINE end == IF duration = EndOfTime THEN EndOfTime ELSE now + duration
           f == [kind |-> kind, timeout |-> duration, stage |-> "check",
                 startAt |-> 0,
                 token |-> IF kind = "token" THEN "awaited" ELSE "none",
                 end |-> end]
<1>1. AnyTypes /\ ~failed
  BY DEF CountInv, Wait, InCode
<1>2. duration \in Int /\ end \in Int
  BY <1>1, TimeAssumption DEF AnyTypes
<1>3. kind \in {"duration", "condition", "token"}
  BY WaitsAssumption
<1>4. Push(r, f) /\ UNCHANGED timeVars /\ UNCHANGED jobVars
  BY DEF Wait
<1> HIDE DEF end
<1>5. f \in AnyFrames /\ f.kind # "callback"
  BY <1>2, <1>3 DEF AnyFrames, AnyWaits
<1> HIDE DEF f
<1>6. /\ stack' \in [Runners -> Seq(AnyFrames)]
      /\ SameCallbacks
  BY <1>1, <1>4, <1>5, WaitPushed DEF SameCallbacks
<1>7. now' = now /\ deadline' = deadline
  BY <1>4 DEF timeVars
<1> QED
  BY <1>1, <1>4, <1>6, <1>7, CountSame DEF AnyTypes

\* The frame of a wait is replaced.
LEMMA TopChanged ==
  ASSUME AnyTypes, NEW r \in Runners, InWait(r), NEW f \in AnyFrames,
         f.kind = Top(r).kind, SetTop(r, f)
  PROVE  /\ stack' \in [Runners -> Seq(AnyFrames)]
         /\ SameCallbacks
<1> DEFINE k == Len(stack[r])
<1>1. k \in Nat /\ k > 0
  BY AnyFrameFacts DEF InWait
<1>2. k \in 1 .. Len(stack[r])
  BY <1>1
<1>3. Replaced(r, k, f)
  BY DEF Replaced, SetTop
<1>4. stack[r][k].kind # "callback" /\ f.kind # "callback"
  BY DEF InWait, Top
<1> HIDE DEF k
<1> QED
  BY <1>2, <1>3, <1>4, WaitChanged DEF SameCallbacks

\* The wait that r is in.
LEMMA AnyWait ==
  ASSUME AnyTypes, NEW r \in Runners, InWait(r)
  PROVE  Top(r) \in AnyWaits
<1>1. /\ stack[r] \in Seq(AnyFrames)
      /\ Len(stack[r]) \in Nat /\ Len(stack[r]) > 0
  BY AnyFrameFacts DEF InWait
<1>2. Top(r) \in AnyFrames
  BY <1>1 DEF Top
<1> QED
  BY <1>2 DEF InWait, Callbacks, AnyFrames

LEMMA FallAsleepCount ==
  ASSUME CountInv, NEW r \in Runners, FallAsleep(r), UNCHANGED timerVars
  PROVE  CountInv' /\ SameCallbacks
<1>1. AnyTypes /\ ~failed /\ InWait(r)
  BY DEF CountInv, FallAsleep, AtLoopHead, InLoop
<1>2. CASE \E j \in JobsOf(r) : due[j] < now
  <2>1. /\ now' = now /\ deadline' = deadline /\ stack' = stack
        /\ UNCHANGED jobVars
    BY <1>2 DEF FallAsleep, Fail, timeVars, waitVars
  <2> QED
    BY <1>1, <2>1, StacksStay, CountSame DEF AnyTypes, SameCallbacks
<1>3. CASE ~ \E j \in JobsOf(r) : due[j] < now
  <2> DEFINE f == [Top(r) EXCEPT !.stage = "asleep", !.startAt = now]
  <2>1. PICK until \in Deadlines(r) : Time!Sleep(r, until)
    BY <1>3 DEF FallAsleep
  <2>2. until \in Int
    <3>1. Top(r) \in AnyWaits
      BY <1>1, AnyWait
    <3>2. Top(r).timeout \in Int
      BY <3>1 DEF AnyWaits
    <3>3. \A j \in JobsOf(r) : due[j] \in Int
      BY <1>1 DEF AnyTypes, JobsOf
    <3> QED
      BY <1>1, <2>1, <3>2, <3>3, TimeAssumption DEF Deadlines, AnyTypes
  <2>3. now' = now /\ deadline' \in [Runners -> Int]
    BY <1>1, <2>1, <2>2 DEF Time!Sleep, AnyTypes
  <2>4. SetTop(r, f) /\ UNCHANGED jobVars
    BY <1>3 DEF FallAsleep
  <2>5. f \in AnyFrames /\ f.kind = Top(r).kind
    <3>1. Top(r) \in AnyWaits
      BY <1>1, AnyWait
    <3> QED
      BY <1>1, <3>1 DEF AnyFrames, AnyWaits, AnyTypes
  <2> HIDE DEF f
  <2> QED
    BY <1>1, <2>3, <2>4, <2>5, TopChanged, CountSame DEF AnyTypes
<1> QED
  BY <1>2, <1>3

LEMMA Drained ==
  ASSUME NEW w \in AnyWaits, NEW left \in Int,
         NEW token \in {"none", "awaited", "cut", "given", "lost"}
  PROVE  LET f == [w EXCEPT !.timeout = left, !.stage = "drain", !.startAt = 0,
                            !.token = token]
         IN  f \in AnyFrames /\ f.kind = w.kind
<1> DEFINE f1 == [w EXCEPT !.timeout = left]
           f2 == [f1 EXCEPT !.stage = "drain"]
           f3 == [f2 EXCEPT !.startAt = 0]
           f4 == [f3 EXCEPT !.token = token]
<1>1. f1 \in AnyWaits /\ f1.kind = w.kind
  BY DEF AnyWaits
<1> HIDE DEF f1
<1>2. f2 \in AnyWaits /\ f2.kind = w.kind
  BY <1>1 DEF AnyWaits
<1> HIDE DEF f2
<1>3. f3 \in AnyWaits /\ f3.kind = w.kind
  BY <1>2 DEF AnyWaits
<1> HIDE DEF f3
<1>4. f4 \in AnyWaits /\ f4.kind = w.kind
  BY <1>3 DEF AnyWaits
<1> QED
  BY <1>4 DEF AnyFrames, f1, f2, f3

LEMMA ResumeCount ==
  ASSUME CountInv, NEW r \in Runners, Resume(r), UNCHANGED timerVars
  PROVE  CountInv' /\ SameCallbacks
<1>1. AnyTypes /\ ~failed /\ UNCHANGED jobVars
  BY DEF CountInv, Resume
<1>2. now' \in Int /\ deadline' = deadline
  <2>1. CASE Time!Run(r)
    BY <1>1, <2>1 DEF Time!Run, AnyTypes
  <2>2. CASE Time!TimeOut(r)
    BY <1>1, <2>2 DEF Time!TimeOut, AnyTypes
  <2> QED
    BY <2>1, <2>2 DEF Resume
<1>3. CASE InWait(r)
  <2> DEFINE left == IF Top(r).timeout = EndOfTime
                     THEN Top(r).timeout
                     ELSE Top(r).timeout - (now' - Top(r).startAt)
             token == IF Top(r).token = "cut" THEN "awaited" ELSE Top(r).token
             f == [Top(r) EXCEPT !.timeout = left, !.stage = "drain",
                                 !.startAt = 0, !.token = token]
  <2>1. Top(r) \in AnyWaits
    BY <1>1, <1>3, AnyWait
  <2>2. left \in Int
    BY <1>2, <2>1 DEF AnyWaits
  <2>3. SetTop(r, f)
    BY <1>3 DEF Resume
  <2>5. token \in {"none", "awaited", "cut", "given", "lost"}
    BY <2>1 DEF AnyWaits
  <2> HIDE DEF left, token
  <2>4. f \in AnyFrames /\ f.kind = Top(r).kind
    BY <2>1, <2>2, <2>5, Drained
  <2> HIDE DEF f
  <2> QED
    BY <1>1, <1>2, <1>3, <2>3, <2>4, TopChanged, CountSame DEF AnyTypes
<1>4. CASE ~InWait(r)
  <2>1. stack' = stack
    BY <1>4 DEF Resume
  <2> QED
    BY <1>1, <1>2, <2>1, StacksStay, CountSame DEF AnyTypes, SameCallbacks
<1> QED
  BY <1>3, <1>4

LEMMA ReturnCount ==
  ASSUME CountInv, NEW r \in Runners, Return(r), UNCHANGED timerVars
  PROVE  CountInv' /\ SameCallbacks
<1>1. AnyTypes /\ ~failed
  BY DEF CountInv, Return, AtLoopHead, InLoop
<1>2. stack[r] # <<>> /\ Top(r).kind # "callback" /\ Pop(r)
  BY DEF Return, AtLoopHead, InLoop, InWait
<1>3. now' = now /\ deadline' = deadline /\ UNCHANGED jobVars
  BY DEF Return, timeVars
<1> QED
  BY <1>1, <1>2, <1>3, WaitPopped, CountSame DEF AnyTypes, SameCallbacks

LEMMA ChangeConditionCount ==
  ASSUME CountInv, NEW r \in Runners, NEW o \in Runners, NEW value \in BOOLEAN,
         ChangeCondition(r, o, value), UNCHANGED timerVars
  PROVE  CountInv' /\ SameCallbacks
<1>1. AnyTypes /\ ~failed
  BY DEF CountInv, ChangeCondition, InCode
<1>2. now' = now /\ deadline' = deadline
  BY WakeKeepsTime DEF ChangeCondition
<1>3. stack' = stack /\ UNCHANGED jobVars
  BY DEF ChangeCondition
<1> QED
  BY <1>1, <1>2, <1>3, StacksStay, CountSame DEF AnyTypes, SameCallbacks

LEMMA WakeUpCount ==
  ASSUME CountInv, NEW r \in Runners, NEW o \in Runners,
         NEW i \in 1 .. MaxDepth, WakeUp(r, o, i), UNCHANGED timerVars
  PROVE  CountInv' /\ SameCallbacks
<1> DEFINE f == [stack[o][i] EXCEPT !.token = "given"]
<1>1. AnyTypes /\ ~failed
  BY DEF CountInv, WakeUp, InCode
<1>2. /\ i \in 1 .. Len(stack[o]) /\ stack[o][i].kind = "token"
      /\ UNCHANGED jobVars /\ now' = now /\ deadline' = deadline
  BY DEF WakeUp, Awaits, Time!Wake
<1>3. stack[o][i] \in AnyFrames
  BY <1>1, <1>2 DEF AnyTypes
<1>4. f \in AnyFrames /\ f.kind = "token"
  BY <1>2, <1>3 DEF AnyFrames, AnyWaits, Callbacks
<1>5. Replaced(o, i, f)
  BY DEF WakeUp, Replaced
<1> HIDE DEF f
<1>6. /\ stack' \in [Runners -> Seq(AnyFrames)]
      /\ SameCallbacks
  BY <1>1, <1>2, <1>4, <1>5, WaitChanged DEF SameCallbacks
<1> QED
  BY <1>1, <1>2, <1>6, CountSame DEF AnyTypes

LEMMA TokenCount ==
  ASSUME CountInv, ~failed, NEW r \in Runners, NEW i, NEW v,
         TokenBecomes(r, i, v), UNCHANGED <<timeVars, jobVars>>,
         UNCHANGED timerVars
  PROVE  CountInv' /\ SameCallbacks
<1> DEFINE f == [stack[r][i] EXCEPT !.token = v]
<1>1. /\ i \in 1 .. Len(stack[r]) /\ stack[r][i].kind = "token"
      /\ v \in {"cut", "lost"} /\ AnyTypes
      /\ UNCHANGED jobVars /\ now' = now /\ deadline' = deadline
  BY DEF TokenBecomes, timeVars, CountInv
<1>2. stack[r][i] \in AnyFrames
  BY <1>1 DEF AnyTypes
<1>3. f \in AnyFrames /\ f.kind = "token"
  BY <1>1, <1>2 DEF AnyFrames, AnyWaits, Callbacks
<1>4. Replaced(r, i, f)
  BY DEF TokenBecomes, Replaced
<1> HIDE DEF f
<1>5. /\ stack' \in [Runners -> Seq(AnyFrames)]
      /\ SameCallbacks
  BY <1>1, <1>3, <1>4, WaitChanged DEF SameCallbacks
<1> QED
  BY <1>1, <1>5, CountSame DEF AnyTypes

LEMMA ReleaseToSelfCount ==
  ASSUME CountInv, NEW r \in Runners, NEW i \in 1 .. MaxDepth,
         ReleaseToSelf(r, i), UNCHANGED timerVars
  PROVE  CountInv' /\ SameCallbacks
<1>1. TokenBecomes(r, i, "lost")
  BY ReleaseToSelfToken
<1>2. ~failed /\ UNCHANGED <<timeVars, jobVars>>
  BY DEF ReleaseToSelf, InCode
<1> QED
  BY <1>1, <1>2, TokenCount

LEMMA ReleaseToWokenCount ==
  ASSUME CountInv, NEW r \in Runners, NEW o \in Runners,
         NEW i \in 1 .. MaxDepth, ReleaseToWoken(r, o, i), UNCHANGED timerVars
  PROVE  CountInv' /\ SameCallbacks
<1>1. PICK v \in {"cut", "lost"} : TokenBecomes(o, i, v)
  BY ReleaseToWokenToken
<1>2. ~failed /\ UNCHANGED <<timeVars, jobVars>>
  BY DEF ReleaseToWoken, InCode
<1> QED
  BY <1>1, <1>2, TokenCount

LEMMA EndCount ==
  ASSUME CountInv, End, UNCHANGED timerVars
  PROVE  CountInv' /\ SameCallbacks
<1>1. AnyTypes /\ ~failed
  BY DEF CountInv, End
<1>2. now' \in Int /\ deadline' = deadline
  BY <1>1, TimeAssumption DEF End, Time!End, AnyTypes
<1>3. stack' = stack /\ UNCHANGED jobVars
  BY DEF End, waitVars
<1> QED
  BY <1>1, <1>2, <1>3, StacksStay, CountSame DEF AnyTypes, SameCallbacks

LEMMA CountInit == Init => CountInv
<1> SUFFICES ASSUME Init PROVE CountInv
  OBVIOUS
<1> USE DEF Init, RunnerInit
<1>1. <<>> \in Seq(AnyFrames)
  OBVIOUS
<1>2. handle \in [Timers -> BOOLEAN] /\ \A t \in Timers : handle[t]
  BY Zenon
<1>3. AnyTypes
  BY <1>1, <1>2, TimeAssumption DEF AnyTypes, Timers
<1>4. ASSUME NEW t \in Timers PROVE Counted(t)
  <2>1. \A x \in Runners : CallbacksOf(x, t) = {}
    BY DEF CallbacksOf
  <2>2. \A p : p \notin Rings(t)
    BY <2>1, RingsMember
  <2>3. Rings(t) = {}
    BY <2>2
  <2>4. IsFiniteSet(Rings(t)) /\ Ringing(t) = 0
    BY <2>3, FS_EmptySet, RingsMember
  <2>5. references[t] = 1 /\ t \notin queue
    OBVIOUS
  <2> QED
    BY <1>2, <2>4, <2>5 DEF Counted
<1> QED
  BY <1>3, <1>4 DEF CountInv

LEMMA CountStart ==
  ASSUME CountInv, NEW r \in Runners, NEW t \in Timers,
         \/ \E duration \in Durations : Start(r, t, duration)
         \/ Continue(r, t)
  PROVE  CountInv'
<1>1. AnyTypes
  BY DEF CountInv
<1>2. ASSUME NEW duration \in Durations, Start(r, t, duration) PROVE CountInv'
  <2>1. duration \in Int
    BY TimeAssumption
  <2>2. /\ ~failed /\ Arm(r, t, duration) /\ Count(t, 1)
        /\ UNCHANGED waitVars /\ UNCHANGED handle
        /\ startValue' \in [Timers -> Int]
    BY <1>1, <1>2, <2>1 DEF Start, CanStart, CanUse, InCode, AnyTypes
  <2> QED
    BY <2>1, <2>2, StartCount
<1>3. ASSUME Continue(r, t) PROVE CountInv'
  <2> DEFINE d == remaining[t]
  <2>1. d \in Int
    BY <1>1 DEF AnyTypes
  <2>2. /\ ~failed /\ Arm(r, t, d) /\ Count(t, 1)
        /\ UNCHANGED waitVars /\ UNCHANGED handle
        /\ startValue' \in [Timers -> Int]
    BY <1>1, <1>3 DEF Continue, CanStart, CanUse, InCode, AnyTypes
  <2> HIDE DEF d
  <2> QED
    BY <2>1, <2>2, StartCount
<1> QED
  BY <1>2, <1>3

LEMMA CountNext == CountInv /\ [Next]_vars => CountInv'
<1> SUFFICES ASSUME CountInv, [Next]_vars PROVE CountInv'
  OBVIOUS
<1>1. ASSUME NEW r \in Runners, NEW t \in Timers, OnTimer(r, t) PROVE CountInv'
  BY <1>1, CountStart, StopCount, ResetCount, StopDueCount, ExpireCount,
     EndOfExpiryCount, EndOfStopCount, EndOfResetCount, DropCount DEF OnTimer
<1>2. ASSUME NEW r \in Runners, Waiting(r), UNCHANGED timerVars PROVE CountInv'
  BY <1>2, WaitCount, FallAsleepCount, ResumeCount, ReturnCount,
     ReleaseToSelfCount DEF Waiting
<1>3. ASSUME NEW r \in Runners, NEW o \in Runners, OnOther(r, o),
             UNCHANGED timerVars
      PROVE  CountInv'
  BY <1>3, ChangeConditionCount, WakeUpCount, ReleaseToWokenCount DEF OnOther
<1>4. ASSUME End, UNCHANGED timerVars PROVE CountInv'
  BY <1>4, EndCount
<1>5. CASE UNCHANGED vars
  <2>1. /\ now' = now /\ deadline' = deadline /\ stack' = stack
        /\ (failed' <=> failed) /\ UNCHANGED jobVars /\ UNCHANGED timerVars
    BY <1>5 DEF vars, timeVars, waitVars
  <2>2. AnyTypes'
    BY <2>1 DEF CountInv, AnyTypes, jobVars, timerVars
  <2>3. CASE failed
    BY <2>1, <2>2, <2>3 DEF CountInv
  <2>4. CASE ~failed
    BY <2>1, <2>4, StacksStay, CountSame DEF CountInv, AnyTypes, SameCallbacks
  <2> QED
    BY <2>3, <2>4
<1> QED
  BY <1>1, <1>2, <1>3, <1>4, <1>5 DEF Next

\* A timer's count is its handle, its place in the queue and twice its running
\* callbacks, in every test, until an assertion fails: so it is deleted with
\* the last of them, and not while one is left.
THEOREM EveryReferenceCounted == Spec => []ReferencesCounted
<1>1. CountInv => ReferencesCounted
  BY DEF CountInv, Counted, ReferencesCounted
<1> QED
  BY <1>1, CountInit, CountNext, PTL DEF Spec

\* The flags that no other invariant is about.
Flags ==
  outcome \in [Runners -> BOOLEAN] /\ over \in BOOLEAN /\ failed \in BOOLEAN

LEMMA WakeKeepsFlags ==
  ASSUME NEW r, NEW o, WakeIfWaiting(r, o)
  PROVE  outcome' = outcome /\ over' = over
BY DEF WakeIfWaiting, Time!Wake, timeVars

LEMMA FlagsNext == Flags /\ [Next]_vars => Flags'
<1> SUFFICES ASSUME Flags, [Next]_vars PROVE Flags'
  OBVIOUS
<1> DEFINE Same == outcome' = outcome /\ over' = over
<1>1. ASSUME Same, failed' \in BOOLEAN PROVE Flags'
  BY <1>1 DEF Flags
<1>2. failed \in BOOLEAN
  BY DEF Flags
<1>3. ASSUME NEW r \in Runners, NEW t \in Timers, OnTimer(r, t) PROVE Flags'
  <2>1. CASE \/ \E duration \in Durations : Start(r, t, duration)
             \/ Continue(r, t) \/ EndOfReset(r, t)
    <3>1. Same
      BY <2>1, WakeKeepsFlags DEF Start, Continue, EndOfReset, Arm, AddJob
    <3>2. failed' \in BOOLEAN
      <4>1. PICK d : Arm(r, t, d)
        BY <2>1 DEF Start, Continue, EndOfReset
      <4> QED
        <5>1. failed' = (t \in queue)
          BY <4>1 DEF Arm
        <5> QED
          BY <5>1
    <3> QED
      BY <1>1, <3>1, <3>2
  <2>2. CASE Stop(r, t) \/ Reset(r, t)
    <3>1. Same
      BY <2>2, WakeKeepsFlags DEF Stop, Reset, AddJob
    <3>2. failed' \in BOOLEAN
      BY <2>2, Zenon DEF Stop, Reset
    <3> QED
      BY <1>1, <3>1, <3>2
  <2>3. CASE Expire(r, t) \/ \E cause \in {"stop", "reset"} : StopDue(r, t, cause)
    <3>1. Same
      BY <2>3 DEF Expire, StopDue, Execute, timeVars
    <3>2. failed' \in BOOLEAN
      BY <2>3, Zenon DEF Expire, StopDue, Execute
    <3> QED
      BY <1>1, <3>1, <3>2
  <2>4. CASE EndOfExpiry(r, t) \/ EndOfStop(r, t) \/ Drop(r, t)
    <3>1. Same
      BY <2>4, WakeKeepsFlags DEF EndOfExpiry, EndOfStop, Drop, timeVars
    <3>2. failed' \in BOOLEAN
      BY <1>2, <2>4 DEF EndOfExpiry, EndOfStop, Drop
    <3> QED
      BY <1>1, <3>1, <3>2
  <2> QED
    BY <1>3, <2>1, <2>2, <2>3, <2>4 DEF OnTimer
<1>4. ASSUME NEW r \in Runners, Waiting(r) PROVE Flags'
  <2>1. ASSUME NEW kind \in Kinds, NEW duration, NEW value,
               Wait(r, kind, duration, value)
        PROVE  Flags'
    <3>1. Same
      BY <2>1 DEF Wait, timeVars
    <3>2. failed' \in BOOLEAN
      BY <2>1, Zenon DEF Wait
    <3> QED
      BY <1>1, <3>1, <3>2
  <2>2. ASSUME FallAsleep(r) PROVE Flags'
    <3>1. Same
      BY <2>2 DEF FallAsleep, Fail, timeVars, Time!Sleep
    <3>2. failed' \in BOOLEAN
      BY <1>2, <2>2 DEF FallAsleep, Fail
    <3> QED
      BY <1>1, <3>1, <3>2
  <2>3. ASSUME Resume(r) PROVE Flags'
    <3>1. outcome' \in [Runners -> BOOLEAN] /\ over' = over
      BY <2>3 DEF Resume, Time!Run, Time!TimeOut, Flags
    <3>2. failed' \in BOOLEAN
      BY <2>3, Zenon DEF Resume
    <3> QED
      BY <3>1, <3>2 DEF Flags
  <2>4. ASSUME Return(r) PROVE Flags'
    <3>1. Same
      BY <2>4 DEF Return, timeVars
    <3>2. failed' \in BOOLEAN
      BY <2>4, Zenon DEF Return
    <3> QED
      BY <1>1, <3>1, <3>2
  <2>5. ASSUME NEW i \in 1 .. MaxDepth, ReleaseToSelf(r, i) PROVE Flags'
    BY <1>1, <1>2, <2>5 DEF ReleaseToSelf, timeVars
  <2> QED
    BY <1>4, <2>1, <2>2, <2>3, <2>4, <2>5 DEF Waiting
<1>5. ASSUME NEW r \in Runners, NEW o \in Runners, OnOther(r, o) PROVE Flags'
  <2>1. Same
    BY <1>5, WakeKeepsFlags
    DEF OnOther, ChangeCondition, WakeUp, ReleaseToWoken, Time!Wake, timeVars
  <2>2. ASSUME NEW i \in 1 .. MaxDepth, ReleaseToWoken(r, o, i)
        PROVE  failed' \in BOOLEAN
    <3>1. \A e : failed' \in {FALSE, e} /\ e \in BOOLEAN => failed' \in BOOLEAN
      OBVIOUS
    <3>2. (\E x \in Runners \ {o} : state[x] \in {"ready", "woken"}) \in BOOLEAN
      OBVIOUS
    <3> QED
      BY <2>2, <3>1, <3>2 DEF ReleaseToWoken
  <2>3. failed' \in BOOLEAN
    BY <1>2, <1>5, <2>2 DEF OnOther, ChangeCondition, WakeUp
  <2> QED
    BY <1>1, <2>1, <2>3
<1>6. ASSUME End PROVE Flags'
  BY <1>6 DEF End, Time!End, Flags
<1>7. CASE UNCHANGED vars
  BY <1>7 DEF vars, timeVars, Flags
<1> QED
  BY <1>3, <1>4, <1>5, <1>6, <1>7 DEF Next

\* Every variable keeps its type: times stay within the epoche, what is left of
\* a timer's or wait's time is not negative, and references are natural.
THEOREM TypesHold ==
  ASSUME ~CallbacksWait, ~StartWhenStopped
  PROVE  Spec => []TypeOK
<1>1. Init => Flags
  <2> SUFFICES ASSUME Init PROVE Flags
    OBVIOUS
  <2>1. outcome \in [Runners -> BOOLEAN]
    BY DEF Init, RunnerInit
  <2>2. over \in BOOLEAN /\ failed \in BOOLEAN
    BY Zenon DEF Init, RunnerInit
  <2> QED
    BY <2>1, <2>2 DEF Flags
<1>2. ASSUME Inv, CountInv, Flags PROVE TypeOK
  <2>1. RunnerTypeOK
    BY <1>2 DEF Inv, Types, Flags, Frames, RunnerTypeOK, Time!States
  <2>2. ASSUME NEW t \in Timers PROVE references[t] \in Nat
    <3>1. Counted(t)
      BY <1>2 DEF Inv, CountInv
    <3>2. Ringing(t) \in Nat
      BY <3>1, FS_CardinalityType, RingsMember DEF Counted
    <3> QED
      BY <3>1, <3>2 DEF Counted
  <2>3. references \in [Timers -> Nat]
    BY <1>2, <2>2 DEF CountInv, AnyTypes
  <2>4. /\ armed \in [Timers -> BOOLEAN] /\ handle \in [Timers -> BOOLEAN]
        /\ remaining \in [Timers -> Times] /\ startValue \in [Timers -> Times]
    BY <1>2 DEF Inv, Types, CountInv, AnyTypes
  <2> QED
    BY <2>1, <2>3, <2>4 DEF TypeOK
<1> DEFINE All == CountInv /\ Flags /\ TypeOK /\ (failed \/ Inv)
<1>3. Init => All
  BY <1>1, <1>2, CountInit, InitInv
<1>4. All /\ [Next]_vars => All'
  <2> SUFFICES ASSUME All, [Next]_vars PROVE All'
    OBVIOUS
  <2>1. CountInv' /\ Flags'
    BY CountNext, FlagsNext
  <2>2. CASE failed
    <3>1. UNCHANGED vars
      BY <2>2, Stopped
    <3>2. TypeOK'
      BY <3>1
      DEF vars, timeVars, waitVars, jobVars, timerVars, TypeOK, RunnerTypeOK
    <3>3. failed'
      BY <2>2, <3>1 DEF vars
    <3> QED
      BY <2>1, <3>2, <3>3
  <2>3. CASE Inv'
    <3>1. TypeOK'
      BY <1>2, <2>1, <2>3, PTL
    <3> QED
      BY <2>1, <2>3, <3>1
  <2>4. CASE Stuck
    <3>1. RunnerTypeOK'
      BY <2>1, <2>4 DEF Stuck, Types, Flags, Frames, RunnerTypeOK, Time!States
    <3>2. TypeOK'
      BY <2>4, <3>1 DEF Stuck, timerVars, TypeOK
    <3> QED
      BY <2>1, <2>4, <3>2 DEF Stuck
  <2> QED
    BY <2>2, <2>3, <2>4, NextInv
<1>5. All => TypeOK
  OBVIOUS
<1> HIDE DEF All
<1> QED
  BY <1>3, <1>4, <1>5, PTL DEF Spec

-----------------------------------------------------------------------------
(* The runners and their timers are an alarm clock.                        *)

\* When t rings next: the alarm that AlarmClock knows.
AlarmOf(t) == IF t \in queue THEN due[t] ELSE EndOfTime

\* Nothing happens to the alarms of the others.
OthersSame(t) ==
  \A u \in Timers \ {t} : AlarmOf(u)' = AlarmOf(u) /\ Ringing(u)' = Ringing(u)

LEMMA StepIsSet ==
  ASSUME NEW t \in Timers, NEW time \in Times, now' = now, now <= time,
         AlarmOf(t) = EndOfTime \/ AlarmOf(t) > now,
         AlarmOf(t)' = time, Ringing(t)' = Ringing(t), OthersSame(t)
  PROVE  Alarms!Next
<1>1. Alarms!Set(t, time)
  BY DEF Alarms!Set, AlarmOf, OthersSame
<1> QED
  BY <1>1 DEF Alarms!Next, Times

LEMMA StepIsRing ==
  ASSUME NEW t \in Timers, now' = now, AlarmOf(t) = now,
         AlarmOf(t)' = EndOfTime, Ringing(t)' = Ringing(t) + 1, OthersSame(t)
  PROVE  Alarms!Next
<1>1. Alarms!Ring(t)
  BY DEF Alarms!Ring, AlarmOf, OthersSame
<1> QED
  BY <1>1 DEF Alarms!Next

LEMMA StepIsAnswer ==
  ASSUME NEW t \in Timers, now' = now, Ringing(t) > 0,
         AlarmOf(t)' = AlarmOf(t), Ringing(t)' = Ringing(t) - 1, OthersSame(t)
  PROVE  Alarms!Next
<1>1. Alarms!Answer(t)
  BY DEF Alarms!Answer, AlarmOf, OthersSame
<1> QED
  BY <1>1 DEF Alarms!Next

LEMMA StepIsSnooze ==
  ASSUME NEW t \in Timers, NEW time \in Times, now' = now, now <= time,
         Ringing(t) > 0, AlarmOf(t) = EndOfTime,
         AlarmOf(t)' = time, Ringing(t)' = Ringing(t) - 1, OthersSame(t)
  PROVE  Alarms!Next
<1>1. Alarms!Snooze(t, time)
  BY DEF Alarms!Snooze, AlarmOf, OthersSame
<1> QED
  BY <1>1 DEF Alarms!Next, Times

LEMMA StepIsAdvance ==
  ASSUME now' \in Times, now' > now,
         \A t \in Timers : /\ now' <= AlarmOf(t) /\ AlarmOf(t)' = AlarmOf(t)
                           /\ Ringing(t)' = Ringing(t)
  PROVE  Alarms!Next
<1>1. Alarms!Advance(now')
  BY DEF Alarms!Advance, AlarmOf
<1> QED
  BY <1>1 DEF Alarms!Next, Times

LEMMA StepIsStutter ==
  ASSUME now' = now,
         \A t \in Timers : /\ AlarmOf(t)' = AlarmOf(t)
                           /\ Ringing(t)' = Ringing(t)
  PROVE  UNCHANGED Alarms!vars
BY DEF Alarms!vars, AlarmOf

LEMMA RingingSame == stack' = stack => \A t \in Timers : Ringing(t)' = Ringing(t)
BY StacksStay, SameRings

\* A step that arms t.
LEMMA ArmedAlarm ==
  ASSUME Types, NEW r \in Runners, NEW t \in Timers, NEW d \in Times,
         InEpoche(d), AddJob(r, t, now + d)
  PROVE  /\ now' = now /\ now + d \in Times /\ now <= now + d
         /\ AlarmOf(t)' = now + d
         /\ \A u \in Timers \ {t} : AlarmOf(u)' = AlarmOf(u)
<1>1. now' = now
  BY WakeKeepsTime DEF AddJob
<1>2. now \in Nat /\ d \in Nat /\ EndOfTime \in Nat /\ now + d < EndOfTime
  BY TimeAssumption DEF Types, Times, InEpoche
<1>3. now + d \in Times /\ now <= now + d
  BY <1>2 DEF Times
<1>4. /\ queue' = queue \cup {t} /\ due'[t] = now + d
      /\ \A u \in Timers \ {t} : due'[u] = due[u]
  BY DEF AddJob, Types, Timers
<1> QED
  BY <1>1, <1>3, <1>4 DEF AlarmOf

\* start(), and reset(): an alarm is set.
LEMMA StartIsSet ==
  ASSUME Inv, NEW r \in Runners, NEW t \in Timers, NEW d \in Times,
         InEpoche(d), AddJob(r, t, now + d), stack' = stack,
         armed[t] => due[t] > now
  PROVE  Alarms!Next
<1>1. Types /\ TimerInv(t)
  BY DEF Inv
<1>2. /\ now' = now /\ now + d \in Times /\ now <= now + d
      /\ AlarmOf(t)' = now + d
      /\ \A u \in Timers \ {t} : AlarmOf(u)' = AlarmOf(u)
  BY <1>1, ArmedAlarm
<1>3. AlarmOf(t) = EndOfTime \/ AlarmOf(t) > now
  BY <1>1 DEF TimerInv, AlarmOf
<1>4. OthersSame(t) /\ Ringing(t)' = Ringing(t)
  BY <1>2, RingingSame DEF OthersSame
<1> DEFINE time == now + d
<1>5. time \in Times /\ now <= time /\ AlarmOf(t)' = time
  BY <1>2
<1> HIDE DEF time
<1> QED
  BY <1>2, <1>3, <1>4, <1>5, StepIsSet

LEMMA StopIsSet ==
  ASSUME Inv, NEW r \in Runners, NEW t \in Timers, Stop(r, t)
  PROVE  Alarms!Next
<1>1. Types /\ TimerInv(t)
  BY DEF Inv
<1>2. /\ now' = now /\ stack' = stack /\ due' = due /\ queue' = queue \ {t}
      /\ due[t] > now /\ armed[t]
  BY WakeKeepsTime DEF Stop, waitVars
<1>3. AlarmOf(t) > now /\ AlarmOf(t)' = EndOfTime
  BY <1>1, <1>2 DEF TimerInv, AlarmOf
<1>4. OthersSame(t) /\ Ringing(t)' = Ringing(t)
  BY <1>2, RingingSame DEF OthersSame, AlarmOf
<1>5. EndOfTime \in Times /\ now <= EndOfTime
  BY <1>1, TimeAssumption DEF Types, Times
<1> QED
  BY <1>2, <1>3, <1>4, <1>5, StepIsSet

\* A callback begins: its alarm rings, at its time.
LEMMA ExecuteIsRing ==
  ASSUME Inv, CountInv, NEW r \in Runners, NEW t \in Timers,
         NEW cause \in {"wait", "stop", "reset"},
         t \in queue, due[t] <= now, Execute(r, t, cause)
  PROVE  Alarms!Next
<1>1. Types /\ TimerInv(t) /\ AnyTypes /\ Counted(t)
  BY DEF Inv, CountInv
<1>2. /\ \A u \in Timers \ {t} : \A x \in Runners :
           CallbacksOf(x, u)' = CallbacksOf(x, u)
      /\ Ringing(t)' = Ringing(t) + 1
  BY <1>1, CallbackBegins DEF Execute, Counted
<1>3. now' = now /\ due' = due /\ queue' = queue \ {t}
  BY DEF Execute, timeVars
<1>4. AlarmOf(t) = now
  BY <1>1, TimeAssumption DEF TimerInv, AlarmOf, Types, Times, Timers
<1>5. AlarmOf(t)' = EndOfTime
  BY <1>3 DEF AlarmOf
<1>6. OthersSame(t)
  BY <1>2, <1>3, SameRings DEF OthersSame, AlarmOf
<1> QED
  BY <1>2, <1>3, <1>4, <1>5, <1>6, StepIsRing

\* A callback returns: its ring is answered.
LEMMA EndIsAnswer ==
  ASSUME CountInv, NEW r \in Runners, NEW t \in Timers,
         NEW cause \in {"wait", "stop", "reset"}, EndsCallback(r, t, cause)
  PROVE  /\ Ringing(t) > 0 /\ Ringing(t)' = Ringing(t) - 1
         /\ \A u \in Timers \ {t} : Ringing(u)' = Ringing(u)
<1>1. AnyTypes /\ Counted(t)
  BY DEF CountInv, EndsCallback, InCode
<1>2. /\ \A u \in Timers \ {t} : \A x \in Runners :
           CallbacksOf(x, u)' = CallbacksOf(x, u)
      /\ IsFiniteSet(Rings(t)') /\ Ringing(t)' = Ringing(t) - 1
  BY <1>1, CallbackEnds DEF Counted
<1>3. Ringing(t) \in Nat /\ Ringing(t)' \in Nat
  <2>1. IsFiniteSet(Rings(t))
    BY <1>1 DEF Counted
  <2>2. Cardinality(Rings(t)) \in Nat
    BY <2>1, FS_CardinalityType
  <2>3. Cardinality(Rings(t)') \in Nat
    BY <1>2, FS_CardinalityType
  <2> QED
    BY <2>2, <2>3, RingsMember
<1> QED
  BY <1>2, <1>3, SameRings

LEMMA EndOfStopIsAnswer ==
  ASSUME Inv, CountInv, NEW r \in Runners, NEW t \in Timers,
         EndOfExpiry(r, t) \/ EndOfStop(r, t)
  PROVE  Alarms!Next
<1>1. PICK cause \in {"wait", "stop"} : EndsCallback(r, t, cause)
  BY DEF EndOfExpiry, EndOfStop
<1>2. /\ Ringing(t) > 0 /\ Ringing(t)' = Ringing(t) - 1
      /\ \A u \in Timers \ {t} : Ringing(u)' = Ringing(u)
  BY <1>1, EndIsAnswer
<1>3. now' = now /\ queue' = queue /\ due' = due
  BY WakeKeepsTime DEF EndOfExpiry, EndOfStop, timeVars, jobVars
<1>4. \A u \in Timers : AlarmOf(u)' = AlarmOf(u)
  BY <1>3 DEF AlarmOf
<1> QED
  BY <1>2, <1>3, <1>4, StepIsAnswer DEF OthersSame

LEMMA EndOfResetIsSnooze ==
  ASSUME Inv, CountInv, NEW r \in Runners, NEW t \in Timers, EndOfReset(r, t)
  PROVE  Alarms!Next
<1> DEFINE d == startValue[t]
           time == now + d
<1>1. /\ EndsCallback(r, t, "reset") /\ AddJob(r, t, now + d) /\ InEpoche(d)
      /\ queue' = queue \cup {t}
  BY DEF EndOfReset, Arm, AddJob
<1>2. Types /\ d \in Times
  BY DEF Inv, Types
<1>3. t \notin queue
  BY <1>1, StoppingEnds
<1>4. /\ now' = now /\ time \in Times /\ now <= time
      /\ AlarmOf(t)' = time
      /\ \A u \in Timers \ {t} : AlarmOf(u)' = AlarmOf(u)
  <2> HIDE DEF d
  <2> QED
    BY <1>1, <1>2, ArmedAlarm
<1>5. /\ Ringing(t) > 0 /\ Ringing(t)' = Ringing(t) - 1
      /\ \A u \in Timers \ {t} : Ringing(u)' = Ringing(u)
  BY <1>1, EndIsAnswer
<1>6. AlarmOf(t) = EndOfTime
  BY <1>3 DEF AlarmOf
<1> HIDE DEF time
<1> QED
  BY <1>4, <1>5, <1>6, StepIsSnooze DEF OthersSame

LEMMA QuietStep ==
  ASSUME SameCallbacks, UNCHANGED jobVars, now' = now
  PROVE  UNCHANGED Alarms!vars
<1>1. \A u \in Timers : Ringing(u)' = Ringing(u) /\ AlarmOf(u)' = AlarmOf(u)
  BY SameRings DEF SameCallbacks, jobVars, AlarmOf
<1> QED
  BY <1>1, StepIsStutter

\* Time passes, to the first alarm at most.
LEMMA TimeIsAdvance ==
  ASSUME Types, SameCallbacks, UNCHANGED jobVars, now' \in Times, now <= now',
         \A u \in queue : now' <= due[u]
  PROVE  Alarms!Next \/ UNCHANGED Alarms!vars
<1>1. now \in Nat /\ now' \in Nat /\ now' <= EndOfTime
  BY TimeAssumption DEF Types, Times
<1>2. CASE now' = now
  BY <1>2, QuietStep
<1>3. CASE now' > now
  <2>1. \A u \in Timers : /\ Ringing(u)' = Ringing(u)
                          /\ AlarmOf(u)' = AlarmOf(u) /\ now' <= AlarmOf(u)
    BY <1>1, SameRings DEF SameCallbacks, jobVars, AlarmOf
  <2> QED
    BY <1>3, <2>1, StepIsAdvance
<1> QED
  BY <1>1, <1>2, <1>3

\* All sleep while a timer is set: its owner sleeps until then at most.
LEMMA OwnerSleeps ==
  ASSUME Inv, Time!Idle, NEW t \in queue
  PROVE  /\ Owner[t] \in Runners /\ state[Owner[t]] = "sleeping"
         /\ deadline[Owner[t]] <= due[t] /\ due[t] < EndOfTime
         /\ deadline[Owner[t]] \in Nat /\ due[t] \in Nat
<1>1. Types /\ t \in Timers /\ Owner[t] \in Runners /\ t \in JobsOf(Owner[t])
  BY JobsAssumption DEF Inv, Types, Timers, JobsOf
<1>2. state[Owner[t]] = "sleeping"
  BY <1>1, IdleFacts
<1>3. deadline[Owner[t]] <= due[t] /\ due[t] < EndOfTime
  BY <1>1, <1>2 DEF Inv, RunnerInv, SleepInv, TimerInv
<1> QED
  BY <1>1, <1>2, <1>3, TimeAssumption DEF Types, Times, Timers

LEMMA ResumeIsAdvance ==
  ASSUME Inv, CountInv, NEW r \in Runners, Resume(r), UNCHANGED timerVars
  PROVE  Alarms!Next \/ UNCHANGED Alarms!vars
<1>1. SameCallbacks /\ UNCHANGED jobVars /\ Types
  BY ResumeCount DEF Resume, Inv
<1>2. CASE Time!Run(r)
  BY <1>1, <1>2, QuietStep DEF Time!Run
<1>3. CASE Time!TimeOut(r)
  <2>1. Time!Idle /\ now' = deadline[r] /\ state[r] = "sleeping"
    BY <1>3 DEF Time!TimeOut, Time!In
  <2>2. now <= now' /\ now' \in Times
    BY <1>1, <2>1 DEF Inv, RunnerInv, SleepInv, Types
  <2>3. ASSUME NEW u \in queue PROVE now' <= due[u]
    <3>1. /\ Owner[u] \in Runners /\ state[Owner[u]] = "sleeping"
          /\ deadline[Owner[u]] <= due[u]
          /\ deadline[Owner[u]] \in Nat /\ due[u] \in Nat
      BY <2>1, <2>3, OwnerSleeps
    <3>2. deadline[r] <= deadline[Owner[u]]
      BY <1>3, <3>1 DEF Time!TimeOut, Time!In
    <3> QED
      BY <2>1, <2>2, <3>1, <3>2, TimeAssumption DEF Times
  <2> QED
    BY <1>1, <2>2, <2>3, TimeIsAdvance
<1> QED
  BY <1>2, <1>3 DEF Resume

LEMMA EndIsAdvance ==
  ASSUME Inv, CountInv, End, UNCHANGED timerVars
  PROVE  Alarms!Next \/ UNCHANGED Alarms!vars
<1>1. SameCallbacks /\ UNCHANGED jobVars /\ Types
  BY EndCount DEF End, Inv
<1>2. Time!Idle /\ \A x \in Runners : state[x] = "sleeping" => deadline[x] = EndOfTime
  BY DEF End, Time!End, Time!In
<1>3. \A u \in queue : FALSE
  <2> SUFFICES ASSUME NEW u \in queue PROVE FALSE
    OBVIOUS
  <2>1. /\ Owner[u] \in Runners /\ state[Owner[u]] = "sleeping"
        /\ deadline[Owner[u]] <= due[u] /\ due[u] < EndOfTime
        /\ deadline[Owner[u]] \in Nat /\ due[u] \in Nat
    BY <1>2, OwnerSleeps
  <2> QED
    BY <1>2, <2>1, TimeAssumption
<1>4. /\ now' = now \/ now' = EndOfTime
      /\ now \in Times
  BY <1>1 DEF End, Time!End, Types
<1>5. now' \in Times /\ now <= now'
  BY <1>4, TimeAssumption DEF Times
<1> QED
  BY <1>1, <1>3, <1>5, TimeIsAdvance

LEMMA AlarmInit == Init => Alarms!Init
<1> SUFFICES ASSUME Init PROVE Alarms!Init
  OBVIOUS
<1>1. now = 0 /\ queue = {}
  BY DEF Init, RunnerInit
<1>2. ASSUME NEW t \in Timers PROVE Ringing(t) = 0
  <2>1. \A x \in Runners : CallbacksOf(x, t) = {}
    BY DEF CallbacksOf, Init, RunnerInit
  <2>2. \A p : p \notin Rings(t)
    BY <2>1, RingsMember
  <2>3. Rings(t) = {}
    BY <2>2
  <2> QED
    BY <2>3, FS_EmptySet, RingsMember
<1> QED
  BY <1>1, <1>2 DEF Alarms!Init

LEMMA AlarmNext ==
  ASSUME Inv, CountInv, [Next]_vars
  PROVE  Alarms!Next \/ UNCHANGED Alarms!vars
<1>1. Types
  BY DEF Inv
<1>2. ASSUME NEW r \in Runners, NEW t \in Timers, OnTimer(r, t)
      PROVE  Alarms!Next \/ UNCHANGED Alarms!vars
  <2>1. ASSUME NEW d \in Durations, Start(r, t, d) PROVE Alarms!Next
    <3>1. /\ d \in Times /\ InEpoche(d) /\ AddJob(r, t, now + d)
          /\ stack' = stack /\ ~armed[t]
      BY <2>1, TimeAssumption DEF Start, Arm, Times, waitVars
    <3> QED
      BY <3>1, StartIsSet
  <2>2. ASSUME Continue(r, t) PROVE Alarms!Next
    <3> DEFINE d == remaining[t]
    <3>1. /\ d \in Times /\ InEpoche(d) /\ AddJob(r, t, now + d)
          /\ stack' = stack /\ ~armed[t]
      BY <1>1, <2>2 DEF Continue, Arm, Types, waitVars
    <3> HIDE DEF d
    <3> QED
      BY <3>1, StartIsSet
  <2>3. ASSUME Reset(r, t) PROVE Alarms!Next
    <3> DEFINE d == startValue[t]
    <3>1. /\ d \in Times /\ InEpoche(d) /\ AddJob(r, t, now + d)
          /\ stack' = stack /\ (armed[t] => due[t] > now)
      BY <1>1, <2>3 DEF Reset, Types, waitVars
    <3> HIDE DEF d
    <3> QED
      BY <3>1, StartIsSet
  <2>4. ASSUME NEW cause \in {"stop", "reset"}, StopDue(r, t, cause)
        PROVE  Alarms!Next
    BY <2>4, ExecuteIsRing DEF StopDue
  <2>5. ASSUME Expire(r, t) PROVE Alarms!Next
    <3>1. t \in queue /\ due[t] = now /\ Execute(r, t, "wait")
      BY <2>5 DEF Expire, Draining, IsNext, JobsOf
    <3>2. due[t] <= now
      BY <1>1, <3>1, TimeAssumption DEF Types, Times
    <3> QED
      BY <3>1, <3>2, ExecuteIsRing
  <2>6. ASSUME Drop(r, t) PROVE UNCHANGED Alarms!vars
    <3>1. SameCallbacks /\ UNCHANGED jobVars /\ now' = now
      BY <2>6, StacksStay DEF Drop, SameCallbacks, waitVars, timeVars
    <3> QED
      BY <3>1, QuietStep
  <2> QED
    BY <1>2, <2>1, <2>2, <2>3, <2>4, <2>5, <2>6, StopIsSet, EndOfStopIsAnswer,
       EndOfResetIsSnooze DEF OnTimer
<1>3. ASSUME NEW r \in Runners, Waiting(r), UNCHANGED timerVars
      PROVE  Alarms!Next \/ UNCHANGED Alarms!vars
  <2>1. ASSUME NEW kind \in Kinds, NEW duration \in Durations \cup {EndOfTime},
               NEW value \in BOOLEAN, Wait(r, kind, duration, value)
        PROVE  UNCHANGED Alarms!vars
    <3>1. SameCallbacks /\ UNCHANGED jobVars /\ now' = now
      BY <1>3, <2>1, WaitCount DEF Wait, timeVars
    <3> QED
      BY <3>1, QuietStep
  <2>2. ASSUME FallAsleep(r) PROVE UNCHANGED Alarms!vars
    <3>1. SameCallbacks /\ UNCHANGED jobVars /\ now' = now
      BY <1>3, <2>2, FallAsleepCount
      DEF FallAsleep, Fail, Time!Sleep, timeVars
    <3> QED
      BY <3>1, QuietStep
  <2>3. ASSUME Return(r) PROVE UNCHANGED Alarms!vars
    <3>1. SameCallbacks /\ UNCHANGED jobVars /\ now' = now
      BY <1>3, <2>3, ReturnCount DEF Return, timeVars
    <3> QED
      BY <3>1, QuietStep
  <2>4. ASSUME NEW i \in 1 .. MaxDepth, ReleaseToSelf(r, i)
        PROVE  UNCHANGED Alarms!vars
    <3>1. SameCallbacks /\ UNCHANGED jobVars /\ now' = now
      BY <1>3, <2>4, ReleaseToSelfCount DEF ReleaseToSelf, timeVars
    <3> QED
      BY <3>1, QuietStep
  <2> QED
    BY <1>3, <2>1, <2>2, <2>3, <2>4, ResumeIsAdvance DEF Waiting
<1>4. ASSUME NEW r \in Runners, NEW o \in Runners, OnOther(r, o),
             UNCHANGED timerVars
      PROVE  UNCHANGED Alarms!vars
  <2>1. SameCallbacks
    BY <1>4, ChangeConditionCount, WakeUpCount, ReleaseToWokenCount DEF OnOther
  <2>2. UNCHANGED jobVars /\ now' = now
    BY <1>4, WakeKeepsTime
    DEF OnOther, ChangeCondition, WakeUp, ReleaseToWoken, Time!Wake, timeVars
  <2> QED
    BY <2>1, <2>2, QuietStep
<1>5. CASE UNCHANGED vars
  <2>1. SameCallbacks /\ UNCHANGED jobVars /\ now' = now
    BY <1>5, StacksStay DEF vars, SameCallbacks, waitVars, timeVars
  <2> QED
    BY <2>1, QuietStep
<1> QED
  BY <1>2, <1>3, <1>4, <1>5, EndIsAdvance DEF Next

\* A timer rings once for each time it is started or reset, at its due time,
\* unless it is stopped before; no wait, wake-up or jump of the clock passes it.
THEOREM RunnersAreAnAlarmClock ==
  ASSUME ~CallbacksWait, ~StartWhenStopped
  PROVE  Spec => ImplementsAlarmClock
<1>1. ASSUME failed, [Next]_vars PROVE UNCHANGED Alarms!vars
  <2>1. SameCallbacks /\ UNCHANGED jobVars /\ now' = now
    BY <1>1, Stopped, StacksStay DEF vars, SameCallbacks, waitVars, timeVars
  <2> QED
    BY <2>1, QuietStep
<1>2. (failed \/ Inv) /\ CountInv /\ [Next]_vars => [Alarms!Next]_Alarms!vars
  BY <1>1, AlarmNext
<1> QED
  BY <1>2, AlarmInit, CountInit, CountNext, Invariance, PTL
  DEF Spec, ImplementsAlarmClock, Alarms!Spec

=============================================================================
