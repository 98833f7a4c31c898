------------------------------ MODULE Stopwatch ------------------------------
(***************************************************************************)
(* core::Stopwatch and the conditions on it, such as stopwatch < 3_ms.     *)
(* While a wait or an invariant has its condition enabled, the operator is *)
(* a job of the stopwatch's runner, due when its value changes, so that    *)
(* the listener of the condition evaluates it again.                       *)
(*                                                                         *)
(* The runner is what timers promise (AlarmClock): a job in the queue is   *)
(* executed at its time.  A listener evaluates the operator when it is     *)
(* told, as an invariant does; a runner that waits does so later in the    *)
(* same instant.  Left out: the reference counts, which are those of       *)
(* Timer, and conditions with more than one operator on stopwatches.       *)
(***************************************************************************)
EXTENDS Integers, FiniteSets

CONSTANTS
  Operators, \* the comparisons of the stopwatch with a duration
  Kinds,     \* which comparisons there are
  Limits,    \* the durations it is compared with
  EndOfTime  \* bound: the last instant

ASSUME KindsAssumption == Kinds \subseteq {"==", "!=", ">", ">=", "<", "<="}
ASSUME LimitsAssumption == Limits \subseteq Nat
ASSUME EndOfTimeAssumption == EndOfTime \in Nat

VARIABLES
  now,
  running,         \* mRunning
  timePassed,      \* mTimePassed
  startOrStopedAt, \* mStartOrStopedAt
  kind, mDuration, \* per operator: what it compares
  enabled,         \* mOperators: the operators of enabled conditions
  due,             \* per operator: Job::mDue
  queue,           \* the operators in the runner's queue: the armed jobs
  shown,           \* per operator: the lap its listener saw last
  failed,          \* an assertion has thrown
  from,            \* history: the lap at which the operator was enabled or
                   \* reset, and
  lag,             \* for how long the stopwatch had been stopped then
  ran              \* history: the ticks since reset() while it was running

watchVars == <<running, timePassed, startOrStopedAt>>
jobVars == <<due, queue>>
exprVars == <<kind, mDuration>>
historyVars == <<from, lag, ran>>
vars == <<now, watchVars, exprVars, enabled, jobVars, shown, failed, historyVars>>

TypeOK ==
  /\ now \in Nat
  /\ running \in BOOLEAN
  /\ timePassed \in Nat
  /\ startOrStopedAt \in Nat
  /\ kind \in [Operators -> Kinds]
  /\ mDuration \in [Operators -> Limits]
  /\ enabled \subseteq Operators
  /\ due \in [Operators -> Int]
  /\ queue \subseteq Operators
  /\ shown \in [Operators -> Nat]
  /\ failed \in BOOLEAN
  /\ from \in [Operators -> Nat]
  /\ lag \in [Operators -> Nat]
  /\ ran \in Nat

\* The constructor starts the stopwatch.
Init ==
  /\ now = 0
  /\ running = TRUE
  /\ timePassed = 0
  /\ startOrStopedAt = 0
  /\ kind \in [Operators -> Kinds]
  /\ mDuration \in [Operators -> Limits]
  /\ enabled = {}
  /\ due = [o \in Operators |-> 0]
  /\ queue = {}
  /\ shown = [o \in Operators |-> 0]
  /\ failed = FALSE
  /\ from = [o \in Operators |-> 0]
  /\ lag = [o \in Operators |-> 0]
  /\ ran = 0

-----------------------------------------------------------------------------
SinceThen == now - startOrStopedAt

\* Mutant: a stopwatch that is stopped goes on.
MutantLap == timePassed + SinceThen

Lap == timePassed + (IF running THEN SinceThen ELSE 0)

\* Mutant: only the end of the equality is waited for.
MutantEquals(d, lap) == [value |-> lap = d, due |-> d + 1]

\* Mutant: an equality that holds already has no end.
MutantNotEquals(d, lap) == [value |-> lap # d, due |-> d]

\* The classes of operators, when lap() returns the given time: what getValue()
\* returns, and the measured time at which reset() lets the job be due.
Equals(d, lap) ==
  [value |-> lap = d, due |-> IF lap = d THEN d + 1 ELSE d]
NotEquals(d, lap) ==
  [value |-> lap # d, due |-> IF lap = d THEN d + 1 ELSE d]
GreaterOrEquals(d, lap) ==
  [value |-> lap >= d, due |-> IF lap = d THEN d + 1 ELSE d]
Less(d, lap) == [value |-> lap < d, due |-> d]
LessOrEquals(d, lap) == [value |-> lap <= d, due |-> d + 1]

Greater(d, lap) == [value |-> lap > d, due |-> d + 1]

Operator(o, lap) ==
  CASE kind[o] = "==" -> Equals(mDuration[o], lap)
    [] kind[o] = "!=" -> NotEquals(mDuration[o], lap)
    [] kind[o] = ">"  -> Greater(mDuration[o], lap)
    [] kind[o] = ">=" -> GreaterOrEquals(mDuration[o], lap)
    [] kind[o] = "<"  -> Less(mDuration[o], lap)
    [] kind[o] = "<=" -> LessOrEquals(mDuration[o], lap)

Value(o) == Operator(o, Lap).value

\* update(): when that is, if the stopwatch runs from now on.
DueAt(o, lap) == now + (Operator(o, lap).due - lap)

\* The listeners of some operators evaluate them.
Tell(S, lap) ==
  shown' = [o \in Operators |-> IF o \in S THEN lap ELSE shown[o]]

\* The jobs of some operators are set up at this lap.
SetUp(S, lap) ==
  /\ from' = [o \in Operators |-> IF o \in S THEN lap ELSE from[o]]
  /\ lag' = [o \in Operators |-> IF o \notin S THEN lag[o]
                                 ELSE IF running THEN 0 ELSE SinceThen]

-----------------------------------------------------------------------------
(* Conditions.                                                             *)

\* conditionEnable(), and the first evaluation.
Enable(o) ==
  /\ o \notin enabled
  /\ enabled' = enabled \cup {o}
  /\ due' = [due EXCEPT ![o] = DueAt(o, Lap)]
  /\ queue' = queue \cup {x \in {o} : running /\ DueAt(o, Lap) > now}
  /\ failed' = (o \in queue)
  /\ Tell({o}, Lap)
  /\ SetUp({o}, Lap)
  /\ UNCHANGED <<now, watchVars, exprVars, ran>>

\* RunnerRaw::remove() executes a job that is due, which makes no difference any
\* more; what the listener has seen is forgotten.
Disable(o) ==
  /\ o \in enabled
  /\ enabled' = enabled \ {o}
  /\ queue' = queue \ {o}
  /\ shown' = [shown EXCEPT ![o] = 0]
  /\ from' = [from EXCEPT ![o] = 0]
  /\ lag' = [lag EXCEPT ![o] = 0]
  /\ UNCHANGED <<now, watchVars, exprVars, due, failed, ran>>

\* The runner executes the job: Operator::notify().
Execute(o) ==
  /\ o \in queue
  /\ due[o] <= now
  /\ queue' = queue \ {o}
  /\ Tell({o}, Lap)
  /\ UNCHANGED <<now, watchVars, exprVars, enabled, due, failed, historyVars>>

-----------------------------------------------------------------------------
(* The stopwatch.  Test code starts it when it does not run, and stops it  *)
(* when it does.                                                           *)

\* The operators wait for as much longer as the stopwatch was stopped.
Start ==
  /\ ~running
  /\ running' = TRUE
  /\ startOrStopedAt' = now
  /\ due' = [o \in Operators |->
               IF o \in enabled THEN due[o] + SinceThen ELSE due[o]]
  /\ queue' = queue \cup {o \in enabled : due'[o] > now}
  /\ failed' = (enabled \cap queue # {})
  /\ UNCHANGED <<now, timePassed, exprVars, enabled, shown, historyVars>>

\* Mutant: the jobs stay in the queue.
MutantStop ==
  /\ running
  /\ running' = FALSE
  /\ timePassed' = timePassed + SinceThen
  /\ startOrStopedAt' = now
  /\ UNCHANGED <<now, exprVars, enabled, jobVars, shown, failed, historyVars>>

\* The jobs that are due are executed when they are removed.  Their listeners
\* see mTimePassed already updated while mRunning still is set.
Stop ==
  /\ running
  /\ running' = FALSE
  /\ timePassed' = timePassed + SinceThen
  /\ startOrStopedAt' = now
  /\ queue' = queue \ enabled
  /\ Tell({o \in enabled \cap queue : due[o] <= now}, Lap + SinceThen)
  /\ UNCHANGED <<now, exprVars, enabled, due, failed, historyVars>>

\* reset() stops, tells every listener, sets up the jobs, and starts again if
\* the stopwatch was running.
Reset ==
  /\ timePassed' = 0
  /\ startOrStopedAt' = IF running THEN now ELSE startOrStopedAt
  /\ Tell(enabled, 0)
  /\ due' = [o \in Operators |->
               IF o \in enabled THEN DueAt(o, 0) ELSE due[o]]
  /\ queue' = IF running
              THEN (queue \ enabled) \cup {o \in enabled : due'[o] > now}
              ELSE queue
  /\ failed' = (~running /\ enabled \cap queue # {})
  /\ SetUp(enabled, 0)
  /\ ran' = 0
  /\ UNCHANGED <<now, running, exprVars, enabled>>

\* Time passes when no job is due.
Tick ==
  /\ now < EndOfTime
  /\ \A o \in queue : due[o] > now
  /\ now' = now + 1
  /\ ran' = IF running THEN ran + 1 ELSE ran
  /\ UNCHANGED <<watchVars, exprVars, enabled, jobVars, shown, failed, from, lag>>

Next ==
  /\ ~failed
  /\ \/ \E o \in Operators : Enable(o) \/ Disable(o) \/ Execute(o)
     \/ Start
     \/ Stop
     \/ Reset
     \/ Tick

Spec == Init /\ [][Next]_vars

=============================================================================
