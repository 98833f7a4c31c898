--------------------------- MODULE StopwatchProofs ---------------------------
(***************************************************************************)
(* Proofs about Stopwatch, for any operators, durations and length of the  *)
(* test.                                                                   *)
(***************************************************************************)
EXTENDS StopwatchProperties, TLAPS

\* The instant that the stopwatch has counted up to.
Clock == IF running THEN now ELSE startOrStopedAt

\* The measured time at which the job of o is due, and that for which it was set
\* up.
DueLap(o) == due[o] - lag[o] - Clock + Lap
SetUpFor(o) == Operator(o, from[o]).due

\* There are jobs while the stopwatch runs, for enabled operators.
QueueInv ==
  /\ startOrStopedAt <= now
  /\ queue \subseteq enabled
  /\ running \/ queue = {}

\* The listener has seen the operator since it was set up.
SeenSince(o) == from[o] <= Lap /\ from[o] <= shown[o]

\* The listener does not see more than the job that is to come lets it see.
NotEarly(o) == Lap < SetUpFor(o) => shown[o] < SetUpFor(o)

\* The job of an operator whose listener has not seen it at its time is to come.
JobToCome(o) ==
  from[o] < SetUpFor(o) /\ shown[o] < SetUpFor(o) =>
    /\ running => o \in queue
    /\ ~running => due[o] > startOrStopedAt

JobInv(o) ==
  /\ DueLap(o) = SetUpFor(o)
  /\ SeenSince(o)
  /\ NotEarly(o)
  /\ JobToCome(o)

Inv ==
  /\ TypeOK
  /\ JobsAreSetUpOnce
  /\ MeasuresTime
  /\ QueueInv
  /\ \A o \in enabled : JobInv(o)

-----------------------------------------------------------------------------
\* What the classes of operators yield.
LEMMA OperatorFacts ==
  ASSUME TypeOK, NEW o \in Operators, NEW lap \in Nat
  PROVE  /\ Operator(o, lap).value \in BOOLEAN
         /\ Operator(o, lap).due \in Nat
         /\ kind[o] = "==" =>
              /\ Operator(o, lap).value <=> lap = mDuration[o]
              /\ Operator(o, lap).due = IF lap = mDuration[o]
                   THEN mDuration[o] + 1 ELSE mDuration[o]
         /\ kind[o] = "!=" =>
              /\ Operator(o, lap).value <=> lap # mDuration[o]
              /\ Operator(o, lap).due = IF lap = mDuration[o]
                   THEN mDuration[o] + 1 ELSE mDuration[o]
         /\ kind[o] = ">" =>
              /\ Operator(o, lap).value <=> lap > mDuration[o]
              /\ Operator(o, lap).due = mDuration[o] + 1
         /\ kind[o] = ">=" =>
              /\ Operator(o, lap).value <=> lap >= mDuration[o]
              /\ Operator(o, lap).due = IF lap = mDuration[o]
                   THEN mDuration[o] + 1 ELSE mDuration[o]
         /\ kind[o] = "<" =>
              /\ Operator(o, lap).value <=> lap < mDuration[o]
              /\ Operator(o, lap).due = mDuration[o]
         /\ kind[o] = "<=" =>
              /\ Operator(o, lap).value <=> lap <= mDuration[o]
              /\ Operator(o, lap).due = mDuration[o] + 1
<1>1. mDuration[o] \in Nat
  BY LimitsAssumption DEF TypeOK
<1>2. kind[o] \in {"==", "!=", ">", ">=", "<", "<="}
  BY KindsAssumption DEF TypeOK
<1>3. CASE kind[o] = "=="
  <2>1. Operator(o, lap) = Equals(mDuration[o], lap)
    BY <1>3 DEF Operator
  <2>2. Operator(o, lap).value = (lap = mDuration[o])
    BY <2>1 DEF Equals
  <2>3. Operator(o, lap).value \in BOOLEAN
    BY <2>2
  <2>4. Operator(o, lap).value <=> lap = mDuration[o]
    BY <2>2
  <2>5. Operator(o, lap).due = IF lap = mDuration[o]
                                        THEN mDuration[o] + 1 ELSE mDuration[o]
    BY <2>1 DEF Equals
  <2> QED
    BY <1>1, <1>3, <2>3, <2>4, <2>5
<1>4. CASE kind[o] = "!="
  <2>1. Operator(o, lap) = NotEquals(mDuration[o], lap)
    BY <1>4 DEF Operator
  <2>2. Operator(o, lap).value = (lap # mDuration[o])
    BY <2>1 DEF NotEquals
  <2>3. Operator(o, lap).value \in BOOLEAN
    BY <2>2
  <2>4. Operator(o, lap).value <=> lap # mDuration[o]
    BY <2>2
  <2>5. Operator(o, lap).due = IF lap = mDuration[o]
                                        THEN mDuration[o] + 1 ELSE mDuration[o]
    BY <2>1 DEF NotEquals
  <2> QED
    BY <1>1, <1>4, <2>3, <2>4, <2>5
<1>5. CASE kind[o] = ">"
  <2>1. Operator(o, lap) = Greater(mDuration[o], lap)
    BY <1>5 DEF Operator
  <2>2. Operator(o, lap).value = (lap > mDuration[o])
    BY <2>1 DEF Greater
  <2>3. Operator(o, lap).value \in BOOLEAN
    BY <2>2
  <2>4. Operator(o, lap).value <=> lap > mDuration[o]
    BY <2>2
  <2>5. Operator(o, lap).due = mDuration[o] + 1
    BY <2>1 DEF Greater
  <2> QED
    BY <1>1, <1>5, <2>3, <2>4, <2>5
<1>6. CASE kind[o] = ">="
  <2>1. Operator(o, lap) = GreaterOrEquals(mDuration[o], lap)
    BY <1>6 DEF Operator
  <2>2. Operator(o, lap).value = (lap >= mDuration[o])
    BY <2>1 DEF GreaterOrEquals
  <2>3. Operator(o, lap).value \in BOOLEAN
    BY <2>2
  <2>4. Operator(o, lap).value <=> lap >= mDuration[o]
    BY <2>2
  <2>5. Operator(o, lap).due = IF lap = mDuration[o]
                                        THEN mDuration[o] + 1 ELSE mDuration[o]
    BY <2>1 DEF GreaterOrEquals
  <2> QED
    BY <1>1, <1>6, <2>3, <2>4, <2>5
<1>7. CASE kind[o] = "<"
  <2>1. Operator(o, lap) = Less(mDuration[o], lap)
    BY <1>7 DEF Operator
  <2>2. Operator(o, lap).value = (lap < mDuration[o])
    BY <2>1 DEF Less
  <2>3. Operator(o, lap).value \in BOOLEAN
    BY <2>2
  <2>4. Operator(o, lap).value <=> lap < mDuration[o]
    BY <2>2
  <2>5. Operator(o, lap).due = mDuration[o]
    BY <2>1 DEF Less
  <2> QED
    BY <1>1, <1>7, <2>3, <2>4, <2>5
<1>8. CASE kind[o] = "<="
  <2>1. Operator(o, lap) = LessOrEquals(mDuration[o], lap)
    BY <1>8 DEF Operator
  <2>2. Operator(o, lap).value = (lap <= mDuration[o])
    BY <2>1 DEF LessOrEquals
  <2>3. Operator(o, lap).value \in BOOLEAN
    BY <2>2
  <2>4. Operator(o, lap).value <=> lap <= mDuration[o]
    BY <2>2
  <2>5. Operator(o, lap).due = mDuration[o] + 1
    BY <2>1 DEF LessOrEquals
  <2> QED
    BY <1>1, <1>8, <2>3, <2>4, <2>5
<1> QED
  BY <1>2, <1>3, <1>4, <1>5, <1>6, <1>7, <1>8

\* From the lap from on, the value stays what it is until the job is due; from
\* then on too, except at an equality that was still to come.
LEMMA ValueFacts ==
  ASSUME TypeOK, NEW o \in Operators, NEW x \in Nat, NEW y \in Nat,
         from[o] <= x, from[o] <= y,
         Operator(o, x).value # Operator(o, y).value
  PROVE  /\ from[o] < SetUpFor(o)
         /\ x >= SetUpFor(o) \/ y >= SetUpFor(o)
         /\ x >= SetUpFor(o) /\ y >= SetUpFor(o) =>
              /\ kind[o] \in {"==", "!="}
              /\ from[o] < mDuration[o]
              /\ \/ x = mDuration[o] /\ y > mDuration[o]
                 \/ y = mDuration[o] /\ x > mDuration[o]
<1>1. /\ mDuration[o] \in Nat /\ from[o] \in Nat
      /\ kind[o] \in {"==", "!=", ">", ">=", "<", "<="}
  BY LimitsAssumption, KindsAssumption DEF TypeOK
<1>2. ~(Operator(o, x).value <=> Operator(o, y).value)
  BY OperatorFacts
<1>3. CASE kind[o] = "=="
  BY <1>1, <1>2, <1>3, OperatorFacts DEF SetUpFor
<1>4. CASE kind[o] = "!="
  BY <1>1, <1>2, <1>4, OperatorFacts DEF SetUpFor
<1>5. CASE kind[o] = ">"
  BY <1>1, <1>2, <1>5, OperatorFacts DEF SetUpFor
<1>6. CASE kind[o] = ">="
  BY <1>1, <1>2, <1>6, OperatorFacts DEF SetUpFor
<1>7. CASE kind[o] = "<"
  BY <1>1, <1>2, <1>7, OperatorFacts DEF SetUpFor
<1>8. CASE kind[o] = "<="
  BY <1>1, <1>2, <1>8, OperatorFacts DEF SetUpFor
<1> QED
  BY <1>1, <1>3, <1>4, <1>5, <1>6, <1>7, <1>8

LEMMA Ranges ==
  ASSUME TypeOK, QueueInv
  PROVE  /\ now \in Nat /\ startOrStopedAt \in Nat /\ startOrStopedAt <= now
         /\ SinceThen \in Nat /\ SinceThen = now - startOrStopedAt
         /\ Lap \in Nat
         /\ Clock \in Nat
         /\ running => Clock = now /\ Lap = timePassed + SinceThen
         /\ ~running => Clock = startOrStopedAt /\ Lap = timePassed
BY DEF TypeOK, QueueInv, SinceThen, Lap, Clock

LEMMA InitInv ==
  ASSUME Init
  PROVE  Inv
<1>1. lag \in [Operators -> Nat] /\ due \in [Operators -> Int]
  BY DEF Init
<1>2. shown \in [Operators -> Nat] /\ from \in [Operators -> Nat]
  BY DEF Init
<1>3. running \in BOOLEAN /\ failed \in BOOLEAN
  BY DEF Init
<1>4. TypeOK
  BY <1>1, <1>2, <1>3 DEF Init, TypeOK
<1>5. MeasuresTime
  BY DEF Init, MeasuresTime, Lap, SinceThen
<1> QED
  BY <1>4, <1>5 DEF Init, Inv, JobsAreSetUpOnce, QueueInv

-----------------------------------------------------------------------------
(* The steps.                                                              *)

\* The job of an operator follows from its due date, its set-up, what its
\* listener has seen and whether it is in the queue.
LEMMA SameJob ==
  ASSUME NEW o, JobInv(o), UNCHANGED exprVars,
         Lap' = Lap, Clock' = Clock, running' = running,
         startOrStopedAt' = startOrStopedAt,
         due'[o] = due[o], lag'[o] = lag[o], from'[o] = from[o],
         shown'[o] = shown[o],
         o \in queue => o \in queue'
  PROVE  JobInv(o)'
<1>1. SetUpFor(o)' = SetUpFor(o)
  BY DEF SetUpFor, Operator, exprVars
<1> QED
  BY <1>1 DEF JobInv, SeenSince, NotEarly, JobToCome, DueLap

LEMMA EnableStep ==
  ASSUME Inv, NEW o \in Operators, Enable(o)
  PROVE  Inv'
<1> USE DEF Inv
<1>1. Operator(o, Lap).due \in Nat /\ DueAt(o, Lap) \in Int
  BY OperatorFacts, Ranges DEF DueAt, TypeOK
<1>2. TypeOK'
  BY <1>1, Ranges DEF TypeOK, Enable, Tell, SetUp, watchVars, exprVars
<1>3. JobsAreSetUpOnce' /\ QueueInv'
  BY DEF Enable, JobsAreSetUpOnce, QueueInv, watchVars
<1>4. Lap' = Lap /\ Clock' = Clock /\ running' = running
  BY DEF Enable, Lap, SinceThen, Clock, watchVars
<1>5. ASSUME NEW x \in enabled', x # o
      PROVE  JobInv(x)'
  BY <1>4, <1>5, SameJob DEF Enable, TypeOK, Tell, SetUp, watchVars
<1>6. JobInv(o)'
  <2> DEFINE job == Operator(o, Lap).due
  <2>1. /\ due'[o] = now + (job - Lap)
        /\ shown'[o] = Lap /\ from'[o] = Lap
        /\ lag'[o] = IF running THEN 0 ELSE SinceThen
        /\ running /\ due'[o] > now => o \in queue'
        /\ startOrStopedAt' = startOrStopedAt
    BY DEF Enable, TypeOK, Tell, SetUp, DueAt, watchVars
  <2>2. SetUpFor(o)' = job
    BY <2>1 DEF Enable, SetUpFor, Operator, exprVars
  <2>3. DueLap(o)' = job
    BY <1>1, <1>4, <2>1, Ranges DEF DueLap
  <2>4. SeenSince(o)' /\ NotEarly(o)'
    BY <1>1, <1>4, <2>1, <2>2, Ranges DEF SeenSince, NotEarly
  <2>5. JobToCome(o)'
    BY <1>1, <1>4, <2>1, <2>2, Ranges DEF JobToCome
  <2> QED
    BY <2>2, <2>3, <2>4, <2>5 DEF JobInv
<1>7. MeasuresTime'
  BY <1>4 DEF Enable, MeasuresTime
<1> QED
  BY <1>2, <1>3, <1>5, <1>6, <1>7

LEMMA DisableStep ==
  ASSUME Inv, NEW o \in Operators, Disable(o)
  PROVE  Inv'
<1> USE DEF Inv
<1>1. TypeOK'
  BY DEF TypeOK, Disable, watchVars, exprVars
<1>2. JobsAreSetUpOnce' /\ QueueInv'
  BY DEF Disable, JobsAreSetUpOnce, QueueInv, watchVars
<1>3. Lap' = Lap /\ Clock' = Clock /\ running' = running
  BY DEF Disable, Lap, SinceThen, Clock, watchVars
<1>4. ASSUME NEW x \in enabled'
      PROVE  JobInv(x)'
  BY <1>3, <1>4, SameJob DEF Disable, TypeOK, watchVars
<1>5. MeasuresTime'
  BY <1>3 DEF Disable, MeasuresTime
<1> QED
  BY <1>1, <1>2, <1>4, <1>5

\* A job that is due is so no earlier than the stopwatch says.
LEMMA DueMeansReached ==
  ASSUME Inv, NEW o \in enabled, due[o] <= Clock
  PROVE  Lap >= SetUpFor(o)
<1>1. o \in Operators /\ due[o] \in Int /\ lag[o] \in Nat
  BY DEF Inv, TypeOK
<1>2. DueLap(o) = SetUpFor(o)
  BY DEF Inv, JobInv
<1> QED
  BY <1>1, <1>2, Ranges DEF DueLap, Inv

LEMMA ExecuteStep ==
  ASSUME Inv, NEW o \in Operators, Execute(o)
  PROVE  Inv'
<1> USE DEF Inv
<1>1. o \in enabled /\ running /\ Lap >= SetUpFor(o) /\ Lap \in Nat
  BY DueMeansReached, Ranges DEF Execute, QueueInv, Clock
<1>2. TypeOK'
  BY <1>1 DEF TypeOK, Execute, Tell, watchVars, exprVars, historyVars
<1>3. JobsAreSetUpOnce' /\ QueueInv'
  BY DEF Execute, JobsAreSetUpOnce, QueueInv, watchVars
<1>4. Lap' = Lap /\ Clock' = Clock /\ running' = running
  BY DEF Execute, Lap, SinceThen, Clock, watchVars
<1>5. ASSUME NEW x \in enabled', x # o
      PROVE  JobInv(x)'
  BY <1>4, <1>5, SameJob DEF Execute, TypeOK, Tell, watchVars, historyVars
<1>6. JobInv(o)'
  <2>1. /\ due'[o] = due[o] /\ lag'[o] = lag[o] /\ from'[o] = from[o]
        /\ shown'[o] = Lap
    BY DEF Execute, Tell, historyVars
  <2>2. SetUpFor(o)' = SetUpFor(o) /\ SetUpFor(o) \in Nat
    BY <2>1, OperatorFacts DEF Execute, SetUpFor, Operator, exprVars, TypeOK
  <2>3. DueLap(o)' = DueLap(o)
    BY <1>4, <2>1 DEF DueLap
  <2>4. from[o] \in Nat /\ from[o] <= Lap /\ DueLap(o) = SetUpFor(o)
    BY <1>1 DEF JobInv, SeenSince, TypeOK
  <2> QED
    BY <1>1, <1>4, <2>1, <2>2, <2>3, <2>4
    DEF JobInv, SeenSince, NotEarly, JobToCome
<1>7. MeasuresTime'
  BY <1>4 DEF Execute, MeasuresTime, historyVars
<1> QED
  BY <1>2, <1>3, <1>5, <1>6, <1>7

LEMMA StartStep ==
  ASSUME Inv, Start
  PROVE  Inv'
<1> USE DEF Inv
<1>1. /\ ~running /\ running' /\ startOrStopedAt' = now /\ now' = now
      /\ Lap' = Lap /\ Clock = startOrStopedAt /\ Clock' = now
  BY Ranges DEF Start, Lap, SinceThen, Clock
<1>2. \A o \in Operators :
        due'[o] = IF o \in enabled THEN due[o] + SinceThen ELSE due[o]
  BY DEF Start
<1>3. TypeOK'
  BY <1>1, <1>2, Ranges DEF TypeOK, Start, exprVars, historyVars
<1>4. JobsAreSetUpOnce' /\ QueueInv'
  <2>1. enabled \cap queue = {}
    BY <1>1 DEF QueueInv
  <2>2. JobsAreSetUpOnce'
    BY <2>1 DEF Start, JobsAreSetUpOnce
  <2>3. startOrStopedAt' <= now' /\ (running' \/ queue' = {})
    BY <1>1, Ranges
  <2>4. queue' \subseteq enabled'
    BY DEF Start, QueueInv
  <2> QED
    BY <2>2, <2>3, <2>4 DEF QueueInv
<1>5. ASSUME NEW o \in enabled'
      PROVE  JobInv(o)'
  <2>1. o \in enabled /\ o \in Operators /\ due[o] \in Int /\ lag[o] \in Nat
    BY <1>5 DEF Start, TypeOK
  <2>2. /\ due'[o] = due[o] + SinceThen
        /\ lag' = lag /\ from' = from /\ shown' = shown
    BY <1>2, <2>1 DEF Start, historyVars
  <2>3. SetUpFor(o)' = SetUpFor(o)
    BY <2>2 DEF Start, SetUpFor, Operator, exprVars
  <2>4. DueLap(o)' = DueLap(o)
    BY <1>1, <2>1, <2>2, Ranges DEF DueLap
  <2>5. due[o] > startOrStopedAt => o \in queue'
    BY <1>1, <2>1, <2>2, Ranges DEF Start
  <2> QED
    BY <1>1, <2>1, <2>2, <2>3, <2>4, <2>5
    DEF JobInv, SeenSince, NotEarly, JobToCome
<1>6. MeasuresTime'
  BY <1>1 DEF Start, MeasuresTime, historyVars
<1> QED
  BY <1>3, <1>4, <1>5, <1>6

LEMMA StopStep ==
  ASSUME Inv, Stop
  PROVE  Inv'
<1> USE DEF Inv
<1>1. /\ running /\ ~running' /\ startOrStopedAt' = now /\ now' = now
      /\ Lap' = Lap /\ Clock = now /\ Clock' = now
  BY Ranges DEF Stop, Lap, SinceThen, Clock
<1>2. Lap \in Nat /\ Lap + SinceThen \in Nat /\ Lap + SinceThen >= Lap
  BY Ranges
<1> DEFINE told == {o \in enabled \cap queue : due[o] <= now}
<1>3. TypeOK'
  BY <1>1, <1>2, Ranges DEF TypeOK, Stop, Tell, exprVars, historyVars
<1>4. JobsAreSetUpOnce' /\ QueueInv'
  BY <1>1 DEF Stop, JobsAreSetUpOnce, QueueInv, TypeOK
<1>5. ASSUME NEW o \in enabled'
      PROVE  JobInv(o)'
  <2>1. /\ o \in enabled /\ o \in Operators
        /\ due[o] \in Int /\ lag[o] \in Nat /\ from[o] \in Nat
        /\ shown[o] \in Nat
        /\ due' = due /\ lag' = lag /\ from' = from
    BY <1>5 DEF Stop, TypeOK, historyVars
  <2>2. SetUpFor(o)' = SetUpFor(o) /\ SetUpFor(o) \in Nat
    BY <2>1, OperatorFacts DEF Stop, SetUpFor, Operator, exprVars, TypeOK
  <2>3. DueLap(o)' = DueLap(o)
    BY <1>1, <2>1 DEF DueLap
  <2>4. CASE o \in told
    <3>1. shown'[o] = Lap + SinceThen /\ Lap >= SetUpFor(o)
      BY <1>1, <2>1, <2>4, DueMeansReached DEF Stop, Tell
    <3> QED
      BY <1>1, <1>2, <2>1, <2>2, <2>3, <3>1
      DEF JobInv, SeenSince, NotEarly, JobToCome
  <2>5. CASE o \notin told
    <3>1. shown'[o] = shown[o]
      BY <2>1, <2>5 DEF Stop, Tell
    <3>2. o \in queue => due[o] > now
      BY <2>1, <2>5, Ranges
    <3> QED
      BY <1>1, <2>1, <2>2, <2>3, <3>1, <3>2
      DEF JobInv, SeenSince, NotEarly, JobToCome
  <2> QED
    BY <2>4, <2>5
<1>6. MeasuresTime'
  BY <1>1 DEF Stop, MeasuresTime, historyVars
<1> QED
  BY <1>3, <1>4, <1>5, <1>6

LEMMA ResetStep ==
  ASSUME Inv, Reset
  PROVE  Inv'
<1> USE DEF Inv
<1>1. /\ now' = now /\ running' = running /\ Lap' = 0
      /\ startOrStopedAt' = IF running THEN now ELSE startOrStopedAt
      /\ Clock' = IF running THEN now ELSE startOrStopedAt
  BY Ranges DEF Reset, Lap, SinceThen, Clock
<1>2. \A o \in Operators : /\ Operator(o, 0).due \in Nat
                            /\ DueAt(o, 0) \in Int
  BY OperatorFacts, Ranges DEF DueAt
<1>3. TypeOK'
  BY <1>1, <1>2, Ranges DEF TypeOK, Reset, Tell, SetUp, exprVars
<1>4. JobsAreSetUpOnce' /\ QueueInv'
  BY <1>1 DEF Reset, JobsAreSetUpOnce, QueueInv, TypeOK
<1>5. ASSUME NEW o \in enabled'
      PROVE  JobInv(o)'
  <2> DEFINE job == Operator(o, 0).due
  <2>1. o \in enabled /\ o \in Operators /\ job \in Nat
    BY <1>2, <1>5 DEF Reset, TypeOK
  <2>2. /\ due'[o] = now + (job - 0)
        /\ shown'[o] = 0 /\ from'[o] = 0
        /\ lag'[o] = IF running THEN 0 ELSE SinceThen
        /\ running /\ due'[o] > now => o \in queue'
    BY <2>1 DEF Reset, Tell, SetUp, DueAt
  <2>3. SetUpFor(o)' = job
    BY <2>2 DEF Reset, SetUpFor, Operator, exprVars
  <2>4. DueLap(o)' = job
    BY <1>1, <2>1, <2>2, Ranges DEF DueLap
  <2>5. SeenSince(o)' /\ NotEarly(o)'
    BY <1>1, <2>1, <2>2, <2>3 DEF SeenSince, NotEarly
  <2>6. JobToCome(o)'
    BY <1>1, <2>1, <2>2, <2>3, Ranges DEF JobToCome
  <2> QED
    BY <2>3, <2>4, <2>5, <2>6 DEF JobInv
<1>6. MeasuresTime'
  BY <1>1 DEF Reset, MeasuresTime
<1> QED
  BY <1>3, <1>4, <1>5, <1>6

LEMMA TickStep ==
  ASSUME Inv, Tick
  PROVE  Inv'
<1> USE DEF Inv
<1>1. /\ now' = now + 1 /\ running' = running
      /\ startOrStopedAt' = startOrStopedAt
      /\ Lap' = IF running THEN Lap + 1 ELSE Lap
      /\ Clock' = IF running THEN Clock + 1 ELSE Clock
  <2>1. /\ now' = now + 1 /\ running' = running
        /\ startOrStopedAt' = startOrStopedAt /\ timePassed' = timePassed
    BY DEF Tick, watchVars
  <2>2. CASE running
    BY <2>1, <2>2, Ranges DEF Lap, SinceThen, Clock, TypeOK
  <2>3. CASE ~running
    BY <2>1, <2>3 DEF Lap, Clock
  <2> QED
    BY <2>1, <2>2, <2>3
<1>2. TypeOK'
  BY DEF TypeOK, Tick, watchVars, exprVars, jobVars
<1>3. JobsAreSetUpOnce' /\ QueueInv'
  BY <1>1, Ranges DEF Tick, JobsAreSetUpOnce, QueueInv, jobVars
<1>4. ASSUME NEW o \in enabled'
      PROVE  JobInv(o)'
  <2>1. /\ o \in enabled /\ o \in Operators
        /\ due[o] \in Int /\ lag[o] \in Nat /\ from[o] \in Nat
        /\ due' = due /\ lag' = lag /\ from' = from
        /\ queue' = queue /\ shown' = shown
    BY <1>4 DEF Tick, TypeOK, jobVars
  <2>2. SetUpFor(o)' = SetUpFor(o) /\ SetUpFor(o) \in Nat
    BY <2>1, OperatorFacts DEF Tick, SetUpFor, Operator, exprVars, TypeOK
  <2>3. DueLap(o)' = DueLap(o)
    <3>1. CASE running
      BY <1>1, <2>1, <3>1, Ranges DEF DueLap
    <3>2. CASE ~running
      BY <1>1, <2>1, <3>2 DEF DueLap
    <3> QED
      BY <3>1, <3>2
  <2>4. Lap \in Nat /\ Lap' \in Nat /\ Lap' >= Lap
    BY <1>1, Ranges
  <2> QED
    BY <1>1, <2>1, <2>2, <2>3, <2>4
    DEF JobInv, SeenSince, NotEarly, JobToCome
<1>5. MeasuresTime'
  BY <1>1 DEF Tick, MeasuresTime
<1> QED
  BY <1>2, <1>3, <1>4, <1>5

LEMMA NextInv ==
  ASSUME Inv, [Next]_vars
  PROVE  Inv'
<1>1. CASE UNCHANGED vars
  <2>1. /\ Lap' = Lap /\ Clock' = Clock
    BY <1>1 DEF vars, watchVars, Lap, SinceThen, Clock
  <2>2. ASSUME NEW o \in enabled'
        PROVE  JobInv(o)'
    BY <1>1, <2>1, <2>2, SameJob
    DEF Inv, vars, watchVars, jobVars, historyVars
  <2> QED
    BY <1>1, <2>1, <2>2
    DEF Inv, TypeOK, JobsAreSetUpOnce, MeasuresTime, QueueInv, vars, watchVars,
        jobVars, exprVars, historyVars
<1>2. CASE Next
  BY <1>2, EnableStep, DisableStep, ExecuteStep, StartStep, StopStep, ResetStep,
     TickStep DEF Next
<1> QED
  BY <1>1, <1>2

-----------------------------------------------------------------------------
(* The theorems.                                                           *)

LEMMA Invariance == Spec => []Inv
BY InitInv, NextInv, PTL DEF Spec

\* The variables have their types.
THEOREM TypeCorrect == Spec => []TypeOK
<1>1. Inv => TypeOK
  BY DEF Inv
<1> QED
  BY Invariance, <1>1, PTL

\* No job is set up while it is armed.
THEOREM NoAssertion == Spec => []JobsAreSetUpOnce
<1>1. Inv => JobsAreSetUpOnce
  BY DEF Inv
<1> QED
  BY Invariance, <1>1, PTL

\* lap() is the number of ticks since the last reset at which the stopwatch was
\* running.
THEOREM Measured == Spec => []MeasuresTime
<1>1. Inv => MeasuresTime
  BY DEF Inv
<1> QED
  BY Invariance, <1>1, PTL

\* Listeners are told of the changes of their operators, the beginnings of
\* equalities included, with the exceptions of ChangesAreNoticed.
THEOREM Noticed == Spec => []ChangesAreNoticed
<1>1. ASSUME Inv
      PROVE  ChangesAreNoticed
  <2> SUFFICES ASSUME NEW o \in enabled, Seen(o) # Value(o)
               PROVE  \/ /\ running /\ o \in queue
                         /\ due[o] <= now + lag[o]
                      \/ /\ ~running /\ startOrStopedAt < due[o]
                         /\ due[o] <= startOrStopedAt + lag[o]
                      \/ /\ kind[o] \in {"==", "!="}
                         /\ \/ from[o] < mDuration[o] /\ mDuration[o] < Lap
                            \/ mDuration[o] = Lap /\ Lap < shown[o]
    BY DEF ChangesAreNoticed
  <2>1. /\ o \in Operators /\ mDuration[o] \in Nat /\ from[o] \in Nat
        /\ shown[o] \in Nat /\ due[o] \in Int /\ lag[o] \in Nat
        /\ JobInv(o)
    BY <1>1, LimitsAssumption DEF Inv, TypeOK
  <2>2. Lap \in Nat /\ SetUpFor(o) \in Nat /\ TypeOK
    BY <1>1, <2>1, Ranges, OperatorFacts DEF Inv, SetUpFor
  <2>3. /\ from[o] < SetUpFor(o)
        /\ shown[o] >= SetUpFor(o) \/ Lap >= SetUpFor(o)
        /\ shown[o] >= SetUpFor(o) /\ Lap >= SetUpFor(o) =>
             /\ kind[o] \in {"==", "!="}
             /\ from[o] < mDuration[o]
             /\ \/ shown[o] = mDuration[o] /\ Lap > mDuration[o]
                \/ Lap = mDuration[o] /\ shown[o] > mDuration[o]
    BY <2>1, <2>2, ValueFacts DEF Seen, Value, JobInv, SeenSince
  <2>4. Lap >= SetUpFor(o)
    BY <2>1, <2>2, <2>3 DEF JobInv, NotEarly
  <2>5. CASE shown[o] < SetUpFor(o)
    <3>1. /\ due[o] - lag[o] - Clock + Lap = SetUpFor(o)
          /\ running => o \in queue
          /\ ~running => due[o] > startOrStopedAt
      BY <2>1, <2>3, <2>5 DEF JobInv, JobToCome, DueLap
    <3> QED
      BY <1>1, <2>1, <2>2, <2>4, <3>1, Ranges DEF Inv
  <2>6. CASE shown[o] >= SetUpFor(o)
    BY <2>1, <2>2, <2>3, <2>4, <2>6
  <2> QED
    BY <2>1, <2>2, <2>5, <2>6
<1> QED
  BY Invariance, <1>1, PTL

=============================================================================
