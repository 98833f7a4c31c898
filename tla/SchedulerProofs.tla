-------------------------- MODULE SchedulerProofs --------------------------
(***************************************************************************)
(* The properties of the scheduler, proved for any set of coroutines that  *)
(* the scheduler is built for, any set of durations and any word width.    *)
(***************************************************************************)
EXTENDS SchedulerProperties, FiniteSetTheorems, WellFoundedInduction, TLAPS

-----------------------------------------------------------------------------
(* The run queue as a sequence.                                            *)

\* Queue::push: the new coroutine joins those that were queued.
LEMMA PushFacts ==
  ASSUME NEW S, NEW q \in Seq(S), NEW c \in S
  PROVE  /\ Append(q, c) \in Seq(S)
         /\ \A d : InQueue(Append(q, c), d) <=> InQueue(q, d) \/ d = c
         /\ Distinct(q) /\ ~InQueue(q, c) => Distinct(Append(q, c))
<1> DEFINE r == Append(q, c)
<1>1. /\ r \in Seq(S)
      /\ Len(r) = Len(q) + 1
      /\ Len(q) \in Nat
      /\ \A i \in 1 .. Len(q) : r[i] = q[i]
      /\ r[Len(q) + 1] = c
  OBVIOUS
<1> HIDE DEF r
<1>2. \A d : InQueue(r, d) <=> InQueue(q, d) \/ d = c
  <2> TAKE d
  <2>1. ASSUME InQueue(r, d) PROVE InQueue(q, d) \/ d = c
    <3>1. PICK i \in 1 .. Len(r) : r[i] = d
      BY <2>1 DEF InQueue
    <3>2. CASE i = Len(q) + 1
      BY <1>1, <3>1, <3>2
    <3>3. CASE i \in 1 .. Len(q)
      BY <1>1, <3>1, <3>3 DEF InQueue
    <3> QED
      BY <1>1, <3>2, <3>3
  <2>2. ASSUME InQueue(q, d) PROVE InQueue(r, d)
    BY <1>1, <2>2 DEF InQueue
  <2>3. ASSUME d = c PROVE InQueue(r, d)
    <3>1. Len(q) + 1 \in 1 .. Len(r)
      BY <1>1
    <3> QED
      BY <1>1, <2>3, <3>1 DEF InQueue
  <2> QED
    BY <2>1, <2>2, <2>3
<1>3. ASSUME Distinct(q), ~InQueue(q, c) PROVE Distinct(r)
  <2> SUFFICES ASSUME NEW i \in 1 .. Len(r), NEW j \in 1 .. Len(r), r[i] = r[j]
               PROVE  i = j
    BY DEF Distinct
  <2>1. \A k \in 1 .. Len(q) : r[k] # c
    BY <1>1, <1>3 DEF InQueue
  <2>2. \A k \in 1 .. Len(r) : k \in 1 .. Len(q) \/ k = Len(q) + 1
    BY <1>1
  <2>3. CASE i \in 1 .. Len(q) /\ j \in 1 .. Len(q)
    BY <1>1, <1>3, <2>3 DEF Distinct
  <2> QED
    BY <1>1, <2>1, <2>2, <2>3
<1> QED
  BY <1>1, <1>2, <1>3 DEF r

\* Queue::pop: the first coroutine leaves, the others stay.
LEMMA PopFacts ==
  ASSUME NEW S, NEW q \in Seq(S), q # <<>>, Distinct(q)
  PROVE  /\ Head(q) \in S
         /\ InQueue(q, Head(q))
         /\ Tail(q) \in Seq(S)
         /\ Distinct(Tail(q))
         /\ \A d : InQueue(Tail(q), d) <=> InQueue(q, d) /\ d # Head(q)
<1> DEFINE r == Tail(q)
<1>1. /\ r \in Seq(S)
      /\ Len(q) \in Nat \ {0}
      /\ Len(r) = Len(q) - 1
      /\ \A i \in 1 .. Len(r) : r[i] = q[i + 1]
      /\ Head(q) = q[1]
      /\ Head(q) \in S
  OBVIOUS
<1> HIDE DEF r
<1>2. Distinct(r)
  BY <1>1 DEF Distinct
<1>3. InQueue(q, Head(q))
  BY <1>1 DEF InQueue
<1>4. \A d : InQueue(r, d) <=> InQueue(q, d) /\ d # Head(q)
  <2> TAKE d
  <2>1. ASSUME InQueue(r, d) PROVE InQueue(q, d) /\ d # Head(q)
    <3>1. PICK i \in 1 .. Len(r) : r[i] = d
      BY <2>1 DEF InQueue
    <3>2. i + 1 \in 1 .. Len(q) /\ q[i + 1] = d /\ 1 \in 1 .. Len(q)
      BY <1>1, <3>1
    <3>3. d # q[1]
      BY <3>2 DEF Distinct
    <3> QED
      BY <1>1, <3>2, <3>3 DEF InQueue
  <2>2. ASSUME InQueue(q, d), d # Head(q) PROVE InQueue(r, d)
    <3>1. PICK i \in 1 .. Len(q) : q[i] = d
      BY <2>2 DEF InQueue
    <3>2. i - 1 \in 1 .. Len(r) /\ r[i - 1] = d
      BY <1>1, <2>2, <3>1
    <3> QED
      BY <3>2 DEF InQueue
  <2> QED
    BY <2>1, <2>2
<1> QED
  BY <1>1, <1>2, <1>3, <1>4 DEF r

LEMMA EmptyQueueFacts ==
  ASSUME NEW S, NEW q \in Seq(S)
  PROVE  q = <<>> <=> \A d \in S : ~InQueue(q, d)
<1>1. CASE q = <<>>
  BY <1>1 DEF InQueue
<1>2. CASE q # <<>>
  <2>1. 1 \in 1 .. Len(q) /\ q[1] \in S
    BY <1>2
  <2> QED
    BY <1>2, <2>1 DEF InQueue
<1> QED
  BY <1>1, <1>2

-----------------------------------------------------------------------------
(* Types.                                                                  *)

LEMMA ConstantFacts ==
  /\ Infinity \in Nat /\ EndOfEpoche \in Nat /\ EndOfEpoche > 0
  /\ Durations \subseteq Nat
  /\ MaxNumberOfThreads \in Nat
  /\ IsFiniteSet(Coroutines) /\ Cardinality(Coroutines) \in Nat
  /\ Cardinality(Coroutines) <= MaxNumberOfThreads
  /\ Cardinality(Coroutines) < CounterModulus
  /\ CounterModulus \in Nat
BY InfinityAssumption, DurationsAssumption, CoroutinesAssumption,
   FS_CardinalityType DEF EndOfEpoche

LEMMA CounterTypes ==
  ASSUME NEW n \in 0 .. CounterModulus - 1
  PROVE  /\ Incremented(n) \in 0 .. CounterModulus - 1
         /\ Decremented(n) \in 0 .. CounterModulus - 1
         /\ n + 1 < CounterModulus => Incremented(n) = n + 1
         /\ n > 0 => Decremented(n) = n - 1
BY CoroutinesAssumption DEF Incremented, Decremented

LEMMA TypeStep == ASSUME TypeOK, [Next]_vars PROVE TypeOK'
<1> USE DEF TypeOK, Contexts, Calls, queues, perCoroutine
<1>0. \A c \in Coroutines : Append(runQueue, c) \in Seq(Coroutines)
  OBVIOUS
<1>1. ASSUME NEW c \in Coroutines, AddThread(c) PROVE TypeOK'
  BY <1>1, <1>0 DEF AddThread, PushRunQueue
<1>2. ASSUME NEW c \in Coroutines, Yield(c) PROVE TypeOK'
  BY <1>2, <1>0 DEF Yield, PushRunQueue, SwitchToMain, Fail
<1>3. ASSUME NEW c \in Coroutines, NEW duration \in Durations,
             Sleep(c, duration)
      PROVE  TypeOK'
  <2>1. clock + duration <= EndOfEpoche => clock + duration \in Times
    BY ConstantFacts DEF Times
  <2> QED
    BY <1>3, <2>1, CounterTypes DEF Sleep, SwitchToMain, Fail
<1>4. ASSUME NEW c \in Coroutines, SleepForever(c) PROVE TypeOK'
  <2>1. EndOfEpoche \in Times
    BY ConstantFacts DEF Times
  <2> QED
    BY <1>4, <2>1, CounterTypes DEF SleepForever, SwitchToMain
<1>5. ASSUME NEW c \in Coroutines, Exit(c) PROVE TypeOK'
  BY <1>5 DEF Exit, SwitchToMain
<1>6. ASSUME NEW c \in Coroutines, NEW thread \in Coroutines,
             Wakeup(c, thread)
      PROVE  TypeOK'
  BY <1>6, <1>0, CounterTypes DEF Wakeup, PushRunQueue, Fail
<1>7. ASSUME RunNext PROVE TypeOK'
  <2>1. Head(runQueue) \in Coroutines /\ Tail(runQueue) \in Seq(Coroutines)
    BY <1>7 DEF RunNext
  <2> QED
    BY <1>7, <2>1 DEF RunNext, Resume
<1>8. ASSUME NEW c \in Coroutines, RunSleeper(c) PROVE TypeOK'
  <2>1. clock + (sleepUntil[c] - clock) \in Times
    BY ConstantFacts DEF Times
  <2> QED
    BY <1>8, <2>1, CounterTypes
    DEF RunSleeper, Resume, PopFromSleepQueue, Fail
<1>9. ASSUME NEW c \in Coroutines, ReachEndOfEpoche(c) PROVE TypeOK'
  BY <1>9, ConstantFacts, CounterTypes
  DEF ReachEndOfEpoche, PopFromSleepQueue, Times
<1>10. ASSUME AllDone PROVE TypeOK'
  BY <1>10, ConstantFacts DEF AllDone, Times
<1>11. ASSUME UNCHANGED vars PROVE TypeOK'
  BY <1>11 DEF vars
<1> QED
  BY <1>1, <1>2, <1>3, <1>4, <1>5, <1>6, <1>7, <1>8, <1>9, <1>10, <1>11
  DEF Next, GiveUp, Loop

\* The scheduler's variables keep their types: in particular the clock and
\* all deadlines stay within the 64-bit epoche.
THEOREM TypeCorrect == Spec => []TypeOK
<1>1. Init => TypeOK
  BY ConstantFacts DEF Init, TypeOK, Times, Contexts, Calls
<1>2. TypeOK /\ [Next]_vars => TypeOK'
  BY TypeStep
<1> QED
  BY <1>1, <1>2, PTL DEF Spec

-----------------------------------------------------------------------------
(* The inductive invariant.                                                *)

LEMMA SleepersFinite ==
  ASSUME TypeOK
  PROVE  /\ Sleepers \subseteq Coroutines
         /\ IsFiniteSet(Sleepers)
         /\ Cardinality(Sleepers) \in Nat
         /\ Cardinality(Sleepers) <= Cardinality(Coroutines)
         /\ Cardinality(Sleepers) = 0 <=> Sleepers = {}
<1>1. Sleepers \subseteq Coroutines
  BY DEF Sleepers
<1> QED
  BY <1>1, ConstantFacts, FS_Subset, FS_CardinalityType, FS_EmptySet

\* What a coroutine knows of itself while it has the CPU.
LEMMA RunningFacts ==
  ASSUME Invariant, NEW c \in Coroutines, Runs(c)
  PROVE  /\ Going /\ call[c] = "run"
         /\ ~Queued(c) /\ ~isWaiting[c]
         /\ c \notin sleepQueue /\ ~isInSleepQueue[c]
         /\ c \notin Sleepers
         /\ numSleeping + 1 < CounterModulus
         /\ Cardinality(sleepQueue) < MaxNumberOfThreads
<1>1. Going
  BY DEF Runs, Going
<1>2. InItsPlace(c)
  BY <1>1 DEF Invariant, OnePlaceEach
<1>3. call[c] = "run" /\ ~Queued(c) /\ ~isWaiting[c] /\ c \notin sleepQueue
      /\ ~isInSleepQueue[c]
  BY <1>2 DEF InItsPlace
<1>4. c \notin Sleepers
  BY <1>3 DEF Sleepers
<1>5. /\ IsFiniteSet(Coroutines \ {c})
      /\ Cardinality(Coroutines \ {c}) = Cardinality(Coroutines) - 1
  BY ConstantFacts, FS_RemoveElement
<1>6. Sleepers \subseteq Coroutines \ {c} /\ sleepQueue \subseteq Coroutines \ {c}
  BY <1>3, <1>4 DEF Invariant, TypeOK, Sleepers
<1>7. /\ Cardinality(Sleepers) <= Cardinality(Coroutines) - 1
      /\ Cardinality(sleepQueue) <= Cardinality(Coroutines) - 1
  BY <1>5, <1>6, FS_Subset
<1>8. numSleeping = Cardinality(Sleepers)
  BY <1>1 DEF Invariant, SleepersAccounted
<1>9. /\ Cardinality(Sleepers) \in Nat
      /\ Cardinality(sleepQueue) \in Nat
  BY <1>5, <1>6, FS_Subset, FS_CardinalityType
<1>10. /\ numSleeping + 1 < CounterModulus
       /\ Cardinality(sleepQueue) < MaxNumberOfThreads
  BY <1>7, <1>8, <1>9, ConstantFacts
<1> QED
  BY <1>1, <1>3, <1>4, <1>10

\* What is known of a coroutine that waits.
LEMMA WaitingFacts ==
  ASSUME Invariant, Going, NEW c \in Coroutines, isWaiting[c]
  PROVE  /\ call[c] = "wait" /\ c \in Sleepers
         /\ ~Queued(c) /\ ~Runs(c)
         /\ isInSleepQueue[c] <=> c \in sleepQueue
         /\ numSleeping > 0
<1>1. InItsPlace(c)
  BY DEF Invariant, OnePlaceEach
<1>2. call[c] = "wait" /\ c \in Sleepers /\ ~Queued(c) /\ ~Runs(c)
      /\ (isInSleepQueue[c] <=> c \in sleepQueue)
  BY <1>1 DEF InItsPlace, Sleepers
<1>3. numSleeping = Cardinality(Sleepers) /\ TypeOK
  BY DEF Invariant, SleepersAccounted
<1> QED
  BY <1>2, <1>3, SleepersFinite

LEMMA HeapFacts ==
  ASSUME Invariant, Going, NEW c \in sleepQueue
  PROVE  c \in Coroutines /\ isWaiting[c] /\ isInSleepQueue[c]
         /\ clock <= sleepUntil[c]
<1>1. c \in Coroutines /\ InItsPlace(c)
  BY DEF Invariant, OnePlaceEach, TypeOK
<1>2. isWaiting[c] /\ isInSleepQueue[c] /\ call[c] = "wait"
  BY <1>1 DEF InItsPlace
<1> QED
  BY <1>1, <1>2 DEF Invariant, SleepersAccounted

\* The effect of falling asleep on the sleepers and their count.
LEMMA FallAsleep ==
  ASSUME Invariant, NEW c \in Coroutines, Runs(c),
         isWaiting' = [isWaiting EXCEPT ![c] = TRUE],
         call' = [call EXCEPT ![c] = "wait"],
         numSleeping' = Incremented(numSleeping)
  PROVE  /\ Sleepers' = Sleepers \cup {c}
         /\ numSleeping' = Cardinality(Sleepers')
<1>1. Sleepers' = Sleepers \cup {c}
  BY DEF Sleepers, Invariant, TypeOK
<1>2. c \notin Sleepers /\ numSleeping + 1 < CounterModulus
      /\ numSleeping = Cardinality(Sleepers)
  BY RunningFacts DEF Invariant, SleepersAccounted
<1>3. Cardinality(Sleepers \cup {c}) = Cardinality(Sleepers) + 1
  BY <1>2, SleepersFinite, FS_AddElement DEF Invariant
<1>4. Incremented(numSleeping) = numSleeping + 1
  BY <1>2, CounterTypes DEF Invariant, TypeOK
<1> QED
  BY <1>1, <1>2, <1>3, <1>4

\* The effect of no longer being asleep.
LEMMA WakeUp ==
  ASSUME Invariant, Going, NEW c \in Coroutines, isWaiting[c],
         isWaiting' = [isWaiting EXCEPT ![c] = FALSE],
         call' = call \/ call' = [call EXCEPT ![c] = "run"],
         numSleeping' = Decremented(numSleeping)
  PROVE  /\ Sleepers' = Sleepers \ {c}
         /\ numSleeping' = Cardinality(Sleepers')
<1>1. Sleepers' = Sleepers \ {c}
  BY DEF Sleepers, Invariant, TypeOK
<1>2. c \in Sleepers /\ numSleeping > 0 /\ numSleeping = Cardinality(Sleepers)
  BY WaitingFacts DEF Invariant, SleepersAccounted
<1>3. Cardinality(Sleepers \ {c}) = Cardinality(Sleepers) - 1
  BY <1>2, SleepersFinite, FS_RemoveElement DEF Invariant
<1>4. Decremented(numSleeping) = numSleeping - 1
  BY <1>2, CounterTypes DEF Invariant, TypeOK
<1> QED
  BY <1>1, <1>2, <1>3, <1>4

-----------------------------------------------------------------------------
(* The invariant, action by action.                                        *)

LEMMA InitInvariant == Init => Invariant
<1> SUFFICES ASSUME Init PROVE Invariant
  OBVIOUS
<1>1. TypeOK
  BY ConstantFacts DEF Init, TypeOK, Times, Contexts, Calls
<1>2. OnePlaceEach
  BY DEF Init, OnePlaceEach, Distinct, InItsPlace, InQueue, Queued, Runs
<1>3. Sleepers = {} /\ Cardinality(Sleepers) = 0
  BY FS_EmptySet DEF Init, Sleepers
<1> QED
  BY <1>1, <1>2, <1>3, ConstantFacts
  DEF Init, Invariant, SleepersAccounted, AssertionsHold, EndOfRunIsHonest,
      Going

LEMMA AddThreadStep ==
  ASSUME Invariant, TypeOK', NEW c \in Coroutines, AddThread(c)
  PROVE  Invariant'
<1> USE DEF AddThread, PushRunQueue
<1>1. Going /\ Going' /\ context' = context /\ context # "done"
  BY DEF Going
<1>2. InItsPlace(c) /\ Distinct(runQueue) /\ ~Queued(c)
  BY <1>1 DEF Invariant, OnePlaceEach, InItsPlace
<1>3. /\ Distinct(runQueue')
      /\ \A d : InQueue(runQueue', d) <=> InQueue(runQueue, d) \/ d = c
  BY <1>2, PushFacts DEF Queued, Invariant, TypeOK
<1>4. ASSUME NEW d \in Coroutines PROVE InItsPlace(d)'
  <2>1. InItsPlace(d)
    BY <1>1 DEF Invariant, OnePlaceEach
  <2>2. CASE d = c
    BY <1>2, <1>3, <2>2 DEF InItsPlace, Queued, Runs, Invariant, TypeOK
  <2>3. CASE d # c
    BY <1>3, <2>1, <2>3 DEF InItsPlace, Queued, Runs, Invariant, TypeOK
  <2> QED
    BY <2>2, <2>3
<1>5. OnePlaceEach'
  BY <1>3, <1>4 DEF OnePlaceEach
<1>6. Sleepers' = Sleepers
  BY DEF Sleepers, Invariant, TypeOK
<1>7. SleepersAccounted'
  BY <1>1, <1>6 DEF SleepersAccounted, Invariant
<1> QED
  BY <1>1, <1>5, <1>7
  DEF Invariant, AssertionsHold, EndOfRunIsHonest, Going

LEMMA YieldStep ==
  ASSUME Invariant, TypeOK', NEW c \in Coroutines, Yield(c)
  PROVE  Invariant'
<1>1. /\ Going /\ call[c] = "run" /\ ~Queued(c) /\ ~isWaiting[c]
      /\ c \notin sleepQueue
  BY RunningFacts DEF Yield
<1>2. /\ PushRunQueue(c) /\ SwitchToMain(c, "yield")
      /\ UNCHANGED <<sleepQueue, numSleeping, sleepUntil, isWaiting,
                     isInSleepQueue>>
  BY <1>1 DEF Yield
<1> USE <1>2 DEF PushRunQueue, SwitchToMain
<1>3. /\ Distinct(runQueue')
      /\ \A d : InQueue(runQueue', d) <=> InQueue(runQueue, d) \/ d = c
  BY <1>1, PushFacts DEF Queued, Invariant, TypeOK, OnePlaceEach
<1>4. ASSUME NEW d \in Coroutines PROVE InItsPlace(d)'
  <2>1. InItsPlace(d)
    BY <1>1 DEF Invariant, OnePlaceEach
  <2>2. d # c => ~Runs(d)
    BY DEF Yield, Runs
  <2>3. CASE d = c
    BY <1>1, <1>3, <2>1, <2>3 DEF InItsPlace, Queued, Runs, Invariant, TypeOK
  <2>4. CASE d # c
    BY <1>3, <2>1, <2>2, <2>4 DEF InItsPlace, Queued, Runs, Invariant, TypeOK
  <2> QED
    BY <2>3, <2>4
<1>5. OnePlaceEach'
  BY <1>3, <1>4 DEF OnePlaceEach
<1>6. Sleepers' = Sleepers
  BY <1>1 DEF Sleepers, Invariant, TypeOK
<1>7. SleepersAccounted'
  BY <1>1, <1>6 DEF SleepersAccounted, Invariant
<1> QED
  BY <1>1, <1>5, <1>7
  DEF Invariant, AssertionsHold, EndOfRunIsHonest, Going

\* Both kinds of sleep differ only in whether the coroutine enters the heap.
LEMMA SleepStepFacts ==
  ASSUME Invariant, TypeOK', NEW c \in Coroutines, Runs(c),
         NEW until \in Times, until >= clock,
         sleepUntil' = [sleepUntil EXCEPT ![c] = until],
         isWaiting' = [isWaiting EXCEPT ![c] = TRUE],
         \/ /\ sleepQueue' = sleepQueue \cup {c}
            /\ isInSleepQueue' = [isInSleepQueue EXCEPT ![c] = TRUE]
         \/ /\ UNCHANGED <<sleepQueue, isInSleepQueue>>
            /\ until = EndOfEpoche,
         numSleeping' = Incremented(numSleeping),
         SwitchToMain(c, "wait"),
         runQueue' = runQueue
  PROVE  Invariant'
<1> USE DEF SwitchToMain
<1>1. /\ Going /\ call[c] = "run" /\ ~Queued(c) /\ ~isWaiting[c]
      /\ c \notin sleepQueue /\ ~isInSleepQueue[c]
  BY RunningFacts
<1>2. ASSUME NEW d \in Coroutines PROVE InItsPlace(d)'
  <2>1. InItsPlace(d)
    BY <1>1 DEF Invariant, OnePlaceEach
  <2>2. d # c => ~Runs(d)
    BY DEF Runs
  <2>3. CASE d = c
    BY <1>1, <2>1, <2>3 DEF InItsPlace, Queued, Runs, Invariant, TypeOK
  <2>4. CASE d # c
    BY <2>1, <2>2, <2>4 DEF InItsPlace, Queued, Runs, Invariant, TypeOK
  <2> QED
    BY <2>3, <2>4
<1>3. OnePlaceEach'
  BY <1>1, <1>2 DEF OnePlaceEach, Invariant
<1>4. Sleepers' = Sleepers \cup {c} /\ numSleeping' = Cardinality(Sleepers')
  BY FallAsleep
<1>5. ASSUME NEW d \in Coroutines
      PROVE  /\ call'[d] = "wait" => clock' <= sleepUntil'[d]
             /\ d \in Sleepers' \ sleepQueue' => sleepUntil'[d] = EndOfEpoche
  <2>1. CASE d = c
    BY <1>4, <2>1 DEF Invariant, TypeOK
  <2>2. CASE d # c
    BY <1>1, <1>4, <2>2 DEF Invariant, TypeOK, SleepersAccounted
  <2> QED
    BY <2>1, <2>2
<1>6. SleepersAccounted'
  BY <1>4, <1>5 DEF SleepersAccounted, Sleepers
<1> QED
  BY <1>1, <1>3, <1>6
  DEF Invariant, AssertionsHold, EndOfRunIsHonest, Going

LEMMA SleepStep ==
  ASSUME Invariant, TypeOK', NEW c \in Coroutines,
         NEW duration \in Durations, Sleep(c, duration)
  PROVE  Invariant'
<1> DEFINE until == clock + duration
<1>1. until \in Times /\ until >= clock
  BY ConstantFacts DEF Sleep, Times, Invariant, TypeOK
<1>2. CanPushToSleepQueue(c, until) /\ Runs(c)
  <2>1. Runs(c)
    BY DEF Sleep
  <2> QED
    BY <1>1, <2>1, RunningFacts DEF CanPushToSleepQueue
<1> QED
  BY <1>1, <1>2, SleepStepFacts DEF Sleep

LEMMA SleepForeverStep ==
  ASSUME Invariant, TypeOK', NEW c \in Coroutines, SleepForever(c)
  PROVE  Invariant'
<1>1. EndOfEpoche \in Times /\ EndOfEpoche >= clock
  BY ConstantFacts DEF Times, Invariant, TypeOK
<1> QED
  BY <1>1, SleepStepFacts DEF SleepForever

LEMMA ExitStep ==
  ASSUME Invariant, TypeOK', NEW c \in Coroutines, Exit(c)
  PROVE  Invariant'
<1> USE DEF Exit, SwitchToMain, queues
<1>1. /\ Going /\ call[c] = "run" /\ ~Queued(c) /\ ~isWaiting[c]
      /\ c \notin sleepQueue
  BY RunningFacts
<1>2. ASSUME NEW d \in Coroutines PROVE InItsPlace(d)'
  <2>1. InItsPlace(d)
    BY <1>1 DEF Invariant, OnePlaceEach
  <2>2. d # c => ~Runs(d)
    BY DEF Runs
  <2>3. CASE d = c
    BY <1>1, <2>1, <2>3 DEF InItsPlace, Queued, Runs, Invariant, TypeOK
  <2>4. CASE d # c
    BY <2>1, <2>2, <2>4 DEF InItsPlace, Queued, Runs, Invariant, TypeOK
  <2> QED
    BY <2>3, <2>4
<1>3. OnePlaceEach'
  BY <1>1, <1>2 DEF OnePlaceEach, Invariant
<1>4. Sleepers' = Sleepers
  BY <1>1 DEF Sleepers, Invariant, TypeOK
<1>5. SleepersAccounted'
  BY <1>1, <1>4 DEF SleepersAccounted, Invariant
<1> QED
  BY <1>1, <1>3, <1>5
  DEF Invariant, AssertionsHold, EndOfRunIsHonest, Going

LEMMA WakeupStep ==
  ASSUME Invariant, TypeOK', NEW c \in Coroutines, NEW thread \in Coroutines,
         Wakeup(c, thread)
  PROVE  Invariant'
<1>1. Going /\ Runs(c) /\ isWaiting[thread]
  BY DEF Wakeup, Runs, Going
<1>2. /\ call[thread] = "wait" /\ ~Queued(thread) /\ ~Runs(thread)
      /\ isInSleepQueue[thread] <=> thread \in sleepQueue
  BY <1>1, WaitingFacts
<1>3. thread # current
  BY <1>1, <1>2 DEF Runs
<1>4. /\ isWaiting' = [isWaiting EXCEPT ![thread] = FALSE]
      /\ sleepQueue' = {c2 \in sleepQueue :
                          ~(c2 = thread /\ isInSleepQueue[thread])}
      /\ isInSleepQueue' = [isInSleepQueue EXCEPT ![thread] = FALSE]
      /\ numSleeping' = Decremented(numSleeping)
      /\ runQueue' = Append(runQueue, thread)
      /\ UNCHANGED <<clock, current, context, call, sleepUntil, timedOut>>
  BY <1>2, <1>3 DEF Wakeup, PushRunQueue
<1>5. sleepQueue' = sleepQueue \ {thread}
  BY <1>2, <1>4
<1>6. /\ Distinct(runQueue')
      /\ \A d : InQueue(runQueue', d) <=> InQueue(runQueue, d) \/ d = thread
  BY <1>1, <1>2, <1>4, PushFacts DEF Queued, Invariant, TypeOK, OnePlaceEach
<1>7. ASSUME NEW d \in Coroutines PROVE InItsPlace(d)'
  <2>1. InItsPlace(d)
    BY <1>1 DEF Invariant, OnePlaceEach
  <2>2. CASE d = thread
    BY <1>2, <1>4, <1>5, <1>6, <2>2
    DEF InItsPlace, Queued, Runs, Invariant, TypeOK
  <2>3. CASE d # thread
    BY <1>4, <1>5, <1>6, <2>1, <2>3
    DEF InItsPlace, Queued, Runs, Invariant, TypeOK
  <2> QED
    BY <2>2, <2>3
<1>8. OnePlaceEach'
  BY <1>6, <1>7 DEF OnePlaceEach
<1>9. Sleepers' = Sleepers \ {thread} /\ numSleeping' = Cardinality(Sleepers')
  BY <1>1, <1>4, WakeUp
<1>10. SleepersAccounted'
  BY <1>1, <1>4, <1>5, <1>9 DEF SleepersAccounted, Invariant
<1> QED
  BY <1>1, <1>4, <1>8, <1>10
  DEF Invariant, AssertionsHold, EndOfRunIsHonest, Going

LEMMA RunNextStep ==
  ASSUME Invariant, TypeOK', RunNext
  PROVE  Invariant'
<1> DEFINE c == Head(runQueue)
<1>1. /\ Going /\ Going' /\ context # "coroutine"
      /\ context' = "coroutine" /\ current' = c
      /\ call' = [call EXCEPT ![c] = "run"]
      /\ runQueue' = Tail(runQueue)
      /\ runQueue \in Seq(Coroutines) /\ runQueue # <<>> /\ Distinct(runQueue)
      /\ UNCHANGED <<sleepQueue, numSleeping, clock, sleepUntil,
                     isInSleepQueue>>
  BY DEF RunNext, Resume, Going, Invariant, TypeOK, OnePlaceEach
<1>2. /\ c \in Coroutines /\ Queued(c)
      /\ Distinct(runQueue')
      /\ \A d : InQueue(runQueue', d) <=> InQueue(runQueue, d) /\ d # c
  BY <1>1, PopFacts DEF Queued
<1> HIDE DEF c
<1>3. InItsPlace(c)
  BY <1>1, <1>2 DEF Invariant, OnePlaceEach
<1>4. ~isWaiting[c] /\ c \notin sleepQueue
  BY <1>2, <1>3 DEF InItsPlace
<1>5. isWaiting' = isWaiting
  BY <1>4 DEF RunNext, Resume, c, Invariant, TypeOK
<1>6. ASSUME NEW d \in Coroutines PROVE InItsPlace(d)'
  <2>1. InItsPlace(d) /\ ~Runs(d)
    BY <1>1 DEF Invariant, OnePlaceEach, Runs
  <2>2. CASE d = c
    BY <1>1, <1>2, <1>4, <1>5, <2>1, <2>2
    DEF InItsPlace, Queued, Runs, Invariant, TypeOK
  <2>3. CASE d # c
    BY <1>1, <1>2, <1>5, <2>1, <2>3
    DEF InItsPlace, Queued, Runs, Invariant, TypeOK
  <2> QED
    BY <2>2, <2>3
<1>7. OnePlaceEach'
  BY <1>2, <1>6 DEF OnePlaceEach
<1>8. Sleepers' = Sleepers
  BY <1>1, <1>4, <1>5 DEF Sleepers, Invariant, TypeOK
<1>9. SleepersAccounted'
  BY <1>1, <1>8 DEF SleepersAccounted, Invariant
<1> QED
  BY <1>1, <1>7, <1>9
  DEF Invariant, AssertionsHold, EndOfRunIsHonest, Going

\* popFromSleepQueue never finds its assertion broken, so time moves to the
\* deadline and the coroutine runs.
LEMMA RunSleeperFacts ==
  ASSUME Invariant, NEW c \in Coroutines, RunSleeper(c)
  PROVE  /\ Going /\ c \in sleepQueue /\ isWaiting[c] /\ call[c] = "wait"
         /\ clock <= sleepUntil[c] /\ sleepUntil[c] < EndOfEpoche
         /\ clock' = sleepUntil[c]
         /\ PopFromSleepQueue(c) /\ Resume(c)
         /\ timedOut' = [timedOut EXCEPT ![c] = TRUE]
         /\ isWaiting' = [isWaiting EXCEPT ![c] = FALSE]
         /\ UNCHANGED <<runQueue, sleepUntil>>
<1>1. Going /\ c \in sleepQueue
  BY DEF RunSleeper, IsTop, Going
<1>2. isWaiting[c] /\ isInSleepQueue[c] /\ clock <= sleepUntil[c]
  BY <1>1, HeapFacts
<1>3. call[c] = "wait"
  BY <1>1, <1>2, WaitingFacts
<1>4. clock \in Int /\ sleepUntil[c] \in Int /\ sleepUntil[c] <= EndOfEpoche
  BY ConstantFacts DEF Invariant, TypeOK, Times
<1>5. sleepUntil[c] >= clock
  BY <1>2, <1>4
<1>6. /\ clock' = clock + (sleepUntil[c] - clock)
      /\ PopFromSleepQueue(c) /\ Resume(c)
      /\ UNCHANGED <<runQueue, sleepUntil>>
      /\ sleepUntil[c] # EndOfEpoche
  BY <1>2, <1>5 DEF RunSleeper
<1>7. clock' = sleepUntil[c] /\ sleepUntil[c] < EndOfEpoche
  BY <1>4, <1>6, ConstantFacts
<1>8. isWaiting[c] = TRUE
  BY <1>2 DEF Invariant, TypeOK
<1>9. /\ timedOut' = [timedOut EXCEPT ![c] = TRUE]
      /\ isWaiting' = [isWaiting EXCEPT ![c] = FALSE]
  BY <1>3, <1>6, <1>8 DEF Resume
<1> QED
  BY <1>1, <1>2, <1>3, <1>6, <1>7, <1>9

LEMMA NothingRunnable ==
  ASSUME Invariant, Going, context # "coroutine", runQueue = <<>>,
         NEW c \in Coroutines
  PROVE  /\ call[c] \in {"new", "exit", "wait"}
         /\ call[c] = "wait" => c \in Sleepers
<1>1. InItsPlace(c) /\ call[c] \in Calls
  BY DEF Invariant, OnePlaceEach, TypeOK
<1>2. ~Queued(c) /\ ~Runs(c)
  BY DEF Queued, InQueue, Runs
<1> QED
  BY <1>1, <1>2 DEF InItsPlace, Calls, Sleepers

LEMMA RunSleeperStep ==
  ASSUME Invariant, TypeOK', NEW c \in Coroutines, RunSleeper(c)
  PROVE  Invariant'
<1>1. /\ Going /\ c \in sleepQueue /\ isWaiting[c] /\ call[c] = "wait"
      /\ clock' = sleepUntil[c] /\ sleepUntil[c] < EndOfEpoche
      /\ isWaiting' = [isWaiting EXCEPT ![c] = FALSE]
      /\ UNCHANGED <<runQueue, sleepUntil>>
      /\ sleepQueue' = sleepQueue \ {c}
      /\ isInSleepQueue' = [isInSleepQueue EXCEPT ![c] = FALSE]
      /\ numSleeping' = Decremented(numSleeping)
      /\ current' = c /\ context' = "coroutine"
      /\ call' = [call EXCEPT ![c] = "run"]
  BY RunSleeperFacts DEF PopFromSleepQueue, Resume
<1>2. context = "main"
  BY DEF RunSleeper
<1>3. ASSUME NEW d \in Coroutines PROVE InItsPlace(d)'
  <2>1. InItsPlace(d) /\ ~Runs(d)
    BY <1>1, <1>2 DEF Invariant, OnePlaceEach, Runs
  <2>2. CASE d = c
    BY <1>1, <2>1, <2>2 DEF InItsPlace, Queued, Runs, Invariant, TypeOK
  <2>3. CASE d # c
    BY <1>1, <2>1, <2>3 DEF InItsPlace, Queued, Runs, Invariant, TypeOK
  <2> QED
    BY <2>2, <2>3
<1>4. OnePlaceEach'
  BY <1>1, <1>3 DEF OnePlaceEach, Invariant
<1>5. Sleepers' = Sleepers \ {c} /\ numSleeping' = Cardinality(Sleepers')
  BY <1>1, WakeUp
<1>6. ASSUME NEW d \in Coroutines, call'[d] = "wait"
      PROVE  /\ clock' <= sleepUntil'[d]
             /\ d \notin sleepQueue' => sleepUntil'[d] = EndOfEpoche
  <2>0. runQueue = <<>> /\ call[d] = "wait" /\ d # c
    BY <1>1, <1>6 DEF RunSleeper, Invariant, TypeOK
  <2>1. d \in Sleepers
    BY <1>1, <1>2, <2>0, NothingRunnable
  <2>2. CASE d \in sleepQueue
    BY <1>1, <2>0, <2>2 DEF RunSleeper, IsTop
  <2>3. CASE d \notin sleepQueue
    <3>1. sleepUntil[d] = EndOfEpoche
      BY <1>1, <2>0, <2>1, <2>3 DEF Invariant, SleepersAccounted
    <3> QED
      BY <1>1, <3>1, ConstantFacts DEF Invariant, TypeOK, Times
  <2> QED
    BY <2>2, <2>3
<1>7. SleepersAccounted'
  BY <1>5, <1>6 DEF SleepersAccounted, Sleepers
<1> QED
  BY <1>1, <1>4, <1>7
  DEF Invariant, AssertionsHold, EndOfRunIsHonest, Going

LEMMA ReachEndOfEpocheStep ==
  ASSUME Invariant, TypeOK', NEW c \in Coroutines, ReachEndOfEpoche(c)
  PROVE  Invariant'
<1>1. /\ Going /\ context = "main" /\ runQueue = <<>> /\ c \in sleepQueue
      /\ clock' = EndOfEpoche /\ call' = call
      /\ context' \in {"done", "failed"}
  BY DEF ReachEndOfEpoche, IsTop, Going
<1>2. call[c] = "wait"
  BY <1>1, HeapFacts, WaitingFacts
<1>3. \A d \in Coroutines : call[d] \in {"new", "exit", "wait"}
  BY <1>1, NothingRunnable
<1>4. EndOfRunIsHonest'
  BY <1>1, <1>2, <1>3 DEF EndOfRunIsHonest
<1>5. ~Going'
  BY <1>1 DEF Going
<1> QED
  BY <1>1, <1>4, <1>5
  DEF Invariant, OnePlaceEach, SleepersAccounted, AssertionsHold

LEMMA AllDoneStep ==
  ASSUME Invariant, TypeOK', AllDone
  PROVE  Invariant'
<1>1. /\ Going /\ context # "coroutine" /\ runQueue = <<>>
      /\ clock' = IF numSleeping > 0 THEN EndOfEpoche ELSE clock
      /\ call' = call /\ context' = "done"
  BY DEF AllDone, Going, perCoroutine
<1>2. \A d \in Coroutines :
        /\ call[d] \in {"new", "exit", "wait"}
        /\ call[d] = "wait" => d \in Sleepers
  BY <1>1, NothingRunnable
<1>3. numSleeping = Cardinality(Sleepers) /\ clock < EndOfEpoche /\ TypeOK
  BY <1>1 DEF Invariant, SleepersAccounted
<1>4. numSleeping > 0 <=> \E d \in Coroutines : call[d] = "wait"
  <2>1. numSleeping > 0 <=> Sleepers # {}
    BY <1>3, SleepersFinite
  <2>2. Sleepers # {} <=> \E d \in Coroutines : call[d] = "wait"
    BY <1>2 DEF Sleepers
  <2> QED
    BY <2>1, <2>2
<1>5. clock' = EndOfEpoche <=> numSleeping > 0
  BY <1>1, <1>3, ConstantFacts DEF TypeOK, Times
<1>6. EndOfRunIsHonest'
  BY <1>1, <1>2, <1>4, <1>5 DEF EndOfRunIsHonest
<1> QED
  BY <1>1, <1>6
  DEF Invariant, OnePlaceEach, SleepersAccounted, AssertionsHold, Going

LEMMA StutterStep ==
  ASSUME Invariant, UNCHANGED vars
  PROVE  Invariant'
<1> USE DEF vars, queues, perCoroutine
<1>1. Sleepers' = Sleepers /\ (Going' <=> Going)
  BY DEF Sleepers, Going
<1>2. TypeOK'
  BY DEF Invariant, TypeOK
<1>3. OnePlaceEach'
  BY <1>1 DEF Invariant, OnePlaceEach, Distinct, InItsPlace, Queued, InQueue,
              Runs
<1>4. SleepersAccounted'
  BY <1>1 DEF Invariant, SleepersAccounted
<1> QED
  BY <1>1, <1>2, <1>3, <1>4 DEF Invariant, AssertionsHold, EndOfRunIsHonest

LEMMA InvariantStep ==
  ASSUME Invariant, [Next]_vars
  PROVE  Invariant'
<1>1. TypeOK'
  BY TypeStep DEF Invariant
<1>2. CASE RunNext
  BY <1>1, <1>2, RunNextStep
<1>3. CASE \E c \in Coroutines : RunSleeper(c) \/ ReachEndOfEpoche(c)
  BY <1>1, <1>3, RunSleeperStep, ReachEndOfEpocheStep
<1>4. CASE AllDone
  BY <1>1, <1>4, AllDoneStep
<1>5. CASE \E c \in Coroutines : GiveUp(c)
  BY <1>1, <1>5, YieldStep, SleepStep, SleepForeverStep, ExitStep DEF GiveUp
<1>6. CASE \E c \in Coroutines : AddThread(c)
  BY <1>1, <1>6, AddThreadStep
<1>7. CASE \E c, thread \in Coroutines : Wakeup(c, thread)
  BY <1>1, <1>7, WakeupStep
<1>8. CASE UNCHANGED vars
  BY <1>8, StutterStep
<1> QED
  BY <1>2, <1>3, <1>4, <1>5, <1>6, <1>7, <1>8 DEF Next, Loop

THEOREM InvariantHolds == Spec => []Invariant
<1>1. Init => Invariant
  BY InitInvariant
<1>2. Invariant /\ [Next]_vars => Invariant'
  BY InvariantStep
<1> QED
  BY <1>1, <1>2, PTL DEF Spec

-----------------------------------------------------------------------------
(* What follows from the invariant.                                        *)

\* Every coroutine is in exactly one place of the scheduler.
THEOREM PlacesCorrect == Spec => []OnePlaceEach
<1>1. Invariant => OnePlaceEach
  BY DEF Invariant
<1> QED
  BY <1>1, InvariantHolds, PTL

\* The count of sleepers is exact, and nobody waits past a deadline.
THEOREM SleepersCorrect == Spec => []SleepersAccounted
<1>1. Invariant => SleepersAccounted
  BY DEF Invariant
<1> QED
  BY <1>1, InvariantHolds, PTL

\* The assertions in the code hold until the very end of the epoche; for at
\* most maxNumberOfThreads coroutines the heap, too, never overflows.
THEOREM NoAssertionFires == Spec => []AssertionsHold
<1>1. Invariant => AssertionsHold
  BY DEF Invariant
<1> QED
  BY <1>1, InvariantHolds, PTL

\* The clock tells truly whether run() left coroutines waiting.
THEOREM EndCorrect == Spec => []EndOfRunIsHonest
<1>1. Invariant => EndOfRunIsHonest
  BY DEF Invariant
<1> QED
  BY <1>1, InvariantHolds, PTL

\* Which steps move the clock.
LEMMA ClockSteps ==
  ASSUME Invariant, [Next]_vars
  PROVE  \/ clock' = clock
         \/ \E c \in Coroutines : RunSleeper(c)
         \/ \E c \in Coroutines : ReachEndOfEpoche(c)
         \/ AllDone
<1> USE DEF perCoroutine, queues, SwitchToMain, Fail
<1>1. CASE \E c \in Coroutines : GiveUp(c)
  BY <1>1 DEF GiveUp, Yield, Sleep, SleepForever, Exit
<1>2. CASE RunNext
  BY <1>2 DEF RunNext
<1>3. CASE \E c \in Coroutines : AddThread(c)
  BY <1>3 DEF AddThread
<1>4. CASE \E c, thread \in Coroutines : Wakeup(c, thread)
  BY <1>4 DEF Wakeup
<1>5. CASE UNCHANGED vars
  BY <1>5 DEF vars
<1> QED
  BY <1>1, <1>2, <1>3, <1>4, <1>5 DEF Next, Loop

\* Time moves forward only, and only while nothing can run.
THEOREM TimeCorrect == Spec => TimeWaitsForRunnable
<1> DEFINE Step == clock' # clock =>
                     clock' > clock /\ runQueue = <<>> /\ context # "coroutine"
<1>1. ASSUME Invariant, [Next]_vars PROVE [Step]_vars
  <2>1. clock \in Int /\ (Going => clock < EndOfEpoche)
    BY <1>1, ConstantFacts DEF Invariant, TypeOK, Times
  <2>2. CASE \E c \in Coroutines : RunSleeper(c)
    <3>1. PICK c \in Coroutines : RunSleeper(c)
      BY <2>2
    <3>2. clock' = sleepUntil[c] /\ clock <= sleepUntil[c]
          /\ sleepUntil[c] \in Int
      BY <1>1, <3>1, RunSleeperFacts DEF Invariant, TypeOK, Times
    <3> QED
      BY <2>1, <3>1, <3>2 DEF RunSleeper
  <2>3. CASE \E c \in Coroutines : ReachEndOfEpoche(c)
    BY <2>1, <2>3, ConstantFacts DEF ReachEndOfEpoche, Going
  <2>4. CASE AllDone
    BY <2>1, <2>4, ConstantFacts DEF AllDone, Going
  <2> QED
    BY <1>1, <2>2, <2>3, <2>4, ClockSteps
<1> QED
  BY <1>1, InvariantHolds, PTL DEF Spec, TimeWaitsForRunnable

\* The end of a coroutine's coroWait, in a step of the run queue.
LEMMA RunNextEndsWait ==
  ASSUME Invariant, RunNext, NEW c \in Coroutines,
         call[c] = "wait", call'[c] = "run"
  PROVE  ~timedOut'[c] /\ clock' = clock /\ clock <= sleepUntil[c]
<1>1. /\ Going /\ runQueue # <<>> /\ runQueue \in Seq(Coroutines)
      /\ Distinct(runQueue) /\ clock <= sleepUntil[c]
  BY DEF RunNext, Going, Invariant, TypeOK, OnePlaceEach, SleepersAccounted
<1>2. Head(runQueue) \in Coroutines /\ Queued(Head(runQueue))
  BY <1>1, PopFacts DEF Queued
<1>3. c = Head(runQueue)
  BY <1>2 DEF RunNext, Resume, Invariant, TypeOK
<1>4. InItsPlace(c)
  BY <1>1 DEF Invariant, OnePlaceEach
<1>5. ~isWaiting[c]
  BY <1>2, <1>3, <1>4 DEF InItsPlace
<1>6. timedOut' = [timedOut EXCEPT ![c] = isWaiting[c]] /\ clock' = clock
  BY <1>3 DEF RunNext, Resume
<1>7. ~timedOut'[c]
  BY <1>5, <1>6 DEF Invariant, TypeOK
<1> QED
  BY <1>1, <1>6, <1>7

\* Only the loop of run() ends a coroWait.
LEMMA WaitEnds ==
  ASSUME Invariant, [Next]_vars, NEW c \in Coroutines,
         call[c] = "wait", call'[c] = "run"
  PROVE  RunNext \/ \E d \in Coroutines : RunSleeper(d)
<1> USE DEF perCoroutine, queues, SwitchToMain, Fail, Invariant, TypeOK
<1>1. CASE \E d \in Coroutines : GiveUp(d)
  BY <1>1 DEF GiveUp, Yield, Sleep, SleepForever, Exit
<1>2. CASE \E d \in Coroutines : ReachEndOfEpoche(d)
  BY <1>2 DEF ReachEndOfEpoche
<1>3. CASE AllDone
  BY <1>3 DEF AllDone
<1>4. CASE \E d \in Coroutines : AddThread(d)
  BY <1>4 DEF AddThread
<1>5. CASE \E d, thread \in Coroutines : Wakeup(d, thread)
  BY <1>5 DEF Wakeup
<1>6. CASE UNCHANGED vars
  BY <1>6 DEF vars
<1> QED
  BY <1>1, <1>2, <1>3, <1>4, <1>5, <1>6 DEF Next, Loop

\* Nobody oversleeps, and nobody is told that a wait timed out too early.
THEOREM NobodyOversleepsEver == Spec => NobodyOversleeps
<1> DEFINE Punctual(c) ==
             call[c] = "wait" /\ call'[c] = "run" =>
               IF timedOut'[c]
               THEN clock' = sleepUntil[c]
               ELSE clock' = clock /\ clock <= sleepUntil[c]
           Step == \A c \in Coroutines : Punctual(c)
<1>1. ASSUME Invariant, [Next]_vars PROVE [Step]_vars
  <2> SUFFICES ASSUME NEW c \in Coroutines,
                      call[c] = "wait", call'[c] = "run"
               PROVE  IF timedOut'[c]
                      THEN clock' = sleepUntil[c]
                      ELSE clock' = clock /\ clock <= sleepUntil[c]
    OBVIOUS
  <2>1. CASE RunNext
    BY <1>1, <2>1, RunNextEndsWait
  <2>2. CASE \E d \in Coroutines : RunSleeper(d)
    <3>1. PICK d \in Coroutines : RunSleeper(d)
      BY <2>2
    <3>2. clock' = sleepUntil[d] /\ Resume(d)
          /\ timedOut' = [timedOut EXCEPT ![d] = TRUE]
      BY <1>1, <3>1, RunSleeperFacts
    <3>3. c = d
      BY <1>1, <3>2 DEF Resume, Invariant, TypeOK
    <3> QED
      BY <1>1, <3>2, <3>3 DEF Invariant, TypeOK
  <2> QED
    BY <1>1, <2>1, <2>2, WaitEnds
<1> QED
  BY <1>1, InvariantHolds, PTL DEF Spec, NobodyOversleeps

-----------------------------------------------------------------------------
(* The scheduler implements SimulatedTime, for any set of coroutines, any  *)
(* durations and any word width: its queues, flags and counter may be      *)
(* forgotten by whoever reasons about the program above it.                *)

\* What a coroutine is doing, read off the scheduler's variables.
LEMMA DoingFacts ==
  ASSUME TypeOK, NEW c \in Coroutines
  PROVE  /\ AbstractState[c] = Doing(c)
         /\ Doing(c) = "unknown" <=> call[c] = "new"
         /\ Doing(c) = "ready" <=> call[c] \in {"start", "yield"}
         /\ Doing(c) = "running" <=> call[c] = "run"
         /\ Doing(c) = "gone" <=> call[c] = "exit"
         /\ Doing(c) = "sleeping" <=> call[c] = "wait" /\ isWaiting[c]
         /\ Doing(c) = "woken" <=> call[c] = "wait" /\ ~isWaiting[c]
<1>1. call[c] \in Calls
  BY DEF TypeOK
<1> QED
  BY <1>1 DEF AbstractState, Doing, Calls

\* A step that concerns one coroutine changes what that coroutine does.
LEMMA OneChanges ==
  ASSUME NEW c \in Coroutines, NEW s,
         Doing(c)' = s,
         \A d \in Coroutines \ {c} : Doing(d)' = Doing(d)
  PROVE  AbstractState' = [AbstractState EXCEPT ![c] = s]
BY DEF AbstractState

LEMMA NobodyChanges ==
  ASSUME UNCHANGED <<call, isWaiting>>
  PROVE  AbstractState' = AbstractState
BY DEF AbstractState, Doing

\* Who sleeps in the abstract sense is who is counted as asleep.
LEMMA SleepingIsSleepers ==
  ASSUME TypeOK
  PROVE  Simulated!In("sleeping") = Sleepers
BY DoingFacts DEF Simulated!In, Sleepers

\* While the scheduler's own context runs, no coroutine does.
LEMMA NobodyRuns ==
  ASSUME Invariant, Going, context # "coroutine"
  PROVE  Simulated!In("running") = {}
<1>1. \A c \in Coroutines : call[c] # "run"
  BY DEF Invariant, OnePlaceEach, InItsPlace, Runs
<1> QED
  BY <1>1, DoingFacts DEF Simulated!In, Invariant

\* With an empty run queue, nobody can run either.
LEMMA IdleLoop ==
  ASSUME Invariant, Going, context # "coroutine", runQueue = <<>>
  PROVE  Simulated!Idle
<1>1. \A c \in Coroutines : /\ call[c] \notin {"start", "yield"}
                            /\ ~(call[c] = "wait" /\ ~isWaiting[c])
  BY NothingRunnable DEF Sleepers
<1>2. Simulated!Ready = {}
  BY <1>1, DoingFacts DEF Simulated!Ready, Simulated!In, Invariant
<1> QED
  BY <1>2, NobodyRuns DEF Simulated!Idle

-----------------------------------------------------------------------------
LEMMA InitRefines == Init => Simulated!Init
<1> SUFFICES ASSUME Init PROVE Simulated!Init
  OBVIOUS
<1>1. AbstractState = [c \in Coroutines |-> "unknown"]
  BY DEF AbstractState, Doing, Init
<1> QED
  BY <1>1 DEF Simulated!Init, Init, Going

LEMMA AddThreadRefines ==
  ASSUME Invariant, Invariant', NEW c \in Coroutines, AddThread(c)
  PROVE  Simulated!Add(c)
<1>1. TypeOK /\ call[c] = "new" /\ Going /\ Going'
      /\ call' = [call EXCEPT ![c] = "start"]
      /\ UNCHANGED <<isWaiting, clock, sleepUntil, timedOut>>
  BY DEF AddThread, Going, Invariant
<1>2. Doing(c)' = "ready" /\ \A d \in Coroutines \ {c} : Doing(d)' = Doing(d)
  BY <1>1 DEF Doing, TypeOK
<1> QED
  BY <1>1, <1>2, OneChanges, DoingFacts DEF Simulated!Add

LEMMA YieldRefines ==
  ASSUME Invariant, Invariant', NEW c \in Coroutines, Yield(c)
  PROVE  Simulated!Yield(c)
<1>1. TypeOK /\ call[c] = "run" /\ Going /\ ~Queued(c)
  BY RunningFacts DEF Yield, Invariant
<1>2. /\ call' = [call EXCEPT ![c] = "yield"] /\ Going'
      /\ UNCHANGED <<isWaiting, clock, sleepUntil, timedOut>>
  BY <1>1 DEF Yield, SwitchToMain, Going
<1>3. Doing(c)' = "ready" /\ \A d \in Coroutines \ {c} : Doing(d)' = Doing(d)
  BY <1>1, <1>2 DEF Doing, TypeOK
<1> QED
  BY <1>1, <1>2, <1>3, OneChanges, DoingFacts DEF Simulated!Yield

LEMMA ExitRefines ==
  ASSUME Invariant, Invariant', NEW c \in Coroutines, Exit(c)
  PROVE  Simulated!Leave(c)
<1>1. TypeOK /\ call[c] = "run" /\ Going
  BY RunningFacts DEF Exit, Invariant
<1>2. /\ call' = [call EXCEPT ![c] = "exit"] /\ Going'
      /\ UNCHANGED <<isWaiting, clock, sleepUntil, timedOut>>
  BY <1>1 DEF Exit, SwitchToMain, Going
<1>3. Doing(c)' = "gone" /\ \A d \in Coroutines \ {c} : Doing(d)' = Doing(d)
  BY <1>1, <1>2 DEF Doing, TypeOK
<1> QED
  BY <1>1, <1>2, <1>3, OneChanges, DoingFacts DEF Simulated!Leave

\* Both kinds of coroWait.
LEMMA FallingAsleepRefines ==
  ASSUME Invariant, Invariant', NEW c \in Coroutines, NEW until, Runs(c),
         until \in 0 .. EndOfEpoche, until >= clock,
         sleepUntil' = [sleepUntil EXCEPT ![c] = until],
         isWaiting' = [isWaiting EXCEPT ![c] = TRUE],
         SwitchToMain(c, "wait")
  PROVE  Simulated!Sleep(c, until)
<1>1. TypeOK /\ call[c] = "run" /\ Going
  BY RunningFacts DEF Invariant
<1>2. /\ call' = [call EXCEPT ![c] = "wait"] /\ Going'
      /\ UNCHANGED <<clock, timedOut>>
  BY DEF SwitchToMain, Going
<1>3. Doing(c)' = "sleeping"
      /\ \A d \in Coroutines \ {c} : Doing(d)' = Doing(d)
  BY <1>1, <1>2 DEF Doing, TypeOK
<1> QED
  BY <1>1, <1>2, <1>3, OneChanges, DoingFacts DEF Simulated!Sleep

LEMMA SleepRefines ==
  ASSUME Invariant, Invariant', NEW c \in Coroutines,
         NEW duration \in Durations, Sleep(c, duration)
  PROVE  \E until \in 0 .. EndOfEpoche : Simulated!Sleep(c, until)
<1> DEFINE until == clock + duration
<1>1. Runs(c) /\ until \in 0 .. EndOfEpoche /\ until >= clock
  BY ConstantFacts DEF Sleep, Invariant, TypeOK, Times
<1>2. CanPushToSleepQueue(c, until)
  BY <1>1, RunningFacts DEF CanPushToSleepQueue
<1>3. /\ sleepUntil' = [sleepUntil EXCEPT ![c] = until]
      /\ isWaiting' = [isWaiting EXCEPT ![c] = TRUE]
      /\ SwitchToMain(c, "wait")
  BY <1>2 DEF Sleep
<1> HIDE DEF until
<1> QED
  BY <1>1, <1>3, FallingAsleepRefines

LEMMA SleepForeverRefines ==
  ASSUME Invariant, Invariant', NEW c \in Coroutines, SleepForever(c)
  PROVE  \E until \in 0 .. EndOfEpoche : Simulated!Sleep(c, until)
<1>1. /\ Runs(c)
      /\ sleepUntil' = [sleepUntil EXCEPT ![c] = EndOfEpoche]
      /\ isWaiting' = [isWaiting EXCEPT ![c] = TRUE]
      /\ SwitchToMain(c, "wait")
  BY DEF SleepForever
<1>2. EndOfEpoche \in 0 .. EndOfEpoche /\ EndOfEpoche >= clock
  BY ConstantFacts DEF Invariant, TypeOK, Times
<1> QED
  BY <1>1, <1>2, FallingAsleepRefines

LEMMA WakeupRefines ==
  ASSUME Invariant, Invariant', NEW c \in Coroutines,
         NEW thread \in Coroutines, Wakeup(c, thread)
  PROVE  Simulated!Wake(c, thread)
<1>1. TypeOK /\ Going /\ Runs(c) /\ isWaiting[thread] /\ call[c] = "run"
  BY RunningFacts DEF Wakeup, Invariant
<1>2. call[thread] = "wait" /\ ~Queued(thread) /\ thread # current
  BY <1>1, WaitingFacts DEF Runs
<1>3. /\ isWaiting' = [isWaiting EXCEPT ![thread] = FALSE] /\ Going'
      /\ UNCHANGED <<call, clock, sleepUntil, timedOut>>
  BY <1>1, <1>2 DEF Wakeup, Going
<1>4. Doing(thread)' = "woken"
      /\ \A d \in Coroutines \ {thread} : Doing(d)' = Doing(d)
  BY <1>1, <1>2, <1>3 DEF Doing, TypeOK
<1> QED
  BY <1>1, <1>2, <1>3, <1>4, OneChanges, DoingFacts DEF Simulated!Wake

LEMMA RunNextRefines ==
  ASSUME Invariant, Invariant', RunNext
  PROVE  \E c \in Coroutines : Simulated!Run(c)
<1>1. /\ TypeOK /\ Going /\ context # "coroutine" /\ runQueue # <<>>
      /\ runQueue \in Seq(Coroutines) /\ Distinct(runQueue)
  BY DEF RunNext, Going, Invariant, TypeOK, OnePlaceEach
<1>2. PICK c \in Coroutines : c = Head(runQueue) /\ Queued(c)
  BY <1>1, PopFacts DEF Queued
<1>3. /\ call' = [call EXCEPT ![c] = "run"] /\ Going'
      /\ UNCHANGED <<clock, sleepUntil>>
      /\ IF call[c] = "wait"
         THEN /\ timedOut' = [timedOut EXCEPT ![c] = isWaiting[c]]
              /\ isWaiting' = [isWaiting EXCEPT ![c] = FALSE]
         ELSE UNCHANGED <<timedOut, isWaiting>>
  BY <1>2 DEF RunNext, Resume, Going
<1>4. InItsPlace(c)
  BY <1>1, <1>2 DEF Invariant, OnePlaceEach
<1>5. \/ call[c] \in {"start", "yield"}
      \/ call[c] = "wait" /\ ~isWaiting[c]
  BY <1>2, <1>4 DEF InItsPlace
<1>6. Doing(c)' = "running"
      /\ \A d \in Coroutines \ {c} : Doing(d)' = Doing(d)
  BY <1>1, <1>2, <1>3 DEF Doing, TypeOK
<1>7. AbstractState' = [AbstractState EXCEPT ![c] = "running"]
  BY <1>2, <1>6, OneChanges
<1>8. c \in Simulated!Ready
  BY <1>1, <1>2, <1>5, DoingFacts DEF Simulated!Ready, Simulated!In
<1>9. timedOut' = IF AbstractState[c] = "woken"
                  THEN [timedOut EXCEPT ![c] = FALSE]
                  ELSE timedOut
  <2>0. AbstractState[c] = "woken" <=> call[c] = "wait" /\ ~isWaiting[c]
    BY <1>1, <1>2, DoingFacts
  <2>1. CASE call[c] = "wait"
    <3>1. isWaiting[c] = FALSE
      BY <1>1, <1>2, <1>5, <2>1 DEF TypeOK
    <3> QED
      BY <1>3, <2>0, <2>1, <3>1
  <2>2. CASE call[c] # "wait"
    BY <1>3, <2>0, <2>2
  <2> QED
    BY <2>1, <2>2
<1>10. Simulated!In("running") = {}
  BY <1>1, NobodyRuns
<1> QED
  BY <1>1, <1>2, <1>3, <1>7, <1>8, <1>9, <1>10 DEF Simulated!Run

LEMMA RunSleeperRefines ==
  ASSUME Invariant, Invariant', NEW c \in Coroutines, RunSleeper(c)
  PROVE  Simulated!TimeOut(c)
<1>1. /\ TypeOK /\ Going /\ c \in sleepQueue /\ isWaiting[c]
      /\ call[c] = "wait" /\ Resume(c)
      /\ clock' = sleepUntil[c] /\ sleepUntil[c] < EndOfEpoche
      /\ timedOut' = [timedOut EXCEPT ![c] = TRUE]
      /\ isWaiting' = [isWaiting EXCEPT ![c] = FALSE]
      /\ UNCHANGED sleepUntil
  BY RunSleeperFacts DEF Invariant
<1>2. context = "main" /\ runQueue = <<>> /\ IsTop(c)
  BY DEF RunSleeper
<1>3. call' = [call EXCEPT ![c] = "run"] /\ Going'
  BY <1>1 DEF Resume, Going
<1>4. Doing(c)' = "running"
      /\ \A d \in Coroutines \ {c} : Doing(d)' = Doing(d)
  BY <1>1, <1>3 DEF Doing, TypeOK
<1>5. AbstractState' = [AbstractState EXCEPT ![c] = "running"]
  BY <1>4, OneChanges
<1>6. Simulated!Idle
  BY <1>1, <1>2, IdleLoop
<1>7. Simulated!In("sleeping") = Sleepers /\ c \in Sleepers
  BY <1>1, SleepingIsSleepers DEF Sleepers
<1>8. ASSUME NEW d \in Sleepers PROVE sleepUntil[c] <= sleepUntil[d]
  <2>1. CASE d \in sleepQueue
    BY <1>2, <2>1 DEF IsTop
  <2>2. CASE d \notin sleepQueue
    <3>1. sleepUntil[d] = EndOfEpoche
      BY <1>1, <2>2 DEF Invariant, SleepersAccounted
    <3> QED
      BY <1>1, <3>1, ConstantFacts DEF TypeOK, Times
  <2> QED
    BY <2>1, <2>2
<1> QED
  BY <1>1, <1>3, <1>5, <1>6, <1>7, <1>8 DEF Simulated!TimeOut

LEMMA ReachEndOfEpocheRefines ==
  ASSUME Invariant, Invariant', NEW c \in Coroutines, ReachEndOfEpoche(c)
  PROVE  Simulated!End
<1>1. /\ TypeOK /\ Going /\ context = "main" /\ runQueue = <<>> /\ IsTop(c)
      /\ c \in sleepQueue /\ sleepUntil[c] = EndOfEpoche
      /\ clock' = EndOfEpoche /\ context' \in {"done", "failed"}
      /\ UNCHANGED <<call, isWaiting, sleepUntil, timedOut>>
  BY DEF ReachEndOfEpoche, IsTop, Going, Invariant
<1>2. Simulated!Idle
  BY <1>1, IdleLoop
<1>3. Simulated!In("sleeping") = Sleepers /\ Sleepers # {}
  BY <1>1, HeapFacts, WaitingFacts, SleepingIsSleepers
<1>4. ASSUME NEW d \in Sleepers PROVE sleepUntil[d] = EndOfEpoche
  <2>1. CASE d \in sleepQueue
    <3>1. sleepUntil[c] <= sleepUntil[d] /\ sleepUntil[d] \in Times
      BY <1>1, <2>1 DEF IsTop, TypeOK
    <3> QED
      BY <1>1, <3>1, ConstantFacts DEF Times
  <2>2. CASE d \notin sleepQueue
    BY <1>1, <2>2 DEF Invariant, SleepersAccounted
  <2> QED
    BY <2>1, <2>2
<1>5. ~Going'
  BY <1>1 DEF Going
<1> QED
  BY <1>1, <1>2, <1>3, <1>4, <1>5, NobodyChanges DEF Simulated!End

LEMMA AllDoneRefines ==
  ASSUME Invariant, Invariant', AllDone
  PROVE  Simulated!End
<1>1. /\ TypeOK /\ Going /\ context # "coroutine" /\ runQueue = <<>>
      /\ sleepQueue = {} /\ ~Going'
      /\ clock' = IF numSleeping > 0 THEN EndOfEpoche ELSE clock
      /\ UNCHANGED <<call, isWaiting, sleepUntil, timedOut>>
  BY DEF AllDone, Going, perCoroutine, Invariant
<1>2. Simulated!Idle
  BY <1>1, IdleLoop
<1>3. Simulated!In("sleeping") = Sleepers
  BY <1>1, SleepingIsSleepers
<1>4. numSleeping > 0 <=> Sleepers # {}
  BY <1>1, SleepersFinite DEF Invariant, SleepersAccounted
<1>5. \A d \in Sleepers : sleepUntil[d] = EndOfEpoche
  BY <1>1 DEF Invariant, SleepersAccounted
<1> QED
  BY <1>1, <1>2, <1>3, <1>4, <1>5, NobodyChanges DEF Simulated!End

-----------------------------------------------------------------------------
\* Every step of the scheduler is a step of SimulatedTime, or none.
LEMMA StepRefines ==
  ASSUME Invariant, Invariant', [Next]_vars
  PROVE  [Simulated!Next]_(Simulated!vars)
<1>1. CASE RunNext
  BY <1>1, RunNextRefines DEF Simulated!Next
<1>2. CASE \E c \in Coroutines : RunSleeper(c)
  BY <1>2, RunSleeperRefines DEF Simulated!Next
<1>3. CASE \E c \in Coroutines : ReachEndOfEpoche(c)
  BY <1>3, ReachEndOfEpocheRefines DEF Simulated!Next
<1>4. CASE AllDone
  BY <1>4, AllDoneRefines DEF Simulated!Next
<1>5. CASE \E c \in Coroutines : GiveUp(c)
  BY <1>5, YieldRefines, SleepRefines, SleepForeverRefines, ExitRefines
  DEF GiveUp, Simulated!Next
<1>6. CASE \E c \in Coroutines : AddThread(c)
  BY <1>6, AddThreadRefines DEF Simulated!Next
<1>7. CASE \E c, thread \in Coroutines : Wakeup(c, thread)
  BY <1>7, WakeupRefines DEF Simulated!Next
<1>8. CASE UNCHANGED vars
  BY <1>8, NobodyChanges
  DEF vars, queues, perCoroutine, Simulated!vars, Going
<1> QED
  BY <1>1, <1>2, <1>3, <1>4, <1>5, <1>6, <1>7, <1>8 DEF Next, Loop

\* The scheduler keeps the promise of simulated time.
THEOREM ImplementsSimulatedTimeEver == Spec => ImplementsSimulatedTime
<1>1. Init => Simulated!Init
  BY InitRefines
<1>2. Invariant /\ Invariant' /\ [Next]_vars
        => [Simulated!Next]_(Simulated!vars)
  BY StepRefines
<1> QED
  BY <1>1, <1>2, InvariantHolds, PTL
  DEF Spec, ImplementsSimulatedTime, Simulated!Spec

-----------------------------------------------------------------------------
(* What RunnableRuns rests on: the run queue is short, nobody in it is     *)
(* overtaken, and the loop always has something to do.                     *)

TurnsBounded == Going => Len(runQueue) <= Cardinality(Coroutines)

\* Whenever the loop gives the CPU to a coroutine each one in the run queue
\* moves one place ahead; nothing else moves it, or anything before it.
NobodyOvertakes ==
  [][\A i \in 1 .. Len(runQueue) :
       IF context # "coroutine" /\ context' = "coroutine"
       THEN IF i = 1
            THEN call'[runQueue[i]] = "run"
            ELSE i - 1 <= Len(runQueue') /\ runQueue'[i - 1] = runQueue[i]
       ELSE i <= Len(runQueue') /\ runQueue'[i] = runQueue[i]]_vars

\* One of the cases of getNext.
LoopGoesOn ==
  context = "main" =>
    \/ runQueue # <<>>
    \/ sleepQueue = {}
    \/ \E c \in Coroutines : IsTop(c)

\* A queue without repetitions is no longer than there are coroutines.
LEMMA DistinctIsShort ==
  ASSUME NEW q \in Seq(Coroutines), Distinct(q)
  PROVE  Len(q) <= Cardinality(Coroutines)
<1>1. Len(q) \in Nat /\ q \in [1 .. Len(q) -> Coroutines]
  OBVIOUS
<1>2. q \in Injection(1 .. Len(q), Coroutines)
  BY <1>1 DEF Distinct, Injection, IsInjective
<1>3. Cardinality(1 .. Len(q)) = Len(q)
  BY <1>1, FS_Interval
<1> QED
  BY <1>2, <1>3, CoroutinesAssumption, FS_Injection

Smaller == {p \in Nat \X Nat : p[1] < p[2]}

LEMMA SmallerWellFounded == IsWellFoundedOn(Smaller, Nat)
<1>1. Smaller = OpToRel(<, Nat)
  BY Zenon DEF OpToRel, Smaller
<1> QED
  BY <1>1, NatLessThanWellFounded, Zenon

\* A heap that is not empty has a top.
LEMMA TopExists ==
  ASSUME TypeOK, sleepQueue # {}
  PROVE  \E c \in Coroutines : IsTop(c)
<1> DEFINE T == {sleepUntil[c] : c \in sleepQueue}
<1>1. \A c \in sleepQueue : c \in Coroutines /\ sleepUntil[c] \in Nat
  BY ConstantFacts DEF TypeOK, Times
<1>2. T \subseteq Nat /\ T # {}
  BY <1>1
<1>3. \A n : n \in T <=> \E c \in sleepQueue : n = sleepUntil[c]
  OBVIOUS
<1> HIDE DEF T
<1>4. PICK n \in T : \A k \in T : <<k, n>> \notin Smaller
  BY <1>2, SmallerWellFounded, WFMin
<1>5. PICK c \in sleepQueue : n = sleepUntil[c]
  BY <1>3, <1>4
<1>6. ASSUME NEW d \in sleepQueue PROVE sleepUntil[c] <= sleepUntil[d]
  <2>1. sleepUntil[d] \in T /\ sleepUntil[d] \in Nat /\ n \in Nat
    BY <1>1, <1>3, <1>5
  <2>2. <<sleepUntil[d], n>> \notin Smaller
    BY <1>4, <2>1
  <2> QED
    BY <1>5, <2>1, <2>2 DEF Smaller
<1> QED
  BY <1>1, <1>5, <1>6 DEF IsTop

\* What joins the queue is behind all others.
LEMMA PushedBehind ==
  ASSUME TypeOK, NEW c \in Coroutines, PushRunQueue(c),
         NEW i \in 1 .. Len(runQueue)
  PROVE  i <= Len(runQueue') /\ runQueue'[i] = runQueue[i]
  BY DEF PushRunQueue, TypeOK

LEMMA RunNextMoves ==
  ASSUME TypeOK, RunNext, NEW i \in 1 .. Len(runQueue)
  PROVE  IF i = 1
         THEN call'[runQueue[i]] = "run"
         ELSE i - 1 <= Len(runQueue') /\ runQueue'[i - 1] = runQueue[i]
<1>1. /\ runQueue \in Seq(Coroutines) /\ runQueue # <<>>
      /\ runQueue' = Tail(runQueue)
      /\ call' = [call EXCEPT ![Head(runQueue)] = "run"]
      /\ call \in [Coroutines -> Calls]
  BY DEF RunNext, Resume, TypeOK
<1>2. Head(runQueue) = runQueue[1] /\ runQueue[1] \in Coroutines
  BY <1>1
<1>3. call'[runQueue[1]] = "run"
  BY <1>1, <1>2
<1>4. i # 1 => i - 1 <= Len(runQueue') /\ runQueue'[i - 1] = runQueue[i]
  BY <1>1
<1> QED
  BY <1>3, <1>4

LEMMA PlaceStep ==
  ASSUME Invariant, [Next]_vars, NEW i \in 1 .. Len(runQueue)
  PROVE  IF context # "coroutine" /\ context' = "coroutine"
         THEN IF i = 1
              THEN call'[runQueue[i]] = "run"
              ELSE i - 1 <= Len(runQueue') /\ runQueue'[i - 1] = runQueue[i]
         ELSE i <= Len(runQueue') /\ runQueue'[i] = runQueue[i]
<1>1. TypeOK /\ i <= Len(runQueue) /\ runQueue # <<>>
  BY DEF Invariant, TypeOK
<1>2. ASSUME NEW c \in Coroutines, AddThread(c)
      PROVE  context' = context /\ i <= Len(runQueue')
             /\ runQueue'[i] = runQueue[i]
  BY <1>1, <1>2, PushedBehind DEF AddThread
<1>3. ASSUME NEW c \in Coroutines, GiveUp(c)
      PROVE  context = "coroutine" /\ i <= Len(runQueue')
             /\ runQueue'[i] = runQueue[i]
  <2>1. CASE Yield(c)
    BY <1>1, <2>1, PushedBehind DEF Yield, Runs, Fail, queues
  <2>2. CASE \E duration \in Durations : Sleep(c, duration)
    BY <1>1, <2>2 DEF Sleep, Runs, Fail, queues
  <2>3. CASE SleepForever(c) \/ Exit(c)
    BY <1>1, <2>3 DEF SleepForever, Exit, Runs, queues
  <2> QED
    BY <1>3, <2>1, <2>2, <2>3 DEF GiveUp
<1>4. ASSUME NEW c \in Coroutines, NEW thread \in Coroutines, Wakeup(c, thread)
      PROVE  context = "coroutine" /\ i <= Len(runQueue')
             /\ runQueue'[i] = runQueue[i]
  BY <1>1, <1>4, PushedBehind DEF Wakeup, Runs, Fail, queues
<1>5. CASE Loop
  <2>1. RunNext
    BY <1>1, <1>5 DEF Loop, RunSleeper, ReachEndOfEpoche, AllDone
  <2>2. context # "coroutine" /\ context' = "coroutine"
    BY <2>1 DEF RunNext, Resume
  <2> QED
    BY <1>1, <2>1, <2>2, RunNextMoves
<1>6. CASE UNCHANGED vars
  BY <1>1, <1>6 DEF vars, queues
<1> QED
  BY <1>2, <1>3, <1>4, <1>5, <1>6 DEF Next

\* A coroutine that is runnable gets the CPU after all that were before it in
\* the run queue, each once, and these are fewer than there are coroutines; the
\* loop never finds itself without a case.
THEOREM RunQueueIsFair ==
  Spec => []TurnsBounded /\ []LoopGoesOn /\ NobodyOvertakes
<1>1. Invariant => TurnsBounded
  BY DistinctIsShort
  DEF Invariant, TypeOK, OnePlaceEach, TurnsBounded
<1>2. Invariant => LoopGoesOn
  BY TopExists DEF Invariant, LoopGoesOn
<1>3. Invariant /\ [Next]_vars =>
        [\A i \in 1 .. Len(runQueue) :
           IF context # "coroutine" /\ context' = "coroutine"
           THEN IF i = 1
                THEN call'[runQueue[i]] = "run"
                ELSE i - 1 <= Len(runQueue') /\ runQueue'[i - 1] = runQueue[i]
           ELSE i <= Len(runQueue') /\ runQueue'[i] = runQueue[i]]_vars
  BY PlaceStep
<1> QED
  BY <1>1, <1>2, <1>3, InvariantHolds, PTL DEF Spec, NobodyOvertakes

=============================================================================
