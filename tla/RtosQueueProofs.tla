-------------------------- MODULE RtosQueueProofs --------------------------
(***************************************************************************)
(* The safety of rtos::Queue, proved for any finite set of threads, any    *)
(* values and any capacity.                                                *)
(***************************************************************************)
EXTENDS RtosQueueProperties, Sequences, FiniteSetTheorems, TLAPS

Weight(place, pcs) == IF place \in pcs THEN 1 ELSE 0

Places == {"out", "failed"} \cup Waits \cup Relocks \cup Inside

LEMMA CountType ==
  ASSUME NEW pcs
  PROVE  /\ IsFiniteSet(At(pcs)) /\ Count(pcs) \in Nat
         /\ Count(pcs) = 0 <=> At(pcs) = {}
<1>1. At(pcs) \subseteq Threads
  BY DEF At
<1> QED
  BY <1>1, ThreadsAssumption, FS_Subset, FS_CardinalityType, FS_EmptySet
  DEF Count

\* How a thread that moves on changes the number of threads at some places.
LEMMA Move ==
  ASSUME pc \in [Threads -> Places], NEW t \in Threads, NEW next,
         Goto(t, next), NEW pcs
  PROVE  Count(pcs)' = Count(pcs) - Weight(pc[t], pcs) + Weight(next, pcs)
<1>1. pc' = [pc EXCEPT ![t] = next]
  BY DEF Goto
<1>2. IsFiniteSet(At(pcs)) /\ Count(pcs) \in Nat
  BY CountType
<1>3. CASE pc[t] \in pcs /\ next \in pcs
  <2>1. At(pcs)' = At(pcs)
    BY <1>1, <1>3 DEF At
  <2> QED
    BY <1>2, <1>3, <2>1 DEF Count, Weight
<1>4. CASE pc[t] \notin pcs /\ next \notin pcs
  <2>1. At(pcs)' = At(pcs)
    BY <1>1, <1>4 DEF At
  <2> QED
    BY <1>2, <1>4, <2>1 DEF Count, Weight
<1>5. CASE pc[t] \in pcs /\ next \notin pcs
  <2>1. At(pcs)' = At(pcs) \ {t} /\ t \in At(pcs)
    BY <1>1, <1>5 DEF At
  <2>2. Cardinality(At(pcs) \ {t}) = Cardinality(At(pcs)) - 1
    BY <1>2, <2>1, FS_RemoveElement
  <2> QED
    BY <1>2, <1>5, <2>1, <2>2 DEF Count, Weight
<1>6. CASE pc[t] \notin pcs /\ next \in pcs
  <2>1. At(pcs)' = At(pcs) \cup {t} /\ t \notin At(pcs)
    BY <1>1, <1>6 DEF At
  <2>2. Cardinality(At(pcs) \cup {t}) = Cardinality(At(pcs)) + 1
    BY <1>2, <2>1, FS_AddElement
  <2> QED
    BY <1>2, <1>6, <2>1, <2>2 DEF Count, Weight
<1> QED
  BY <1>3, <1>4, <1>5, <1>6

\* A thread that is there is counted.
LEMMA CountedIfThere ==
  ASSUME NEW t \in Threads, NEW pcs, pc[t] \in pcs
  PROVE  Count(pcs) > 0
<1>1. At(pcs) # {}
  BY DEF At
<1> QED
  BY <1>1, CountType

LEMMA TokenTypes ==
  /\ PromisedSlots \in Nat /\ EmptiedSlots \in Nat
  /\ ClaimedElements \in Nat /\ FilledElements \in Nat
BY CountType
DEF PromisedSlots, EmptiedSlots, ClaimedElements, FilledElements

\* The effect of a step on the tokens that threads hold.
LEMMA MoveTokens ==
  ASSUME TypeOK, NEW t \in Threads, NEW next, Goto(t, next)
  PROVE  /\ PromisedSlots' = PromisedSlots
              - Weight(pc[t], {"pushTaken", "pushing"})
              + Weight(next, {"pushTaken", "pushing"})
         /\ EmptiedSlots' = EmptiedSlots
              - Weight(pc[t], {"popPost"}) + Weight(next, {"popPost"})
         /\ ClaimedElements' = ClaimedElements
              - Weight(pc[t], {"popTaken", "popping"})
              + Weight(next, {"popTaken", "popping"})
         /\ FilledElements' = FilledElements
              - Weight(pc[t], {"pushPost"}) + Weight(next, {"pushPost"})
<1>1. pc \in [Threads -> Places]
  BY DEF TypeOK, Places
<1> QED
  BY <1>1, Move
  DEF PromisedSlots, EmptiedSlots, ClaimedElements, FilledElements

\* Counters and the ring's length stay in range because tokens are conserved.
LEMMA RangesFromTokens ==
  ASSUME TokensConserved, number \in Int,
         blockOnFull \in Int, blockOnEmpty \in Int,
         number >= 0, blockOnFull >= 0, blockOnEmpty >= 0
  PROVE  number \in 0 .. N /\ blockOnFull \in 0 .. N /\ blockOnEmpty \in 0 .. N
BY TokenTypes, CapacityAssumption DEF TokensConserved

\* A thread that has its token finds room, or an element.
LEMMA TokenFacts ==
  ASSUME TypeOK, TokensConserved, NEW t \in Threads
  PROVE  /\ pc[t] \in {"pushTaken", "pushing"} => number < N
         /\ pc[t] \in {"popTaken", "popping"} => number > 0
         /\ pc[t] = "popPost" => blockOnFull < N
         /\ pc[t] = "pushPost" => blockOnEmpty < N
<1>1. /\ number \in Nat /\ blockOnFull \in Nat /\ blockOnEmpty \in Nat
      /\ N \in Nat /\ number <= N
  BY CapacityAssumption DEF TypeOK
<1>2. pc[t] \in {"pushTaken", "pushing"} => PromisedSlots > 0
  BY CountedIfThere DEF PromisedSlots
<1>3. pc[t] \in {"popTaken", "popping"} => ClaimedElements > 0
  BY CountedIfThere DEF ClaimedElements
<1>4. pc[t] = "popPost" => EmptiedSlots > 0
  BY CountedIfThere DEF EmptiedSlots
<1>5. pc[t] = "pushPost" => FilledElements > 0
  BY CountedIfThere DEF FilledElements
<1> QED
  BY <1>1, <1>2, <1>3, <1>4, <1>5, TokenTypes DEF TokensConserved

-----------------------------------------------------------------------------
(* The steps of a thread, by what they do to the mutex.                    *)

Quiet == {"out", "in", "late"} \cup Waits

\* A step that changes neither semaphore nor the ring's length keeps tokens.
LEMMA TokensStay ==
  ASSUME TypeOK, TokensConserved, NEW t \in Threads, NEW next,
         Goto(t, next), UNCHANGED <<blockOnEmpty, blockOnFull, number>>,
         \/ pc[t] = "pushTaken" /\ next = "pushing"
         \/ pc[t] = "popTaken" /\ next = "popping"
         \/ pc[t] \in Quiet /\ next \in Quiet
  PROVE  TokensConserved'
<1>1. /\ PromisedSlots' = PromisedSlots /\ EmptiedSlots' = EmptiedSlots
      /\ ClaimedElements' = ClaimedElements
      /\ FilledElements' = FilledElements
  BY MoveTokens, TokenTypes DEF Weight, Quiet, Waits
<1> QED
  BY <1>1 DEF TokensConserved

\* Outside the mutex nothing changes for those inside.
LEMMA StepOutside ==
  ASSUME Invariant, NEW t \in Threads, NEW next \in Places \ Inside,
         pc[t] \notin Inside, next # "failed", Goto(t, next), UNCHANGED owner
  PROVE  TokenIsGood' /\ InsideAlone'
<1>1. At(Inside)' = At(Inside) /\ At({"failed"})' \subseteq At({"failed"})
  BY DEF At, Goto, Invariant, TypeOK
<1> QED
  BY <1>1 DEF Invariant, TokenIsGood, InsideAlone

\* Taking the mutex.
LEMMA StepIn ==
  ASSUME Invariant, NEW t \in Threads, NEW next \in Inside,
         Goto(t, next), Lock(t)
  PROVE  TokenIsGood' /\ InsideAlone'
<1>1. At(Inside) = {}
  BY ThreadsAssumption DEF Invariant, InsideAlone, Lock, At
<1>2. At(Inside)' = {t} /\ At({"failed"})' \subseteq At({"failed"})
  BY <1>1 DEF At, Goto, Invariant, TypeOK, Inside
<1> QED
  BY <1>2 DEF Invariant, TokenIsGood, InsideAlone, Lock

\* Going on with the mutex.
LEMMA StepInside ==
  ASSUME Invariant, NEW t \in Threads, NEW next \in Inside,
         pc[t] \in Inside, Goto(t, next), UNCHANGED owner
  PROVE  TokenIsGood' /\ InsideAlone'
<1>1. At(Inside)' = At(Inside) /\ At({"failed"})' \subseteq At({"failed"})
  BY DEF At, Goto, Invariant, TypeOK, Inside
<1> QED
  BY <1>1 DEF Invariant, TokenIsGood, InsideAlone

\* Giving the mutex back.
LEMMA StepOut ==
  ASSUME Invariant, NEW t \in Threads, NEW next \in Places \ Inside,
         next # "failed", pc[t] \in Inside, Goto(t, next), Unlock(t)
  PROVE  TokenIsGood' /\ InsideAlone'
<1>1. At(Inside) = {t}
  BY ThreadsAssumption DEF Invariant, InsideAlone, Unlock, At
<1>2. At(Inside)' = {} /\ At({"failed"})' \subseteq At({"failed"})
  BY <1>1 DEF At, Goto, Invariant, TypeOK
<1> QED
  BY <1>2 DEF Invariant, TokenIsGood, InsideAlone, Unlock

-----------------------------------------------------------------------------
(* The invariant, action by action.                                        *)

LEMMA InitInvariant == Init => Invariant
<1> SUFFICES ASSUME Init PROVE Invariant
  OBVIOUS
<1>1. TypeOK
  BY ValuesAssumption, CapacityAssumption DEF Init, TypeOK
<1>2. \A pcs : "out" \notin pcs => Count(pcs) = 0
  BY CountType DEF At, Init
<1>3. TokensConserved
  BY <1>2, CapacityAssumption
  DEF TokensConserved, PromisedSlots, EmptiedSlots, ClaimedElements,
      FilledElements, Init
<1>4. TokenIsGood /\ InsideAlone
  BY DEF TokenIsGood, InsideAlone, At, Init, Inside
<1> QED
  BY <1>1, <1>3, <1>4 DEF Invariant

LEMMA AcquireStep ==
  ASSUME Invariant, NEW t \in Threads, Acquire(t)
  PROVE  Invariant'
<1>1. Goto(t, "in") /\ pc[t] = "out" /\ Lock(t)
      /\ UNCHANGED <<blockOnEmpty, blockOnFull, ring, value>>
  BY DEF Acquire
<1>2. TypeOK'
  BY <1>1 DEF Invariant, TypeOK, Goto, Lock, ring, Inside
<1>3. TokensConserved'
  BY <1>1, TokensStay DEF Invariant, Quiet, ring
<1> QED
  BY <1>1, <1>2, <1>3, StepIn DEF Invariant, Inside

LEMMA ReleaseStep ==
  ASSUME Invariant, NEW t \in Threads, Release(t)
  PROVE  Invariant'
<1>1. Goto(t, "out") /\ pc[t] = "in" /\ Unlock(t)
      /\ UNCHANGED <<blockOnEmpty, blockOnFull, ring, value>>
  BY DEF Release
<1>2. TypeOK'
  BY <1>1 DEF Invariant, TypeOK, Goto, Unlock, ring
<1>3. TokensConserved'
  BY <1>1, TokensStay DEF Invariant, Quiet, ring
<1>4. "out" \in Places \ Inside /\ "in" \in Inside
  BY DEF Places, Inside
<1> QED
  BY <1>1, <1>2, <1>3, <1>4, StepOut DEF Invariant

LEMMA PushStep ==
  ASSUME Invariant, NEW t \in Threads, NEW v \in Values, NEW wait \in Waits,
         Push(t, v, wait)
  PROVE  Invariant'
<1>1. Goto(t, wait) /\ pc[t] = "in" /\ Unlock(t)
      /\ value' = [value EXCEPT ![t] = v]
      /\ UNCHANGED <<blockOnEmpty, blockOnFull, ring>>
  BY DEF Push
<1>2. TypeOK'
  BY <1>1 DEF Invariant, TypeOK, Goto, Unlock, ring
<1>3. TokensConserved'
  BY <1>1, TokensStay DEF Invariant, Quiet, ring
<1>4. wait \in Places \ Inside /\ wait # "failed" /\ "in" \in Inside
  BY DEF Places, Inside, Waits
<1> QED
  BY <1>1, <1>2, <1>3, <1>4, StepOut DEF Invariant

LEMMA PopStep ==
  ASSUME Invariant, NEW t \in Threads, NEW wait \in Waits, Pop(t, wait)
  PROVE  Invariant'
<1>1. Goto(t, wait) /\ pc[t] = "in" /\ Unlock(t)
      /\ UNCHANGED <<blockOnEmpty, blockOnFull, ring, value>>
  BY DEF Pop
<1>2. TypeOK'
  BY <1>1 DEF Invariant, TypeOK, Goto, Unlock, ring
<1>3. TokensConserved'
  BY <1>1, TokensStay DEF Invariant, Quiet, ring
<1>4. wait \in Places \ Inside /\ wait # "failed" /\ "in" \in Inside
  BY DEF Places, Inside, Waits
<1> QED
  BY <1>1, <1>2, <1>3, <1>4, StepOut DEF Invariant

LEMMA TakeFullStep ==
  ASSUME Invariant, NEW t \in Threads, TakeFull(t)
  PROVE  Invariant'
<1>1. /\ Goto(t, "pushTaken") /\ pc[t] \in {"pushWait", "pushTimedWait"}
      /\ blockOnFull > 0 /\ blockOnFull' = blockOnFull - 1
      /\ UNCHANGED <<owner, blockOnEmpty, ring, value>>
  BY DEF TakeFull
<1>2. TypeOK'
  BY <1>1, CapacityAssumption DEF Invariant, TypeOK, Goto, ring, Relocks
<1>3. /\ PromisedSlots' = PromisedSlots + 1 /\ EmptiedSlots' = EmptiedSlots
      /\ ClaimedElements' = ClaimedElements
      /\ FilledElements' = FilledElements
  BY <1>1, MoveTokens, TokenTypes DEF Invariant, Weight
<1>4. TokensConserved'
  BY <1>1, <1>3, TokenTypes DEF Invariant, TypeOK, TokensConserved, ring
<1>5. "pushTaken" \in Places \ Inside /\ pc[t] \notin Inside
  BY <1>1 DEF Places, Inside, Relocks
<1> QED
  BY <1>1, <1>2, <1>4, <1>5, StepOutside DEF Invariant

LEMMA TakeEmptyStep ==
  ASSUME Invariant, NEW t \in Threads, TakeEmpty(t)
  PROVE  Invariant'
<1>1. /\ Goto(t, "popTaken") /\ pc[t] \in {"popWait", "popTimedWait"}
      /\ blockOnEmpty > 0 /\ blockOnEmpty' = blockOnEmpty - 1
      /\ UNCHANGED <<owner, blockOnFull, ring, value>>
  BY DEF TakeEmpty
<1>2. TypeOK'
  BY <1>1, CapacityAssumption DEF Invariant, TypeOK, Goto, ring, Relocks
<1>3. /\ PromisedSlots' = PromisedSlots /\ EmptiedSlots' = EmptiedSlots
      /\ ClaimedElements' = ClaimedElements + 1
      /\ FilledElements' = FilledElements
  BY <1>1, MoveTokens, TokenTypes DEF Invariant, Weight
<1>4. TokensConserved'
  BY <1>1, <1>3, TokenTypes DEF Invariant, TypeOK, TokensConserved, ring
<1>5. "popTaken" \in Places \ Inside /\ pc[t] \notin Inside
  BY <1>1 DEF Places, Inside, Relocks
<1> QED
  BY <1>1, <1>2, <1>4, <1>5, StepOutside DEF Invariant

LEMMA RelockStep ==
  ASSUME Invariant, NEW t \in Threads,
         RelockPush(t) \/ RelockPop(t) \/ RelockLate(t)
  PROVE  Invariant'
<1>1. PICK next \in {"pushing", "popping", "in"} :
        /\ Goto(t, next) /\ Lock(t)
        /\ UNCHANGED <<blockOnEmpty, blockOnFull, ring, value>>
        /\ \/ pc[t] = "pushTaken" /\ next = "pushing"
           \/ pc[t] = "popTaken" /\ next = "popping"
           \/ pc[t] = "late" /\ next = "in"
  BY DEF RelockPush, RelockPop, RelockLate
<1>2. next \in Inside
  BY DEF Inside
<1>3. TypeOK'
  BY <1>1, <1>2 DEF Invariant, TypeOK, Goto, Lock, ring
<1>4. TokensConserved'
  BY <1>1, TokensStay DEF Invariant, Quiet, ring
<1> QED
  BY <1>1, <1>2, <1>3, <1>4, StepIn DEF Invariant

LEMMA TimeOutStep ==
  ASSUME Invariant, NEW t \in Threads, TimeOut(t)
  PROVE  Invariant'
<1>1. /\ Goto(t, "late") /\ pc[t] \in {"pushTimedWait", "popTimedWait"}
      /\ UNCHANGED <<owner, blockOnEmpty, blockOnFull, ring, value>>
  BY DEF TimeOut
<1>2. TypeOK'
  BY <1>1 DEF Invariant, TypeOK, Goto, ring, Relocks
<1>3. TokensConserved'
  BY <1>1, TokensStay DEF Invariant, Quiet, ring, Waits
<1>4. "late" \in Places \ Inside /\ pc[t] \notin Inside
  BY <1>1 DEF Places, Inside, Relocks
<1> QED
  BY <1>1, <1>2, <1>3, <1>4, StepOutside DEF Invariant

LEMMA RingPushStep ==
  ASSUME Invariant, NEW t \in Threads, RingPush(t)
  PROVE  Invariant'
<1>1. pc[t] = "pushing" /\ number < N
  BY TokenFacts DEF RingPush, Invariant
<1>2. /\ Goto(t, "pushPost") /\ number' = number + 1
      /\ buffer' = [buffer EXCEPT ![currentIndex] = value[t]]
      /\ currentIndex' = IF currentIndex = N - 1 THEN 0 ELSE currentIndex + 1
      /\ UNCHANGED <<owner, blockOnEmpty, blockOnFull, value>>
  BY <1>1, CapacityAssumption DEF RingPush, Invariant, TypeOK
<1>3. /\ currentIndex' \in 0 .. N - 1 /\ number' \in 0 .. N
      /\ buffer' \in [0 .. N - 1 -> Values]
  BY <1>1, <1>2, CapacityAssumption DEF Invariant, TypeOK
<1>4. TypeOK'
  BY <1>2, <1>3 DEF Invariant, TypeOK, Goto, Inside
<1>5. /\ PromisedSlots' = PromisedSlots - 1 /\ EmptiedSlots' = EmptiedSlots
      /\ ClaimedElements' = ClaimedElements
      /\ FilledElements' = FilledElements + 1
  BY <1>1, <1>2, MoveTokens, TokenTypes DEF Invariant, Weight
<1>6. TokensConserved'
  BY <1>2, <1>5, TokenTypes DEF Invariant, TypeOK, TokensConserved
<1>7. "pushPost" \in Inside /\ pc[t] \in Inside
  BY <1>1 DEF Inside
<1> QED
  BY <1>2, <1>4, <1>6, <1>7, StepInside DEF Invariant

LEMMA RingPopStep ==
  ASSUME Invariant, NEW t \in Threads, RingPop(t)
  PROVE  Invariant'
<1>1. pc[t] = "popping" /\ number > 0
  BY TokenFacts DEF RingPop, Invariant
<1>2. /\ Goto(t, "popPost") /\ number' = number - 1
      /\ value' = [value EXCEPT ![t] = buffer[Oldest]]
      /\ UNCHANGED <<owner, blockOnEmpty, blockOnFull, buffer, currentIndex>>
  BY <1>1, CapacityAssumption DEF RingPop, Invariant, TypeOK
<1>3. number' \in 0 .. N /\ Oldest \in 0 .. N - 1
  BY <1>1, <1>2, CapacityAssumption DEF Invariant, TypeOK, Oldest
<1>4. TypeOK'
  BY <1>2, <1>3 DEF Invariant, TypeOK, Goto, Inside
<1>5. /\ PromisedSlots' = PromisedSlots /\ EmptiedSlots' = EmptiedSlots + 1
      /\ ClaimedElements' = ClaimedElements - 1
      /\ FilledElements' = FilledElements
  BY <1>1, <1>2, MoveTokens, TokenTypes DEF Invariant, Weight
<1>6. TokensConserved'
  BY <1>2, <1>5, TokenTypes DEF Invariant, TypeOK, TokensConserved
<1>7. "popPost" \in Inside /\ pc[t] \in Inside
  BY <1>1 DEF Inside
<1> QED
  BY <1>2, <1>4, <1>6, <1>7, StepInside DEF Invariant

LEMMA PostEmptyStep ==
  ASSUME Invariant, NEW t \in Threads, PostEmpty(t)
  PROVE  Invariant'
<1>1. /\ Goto(t, "in") /\ pc[t] = "pushPost"
      /\ blockOnEmpty' = blockOnEmpty + 1 /\ blockOnEmpty < N
      /\ UNCHANGED <<owner, blockOnFull, ring, value>>
  BY TokenFacts DEF PostEmpty, Invariant
<1>2. TypeOK'
  BY <1>1, CapacityAssumption DEF Invariant, TypeOK, Goto, ring, Inside
<1>3. /\ PromisedSlots' = PromisedSlots /\ EmptiedSlots' = EmptiedSlots
      /\ ClaimedElements' = ClaimedElements
      /\ FilledElements' = FilledElements - 1
  BY <1>1, MoveTokens, TokenTypes DEF Invariant, Weight
<1>4. TokensConserved'
  BY <1>1, <1>3, TokenTypes DEF Invariant, TypeOK, TokensConserved, ring
<1>5. "in" \in Inside /\ pc[t] \in Inside
  BY <1>1 DEF Inside
<1> QED
  BY <1>1, <1>2, <1>4, <1>5, StepInside DEF Invariant

LEMMA PostFullStep ==
  ASSUME Invariant, NEW t \in Threads, PostFull(t)
  PROVE  Invariant'
<1>1. /\ Goto(t, "in") /\ pc[t] = "popPost"
      /\ blockOnFull' = blockOnFull + 1 /\ blockOnFull < N
      /\ UNCHANGED <<owner, blockOnEmpty, ring, value>>
  BY TokenFacts DEF PostFull, Invariant
<1>2. TypeOK'
  BY <1>1, CapacityAssumption DEF Invariant, TypeOK, Goto, ring, Inside
<1>3. /\ PromisedSlots' = PromisedSlots /\ EmptiedSlots' = EmptiedSlots - 1
      /\ ClaimedElements' = ClaimedElements
      /\ FilledElements' = FilledElements
  BY <1>1, MoveTokens, TokenTypes DEF Invariant, Weight
<1>4. TokensConserved'
  BY <1>1, <1>3, TokenTypes DEF Invariant, TypeOK, TokensConserved, ring
<1>5. "in" \in Inside /\ pc[t] \in Inside
  BY <1>1 DEF Inside
<1> QED
  BY <1>1, <1>2, <1>4, <1>5, StepInside DEF Invariant

LEMMA StutterStep ==
  ASSUME Invariant, UNCHANGED vars
  PROVE  Invariant'
BY DEF vars, ring, Invariant, TypeOK, TokensConserved, TokenIsGood,
       InsideAlone, PromisedSlots, EmptiedSlots, ClaimedElements,
       FilledElements, Count, At

LEMMA InvariantStep ==
  ASSUME Invariant, [Next]_vars
  PROVE  Invariant'
<1>1. CASE UNCHANGED vars
  BY <1>1, StutterStep
<1>2. CASE Next
  <2>1. PICK t \in Threads :
          \/ Acquire(t) \/ Call(t) \/ Pushing(t) \/ Popping(t)
          \/ TimeOut(t) \/ RelockLate(t)
    BY <1>2 DEF Next
  <2>2. CASE Call(t)
    BY <2>2, ReleaseStep, PushStep, PopStep DEF Call
  <2>3. CASE Pushing(t)
    BY <2>3, TakeFullStep, RelockStep, RingPushStep, PostEmptyStep DEF Pushing
  <2>4. CASE Popping(t)
    BY <2>4, TakeEmptyStep, RelockStep, RingPopStep, PostFullStep DEF Popping
  <2> QED
    BY <2>1, <2>2, <2>3, <2>4, AcquireStep, TimeOutStep, RelockStep
<1> QED
  BY <1>1, <1>2

THEOREM InvariantHolds == Spec => []Invariant
<1>1. Init => Invariant
  BY InitInvariant
<1>2. Invariant /\ [Next]_vars => Invariant'
  BY InvariantStep
<1> QED
  BY <1>1, <1>2, PTL DEF Spec

-----------------------------------------------------------------------------
(* What follows from the invariant.                                        *)

\* Types: in particular no semaphore ever counts beyond the capacity.
THEOREM TypeCorrect == Spec => []TypeOK
<1>1. Invariant => TypeOK
  BY DEF Invariant
<1> QED
  BY <1>1, InvariantHolds, PTL

\* No slot and no element is lost or counted twice, whoever times out.
THEOREM TokensCorrect == Spec => []TokensConserved
<1>1. Invariant => TokensConserved
  BY DEF Invariant
<1> QED
  BY <1>1, InvariantHolds, PTL

\* The assertions in push and pop never fire.
THEOREM NoAssertionFires == Spec => []TokenIsGood
<1>1. Invariant => TokenIsGood
  BY DEF Invariant
<1> QED
  BY <1>1, InvariantHolds, PTL

\* The ring buffer is touched by one thread at a time.
THEOREM MutualExclusion == Spec => []InsideAlone
<1>1. Invariant => InsideAlone
  BY DEF Invariant
<1> QED
  BY <1>1, InvariantHolds, PTL

\* Pushing and popping threads never wait for each other at the same time.
THEOREM NoMutualBlocking == Spec => []BlockedForAReason
<1>1. ASSUME Invariant, At(Waits \cup {"out"}) = Threads
      PROVE  /\ blockOnFull = 0 => number = N
             /\ blockOnEmpty = 0 => number = 0
             /\ blockOnFull > 0 \/ blockOnEmpty > 0
  <2>1. \A pcs : pcs \cap (Waits \cup {"out"}) = {} => Count(pcs) = 0
    BY <1>1, CountType DEF At
  <2>2. /\ PromisedSlots = 0 /\ EmptiedSlots = 0
        /\ ClaimedElements = 0 /\ FilledElements = 0
    BY <2>1 DEF PromisedSlots, EmptiedSlots, ClaimedElements, FilledElements,
                Waits
  <2> QED
    BY <1>1, <2>2, CapacityAssumption DEF Invariant, TypeOK, TokensConserved
<1>2. Invariant => BlockedForAReason
  BY <1>1 DEF BlockedForAReason
<1> QED
  BY <1>2, InvariantHolds, PTL

-----------------------------------------------------------------------------
(* rtos::Queue implements a bounded first-in first-out queue.              *)

\* The slots in use are distinct, and none is the one that is written next
\* unless the buffer is full.
LEMMA SlotFacts ==
  ASSUME TypeOK
  PROVE  /\ Oldest \in 0 .. N - 1
         /\ \A i \in 1 .. N : Slot(i) \in 0 .. N - 1
         /\ number < N => /\ Slot(number + 1) = currentIndex
                          /\ \A i \in 1 .. number : Slot(i) # currentIndex
         /\ number > 0 => Slot(1) = Oldest
BY CapacityAssumption DEF TypeOK, Oldest, Slot

LEMMA ContentType ==
  ASSUME TypeOK
  PROVE  Content \in Seq(Values) /\ Len(Content) = number
<1>1. number \in Nat /\ number <= N
  BY CapacityAssumption DEF TypeOK
<1>2. \A i \in 1 .. number : buffer[Slot(i)] \in Values
  BY <1>1, SlotFacts, CapacityAssumption DEF TypeOK
<1> QED
  BY <1>1, <1>2 DEF Content

\* A write at the current index appends to the content.
LEMMA WriteAppends ==
  ASSUME TypeOK, TypeOK', number < N, NEW v \in Values, number' = number + 1,
         buffer' = [buffer EXCEPT ![currentIndex] = v],
         currentIndex' = IF currentIndex = N - 1 THEN 0 ELSE currentIndex + 1
  PROVE  Content' = Append(Content, v)
<1>1. /\ number \in Nat /\ N \in Nat /\ currentIndex \in 0 .. N - 1
      /\ buffer \in [0 .. N - 1 -> Values]
  BY CapacityAssumption DEF TypeOK
<1>2. Oldest' = Oldest
  BY <1>1, CapacityAssumption DEF Oldest
<1>3. ASSUME NEW i \in 1 .. number + 1 PROVE Slot(i)' = Slot(i)
  BY <1>2 DEF Slot
<1>4. ASSUME NEW i \in 1 .. number PROVE buffer'[Slot(i)'] = buffer[Slot(i)]
  <2>1. Slot(i) \in 0 .. N - 1 /\ Slot(i) # currentIndex /\ Slot(i)' = Slot(i)
    BY <1>1, <1>3, SlotFacts
  <2> QED
    BY <1>1, <2>1
<1>5. ASSUME NEW i, i = number + 1 PROVE buffer'[Slot(i)'] = v
  <2>1. Slot(i)' = currentIndex
    BY <1>1, <1>3, <1>5, SlotFacts
  <2> QED
    BY <1>1, <2>1
<1>6. /\ Content \in Seq(Values) /\ Len(Content) = number
      /\ \A i \in 1 .. number : Content[i] = buffer[Slot(i)]
  BY ContentType DEF Content
<1>7. ASSUME NEW i \in 1 .. number + 1
      PROVE  buffer'[Slot(i)'] = Append(Content, v)[i]
  <2>1. CASE i = number + 1
    BY <1>5, <1>6, <2>1
  <2>2. CASE i \in 1 .. number
    BY <1>4, <1>6, <2>2
  <2>3. i = number + 1 \/ i \in 1 .. number
    BY <1>1
  <2> QED
    BY <2>1, <2>2, <2>3
<1>8. Content' = [i \in 1 .. number + 1 |-> Append(Content, v)[i]]
  BY <1>7 DEF Content
<1> HIDE DEF Content
<1> QED
  BY <1>1, <1>6, <1>8

LEMMA SequenceIsFunction ==
  ASSUME NEW S, NEW s \in Seq(S)
  PROVE  s = [i \in 1 .. Len(s) |-> s[i]]
OBVIOUS

\* A read at the oldest slot takes the head of the content.
LEMMA ReadTakesHead ==
  ASSUME TypeOK, TypeOK', number > 0, number' = number - 1,
         UNCHANGED <<buffer, currentIndex>>
  PROVE  /\ Content # <<>>
         /\ buffer[Oldest] = Head(Content)
         /\ Content' = Tail(Content)
<1>1. /\ number \in Nat /\ N \in Nat /\ currentIndex \in 0 .. N - 1
      /\ number <= N
  BY CapacityAssumption DEF TypeOK
<1>2. ASSUME NEW i \in 1 .. number - 1 PROVE Slot(i)' = Slot(i + 1)
  BY <1>1 DEF Slot, Oldest
<1>3. /\ Content \in Seq(Values) /\ Len(Content) = number
      /\ \A i \in 1 .. number : Content[i] = buffer[Slot(i)]
  BY ContentType DEF Content
<1>4. Content # <<>> /\ Head(Content) = buffer[Oldest]
  BY <1>1, <1>3, SlotFacts
<1>5. ASSUME NEW i \in 1 .. number - 1
      PROVE  buffer[Slot(i)'] = Tail(Content)[i]
  BY <1>1, <1>2, <1>3, <1>4
<1>6. Content' = [i \in 1 .. number - 1 |-> Tail(Content)[i]]
  BY <1>5 DEF Content
<1> HIDE DEF Content
<1>7. Tail(Content) \in Seq(Values) /\ Len(Tail(Content)) = number - 1
  BY <1>1, <1>3, <1>4
<1>8. Tail(Content) = [i \in 1 .. Len(Tail(Content)) |-> Tail(Content)[i]]
  BY <1>7, SequenceIsFunction
<1>9. Content' = Tail(Content)
  BY <1>6, <1>7, <1>8
<1> QED
  BY <1>4, <1>9

LEMMA InitRefines == Init => Abstract!Init
<1> SUFFICES ASSUME Init PROVE Abstract!Init
  OBVIOUS
<1>1. Content = <<>>
  BY DEF Init, Content
<1>2. value \in [Threads -> Values]
  BY ValuesAssumption DEF Init
<1> QED
  BY <1>1, <1>2 DEF Abstract!Init

\* Storing the element is the put.
LEMMA RingPushRefines ==
  ASSUME Invariant, Invariant', NEW t \in Threads, RingPush(t)
  PROVE  Abstract!Put(t)
<1>1. TypeOK /\ TypeOK' /\ pc[t] = "pushing" /\ number < N
      /\ value[t] \in Values
  BY TokenFacts DEF RingPush, Invariant, TypeOK
<1>2. /\ number' = number + 1 /\ UNCHANGED value
      /\ buffer' = [buffer EXCEPT ![currentIndex] = value[t]]
      /\ currentIndex' = IF currentIndex = N - 1 THEN 0 ELSE currentIndex + 1
  BY <1>1, CapacityAssumption DEF RingPush, TypeOK
<1>3. PICK v \in Values : v = value[t]
  BY <1>1
<1>4. Content' = Append(Content, v)
  BY <1>1, <1>2, <1>3, WriteAppends
<1>5. Len(Content) < N
  BY <1>1, ContentType
<1> QED
  BY <1>2, <1>3, <1>4, <1>5 DEF Abstract!Put

\* Reading the element is the get.
LEMMA RingPopRefines ==
  ASSUME Invariant, Invariant', NEW t \in Threads, RingPop(t)
  PROVE  Abstract!Get(t)
<1>1. TypeOK /\ TypeOK' /\ pc[t] = "popping" /\ number > 0
  BY TokenFacts DEF RingPop, Invariant
<1>2. /\ number' = number - 1
      /\ value' = [value EXCEPT ![t] = buffer[Oldest]]
      /\ UNCHANGED <<buffer, currentIndex>>
  BY <1>1, CapacityAssumption DEF RingPop, TypeOK
<1>3. /\ Content # <<>> /\ buffer[Oldest] = Head(Content)
      /\ Content' = Tail(Content)
  BY <1>1, <1>2, ReadTakesHead
<1> QED
  BY <1>2, <1>3 DEF Abstract!Get

LEMMA SameRing == ASSUME UNCHANGED ring PROVE Content' = Content
BY DEF ring, Content, Slot, Oldest

LEMMA PushRefines ==
  ASSUME NEW t \in Threads, NEW v \in Values, NEW wait, Push(t, v, wait)
  PROVE  Abstract!Assign(t)
BY SameRing DEF Push, Abstract!Assign

\* Every step of the queue is a step of BlockingQueue, or none.
LEMMA StepRefines ==
  ASSUME Invariant, Invariant', [Next]_vars
  PROVE  [Abstract!Next]_(Abstract!vars)
<1>1. CASE UNCHANGED vars
  BY <1>1, SameRing DEF vars, Abstract!vars
<1>2. CASE Next
  <2>1. PICK t \in Threads :
          \/ Acquire(t) \/ Call(t) \/ Pushing(t) \/ Popping(t)
          \/ TimeOut(t) \/ RelockLate(t)
    BY <1>2 DEF Next
  <2>2. CASE RingPush(t)
    BY <2>2, RingPushRefines DEF Abstract!Next
  <2>3. CASE RingPop(t)
    BY <2>3, RingPopRefines DEF Abstract!Next
  <2>4. CASE \E v \in Values : \E wait \in Waits : Push(t, v, wait)
    BY <2>4, PushRefines DEF Abstract!Next
  <2>5. CASE \/ Acquire(t) \/ Release(t) \/ TimeOut(t) \/ RelockLate(t)
             \/ \E wait \in Waits : Pop(t, wait)
    <3>1. UNCHANGED <<ring, value>>
      BY <2>5 DEF Acquire, Release, TimeOut, RelockLate, Pop
    <3> QED
      BY <3>1, SameRing DEF Abstract!vars
  <2>6. CASE \/ TakeFull(t) \/ RelockPush(t) \/ PostEmpty(t)
             \/ TakeEmpty(t) \/ RelockPop(t) \/ PostFull(t)
    <3>1. UNCHANGED <<ring, value>>
      BY <2>6 DEF TakeFull, RelockPush, PostEmpty, TakeEmpty, RelockPop,
                  PostFull
    <3> QED
      BY <3>1, SameRing DEF Abstract!vars
  <2> QED
    BY <2>1, <2>2, <2>3, <2>4, <2>5, <2>6 DEF Call, Pushing, Popping
<1> QED
  BY <1>1, <1>2

\* Each value that is pushed is popped once, in order, and never more than N
\* are in between.
THEOREM ImplementsBlockingQueueEver == Spec => ImplementsBlockingQueue
<1>1. Init => Abstract!Init
  BY InitRefines
<1>2. Invariant /\ Invariant' /\ [Next]_vars
        => [Abstract!Next]_(Abstract!vars)
  BY StepRefines
<1> QED
  BY <1>1, <1>2, InvariantHolds, PTL
  DEF Spec, ImplementsBlockingQueue, Abstract!Spec

-----------------------------------------------------------------------------
(* What MutexGivenBack rests on.                                           *)

\* How many steps a thread with the mutex takes before it gives it back.
StepsLeft(t) ==
  CASE pc[t] \in {"pushing", "popping"} -> 3
    [] pc[t] \in {"pushPost", "popPost"} -> 2
    [] pc[t] = "in" -> 1
    [] OTHER -> 0

HolderHasSteps == \A t \in Threads : owner = t => StepsLeft(t) > 0

HolderGoesOn ==
  [][\A t \in Threads : owner = t =>
       \/ owner' = Nobody
       \/ owner' = t /\ pc'[t] = pc[t]
       \/ owner' = t /\ StepsLeft(t)' < StepsLeft(t)]_vars

LEMMA HolderStep ==
  ASSUME Invariant, Invariant', [Next]_vars, NEW t \in Threads, owner = t
  PROVE  \/ owner' = Nobody
         \/ owner' = t /\ pc'[t] = pc[t]
         \/ owner' = t /\ StepsLeft(t)' < StepsLeft(t)
<1>1. owner # Nobody /\ pc[t] \in Inside
  BY ThreadsAssumption DEF Invariant, InsideAlone, At
<1>2. CASE UNCHANGED vars
  BY <1>2 DEF vars
<1>3. ASSUME NEW u \in Threads,
             \/ Acquire(u) \/ RelockPush(u) \/ RelockPop(u) \/ RelockLate(u)
      PROVE  FALSE
  BY <1>1, <1>3 DEF Acquire, RelockPush, RelockPop, RelockLate, Lock
<1>4. ASSUME NEW u \in Threads,
             \/ Release(u)
             \/ \E v \in Values : \E wait \in Waits : Push(u, v, wait)
             \/ \E wait \in Waits : Pop(u, wait)
      PROVE  owner' = Nobody
  BY <1>4 DEF Release, Push, Pop, Unlock
<1>5. ASSUME NEW u \in Threads, TakeFull(u) \/ TakeEmpty(u) \/ TimeOut(u)
      PROVE  owner' = t /\ pc'[t] = pc[t]
  <2>1. pc[u] \in Waits /\ owner' = owner
    BY <1>5 DEF TakeFull, TakeEmpty, TimeOut, Waits
  <2>2. u # t
    BY <1>1, <2>1 DEF Waits, Inside
  <2> QED
    BY <1>5, <2>1, <2>2 DEF TakeFull, TakeEmpty, TimeOut, Goto, Invariant, TypeOK
<1>6. ASSUME NEW u \in Threads,
             RingPush(u) \/ PostEmpty(u) \/ RingPop(u) \/ PostFull(u)
      PROVE  owner' = t /\ StepsLeft(t)' < StepsLeft(t)
  <2>1. pc[u] \in Inside /\ owner' = owner
    BY <1>6 DEF RingPush, PostEmpty, RingPop, PostFull, Inside
  <2>2. u = t
    BY <2>1 DEF Invariant, InsideAlone, At
  <2>3. pc'[t] # "failed"
    BY DEF Invariant, TokenIsGood, At
  <2>4. \/ pc[t] \in {"pushing", "popping"} /\ pc'[t] \in {"pushPost", "popPost"}
        \/ pc[t] \in {"pushPost", "popPost"} /\ pc'[t] = "in"
    BY <1>6, <2>2, <2>3
    DEF RingPush, PostEmpty, RingPop, PostFull, Goto, Invariant, TypeOK
  <2> QED
    BY <2>1, <2>4 DEF StepsLeft
<1> QED
  BY <1>2, <1>3, <1>4, <1>5, <1>6 DEF Next, Call, Pushing, Popping

\* A thread holds the mutex for three of its steps at most, whatever the others
\* do meanwhile, and has one to take as long as it holds it.
THEOREM MutexIsHeldShortly == Spec => []HolderHasSteps /\ HolderGoesOn
<1>1. Invariant => HolderHasSteps
  <2> SUFFICES ASSUME Invariant, NEW t \in Threads, owner = t
               PROVE  StepsLeft(t) > 0
    BY DEF HolderHasSteps
  <2>1. pc[t] \in Inside
    BY ThreadsAssumption DEF Invariant, InsideAlone, At
  <2> QED
    BY <2>1 DEF Inside, StepsLeft
<1>2. Invariant /\ Invariant' /\ [Next]_vars =>
        [\A t \in Threads : owner = t =>
           \/ owner' = Nobody
           \/ owner' = t /\ pc'[t] = pc[t]
           \/ owner' = t /\ StepsLeft(t)' < StepsLeft(t)]_vars
  BY HolderStep
<1> QED
  BY <1>1, <1>2, InvariantHolds, PTL DEF Spec, HolderGoesOn

=============================================================================
