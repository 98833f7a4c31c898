------------------------- MODULE SimulatedRtosProofs -------------------------
(***************************************************************************)
(* Proofs about SimulatedRtos, for any finite set of threads, any          *)
(* semaphores, mutexes and timeouts, and any length of the test.           *)
(***************************************************************************)
EXTENDS SimulatedRtosProperties, FiniteSetTheorems, TLAPS

OneRuns ==
  \A t, u \in Threads : state[t] = "running" /\ state[u] = "running" => t = u

\* The list of a semaphore has its waiters, each at one place, and there is no
\* token that they could have.
ListInv(s) ==
  LET those == waitingList[s] IN
  /\ \A i, j \in 1 .. Len(those) : those[i] = those[j] => i = j
  /\ \A t \in Threads :
       (\E i \in 1 .. Len(those) : those[i] = t) <=> t \in Waiters(s)
  /\ count[s] > 0 => those = <<>>

\* Who waits sleeps until it is woken or its time is over, which is when it
\* runs again.
ThreadInv(t) ==
  /\ waitsFor[t] # NoSemaphore =>
       state[t] \in {"running", IF wakeUpEvent[t] THEN "woken" ELSE "sleeping"}
  /\ state[t] = "sleeping" => now <= deadline[t]
  /\ waitsFor[t] # NoSemaphore /\ ~wakeUpEvent[t] =>
       end[t] = (IF state[t] = "sleeping" THEN deadline[t] ELSE now)
  /\ waitsFor[t] = NoSemaphore => end[t] = 0

\* The token of a mutex is in its semaphore, or with the thread that holds the
\* mutex, or with one that was woken and has not run yet.
MutexInv(m) ==
  /\ \A t, u \in owner[m] : t = u
  /\ \A t, u \in Granted(m) : t = u
  /\ count[m] \in {0, 1}
  /\ count[m] = 1 => owner[m] = {} /\ Granted(m) = {}
  /\ owner[m] # {} => Granted(m) = {}
  /\ m \in acquired <=> owner[m] # {}

Inv ==
  /\ TypeOK
  /\ ~failed
  /\ OneRuns
  /\ \A s \in Semaphores : ListInv(s)
  /\ \A t \in Threads : ThreadInv(t)
  /\ \A m \in Mutexes : MutexInv(m)

-----------------------------------------------------------------------------
(* Lists.                                                                  *)

\* prepend()
LEMMA PrependFacts ==
  ASSUME NEW S, NEW l \in Seq(S), NEW x \in S
  PROVE  /\ <<x>> \o l \in Seq(S)
         /\ Len(<<x>> \o l) = Len(l) + 1
         /\ (<<x>> \o l)[1] = x
         /\ \A i \in 1 .. Len(l) : (<<x>> \o l)[i + 1] = l[i]
         /\ \A i \in 2 .. Len(l) + 1 : (<<x>> \o l)[i] = l[i - 1]
OBVIOUS

\* removeFirst()
LEMMA TailFacts ==
  ASSUME NEW S, NEW l \in Seq(S), l # <<>>
  PROVE  /\ Head(l) = l[1] /\ Head(l) \in S
         /\ Len(l) \in Nat \ {0}
         /\ Tail(l) \in Seq(S)
         /\ Len(Tail(l)) = Len(l) - 1
         /\ \A i \in 1 .. Len(l) - 1 : Tail(l)[i] = l[i + 1]
OBVIOUS

\* remove(): what is at a place k, and only there.
LEMMA RemoveFacts ==
  ASSUME NEW S, NEW l \in Seq(S), NEW k \in 1 .. Len(l),
         \A i \in 1 .. Len(l) : l[i] = l[k] => i = k
  PROVE  LET rest == RemoveFirst(l, l[k]) IN
         /\ rest \in Seq(S)
         /\ Len(rest) = Len(l) - 1
         /\ \A i \in 1 .. Len(l) - 1 :
              rest[i] = IF i < k THEN l[i] ELSE l[i + 1]
<1> DEFINE I == {i \in 1 .. Len(l) : l[i] = l[k]}
<1>1. I = {k}
  OBVIOUS
<1>2. Min({k}) = k
  BY DEF Min
<1>3. SelectInSeq(l, LAMBDA v : v = l[k]) = k
  <2>1. SelectInSeq(l, LAMBDA v : v = l[k]) = IF I # {} THEN Min(I) ELSE 0
    BY DEF SelectInSeq
  <2> QED
    BY <2>1, <1>1, <1>2
<1>4. RemoveFirst(l, l[k]) = RemoveAt(l, k)
  BY <1>3 DEF RemoveFirst
<1>5. /\ SubSeq(l, 1, k - 1) \in Seq(S) /\ Len(SubSeq(l, 1, k - 1)) = k - 1
      /\ \A i \in 1 .. k - 1 : SubSeq(l, 1, k - 1)[i] = l[i]
  OBVIOUS
<1>6. /\ SubSeq(l, k + 1, Len(l)) \in Seq(S)
      /\ Len(SubSeq(l, k + 1, Len(l))) = Len(l) - k
      /\ \A i \in 1 .. Len(l) - k : SubSeq(l, k + 1, Len(l))[i] = l[k + i]
  OBVIOUS
<1> DEFINE front == SubSeq(l, 1, k - 1)
           back == SubSeq(l, k + 1, Len(l))
<1>7. RemoveAt(l, k) = front \o back
  BY DEF RemoveAt
<1> HIDE DEF front, back
<1>8. /\ front \o back \in Seq(S)
      /\ Len(front \o back) = Len(l) - 1
      /\ \A i \in 1 .. Len(l) - 1 :
           (front \o back)[i] = IF i < k THEN front[i] ELSE back[i - (k - 1)]
  <2>1. front \in Seq(S) /\ back \in Seq(S)
    BY <1>5, <1>6 DEF front, back
  <2>2. Len(front) = k - 1 /\ Len(back) = Len(l) - k
    BY <1>5, <1>6 DEF front, back
  <2>3. k - 1 + (Len(l) - k) = Len(l) - 1
    OBVIOUS
  <2>4. Len(front \o back) = Len(l) - 1
    <3>1. Len(front \o back) = Len(front) + Len(back)
      BY <2>1
    <3> QED
      BY <3>1, <2>2, <2>3
  <2>5. ASSUME NEW i \in 1 .. Len(l) - 1
        PROVE  (front \o back)[i] = IF i < k THEN front[i]
                                             ELSE back[i - (k - 1)]
    <3>1. i \in 1 .. Len(front) + Len(back)
      BY <2>2, <2>3
    <3>2. i < k <=> i <= Len(front)
      BY <2>2
    <3>3. (front \o back)[i] = IF i <= Len(front) THEN front[i]
                                                 ELSE back[i - Len(front)]
      BY <2>1, <3>1
    <3> QED
      BY <2>2, <3>2, <3>3
  <2> QED
    BY <2>1, <2>4, <2>5
<1>9. \A i \in 1 .. Len(l) - 1 : i >= k => back[i - (k - 1)] = l[i + 1]
  <2> TAKE i \in 1 .. Len(l) - 1
  <2> HAVE i >= k
  <2>1. i - (k - 1) \in 1 .. Len(l) - k /\ k + (i - (k - 1)) = i + 1
    OBVIOUS
  <2> QED
    BY <2>1, <1>6 DEF back
<1>10. \A i \in 1 .. Len(l) - 1 : i < k => front[i] = l[i]
  BY <1>5 DEF front
<1> QED
  BY <1>4, <1>7, <1>8, <1>9, <1>10

\* A list of distinct elements is as long as the set of them.
LEMMA LengthIsCardinality ==
  ASSUME NEW S, NEW l \in Seq(S), NEW W \in SUBSET S,
         \A i, j \in 1 .. Len(l) : l[i] = l[j] => i = j,
         \A t \in S : (\E i \in 1 .. Len(l) : l[i] = t) <=> t \in W
  PROVE  Len(l) = Cardinality(W)
<1>1. Len(l) \in Nat /\ DOMAIN l = 1 .. Len(l)
  OBVIOUS
<1>2. \A i \in 1 .. Len(l) : l[i] \in W
  OBVIOUS
<1>3. l \in Bijection(1 .. Len(l), W)
  <2>1. l \in [1 .. Len(l) -> W]
    BY <1>1, <1>2
  <2>2. IsInjective(l)
    BY <1>1 DEF IsInjective
  <2>3. \A t \in W : \E i \in 1 .. Len(l) : l[i] = t
    OBVIOUS
  <2> QED
    BY <2>1, <2>2, <2>3 DEF Bijection, Injection, Surjection
<1>4. ExistsBijection(1 .. Len(l), W)
  BY <1>3 DEF ExistsBijection
<1> QED
  BY <1>1, <1>4, FS_CountingElements

-----------------------------------------------------------------------------
(* What a step does to the lists, from what it does to those who wait.     *)

LEMMA ListType ==
  ASSUME TypeOK, NEW s \in Semaphores
  PROVE  /\ waitingList[s] \in Seq(Threads)
         /\ Len(waitingList[s]) \in Nat
         /\ count[s] \in Nat
         /\ Waiters(s) \subseteq Threads /\ Granted(s) \subseteq Threads
BY DEF TypeOK, Waiters, Granted

LEMMA SameList ==
  ASSUME NEW s \in Semaphores, ListInv(s), Waiters(s)' = Waiters(s),
         waitingList'[s] = waitingList[s], count'[s] = count[s]
  PROVE  ListInv(s)'
BY DEF ListInv

LEMMA NewList ==
  ASSUME NEW s \in Semaphores, NEW l, waitingList'[s] = l, count'[s] = 0,
         \A i, j \in 1 .. Len(l) : l[i] = l[j] => i = j,
         \A t \in Threads :
           (\E i \in 1 .. Len(l) : l[i] = t) <=> t \in Waiters(s)'
  PROVE  ListInv(s)'
BY DEF ListInv

LEMMA LongerList ==
  ASSUME TypeOK, NEW s \in Semaphores, ListInv(s),
         NEW t \in Threads, t \notin Waiters(s), Waiters(s)' = Waiters(s) \cup {t},
         NEW more, waitingList'[s] = more, count'[s] = 0,
         Len(more) = Len(waitingList[s]) + 1,
         more[1] = t,
         \A i \in 1 .. Len(waitingList[s]) : more[i + 1] = waitingList[s][i],
         \A i \in 2 .. Len(waitingList[s]) + 1 : more[i] = waitingList[s][i - 1]
  PROVE  ListInv(s)'
<1> DEFINE l == waitingList[s]
<1>1. /\ l \in Seq(Threads) /\ Len(l) \in Nat
      /\ \A i, j \in 1 .. Len(l) : l[i] = l[j] => i = j
      /\ \A x \in Threads : (\E i \in 1 .. Len(l) : l[i] = x) <=> x \in Waiters(s)
  BY ListType DEF ListInv
<1>2. /\ Len(more) = Len(l) + 1 /\ more[1] = t
      /\ \A i \in 1 .. Len(l) : more[i + 1] = l[i]
      /\ \A i \in 2 .. Len(l) + 1 : more[i] = l[i - 1]
  OBVIOUS
<1> HIDE DEF l
<1>3. \A i \in 2 .. Len(more) :
        i - 1 \in 1 .. Len(l) /\ more[i] = l[i - 1] /\ more[i] # t
  BY <1>1, <1>2
<1>4. \A i \in 1 .. Len(more) : i = 1 \/ i \in 2 .. Len(more)
  BY <1>1, <1>2
<1>5. ASSUME NEW i \in 1 .. Len(more), NEW j \in 1 .. Len(more),
             more[i] = more[j]
      PROVE  i = j
  <2>1. CASE i = 1 \/ j = 1
    BY <2>1, <1>2, <1>3, <1>4, <1>5
  <2>2. CASE i # 1 /\ j # 1
    <3>1. l[i - 1] = l[j - 1] /\ i - 1 \in 1 .. Len(l) /\ j - 1 \in 1 .. Len(l)
      BY <2>2, <1>3, <1>4, <1>5
    <3>2. i - 1 = j - 1
      BY <3>1, <1>1
    <3> QED
      BY <3>2, <1>1, <1>2
  <2> QED
    BY <2>1, <2>2
<1>6. ASSUME NEW x \in Threads
      PROVE  (\E i \in 1 .. Len(more) : more[i] = x)
               <=> x = t \/ (\E i \in 1 .. Len(l) : l[i] = x)
  <2>1. ASSUME NEW i \in 1 .. Len(more), more[i] = x
        PROVE  x = t \/ (\E j \in 1 .. Len(l) : l[j] = x)
    BY <2>1, <1>2, <1>3, <1>4
  <2>2. ASSUME NEW i \in 1 .. Len(l), l[i] = x
        PROVE  \E j \in 1 .. Len(more) : more[j] = x
    <3>1. i + 1 \in 1 .. Len(more) /\ more[i + 1] = x
      BY <2>2, <1>1, <1>2
    <3> QED
      BY <3>1
  <2>3. 1 \in 1 .. Len(more)
    BY <1>1, <1>2
  <2> QED
    BY <2>1, <2>2, <2>3, <1>2
<1>7. waitingList'[s] = more
  OBVIOUS
<1>8. ASSUME NEW x \in Threads
      PROVE  (\E i \in 1 .. Len(more) : more[i] = x) <=> x \in Waiters(s)'
  BY <1>1, <1>6
<1>9. \A i, j \in 1 .. Len(more) : more[i] = more[j] => i = j
  BY <1>5
<1> QED
  BY <1>7, <1>8, <1>9, NewList

LEMMA WithoutFirst ==
  ASSUME TypeOK, NEW s \in Semaphores, ListInv(s), waitingList[s] # <<>>,
         Waiters(s)' = Waiters(s) \ {Head(waitingList[s])},
         waitingList'[s] = Tail(waitingList[s]), count'[s] = count[s]
  PROVE  ListInv(s)'
<1> DEFINE l == waitingList[s]
           rest == Tail(l)
<1>1. /\ l \in Seq(Threads)
      /\ \A i, j \in 1 .. Len(l) : l[i] = l[j] => i = j
      /\ \A x \in Threads : (\E i \in 1 .. Len(l) : l[i] = x) <=> x \in Waiters(s)
  BY ListType DEF ListInv
<1>2. /\ Head(l) = l[1] /\ Len(l) \in Nat \ {0} /\ Len(rest) = Len(l) - 1
      /\ \A i \in 1 .. Len(l) - 1 : rest[i] = l[i + 1]
  BY <1>1, TailFacts
<1>3. l # <<>> /\ waitingList'[s] = rest
  OBVIOUS
<1>4. count[s] = 0
  BY ListType DEF ListInv
<1>5. Waiters(s)' = Waiters(s) \ {l[1]}
  BY <1>2
<1> HIDE DEF l, rest
<1>6. \A i, j \in 1 .. Len(rest) : rest[i] = rest[j] => i = j
  <2> TAKE i, j \in 1 .. Len(rest)
  <2> HAVE rest[i] = rest[j]
  <2>1. i + 1 \in 1 .. Len(l) /\ j + 1 \in 1 .. Len(l) /\ l[i + 1] = l[j + 1]
    BY <1>2
  <2>2. i + 1 = j + 1
    BY <2>1, <1>1
  <2> QED
    BY <2>2, <1>2
<1>7. ASSUME NEW x \in Threads
      PROVE  (\E i \in 1 .. Len(rest) : rest[i] = x)
               <=> x # l[1] /\ (\E i \in 1 .. Len(l) : l[i] = x)
  <2>1. ASSUME NEW i \in 1 .. Len(rest), rest[i] = x
        PROVE  x # l[1] /\ (\E j \in 1 .. Len(l) : l[j] = x)
    <3>1. i + 1 \in 1 .. Len(l) /\ 1 \in 1 .. Len(l) /\ i + 1 # 1
      BY <1>2
    <3>2. l[i + 1] = x
      BY <2>1, <1>2
    <3> QED
      BY <3>1, <3>2, <1>1
  <2>2. ASSUME NEW j \in 1 .. Len(l), l[j] = x, x # l[1]
        PROVE  \E i \in 1 .. Len(rest) : rest[i] = x
    <3>1. j # 1
      BY <2>2
    <3>2. j - 1 \in 1 .. Len(l) - 1 /\ (j - 1) + 1 = j
      BY <3>1, <1>2
    <3>3. rest[j - 1] = x
      BY <3>2, <2>2, <1>2
    <3> QED
      BY <3>2, <3>3, <1>2
  <2> QED
    BY <2>1, <2>2
<1>8. ASSUME NEW x \in Threads
      PROVE  (\E i \in 1 .. Len(rest) : rest[i] = x) <=> x \in Waiters(s)'
  BY <1>1, <1>5, <1>7
<1> QED
  BY <1>3, <1>4, <1>6, <1>8 DEF ListInv

LEMMA WithoutOne ==
  ASSUME TypeOK, NEW s \in Semaphores, ListInv(s), NEW t \in Waiters(s),
         Waiters(s)' = Waiters(s) \ {t},
         waitingList'[s] = RemoveFirst(waitingList[s], t), count'[s] = count[s]
  PROVE  /\ ListInv(s)'
         /\ waitingList'[s] \in Seq(Threads)
         /\ t \in ToSet(waitingList[s])
<1> DEFINE l == waitingList[s]
           rest == RemoveFirst(l, t)
<1>1. /\ l \in Seq(Threads) /\ Len(l) \in Nat /\ t \in Threads
      /\ \A i, j \in 1 .. Len(l) : l[i] = l[j] => i = j
      /\ \A x \in Threads : (\E i \in 1 .. Len(l) : l[i] = x) <=> x \in Waiters(s)
  BY ListType DEF ListInv
<1>2. PICK k \in 1 .. Len(l) : l[k] = t
  BY <1>1
<1>3. /\ rest \in Seq(Threads)
      /\ Len(rest) = Len(l) - 1
      /\ \A i \in 1 .. Len(l) - 1 : rest[i] = IF i < k THEN l[i] ELSE l[i + 1]
  <2> HIDE DEF l
  <2>1. \A i \in 1 .. Len(l) : l[i] = l[k] => i = k
    BY <1>1
  <2>2. rest = RemoveFirst(l, l[k])
    BY <1>2
  <2> HIDE DEF rest
  <2> QED
    BY <2>1, <2>2, <1>1, RemoveFacts
<1>4. l # <<>>
  BY <1>1, <1>2
<1>5. count[s] = 0
  BY <1>4, ListType DEF ListInv
<1>6. t \in ToSet(l)
  BY <1>1, <1>2 DEF ToSet
<1>7. waitingList'[s] = rest
  OBVIOUS
<1> HIDE DEF l, rest
\* The place in the list of what is at a place of the rest, and back.
<1> DEFINE Before(i) == IF i < k THEN i ELSE i + 1
<1>8. \A i \in 1 .. Len(rest) :
        Before(i) \in 1 .. Len(l) /\ Before(i) # k /\ rest[i] = l[Before(i)]
  BY <1>1, <1>3
<1>9. \A i, j \in 1 .. Len(rest) : Before(i) = Before(j) => i = j
  BY <1>1, <1>3
<1>10. \A j \in 1 .. Len(l) : j # k => \E i \in 1 .. Len(rest) : Before(i) = j
  <2> TAKE j \in 1 .. Len(l)
  <2> HAVE j # k
  <2>1. CASE j < k
    <3>1. j \in 1 .. Len(rest)
      BY <2>1, <1>1, <1>3
    <3> QED
      BY <3>1, <2>1
  <2>2. CASE j > k
    <3>1. j - 1 \in 1 .. Len(rest) /\ ~(j - 1 < k) /\ (j - 1) + 1 = j
      BY <2>2, <1>1, <1>3
    <3> QED
      BY <3>1
  <2> QED
    BY <2>1, <2>2
<1> HIDE DEF Before
<1>11. \A i, j \in 1 .. Len(rest) : rest[i] = rest[j] => i = j
  BY <1>1, <1>8, <1>9
<1>12. ASSUME NEW x \in Threads
       PROVE  (\E i \in 1 .. Len(rest) : rest[i] = x)
                <=> x # t /\ (\E i \in 1 .. Len(l) : l[i] = x)
  <2>1. ASSUME NEW i \in 1 .. Len(rest), rest[i] = x
        PROVE  x # t /\ (\E j \in 1 .. Len(l) : l[j] = x)
    BY <2>1, <1>1, <1>2, <1>8
  <2>2. ASSUME NEW j \in 1 .. Len(l), l[j] = x, x # t
        PROVE  \E i \in 1 .. Len(rest) : rest[i] = x
    <3>1. PICK i \in 1 .. Len(rest) : Before(i) = j
      BY <2>2, <1>2, <1>10
    <3> QED
      BY <3>1, <2>2, <1>8
  <2> QED
    BY <2>1, <2>2
<1>13. ListInv(s)'
  <2>1. ASSUME NEW x \in Threads
        PROVE  (\E i \in 1 .. Len(rest) : rest[i] = x) <=> x \in Waiters(s)'
    BY <1>1, <1>12
  <2> QED
    BY <2>1, <1>5, <1>7, <1>11 DEF ListInv
<1> QED
  BY <1>3, <1>6, <1>7, <1>13 DEF l

-----------------------------------------------------------------------------
(* Steps in which only time and the states of threads change.              *)

LEMMA SameWaiters ==
  ASSUME waitsFor' = waitsFor,
         \A x \in Threads :
           waitsFor[x] # NoSemaphore => wakeUpEvent'[x] = wakeUpEvent[x],
         NEW s \in Semaphores
  PROVE  Waiters(s)' = Waiters(s) /\ Granted(s)' = Granted(s)
BY SemaphoresAssumption DEF Waiters, Granted

LEMMA TimeStep ==
  ASSUME Inv, UNCHANGED <<count, waitingList, acquired, waitsFor, owner, failed>>,
         \A x \in Threads :
           waitsFor[x] # NoSemaphore => wakeUpEvent'[x] = wakeUpEvent[x]
  PROVE  /\ ~failed'
         /\ \A s \in Semaphores : ListInv(s)'
         /\ \A m \in Mutexes : MutexInv(m)'
<1>1. \A s \in Semaphores : Waiters(s)' = Waiters(s) /\ Granted(s)' = Granted(s)
  BY SameWaiters
<1>2. \A s \in Semaphores : ListInv(s)'
  BY <1>1, SameList DEF Inv
<1>3. \A m \in Mutexes : MutexInv(m)'
  BY <1>1, SemaphoresAssumption DEF Inv, MutexInv
<1> QED
  BY <1>2, <1>3 DEF Inv

LEMMA StartStep ==
  ASSUME Inv, NEW t \in Threads, Start(t)
  PROVE  Inv'
<1> USE DEF Inv, Start, waitVars, Time!Add
<1>1. TypeOK'
  BY DEF TypeOK, Time!States
<1>2. OneRuns'
  BY DEF TypeOK, OneRuns
<1>3. ASSUME NEW x \in Threads PROVE ThreadInv(x)'
  BY DEF TypeOK, ThreadInv
<1> QED
  BY <1>1, <1>2, <1>3, TimeStep

LEMMA ExitStep ==
  ASSUME Inv, NEW t \in Threads, Exit(t)
  PROVE  Inv'
<1> USE DEF Inv, Exit, waitVars, Time!Leave, InCode
<1>1. TypeOK'
  BY DEF TypeOK, Time!States
<1>2. OneRuns'
  BY DEF TypeOK, OneRuns
<1>3. ASSUME NEW x \in Threads PROVE ThreadInv(x)'
  BY DEF TypeOK, ThreadInv
<1> QED
  BY <1>1, <1>2, <1>3, TimeStep

LEMMA UntilFacts ==
  ASSUME TypeOK, NEW duration \in Durations \cup {EndOfTime}, InEpoche(duration)
  PROVE  /\ duration \in Nat
         /\ now \in Nat
         /\ Until(duration) \in Times
         /\ now <= Until(duration)
         /\ duration = 0 => Until(duration) = now
BY TimeAssumption DEF TypeOK, InEpoche, Until, Times

LEMMA SleepStep ==
  ASSUME Inv, NEW t \in Threads, NEW duration \in Durations, Sleep(t, duration)
  PROVE  Inv'
<1> USE DEF Inv, Sleep, InCode
<1>1. /\ Until(duration) \in Times
      /\ now <= Until(duration)
  BY UntilFacts
<1>2. /\ wakeUpEvent' \in [Threads -> BOOLEAN]
      /\ \A x \in Threads :
           waitsFor[x] # NoSemaphore => wakeUpEvent'[x] = wakeUpEvent[x]
  BY DEF TypeOK
<1>3. CASE duration > 0
  <2> USE <1>3 DEF Doze, Time!Sleep
  <2>1. TypeOK'
    BY <1>1, <1>2 DEF TypeOK, Time!States
  <2>2. OneRuns'
    BY DEF TypeOK, OneRuns
  <2>3. ASSUME NEW x \in Threads PROVE ThreadInv(x)'
    <3>1. CASE x = t
      BY <3>1, <1>1 DEF TypeOK, ThreadInv
    <3>2. CASE x # t
      BY <3>2, <1>2 DEF TypeOK, ThreadInv
    <3> QED
      BY <3>1, <3>2
  <2> QED
    BY <2>1, <2>2, <2>3, <1>2, TimeStep
<1>4. CASE ~(duration > 0)
  <2> USE <1>4 DEF Doze, timeVars
  <2>1. TypeOK'
    BY <1>2 DEF TypeOK
  <2>2. OneRuns'
    BY DEF TypeOK, OneRuns
  <2>3. ASSUME NEW x \in Threads PROVE ThreadInv(x)'
    BY <1>2 DEF TypeOK, ThreadInv
  <2> QED
    BY <2>1, <2>2, <2>3, <1>2, TimeStep
<1> QED
  BY <1>3, <1>4

LEMMA ResumeStep ==
  ASSUME Inv, NEW t \in Threads, Resume(t)
  PROVE  Inv'
<1> USE DEF Inv, Resume, waitVars
<1>1. CASE Time!Run(t)
  <2> USE <1>1 DEF Time!Run, Time!Ready, Time!In
  <2>1. TypeOK'
    BY DEF TypeOK, Time!States
  <2>2. OneRuns'
    BY DEF TypeOK, OneRuns
  <2>3. ASSUME NEW x \in Threads PROVE ThreadInv(x)'
    BY DEF TypeOK, ThreadInv
  <2> QED
    BY <2>1, <2>2, <2>3, TimeStep
<1>2. CASE Time!TimeOut(t)
  <2> USE <1>2 DEF Time!TimeOut, Time!Idle, Time!Ready, Time!In
  <2>1. TypeOK'
    BY DEF TypeOK, Time!States
  <2>2. OneRuns'
    BY DEF TypeOK, OneRuns
  <2>3. ASSUME NEW x \in Threads PROVE ThreadInv(x)'
    <3>1. now' = deadline[t] /\ deadline' = deadline /\ end' = end
      OBVIOUS
    <3>2. CASE x = t
      BY <3>1, <3>2 DEF TypeOK, ThreadInv
    <3>3. CASE x # t
      <4>1. state'[x] = state[x] /\ state[x] \notin {"running", "ready", "woken"}
        BY <3>3 DEF TypeOK
      <4>2. state[x] = "sleeping" => deadline[t] <= deadline[x]
        OBVIOUS
      <4> QED
        BY <3>1, <4>1, <4>2 DEF TypeOK, ThreadInv
    <3> QED
      BY <3>2, <3>3
  <2> QED
    BY <2>1, <2>2, <2>3, TimeStep
<1> QED
  BY <1>1, <1>2

LEMMA EndStep ==
  ASSUME Inv, End
  PROVE  Inv'
<1> USE DEF Inv, End, waitVars, Time!End, Time!Idle, Time!Ready, Time!In
<1>1. TypeOK'
  BY TimeAssumption DEF TypeOK, Times
<1>2. OneRuns'
  BY DEF TypeOK, OneRuns
<1>3. ASSUME NEW x \in Threads PROVE ThreadInv(x)'
  <2>1. state[x] \notin {"running", "ready", "woken"}
    BY DEF TypeOK
  <2>2. state[x] = "sleeping" => deadline[x] = EndOfTime
    OBVIOUS
  <2> QED
    BY <2>1, <2>2, TimeAssumption DEF TypeOK, ThreadInv, Times
<1> QED
  BY <1>1, <1>2, <1>3, TimeStep

-----------------------------------------------------------------------------
(* acquire() and release().                                                *)

LEMMA TakeType ==
  ASSUME TypeOK, NEW t \in Threads, NEW s \in Semaphores, Take(t, s)
  PROVE  /\ acquired' \in SUBSET Mutexes
         /\ owner' \in [Mutexes -> SUBSET Threads]
BY DEF TypeOK, Take

LEMMA AcquireAtOnceStep ==
  ASSUME Inv, NEW t \in Threads, NEW s \in Semaphores, AcquireAtOnce(t, s)
  PROVE  Inv'
<1> USE DEF Inv, AcquireAtOnce, timeVars, waitVars
<1>1. /\ count' \in [Semaphores -> Nat]
      /\ count'[s] = count[s] - 1
      /\ \A x \in Semaphores \ {s} : count'[x] = count[x]
  BY DEF TypeOK
<1>2. TypeOK'
  BY <1>1, TakeType DEF TypeOK
<1>3. OneRuns'
  BY DEF OneRuns
<1>4. \A x \in Semaphores : Waiters(x)' = Waiters(x) /\ Granted(x)' = Granted(x)
  BY SameWaiters
<1>5. ASSUME NEW x \in Semaphores PROVE ListInv(x)'
  <2>1. CASE x # s
    BY <2>1, <1>1, <1>4, SameList
  <2>2. CASE x = s
    <3>1. waitingList[s] = <<>> /\ waitingList' = waitingList
      BY DEF ListInv
    <3>2. count'[x] > 0 => waitingList'[x] = <<>>
      BY <2>2, <3>1
    <3> QED
      BY <2>2, <3>1, <3>2, <1>4 DEF ListInv
  <2> QED
    BY <2>1, <2>2
<1>6. ASSUME NEW x \in Threads PROVE ThreadInv(x)'
  BY DEF ThreadInv
<1>7. ASSUME NEW m \in Mutexes PROVE MutexInv(m)'
  <2>1. Granted(m)' = Granted(m) /\ m \in Semaphores /\ MutexInv(m)
    BY <1>4, SemaphoresAssumption
  <2>2. CASE m # s
    <3>1. owner'[m] = owner[m] /\ (m \in acquired' <=> m \in acquired)
      BY <2>2 DEF TypeOK, Take
    <3> QED
      BY <2>1, <2>2, <3>1, <1>1 DEF MutexInv
  <2>3. CASE m = s
    <3>1. count[m] = 1 /\ owner[m] = {} /\ Granted(m) = {}
      BY <2>1, <2>3 DEF MutexInv, TypeOK
    <3>2. owner'[m] = {t} /\ m \in acquired' /\ count'[m] = 0
      BY <2>1, <2>3, <3>1, <1>1 DEF TypeOK, Take
    <3> QED
      BY <2>1, <3>1, <3>2 DEF MutexInv
  <2> QED
    BY <2>2, <2>3
<1> QED
  BY <1>2, <1>3, <1>5, <1>6, <1>7

LEMMA DozeFacts ==
  ASSUME TypeOK, NEW t \in Threads, state[t] = "running",
         NEW duration \in Durations \cup {EndOfTime}, InEpoche(duration),
         Doze(t, duration)
  PROVE  /\ state' \in [Threads -> Time!States]
         /\ now' = now /\ over' = over /\ outcome' = outcome
         /\ deadline' \in [Threads -> Times]
         /\ \A x \in Threads \ {t} :
              state'[x] = state[x] /\ deadline'[x] = deadline[x]
         /\ \/ state'[t] = "running" /\ Until(duration) = now
            \/ state'[t] = "sleeping" /\ deadline'[t] = Until(duration)
<1>1. /\ Until(duration) \in Times /\ duration \in Nat
      /\ duration = 0 => Until(duration) = now
  BY UntilFacts
<1>2. CASE duration > 0
  BY <1>1, <1>2 DEF TypeOK, Doze, Time!Sleep, Time!States
<1>3. CASE ~(duration > 0)
  <2>1. UNCHANGED timeVars /\ duration = 0
    BY <1>1, <1>3 DEF Doze
  <2> QED
    BY <2>1, <1>1 DEF TypeOK, timeVars
<1> QED
  BY <1>2, <1>3

LEMMA BeginAcquireStep ==
  ASSUME Inv, NEW t \in Threads, NEW s \in Semaphores,
         NEW duration \in Durations \cup {EndOfTime},
         BeginAcquire(t, s, duration)
  PROVE  /\ Inv'
         /\ \A x \in Semaphores : Granted(x)' = Granted(x)
<1> USE DEF Inv, BeginAcquire, InCode
<1>1. /\ Until(duration) \in Times
      /\ now <= Until(duration) /\ now \in Nat /\ duration \in Nat
      /\ duration = 0 => Until(duration) = now
  BY UntilFacts
<1>2. /\ wakeUpEvent' \in [Threads -> BOOLEAN] /\ ~wakeUpEvent'[t]
      /\ \A x \in Threads \ {t} : wakeUpEvent'[x] = wakeUpEvent[x]
  BY DEF TypeOK
<1>3. /\ waitsFor' \in [Threads -> Semaphores \cup {NoSemaphore}]
      /\ waitsFor'[t] = s
      /\ \A x \in Threads \ {t} : waitsFor'[x] = waitsFor[x]
  BY DEF TypeOK
<1>4. /\ end' \in [Threads -> Times] /\ end'[t] = Until(duration)
      /\ \A x \in Threads \ {t} : end'[x] = end[x]
  BY <1>1 DEF TypeOK
<1>5. /\ <<t>> \o waitingList[s] \in Seq(Threads)
      /\ waitingList'[s] = <<t>> \o waitingList[s]
      /\ \A x \in Semaphores \ {s} : waitingList'[x] = waitingList[x]
      /\ waitingList' \in [Semaphores -> Seq(Threads)]
  <2>1. <<t>> \o waitingList[s] \in Seq(Threads)
    BY PrependFacts, ListType
  <2> QED
    BY <2>1 DEF TypeOK
<1>6. /\ \A x \in Semaphores : Granted(x)' = Granted(x)
      /\ Waiters(s)' = Waiters(s) \cup {t}
      /\ \A x \in Semaphores \ {s} : Waiters(x)' = Waiters(x)
  BY <1>2, <1>3, SemaphoresAssumption DEF Waiters, Granted
<1>7. \A x \in Semaphores : t \notin Waiters(x)
  BY SemaphoresAssumption DEF Waiters
<1>8. ~Linked(t)
  <2>1. \A x \in Semaphores : t \notin ToSet(waitingList[x])
    <3> TAKE x \in Semaphores
    <3>1. DOMAIN waitingList[x] = 1 .. Len(waitingList[x])
      BY ListType
    <3>2. ~\E i \in 1 .. Len(waitingList[x]) : waitingList[x][i] = t
      BY <1>7 DEF ListInv
    <3> QED
      BY <3>1, <3>2 DEF ToSet
  <2> QED
    BY <2>1 DEF Linked
<1>9. ASSUME NEW x \in Semaphores PROVE ListInv(x)'
  <2>1. CASE x # s
    BY <2>1, <1>5, <1>6, SameList
  <2>2. CASE x = s
    <3> DEFINE l == waitingList[s]
               more == <<t>> \o l
    <3>1. /\ Len(more) = Len(l) + 1 /\ more[1] = t
          /\ \A i \in 1 .. Len(l) : more[i + 1] = l[i]
          /\ \A i \in 2 .. Len(l) + 1 : more[i] = l[i - 1]
      BY PrependFacts, ListType
    <3>2. waitingList'[s] = more /\ count'[s] = 0
      BY <1>5
    <3> HIDE DEF more
    <3> QED
      BY <2>2, <3>1, <3>2, <1>6, <1>7, LongerList
  <2> QED
    BY <2>1, <2>2
<1>10. ASSUME NEW m \in Mutexes PROVE MutexInv(m)'
  BY <1>6, SemaphoresAssumption DEF MutexInv
<1>11. /\ state' \in [Threads -> Time!States]
       /\ now' = now /\ over' = over /\ outcome' = outcome
       /\ deadline' \in [Threads -> Times]
       /\ \A x \in Threads \ {t} :
            state'[x] = state[x] /\ deadline'[x] = deadline[x]
       /\ \/ state'[t] = "running" /\ Until(duration) = now
          \/ state'[t] = "sleeping" /\ deadline'[t] = Until(duration)
  BY DozeFacts
<1>12. TypeOK'
  <2>1. failed' \in BOOLEAN
    BY Zenon DEF Linked
  <2> QED
    BY <2>1, <1>2, <1>3, <1>4, <1>5, <1>11 DEF TypeOK
<1>13. OneRuns'
  BY <1>11 DEF OneRuns
<1>14. ASSUME NEW x \in Threads PROVE ThreadInv(x)'
  <2>1. CASE x = t
    BY <2>1, <1>1, <1>2, <1>3, <1>4, <1>11, SemaphoresAssumption DEF ThreadInv
  <2>2. CASE x # t
    BY <2>2, <1>2, <1>3, <1>4, <1>11 DEF ThreadInv
  <2> QED
    BY <2>1, <2>2
<1> QED
  BY <1>6, <1>8, <1>9, <1>10, <1>12, <1>13, <1>14

\* What the end of acquire() does to the variables of the waits.
LEMMA NoLongerWaits ==
  ASSUME TypeOK, NEW t \in Threads,
         waitsFor' = [waitsFor EXCEPT ![t] = NoSemaphore],
         end' = [end EXCEPT ![t] = 0]
  PROVE  /\ waitsFor' \in [Threads -> Semaphores \cup {NoSemaphore}]
         /\ waitsFor'[t] = NoSemaphore
         /\ \A x \in Threads \ {t} : waitsFor'[x] = waitsFor[x]
         /\ end' \in [Threads -> Times] /\ end'[t] = 0
         /\ \A x \in Threads \ {t} : end'[x] = end[x]
BY TimeAssumption DEF TypeOK, Times

LEMMA GiveUpStep ==
  ASSUME Inv, NEW t \in Threads, NEW s \in Semaphores, GiveUp(t, s)
  PROVE  /\ Inv'
         /\ \A x \in Semaphores : Granted(x)' = Granted(x)
<1> USE DEF Inv, GiveUp, timeVars
<1>1. /\ waitsFor' \in [Threads -> Semaphores \cup {NoSemaphore}]
      /\ waitsFor'[t] = NoSemaphore
      /\ \A x \in Threads \ {t} : waitsFor'[x] = waitsFor[x]
      /\ end' \in [Threads -> Times] /\ end'[t] = 0
      /\ \A x \in Threads \ {t} : end'[x] = end[x]
  BY NoLongerWaits
<1>2. /\ \A x \in Semaphores : Granted(x)' = Granted(x)
      /\ Waiters(s)' = Waiters(s) \ {t} /\ t \in Waiters(s)
      /\ \A x \in Semaphores \ {s} : Waiters(x)' = Waiters(x)
  BY <1>1, SemaphoresAssumption DEF Waiters, Granted
<1>3. /\ waitingList'[s] = RemoveFirst(waitingList[s], t)
      /\ \A x \in Semaphores \ {s} : waitingList'[x] = waitingList[x]
  BY DEF TypeOK
<1>4. /\ ListInv(s)'
      /\ waitingList'[s] \in Seq(Threads)
      /\ t \in ToSet(waitingList[s])
  BY <1>2, <1>3, WithoutOne
<1>5. \A x \in Semaphores : ListInv(x)'
  BY <1>2, <1>3, <1>4, SameList
<1>6. waitingList' \in [Semaphores -> Seq(Threads)]
  BY <1>4 DEF TypeOK
<1>7. TypeOK'
  BY <1>1, <1>4, <1>6 DEF TypeOK
<1>8. OneRuns'
  BY DEF OneRuns
<1>9. ASSUME NEW x \in Threads PROVE ThreadInv(x)'
  BY <1>1 DEF ThreadInv
<1>10. ASSUME NEW m \in Mutexes PROVE MutexInv(m)'
  BY <1>2, SemaphoresAssumption DEF MutexInv
<1> QED
  BY <1>2, <1>4, <1>5, <1>7, <1>8, <1>9, <1>10

LEMMA EndAcquireStep ==
  ASSUME Inv, NEW t \in Threads, NEW s \in Semaphores, EndAcquire(t, s)
  PROVE  /\ Inv'
         /\ t \in Granted(s) /\ Granted(s)' = Granted(s) \ {t}
         /\ \A x \in Semaphores \ {s} : Granted(x)' = Granted(x)
<1> USE DEF Inv, EndAcquire, timeVars
<1>1. /\ waitsFor' \in [Threads -> Semaphores \cup {NoSemaphore}]
      /\ waitsFor'[t] = NoSemaphore
      /\ \A x \in Threads \ {t} : waitsFor'[x] = waitsFor[x]
      /\ end' \in [Threads -> Times] /\ end'[t] = 0
      /\ \A x \in Threads \ {t} : end'[x] = end[x]
  BY NoLongerWaits
<1>2. /\ \A x \in Semaphores : Waiters(x)' = Waiters(x)
      /\ t \in Granted(s) /\ Granted(s)' = Granted(s) \ {t}
      /\ \A x \in Semaphores \ {s} : Granted(x)' = Granted(x)
  BY <1>1, SemaphoresAssumption DEF Waiters, Granted
<1>3. \A x \in Semaphores : ListInv(x)'
  BY <1>2, SameList
<1>4. TypeOK'
  BY <1>1, TakeType DEF TypeOK
<1>5. OneRuns'
  BY DEF OneRuns
<1>6. ASSUME NEW x \in Threads PROVE ThreadInv(x)'
  BY <1>1 DEF ThreadInv
<1>7. ASSUME NEW m \in Mutexes PROVE MutexInv(m)'
  <2>1. m \in Semaphores /\ MutexInv(m)
    BY SemaphoresAssumption
  <2>2. CASE m # s
    <3>1. owner'[m] = owner[m] /\ (m \in acquired' <=> m \in acquired)
      BY <2>2 DEF TypeOK, Take
    <3> QED
      BY <2>1, <2>2, <3>1, <1>2 DEF MutexInv
  <2>3. CASE m = s
    <3>1. count[m] = 0 /\ owner[m] = {} /\ Granted(m)' = {}
      BY <2>1, <2>3, <1>2 DEF MutexInv
    <3>2. owner'[m] = {t} /\ m \in acquired'
      BY <2>1, <2>3, <3>1 DEF TypeOK, Take
    <3> QED
      BY <2>1, <3>1, <3>2 DEF MutexInv
  <2> QED
    BY <2>2, <2>3
<1> QED
  BY <1>2, <1>3, <1>4, <1>5, <1>6, <1>7

\* The first of the list sleeps, as it is not the thread that runs.
LEMMA HeadSleeps ==
  ASSUME Inv, NEW t \in Threads, InCode(t), NEW s \in Semaphores,
         waitingList[s] # <<>>
  PROVE  /\ Head(waitingList[s]) \in Waiters(s)
         /\ state[Head(waitingList[s])] = "sleeping"
         /\ count[s] = 0
<1> DEFINE first == Head(waitingList[s])
<1>1. /\ first \in Threads /\ first = waitingList[s][1]
      /\ 1 \in 1 .. Len(waitingList[s])
  BY ListType, TailFacts DEF Inv
<1>2. first \in Waiters(s)
  BY <1>1 DEF Inv, ListInv
<1>3. first # t /\ state[first] \in {"running", "sleeping"}
  BY <1>2, SemaphoresAssumption DEF Waiters, InCode, Inv, ThreadInv
<1>4. count[s] = 0
  BY ListType DEF Inv, ListInv
<1> QED
  BY <1>1, <1>2, <1>3, <1>4 DEF Inv, OneRuns, InCode

LEMMA WakeUpFacts ==
  ASSUME TypeOK, NEW t \in Threads, NEW other \in Threads,
         state[other] = "sleeping", WakeUp(t, other)
  PROVE  /\ state' \in [Threads -> Time!States] /\ state'[other] = "woken"
         /\ \A x \in Threads \ {other} : state'[x] = state[x]
         /\ UNCHANGED <<now, deadline, outcome, over>>
         /\ wakeUpEvent' \in [Threads -> BOOLEAN] /\ wakeUpEvent'[other]
         /\ \A x \in Threads \ {other} : wakeUpEvent'[x] = wakeUpEvent[x]
<1>1. /\ state' = [state EXCEPT ![other] = "woken"]
      /\ wakeUpEvent' = [wakeUpEvent EXCEPT ![other] = TRUE]
      /\ UNCHANGED <<now, deadline, outcome, over>>
  BY DEF WakeUp, Time!Wake
<1>2. /\ state' \in [Threads -> Time!States] /\ state'[other] = "woken"
      /\ \A x \in Threads \ {other} : state'[x] = state[x]
  BY <1>1 DEF TypeOK, Time!States
<1>3. /\ wakeUpEvent' \in [Threads -> BOOLEAN] /\ wakeUpEvent'[other]
      /\ \A x \in Threads \ {other} : wakeUpEvent'[x] = wakeUpEvent[x]
  BY <1>1, Zenon DEF TypeOK
<1> QED
  BY <1>1, <1>2, <1>3

\* release() with a waiter: the token is the waiter's.
LEMMA HandOver ==
  ASSUME Inv, NEW t \in Threads, NEW s \in Semaphores, Release(t, s),
         waitingList[s] # <<>>
  PROVE  LET first == Head(waitingList[s]) IN
         /\ Inv'
         /\ UNCHANGED <<now, count>>
         /\ first \in Threads /\ first \notin Granted(s)
         /\ Granted(s)' = Granted(s) \cup {first}
         /\ \A x \in Semaphores \ {s} : Granted(x)' = Granted(x)
<1> DEFINE first == Head(waitingList[s])
<1> USE DEF Inv, Release
<1>1. /\ first \in Waiters(s) /\ first \in Threads
      /\ state[first] = "sleeping" /\ count[s] = 0
  BY HeadSleeps DEF Waiters
<1>2. /\ waitingList'[s] = Tail(waitingList[s])
      /\ \A x \in Semaphores \ {s} : waitingList'[x] = waitingList[x]
      /\ waitingList' \in [Semaphores -> Seq(Threads)]
      /\ count' = count
  <2>1. Tail(waitingList[s]) \in Seq(Threads)
    BY ListType, TailFacts
  <2>2. /\ waitingList' = [waitingList EXCEPT ![s] = Tail(waitingList[s])]
        /\ count' = count
    BY ONLY Release(t, s), waitingList[s] # <<>> DEF Release
  <2>3. waitingList \in [Semaphores -> Seq(Threads)]
    BY DEF TypeOK
  <2> QED
    BY ONLY <2>1, <2>2, <2>3, s \in Semaphores
<1>3. WakeUp(t, first)
  OBVIOUS
<1> HIDE DEF first
<1>4. /\ state' \in [Threads -> Time!States] /\ state'[first] = "woken"
      /\ \A x \in Threads \ {first} : state'[x] = state[x]
      /\ UNCHANGED <<now, deadline, outcome, over>>
      /\ wakeUpEvent' \in [Threads -> BOOLEAN] /\ wakeUpEvent'[first]
      /\ \A x \in Threads \ {first} : wakeUpEvent'[x] = wakeUpEvent[x]
  BY <1>1, <1>3, WakeUpFacts
<1>5. /\ Waiters(s)' = Waiters(s) \ {first}
      /\ \A x \in Semaphores \ {s} : Waiters(x)' = Waiters(x)
      /\ first \notin Granted(s) /\ Granted(s)' = Granted(s) \cup {first}
      /\ \A x \in Semaphores \ {s} : Granted(x)' = Granted(x)
  BY <1>1, <1>4 DEF Waiters, Granted
<1>6. \A x \in Semaphores : ListInv(x)'
  BY <1>2, <1>5, SameList, WithoutFirst DEF first
<1>7. /\ acquired' \in SUBSET Mutexes
      /\ owner' \in [Mutexes -> SUBSET Threads]
  BY DEF TypeOK
<1>8. TypeOK'
  BY <1>2, <1>4, <1>7 DEF TypeOK
<1>9. OneRuns'
  BY <1>4 DEF OneRuns
<1>10. ASSUME NEW x \in Threads PROVE ThreadInv(x)'
  BY <1>1, <1>4 DEF ThreadInv, Waiters
<1>11. ASSUME NEW m \in Mutexes PROVE MutexInv(m)'
  <2>1. m \in Semaphores /\ MutexInv(m)
    BY SemaphoresAssumption
  <2>2. CASE m # s
    <3>1. owner'[m] = owner[m] /\ (m \in acquired' <=> m \in acquired)
      BY <2>2 DEF TypeOK
    <3> QED
      BY <2>1, <2>2, <3>1, <1>2, <1>5 DEF MutexInv
  <2>3. CASE m = s
    <3>1. t \in owner[m]
      BY <2>3
    <3>2. owner[m] \subseteq {t} /\ Granted(m) = {}
      BY <2>1, <3>1 DEF MutexInv
    <3>3. owner'[m] = {} /\ m \notin acquired'
      BY <2>3, <3>2
    <3> QED
      BY <2>1, <2>3, <3>2, <3>3, <1>1, <1>2, <1>5 DEF MutexInv
  <2> QED
    BY <2>2, <2>3
<1> QED
  BY <1>1, <1>2, <1>4, <1>5, <1>6, <1>8, <1>9, <1>10, <1>11 DEF first

\* release() without one: the token is kept.
LEMMA KeepToken ==
  ASSUME Inv, NEW t \in Threads, NEW s \in Semaphores, Release(t, s),
         waitingList[s] = <<>>
  PROVE  /\ Inv'
         /\ now' = now
         /\ count' = [count EXCEPT ![s] = @ + 1]
         /\ \A x \in Semaphores : Granted(x)' = Granted(x)
<1> USE DEF Inv, Release
<1>1. /\ count' = [count EXCEPT ![s] = @ + 1]
      /\ UNCHANGED <<timeVars, waitingList, wakeUpEvent, waitsFor, end, failed>>
  OBVIOUS
<1>2. /\ count' \in [Semaphores -> Nat] /\ count'[s] = count[s] + 1
      /\ \A x \in Semaphores \ {s} : count'[x] = count[x]
  BY <1>1 DEF TypeOK
<1>3. \A x \in Semaphores : Waiters(x)' = Waiters(x) /\ Granted(x)' = Granted(x)
  BY <1>1, SameWaiters
<1>4. ASSUME NEW x \in Semaphores PROVE ListInv(x)'
  <2>1. CASE x # s
    BY <2>1, <1>1, <1>2, <1>3, SameList
  <2>2. CASE x = s
    BY <2>2, <1>1, <1>3 DEF ListInv
  <2> QED
    BY <2>1, <2>2
<1>5. /\ acquired' \in SUBSET Mutexes
      /\ owner' \in [Mutexes -> SUBSET Threads]
  BY DEF TypeOK
<1>6. TypeOK'
  BY <1>1, <1>2, <1>5 DEF TypeOK, timeVars
<1>7. OneRuns'
  BY <1>1 DEF OneRuns, timeVars
<1>8. ASSUME NEW x \in Threads PROVE ThreadInv(x)'
  BY <1>1 DEF ThreadInv, timeVars
<1>9. ASSUME NEW m \in Mutexes PROVE MutexInv(m)'
  <2>1. m \in Semaphores /\ MutexInv(m)
    BY SemaphoresAssumption
  <2>2. CASE m # s
    <3>1. owner'[m] = owner[m] /\ (m \in acquired' <=> m \in acquired)
      BY <2>2 DEF TypeOK
    <3> QED
      BY <2>1, <2>2, <3>1, <1>2, <1>3 DEF MutexInv
  <2>3. CASE m = s
    <3>1. t \in owner[m]
      BY <2>3
    <3>2. owner[m] \subseteq {t} /\ Granted(m) = {} /\ count[m] = 0
      BY <2>1, <3>1 DEF MutexInv
    <3>3. owner'[m] = {} /\ m \notin acquired' /\ count'[m] = 1
      BY <2>3, <3>2, <1>2
    <3> QED
      BY <2>1, <3>2, <3>3, <1>3 DEF MutexInv
  <2> QED
    BY <2>2, <2>3
<1> QED
  BY <1>1, <1>3, <1>4, <1>6, <1>7, <1>8, <1>9 DEF timeVars

-----------------------------------------------------------------------------
(* The theorems.                                                           *)

LEMMA InitInv == Init => Inv
<1> SUFFICES ASSUME Init PROVE Inv
  OBVIOUS
<1> USE DEF Init, Time!Init
<1>1. TypeOK
  <2>1. now \in Times /\ 0 \in Times
    BY TimeAssumption DEF Times
  <2>2. state \in [Threads -> Time!States] /\ outcome \in [Threads -> BOOLEAN]
    BY DEF Time!States
  <2>3. deadline \in [Threads -> Times] /\ end \in [Threads -> Times]
    BY <2>1
  <2>4. count \in [Semaphores -> Nat]
    OBVIOUS
  <2>5. waitingList \in [Semaphores -> Seq(Threads)]
    OBVIOUS
  <2>6. waitsFor \in [Threads -> Semaphores \cup {NoSemaphore}]
    OBVIOUS
  <2>7. owner \in [Mutexes -> SUBSET Threads] /\ acquired \in SUBSET Mutexes
    OBVIOUS
  <2>8. wakeUpEvent \in [Threads -> BOOLEAN]
    OBVIOUS
  <2> QED
    BY <2>1, <2>2, <2>3, <2>4, <2>5, <2>6, <2>7, <2>8 DEF TypeOK
<1>2. OneRuns
  BY DEF OneRuns
<1>3. \A s \in Semaphores : Waiters(s) = {} /\ Granted(s) = {}
  BY SemaphoresAssumption DEF Waiters, Granted
<1>4. ASSUME NEW s \in Semaphores PROVE ListInv(s)
  BY <1>3 DEF ListInv
<1>5. ASSUME NEW t \in Threads PROVE ThreadInv(t)
  BY DEF ThreadInv
<1>6. ASSUME NEW m \in Mutexes PROVE MutexInv(m)
  BY <1>3, SemaphoresAssumption DEF MutexInv
<1> QED
  BY <1>1, <1>2, <1>4, <1>5, <1>6 DEF Inv

LEMMA NextInv == Inv /\ [Next]_vars => Inv'
<1> SUFFICES ASSUME Inv, [Next]_vars PROVE Inv'
  OBVIOUS
<1>1. CASE UNCHANGED vars
  <2> USE <1>1 DEF vars, timeVars, waitVars, Inv
  <2>1. TypeOK'
    BY DEF TypeOK
  <2>2. OneRuns'
    BY DEF OneRuns
  <2>3. ASSUME NEW t \in Threads PROVE ThreadInv(t)'
    BY DEF ThreadInv
  <2> QED
    BY <2>1, <2>2, <2>3, TimeStep
<1>2. ASSUME NEW t \in Threads, Start(t) PROVE Inv'
  BY <1>2, StartStep
<1>3. ASSUME NEW t \in Threads, NEW duration \in Durations, Sleep(t, duration)
      PROVE  Inv'
  BY <1>3, SleepStep
<1>4. ASSUME NEW t \in Threads, Resume(t) PROVE Inv'
  BY <1>4, ResumeStep
<1>5. ASSUME NEW t \in Threads, NEW s \in Semaphores, Acquire(t, s) PROVE Inv'
  BY <1>5, AcquireAtOnceStep, BeginAcquireStep, GiveUpStep, EndAcquireStep
     DEF Acquire
<1>6. ASSUME NEW t \in Threads, NEW s \in Semaphores, Release(t, s) PROVE Inv'
  BY <1>6, HandOver, KeepToken
<1>7. ASSUME NEW t \in Threads, Exit(t) PROVE Inv'
  BY <1>7, ExitStep
<1>8. CASE End
  BY <1>8, EndStep
<1> QED
  BY <1>1, <1>2, <1>3, <1>4, <1>5, <1>6, <1>7, <1>8 DEF Next

LEMMA InvEver == Spec => []Inv
BY InitInv, NextInv, PTL DEF Spec

\* The variables have their types: the times of waits are in the epoche, and the
\* lists are of threads.
THEOREM TypeCorrect == Spec => []TypeOK
<1>1. Inv => TypeOK
  BY DEF Inv
<1> QED
  BY <1>1, InvEver, PTL

\* The list of a semaphore has its waiters, each once, and no link is used
\* twice, whoever times out while release() is called.
THEOREM ListsCorrect == Spec => []WaitersLinked
<1>1. ASSUME Inv PROVE WaitersLinked
  <2>1. ASSUME NEW s \in Semaphores
        PROVE  /\ ToSet(waitingList[s]) = Waiters(s)
               /\ Len(waitingList[s]) = Cardinality(Waiters(s))
    <3> DEFINE l == waitingList[s]
    <3>1. /\ l \in Seq(Threads) /\ DOMAIN l = 1 .. Len(l)
          /\ Waiters(s) \subseteq Threads
      BY <1>1, ListType DEF Inv
    <3>2. /\ \A i, j \in 1 .. Len(l) : l[i] = l[j] => i = j
          /\ \A x \in Threads :
               (\E i \in 1 .. Len(l) : l[i] = x) <=> x \in Waiters(s)
      BY <1>1 DEF Inv, ListInv
    <3>3. \A i \in 1 .. Len(l) : l[i] \in Threads
      BY <3>1
    <3> HIDE DEF l
    <3>4. Len(l) = Cardinality(Waiters(s))
      BY <3>1, <3>2, LengthIsCardinality
    <3>5. ToSet(l) = Waiters(s)
      BY <3>1, <3>2, <3>3 DEF ToSet
    <3> QED
      BY <3>4, <3>5 DEF l
  <2>2. ASSUME NEW t \in Threads, waitsFor[t] # NoSemaphore, ~wakeUpEvent[t]
        PROVE  state[t] \in {"sleeping", "running"}
    BY <1>1, <2>2 DEF Inv, ThreadInv
  <2> QED
    BY <1>1, <2>1, <2>2 DEF WaitersLinked, Inv
<1> QED
  BY <1>1, InvEver, PTL

LEMMA AtMostOne ==
  ASSUME NEW S, \A x, y \in S : x = y
  PROVE  Cardinality(S) <= 1
<1>1. CASE S = {}
  BY <1>1, FS_EmptySet
<1>2. CASE S # {}
  <2>1. PICK x \in S : S = {x}
    BY <1>2
  <2> QED
    BY <2>1, FS_Singleton
<1> QED
  BY <1>1, <1>2

\* At most one thread holds a mutex, and isAcquired() says whether one does.
THEOREM MutexesExclude == Spec => []MutualExclusion
<1>1. Inv => MutualExclusion
  BY AtMostOne DEF Inv, MutexInv, MutualExclusion
<1> QED
  BY <1>1, InvEver, PTL

-----------------------------------------------------------------------------
(* The mapping to IdealSemaphores.                                         *)

Tokens == [s \in Semaphores |-> count[s] + Cardinality(Granted(s))]

LEMMA TokensType ==
  ASSUME TypeOK, NEW s \in Semaphores
  PROVE  /\ IsFiniteSet(Granted(s))
         /\ Cardinality(Granted(s)) \in Nat
         /\ count[s] \in Nat
BY ThreadsAssumption, ListType, FS_Subset, FS_CardinalityType

LEMMA SameTokens ==
  ASSUME count' = count, \A s \in Semaphores : Granted(s)' = Granted(s)
  PROVE  Tokens' = Tokens
BY DEF Tokens

LEMMA OtherTokens ==
  ASSUME NEW s \in Semaphores, NEW n,
         count'[s] + Cardinality(Granted(s)') = n,
         \A x \in Semaphores \ {s} :
           count'[x] = count[x] /\ Granted(x)' = Granted(x)
  PROVE  Tokens' = [Tokens EXCEPT ![s] = n]
<1>1. Tokens' = [x \in Semaphores |-> count'[x] + Cardinality(Granted(x)')]
  BY DEF Tokens
<1>2. \A x \in Semaphores :
        count'[x] + Cardinality(Granted(x)') = IF x = s THEN n ELSE Tokens[x]
  BY DEF Tokens
<1> QED
  BY <1>1, <1>2 DEF Tokens

\* Time passes while nobody can run: nobody who waits has a token.
LEMMA TimePasses ==
  ASSUME Inv, Time!Idle, now' \in Times, now' >= now,
         \A x \in Threads : state[x] = "sleeping" => now' <= deadline[x],
         UNCHANGED <<count, waitsFor, wakeUpEvent, end>>
  PROVE  [Ideal!Next]_Ideal!vars
<1>1. Tokens' = Tokens
  BY SameTokens DEF Granted
<1>2. CASE now' = now
  BY <1>1, <1>2 DEF Ideal!vars, Tokens
<1>3. CASE now' > now
  <2>1. ASSUME NEW t \in Threads, NEW s \in Semaphores, waitsFor[t] = s
        PROVE  Tokens[s] = 0 /\ now' <= end[t]
    <3>1. \A x \in Threads : state[x] \notin {"running", "woken"}
      BY DEF Time!Idle, Time!Ready, Time!In
    <3>2. state[t] = "sleeping" /\ ~wakeUpEvent[t] /\ end[t] = deadline[t]
      BY <2>1, <3>1, SemaphoresAssumption DEF Inv, ThreadInv
    <3>3. t \in Waiters(s)
      BY <2>1, <3>2 DEF Waiters
    <3>4. waitingList[s] # <<>>
      BY <3>3 DEF Inv, ListInv
    <3>5. count[s] = 0
      BY <3>4, ListType DEF Inv, ListInv
    <3>6. Granted(s) = {}
      BY <3>1, SemaphoresAssumption DEF Granted, Inv, ThreadInv
    <3> QED
      BY <3>2, <3>5, <3>6, FS_EmptySet DEF Tokens
  <2>2. Ideal!Advance(now')
    BY <1>1, <1>3, <2>1 DEF Ideal!Advance, Tokens
  <2> QED
    BY <2>2 DEF Ideal!Next, Times
<1> QED
  BY <1>2, <1>3, TimeAssumption DEF Inv, TypeOK, Times

LEMMA ResumeMaps ==
  ASSUME Inv, NEW t \in Threads, Resume(t)
  PROVE  [Ideal!Next]_Ideal!vars
<1> USE DEF Resume, waitVars
<1>1. CASE Time!Run(t)
  <2>1. Tokens' = Tokens
    BY SameTokens DEF Granted
  <2> QED
    BY <1>1, <2>1 DEF Ideal!vars, Tokens, Time!Run
<1>2. CASE Time!TimeOut(t)
  <2>1. /\ Time!Idle /\ state[t] = "sleeping" /\ now' = deadline[t]
        /\ \A x \in Threads : state[x] = "sleeping" => deadline[t] <= deadline[x]
    BY <1>2 DEF Time!TimeOut, Time!In
  <2>2. now' \in Times /\ now' >= now
    BY <2>1 DEF Inv, TypeOK, ThreadInv, Times
  <2> QED
    BY <2>1, <2>2, TimePasses
<1> QED
  BY <1>1, <1>2

LEMMA EndMaps ==
  ASSUME Inv, End
  PROVE  [Ideal!Next]_Ideal!vars
<1>1. /\ Time!Idle
      /\ now' = IF Time!In("sleeping") = {} THEN now ELSE EndOfTime
      /\ \A x \in Threads : state[x] = "sleeping" => deadline[x] = EndOfTime
      /\ UNCHANGED <<count, waitsFor, wakeUpEvent, end>>
  BY DEF End, waitVars, Time!End, Time!In
<1>2. now \in Times /\ EndOfTime \in Times /\ now <= EndOfTime
  BY TimeAssumption DEF Inv, TypeOK, Times
<1>3. now' \in Times /\ now' >= now /\ now' <= EndOfTime
  BY <1>1, <1>2 DEF Times
<1> QED
  BY <1>1, <1>3, TimePasses

LEMMA AcquireMaps ==
  ASSUME Inv, NEW t \in Threads, NEW s \in Semaphores, Acquire(t, s)
  PROVE  Ideal!Next
<1>1. CASE AcquireAtOnce(t, s)
  <2>1. \A x \in Semaphores : Granted(x)' = Granted(x)
    BY <1>1, SameWaiters DEF AcquireAtOnce, waitVars
  <2>2. Tokens[s] > 0
    BY <1>1, TokensType DEF AcquireAtOnce, Tokens, Inv
  <2>3. Tokens' = [Tokens EXCEPT ![s] = Tokens[s] - 1]
    <3>1. /\ count'[s] = count[s] - 1
          /\ \A x \in Semaphores \ {s} : count'[x] = count[x]
      BY <1>1 DEF AcquireAtOnce, Inv, TypeOK
    <3>2. count'[s] + Cardinality(Granted(s)') = Tokens[s] - 1
      BY <2>1, <3>1, TokensType DEF Tokens, Inv
    <3> QED
      BY <2>1, <3>1, <3>2, OtherTokens
  <2>4. /\ waitsFor[t] = NoSemaphore /\ end[t] = 0
        /\ UNCHANGED <<now, waitsFor, end>>
    BY <1>1 DEF AcquireAtOnce, InCode, Inv, ThreadInv, waitVars, timeVars
  <2>5. /\ waitsFor' = [waitsFor EXCEPT ![t] = NoSemaphore]
        /\ end' = [end EXCEPT ![t] = 0]
    BY <2>4 DEF Inv, TypeOK
  <2>6. Ideal!Acquire(t, s)
    BY <2>2, <2>3, <2>4, <2>5 DEF Ideal!Acquire, Tokens
  <2> QED
    BY <2>6 DEF Ideal!Next
<1>2. ASSUME NEW duration \in Durations \cup {EndOfTime},
             BeginAcquire(t, s, duration)
      PROVE  Ideal!Next
  <2>1. Tokens' = Tokens
    BY <1>2, BeginAcquireStep, SameTokens DEF BeginAcquire
  <2>2. Until(duration) \in Times /\ Until(duration) >= now
    BY <1>2, UntilFacts DEF BeginAcquire, Inv, Times
  <2>3. now' = now
    BY <1>2, DozeFacts DEF BeginAcquire, InCode, Inv
  <2>4. Ideal!Wait(t, s, Until(duration))
    BY <1>2, <2>1, <2>2, <2>3 DEF Ideal!Wait, Tokens, BeginAcquire, InCode
  <2> QED
    BY <2>2, <2>4 DEF Ideal!Next, Times
<1>3. CASE GiveUp(t, s)
  <2>1. Tokens' = Tokens
    BY <1>3, GiveUpStep, SameTokens DEF GiveUp
  <2>2. now = end[t] /\ waitsFor[t] # NoSemaphore
    BY <1>3, SemaphoresAssumption DEF GiveUp, Inv, ThreadInv
  <2>3. Ideal!GiveUp(t)
    BY <1>3, <2>1, <2>2 DEF Ideal!GiveUp, GiveUp, Tokens, timeVars
  <2> QED
    BY <2>3 DEF Ideal!Next
<1>4. CASE EndAcquire(t, s)
  <2>1. /\ t \in Granted(s) /\ Granted(s)' = Granted(s) \ {t}
        /\ \A x \in Semaphores \ {s} : Granted(x)' = Granted(x)
    BY <1>4, EndAcquireStep
  <2>2. Cardinality(Granted(s)') = Cardinality(Granted(s)) - 1
    BY <2>1, TokensType, FS_RemoveElement DEF Inv
  <2>3. Cardinality(Granted(s)) > 0
    BY <2>1, TokensType, FS_EmptySet DEF Inv
  <2>4. Tokens[s] > 0
    BY <2>3, TokensType DEF Tokens, Inv
  <2>5. Tokens' = [Tokens EXCEPT ![s] = Tokens[s] - 1]
    <3>1. count' = count
      BY <1>4 DEF EndAcquire
    <3>2. count'[s] + Cardinality(Granted(s)') = Tokens[s] - 1
      BY <2>2, <3>1, TokensType DEF Tokens, Inv
    <3> QED
      BY <2>1, <3>1, <3>2, OtherTokens
  <2>6. Ideal!Acquire(t, s)
    BY <1>4, <2>4, <2>5 DEF Ideal!Acquire, EndAcquire, Tokens, timeVars
  <2> QED
    BY <2>6 DEF Ideal!Next
<1> QED
  BY <1>1, <1>2, <1>3, <1>4 DEF Acquire

LEMMA ReleaseMaps ==
  ASSUME Inv, NEW t \in Threads, NEW s \in Semaphores, Release(t, s)
  PROVE  Ideal!Next
<1>1. Tokens' = [Tokens EXCEPT ![s] = Tokens[s] + 1] /\ now' = now
  <2>1. CASE waitingList[s] # <<>>
    <3> DEFINE first == Head(waitingList[s])
    <3>1. /\ UNCHANGED <<now, count>>
          /\ first \notin Granted(s)
          /\ Granted(s)' = Granted(s) \cup {first}
          /\ \A x \in Semaphores \ {s} : Granted(x)' = Granted(x)
      BY <2>1, HandOver
    <3> HIDE DEF first
    <3>2. Cardinality(Granted(s)') = Cardinality(Granted(s)) + 1
      BY <3>1, TokensType, FS_AddElement DEF Inv
    <3>3. count'[s] + Cardinality(Granted(s)') = Tokens[s] + 1
      BY <3>1, <3>2, TokensType DEF Tokens, Inv
    <3> QED
      BY <3>1, <3>3, OtherTokens
  <2>2. CASE waitingList[s] = <<>>
    <3>1. /\ now' = now
          /\ count' = [count EXCEPT ![s] = @ + 1]
          /\ \A x \in Semaphores : Granted(x)' = Granted(x)
      BY <2>2, KeepToken
    <3>2. /\ count'[s] = count[s] + 1
          /\ \A x \in Semaphores \ {s} : count'[x] = count[x]
      BY <3>1 DEF Inv, TypeOK
    <3>3. count'[s] + Cardinality(Granted(s)') = Tokens[s] + 1
      BY <3>1, <3>2, TokensType DEF Tokens, Inv
    <3> QED
      BY <3>1, <3>2, <3>3, OtherTokens
  <2> QED
    BY <2>1, <2>2
<1>2. Ideal!Release(s)
  BY <1>1 DEF Ideal!Release, Release, Tokens
<1> QED
  BY <1>2 DEF Ideal!Next

\* Semaphores of simulated threads implement ideal ones: no token is lost or
\* doubled, none waits for a waiter while time passes, and timeouts are exact.
THEOREM Refinement == Spec => ImplementsSemaphores
<1>1. Init => Ideal!Init
  <2> SUFFICES ASSUME Init PROVE Ideal!Init
    OBVIOUS
  <2>1. \A s \in Semaphores : Granted(s) = {}
    BY SemaphoresAssumption DEF Init, Granted
  <2>2. Tokens = [s \in Semaphores |-> IF s \in Mutexes THEN 1 ELSE 0]
    <3>1. \A s \in Semaphores : Cardinality(Granted(s)) = 0
      BY <2>1, FS_EmptySet
    <3>2. \A s \in Semaphores :
            count[s] + Cardinality(Granted(s)) = IF s \in Mutexes THEN 1 ELSE 0
      BY <3>1 DEF Init
    <3> QED
      BY <3>2 DEF Tokens
  <2> QED
    BY <2>2 DEF Init, Ideal!Init, Time!Init, Tokens
<1>2. Inv /\ [Next]_vars => [Ideal!Next]_Ideal!vars
  <2> SUFFICES ASSUME Inv, [Next]_vars PROVE [Ideal!Next]_Ideal!vars
    OBVIOUS
  <2>1. ASSUME waitsFor' = waitsFor, count' = count, now' = now, end' = end,
               \A x \in Threads :
                 waitsFor[x] # NoSemaphore => wakeUpEvent'[x] = wakeUpEvent[x]
        PROVE  UNCHANGED Ideal!vars
    BY <2>1, SameWaiters, SameTokens DEF Ideal!vars, Tokens
  <2>2. CASE UNCHANGED vars
    BY <2>1, <2>2 DEF vars, timeVars, waitVars
  <2>3. ASSUME NEW t \in Threads, Start(t) PROVE UNCHANGED Ideal!vars
    BY <2>1, <2>3 DEF Start, waitVars, Time!Add
  <2>4. ASSUME NEW t \in Threads, NEW duration \in Durations, Sleep(t, duration)
        PROVE  UNCHANGED Ideal!vars
    <3>1. now' = now
      BY <2>4 DEF Sleep, Doze, Time!Sleep, timeVars
    <3>2. \A x \in Threads :
            waitsFor[x] # NoSemaphore => wakeUpEvent'[x] = wakeUpEvent[x]
      BY <2>4 DEF Sleep, InCode, Inv, TypeOK
    <3> QED
      BY <2>1, <2>4, <3>1, <3>2 DEF Sleep
  <2>5. ASSUME NEW t \in Threads, Exit(t) PROVE UNCHANGED Ideal!vars
    BY <2>1, <2>5 DEF Exit, waitVars, Time!Leave
  <2> QED
    BY <2>2, <2>3, <2>4, <2>5, ResumeMaps, EndMaps, AcquireMaps, ReleaseMaps
       DEF Next
<1> QED
  BY <1>1, <1>2, InvEver, PTL DEF Spec, ImplementsSemaphores, Ideal!Spec

=============================================================================
