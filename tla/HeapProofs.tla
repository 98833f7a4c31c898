----------------------------- MODULE HeapProofs -----------------------------
(***************************************************************************)
(* The structure of utils::Heap, proved for any elements, keys and any     *)
(* capacity: the invariants of its loops, and that it is a priority queue. *)
(***************************************************************************)
EXTENDS Heap, WellFoundedInduction, TLAPS

\* Where the loops are: the part of the invariant that Linked and Ordered
\* rely on.
InRange ==
  /\ phase = "up" => number < N /\ at <= number
  /\ phase = "shift" => number > 1 /\ at < number
  /\ phase = "down" => at < number \/ (number = 0 /\ at = 0)

Invariant == TypeOK /\ InRange /\ Linked /\ Ordered /\ OnlyFullThrows

-----------------------------------------------------------------------------
(* The tree.                                                               *)

LEMMA TreeFacts ==
  ASSUME NEW n \in Nat
  PROVE  /\ n > 0 => /\ Parent(n) \in Nat /\ Parent(n) < n
                     /\ (n = Left(Parent(n)) \/ n = Right(Parent(n)))
         /\ Left(n) \in Nat /\ Left(n) > n /\ Parent(Left(n)) = n
         /\ Right(n) = Left(n) + 1 /\ Parent(Right(n)) = n
BY DEF Parent, Left, Right

LEMMA Ranges ==
  ASSUME TypeOK, InRange
  PROVE  /\ N \in Nat /\ N > 0 /\ number \in Nat /\ number <= N
         /\ at \in Nat /\ at < N /\ Taken \in Nat /\ Taken <= N
         /\ phase = "up" => Taken = number + 1
         /\ phase # "up" => Taken = number
BY CapacityAssumption DEF TypeOK, InRange, Positions, Taken

\* What is stored at a position in use.
LEMMA Stored ==
  ASSUME Invariant, phase # "failed", NEW i \in Nat
  PROVE  /\ Occupied(i) <=> i < Taken
         /\ i < Taken => /\ i \in Positions
                         /\ buffer[i] \in Elements
                         /\ Key[buffer[i]] \in Int
                         /\ index[buffer[i]] \in Positions
                         /\ ~Hole(i) => index[buffer[i]] = i
<1>1. Taken \in Nat /\ Taken <= N /\ N \in Nat
  BY Ranges DEF Invariant
<1>2. i < N => i \in Positions
  BY <1>1 DEF Positions
<1>3. i < N => (buffer[i] # Null <=> i < Taken)
  BY <1>2 DEF Invariant, Linked
<1>4. Occupied(i) <=> i < Taken
  BY <1>1, <1>3 DEF Occupied
<1>5. ASSUME i < Taken PROVE i \in Positions /\ buffer[i] \in Elements
  BY <1>1, <1>2, <1>3, <1>5 DEF Invariant, TypeOK
<1>6. ASSUME i < Taken, ~Hole(i) PROVE index[buffer[i]] = i
  BY <1>5, <1>6 DEF Invariant, Linked
<1> QED
  BY <1>4, <1>5, <1>6, KeyAssumption DEF Invariant, TypeOK

\* Different positions hold different elements, but for the hole.
LEMMA StoredOnce ==
  ASSUME Invariant, phase # "failed", NEW i \in Nat, NEW j \in Nat,
         i < Taken, j < Taken, ~Hole(i), ~Hole(j), buffer[i] = buffer[j]
  PROVE  i = j
BY Stored

-----------------------------------------------------------------------------
LEMMA InitInvariant == Init => Invariant
BY CapacityAssumption, NullAssumption
DEF Init, Invariant, TypeOK, InRange, Linked, Ordered, OnlyFullThrows,
    Positions, Phases, Taken, Hole

LEMMA PushStep ==
  ASSUME Invariant, NEW e \in Elements, Push(e)
  PROVE  Invariant'
<1>1. CASE number >= N
  <2>1. number = N /\ phase' = "failed"
        /\ UNCHANGED <<buffer, number, index, at, given>>
    BY <1>1, CapacityAssumption DEF Push, Fail, Invariant, TypeOK
  <2> QED
    BY <2>1 DEF Invariant, TypeOK, InRange, Linked, Ordered, OnlyFullThrows,
                Phases
<1>2. CASE number < N
  <2>1. /\ phase = "idle" /\ e \notin Members /\ number \in Positions
        /\ buffer' = [buffer EXCEPT ![number] = e]
        /\ index' = [index EXCEPT ![e] = number]
        /\ phase' = "up" /\ at' = number /\ given' = Null /\ number' = number
    BY <1>2, CapacityAssumption DEF Push, Invariant, TypeOK, Positions
  <2>2. TypeOK' /\ InRange' /\ OnlyFullThrows'
    BY <1>2, <2>1, CapacityAssumption
    DEF Invariant, TypeOK, InRange, OnlyFullThrows, Phases, Positions
  <2>3. number \in Nat /\ Taken = number /\ Taken' = number + 1
    BY <2>1, CapacityAssumption DEF Taken, Invariant, TypeOK
  <2>4. ASSUME NEW i \in Positions
        PROVE  /\ buffer'[i] # Null <=> i < Taken'
               /\ i < Taken' => index'[buffer'[i]] = i
    <3>1. i \in Nat /\ (buffer[i] # Null <=> i < number)
      BY <2>1, <2>3, CapacityAssumption DEF Invariant, Linked, Positions
    <3>2. CASE i = number
      BY <2>1, <2>3, <3>2, NullAssumption DEF Invariant, TypeOK
    <3>3. CASE i # number
      <4>1. buffer'[i] = buffer[i]
        BY <2>1, <3>3 DEF Invariant, TypeOK
      <4>2. i < number => buffer[i] # e /\ buffer[i] \in Elements
                          /\ index[buffer[i]] = i
        BY <2>1, <2>3, <3>1, Stored DEF Members, Hole
      <4> QED
        BY <2>1, <2>3, <3>1, <3>3, <4>1, <4>2 DEF Invariant, TypeOK
    <3> QED
      BY <3>2, <3>3
  <2>5. Linked'
    BY <2>4 DEF Linked
  <2>6. ASSUME NEW i \in Positions, i > 0, i < Taken'
        PROVE  /\ (~Less(i, Parent(i))' \/ i = number)
               /\ ~(Parent(i) = number)
    <3>1. i \in Nat /\ Parent(i) \in Nat /\ Parent(i) < i /\ i <= number
      BY <2>3, <2>6, TreeFacts DEF Positions
    <3>2. CASE i < number
      <4>1. ~Less(i, Parent(i))
        BY <2>1, <2>3, <2>6, <3>2 DEF Invariant, Ordered
      <4>2. buffer'[i] = buffer[i] /\ buffer'[Parent(i)] = buffer[Parent(i)]
        BY <2>1, <3>1, <3>2 DEF Invariant, TypeOK
      <4> QED
        BY <3>1, <3>2, <4>1, <4>2 DEF Less
    <3> QED
      BY <2>3, <3>1, <3>2
  <2>7. Ordered'
    BY <2>1, <2>6 DEF Ordered
  <2> QED
    BY <2>2, <2>5, <2>7 DEF Invariant
<1> QED
  BY <1>1, <1>2, CapacityAssumption DEF Invariant, TypeOK

\* Exchanging two elements keeps the links.
LEMMA SwapLinks ==
  ASSUME Invariant, phase \in {"up", "down"}, phase' \in {"up", "down"},
         NEW n \in Nat, NEW m \in Nat, n # m, n < Taken, m < Taken,
         Swap(n, m), Taken' = Taken
  PROVE  /\ Linked'
         /\ buffer' \in [Positions -> Elements \cup {Null}]
         /\ index' \in [Elements -> Positions]
         /\ buffer'[n] = buffer[m] /\ buffer'[m] = buffer[n]
         /\ \A i \in Positions \ {n, m} : buffer'[i] = buffer[i]
<1>1. /\ n \in Positions /\ m \in Positions
      /\ buffer[n] \in Elements /\ buffer[m] \in Elements
      /\ index[buffer[n]] = n /\ index[buffer[m]] = m
  BY Stored DEF Hole
<1>2. /\ buffer' = [buffer EXCEPT ![n] = buffer[m], ![m] = buffer[n]]
      /\ index' = [index EXCEPT ![buffer[n]] = m, ![buffer[m]] = n]
      /\ buffer \in [Positions -> Elements \cup {Null}]
      /\ index \in [Elements -> Positions]
  BY DEF Swap, Invariant, TypeOK
<1>3. /\ buffer'[n] = buffer[m] /\ buffer'[m] = buffer[n]
      /\ \A i \in Positions \ {n, m} : buffer'[i] = buffer[i]
      /\ buffer' \in [Positions -> Elements \cup {Null}]
      /\ index' \in [Elements -> Positions]
  BY <1>1, <1>2
<1>4. index'[buffer[n]] = m /\ index'[buffer[m]] = n
  BY <1>1, <1>2
<1>5. ASSUME NEW i \in Positions
      PROVE  /\ buffer'[i] # Null <=> i < Taken'
             /\ i < Taken' => index'[buffer'[i]] = i
  <2>1. i \in Nat /\ (buffer[i] # Null <=> i < Taken)
    BY DEF Invariant, Linked, Positions
  <2>2. CASE i \in {n, m}
    BY <1>1, <1>3, <1>4, <2>2, NullAssumption
  <2>3. CASE i \notin {n, m}
    <3>1. buffer'[i] = buffer[i]
      BY <1>3, <2>3
    <3>2. ASSUME i < Taken PROVE index'[buffer[i]] = i
      <4>1. buffer[i] \in Elements /\ index[buffer[i]] = i
        BY <2>1, <3>2, Stored DEF Hole
      <4>2. buffer[i] # buffer[n] /\ buffer[i] # buffer[m]
        BY <1>1, <2>3, <4>1
      <4> QED
        BY <1>2, <4>1, <4>2
    <3> QED
      BY <2>1, <3>1, <3>2
  <2> QED
    BY <2>2, <2>3
<1>6. Linked'
  BY <1>5 DEF Linked
<1> QED
  BY <1>3, <1>6

LEMMA SiftUpStep ==
  ASSUME Invariant, SiftUp
  PROVE  Invariant'
<1> DEFINE p == Parent(at)
<1>1. /\ phase = "up" /\ phase' = "up" /\ at > 0 /\ at' = p
      /\ UNCHANGED <<number, given>>
      /\ Taken = number + 1 /\ Taken' = Taken /\ number < N
      /\ number \in Nat /\ at \in Nat /\ at < Taken
  BY Ranges DEF SiftUp, Taken, Invariant, InRange
<1>2. p \in Nat /\ p < at /\ p < Taken /\ p \in Positions /\ at \in Positions
  BY <1>1, TreeFacts, Stored
<1>3. InRange' /\ OnlyFullThrows' /\ at' \in Positions
  BY <1>1, <1>2 DEF InRange, OnlyFullThrows
<1>4. ASSUME NEW i \in Positions, i > 0, i < Taken
      PROVE  /\ i \in Nat /\ Parent(i) \in Nat /\ Parent(i) < i
             /\ Parent(i) < Taken /\ Parent(i) \in Positions
             /\ Key[buffer[i]] \in Int /\ Key[buffer[Parent(i)]] \in Int
             /\ i # at => Key[buffer[i]] >= Key[buffer[Parent(i)]]
             /\ Parent(i) = at => Key[buffer[i]] >= Key[buffer[p]]
  <2>1. i \in Nat /\ Parent(i) \in Nat /\ Parent(i) < i /\ Parent(i) < Taken
    BY <1>1, <1>4, TreeFacts DEF Positions
  <2>2. /\ Parent(i) \in Positions
        /\ Key[buffer[i]] \in Int /\ Key[buffer[Parent(i)]] \in Int
        /\ Key[buffer[p]] \in Int
    BY <1>1, <1>2, <1>4, <2>1, Stored
  <2>3. /\ (~Less(i, Parent(i)) \/ i = at)
        /\ Parent(i) = at => ~Less(i, p)
    BY <1>1, <1>4 DEF Invariant, Ordered
  <2> QED
    BY <2>1, <2>2, <2>3 DEF Less
<1>5. at \in Positions /\ Key[buffer[at]] \in Int /\ Key[buffer[p]] \in Int
      /\ at > 0 /\ at < Taken
  BY <1>1, <1>2, <1>4
<1>6. CASE ~Less(at, p)
  <2>1. UNCHANGED <<buffer, index>>
    BY <1>6 DEF SiftUp
  <2>2. TypeOK' /\ Linked'
    BY <1>1, <1>3, <2>1 DEF Invariant, TypeOK, Linked, Hole
  <2>3. ASSUME NEW i \in Positions, i > 0, i < Taken
        PROVE  /\ Key[buffer[i]] >= Key[buffer[Parent(i)]]
               /\ Parent(i) = p /\ p > 0
                    => Key[buffer[i]] >= Key[buffer[Parent(p)]]
    <3>1. Key[buffer[i]] >= Key[buffer[Parent(i)]]
      BY <1>4, <1>5, <1>6, <2>3 DEF Less
    <3>2. p > 0 => /\ Key[buffer[p]] >= Key[buffer[Parent(p)]]
                   /\ Key[buffer[Parent(p)]] \in Int
      BY <1>2, <1>4
    <3> QED
      BY <1>4, <1>5, <2>3, <3>1, <3>2
  <2>4. Ordered'
    BY <1>1, <1>4, <2>1, <2>3, <1>2 DEF Ordered, Less
  <2> QED
    BY <1>3, <2>2, <2>4 DEF Invariant
<1>7. CASE Less(at, p)
  <2>1. Swap(at, p)
    BY <1>7 DEF SiftUp
  <2>2. /\ Linked'
        /\ buffer' \in [Positions -> Elements \cup {Null}]
        /\ index' \in [Elements -> Positions]
        /\ buffer'[at] = buffer[p] /\ buffer'[p] = buffer[at]
        /\ \A i \in Positions \ {at, p} : buffer'[i] = buffer[i]
    BY <1>1, <1>2, <2>1, SwapLinks
  <2>3. TypeOK'
    BY <1>1, <1>3, <2>2 DEF Invariant, TypeOK
  <2>4. Key[buffer[at]] < Key[buffer[p]]
    BY <1>7 DEF Less
  <2>5. ASSUME NEW i \in Positions, i > 0, i < Taken
        PROVE  /\ (Key[buffer'[i]] >= Key[buffer'[Parent(i)]] \/ i = p)
               /\ Parent(i) = p /\ p > 0
                    => Key[buffer'[i]] >= Key[buffer'[Parent(p)]]
    <3>1. p > 0 => /\ Key[buffer[p]] >= Key[buffer[Parent(p)]]
                   /\ Key[buffer[Parent(p)]] \in Int
                   /\ Parent(p) \in Positions \ {at, p}
                   /\ buffer'[Parent(p)] = buffer[Parent(p)]
      BY <1>2, <1>4, <2>2
    <3>2. CASE i = at
      BY <1>5, <2>2, <2>4, <3>1, <3>2
    <3>3. CASE i = p
      BY <1>4, <2>5, <3>3
    <3>4. CASE i # at /\ i # p
      <4>1. buffer'[i] = buffer[i]
        BY <2>2, <3>4
      <4>2. CASE Parent(i) = at
        BY <1>2, <1>4, <2>2, <2>5, <4>1, <4>2
      <4>3. CASE Parent(i) = p
        <5>1. Key[buffer[i]] >= Key[buffer[p]] /\ Key[buffer[i]] \in Int
          BY <1>4, <2>5, <3>4, <4>3
        <5> QED
          BY <1>5, <2>2, <2>4, <3>1, <4>1, <4>3, <5>1
      <4>4. CASE Parent(i) # at /\ Parent(i) # p
        BY <1>4, <2>2, <2>5, <3>4, <4>1, <4>4
      <4> QED
        BY <4>2, <4>3, <4>4
    <3> QED
      BY <3>2, <3>3, <3>4
  <2>6. ASSUME NEW i \in Positions, i > 0, i < Taken
        PROVE  Key[buffer'[i]] \in Int /\ Key[buffer'[Parent(i)]] \in Int
    <3>1. /\ Parent(i) \in Positions
          /\ Key[buffer[i]] \in Int /\ Key[buffer[Parent(i)]] \in Int
      BY <1>4, <2>6
    <3> QED
      BY <1>5, <2>2, <3>1
  <2>7. p > 0 => Key[buffer'[Parent(p)]] \in Int
    BY <1>2, <2>6
  <2>8. Ordered'
    BY <1>1, <2>5, <2>6, <2>7 DEF Ordered, Less
  <2> QED
    BY <1>3, <2>2, <2>3, <2>8 DEF Invariant
<1> QED
  BY <1>6, <1>7

LEMMA EndOfPushStep ==
  ASSUME Invariant, EndOfPush
  PROVE  Invariant'
<1>1. /\ phase = "up" /\ phase' = "idle" /\ at = 0 /\ number' = number + 1
      /\ UNCHANGED <<buffer, index, at, given>>
      /\ number \in Nat /\ number < N /\ N \in Nat
      /\ Taken = number + 1 /\ Taken' = Taken
  BY Ranges DEF EndOfPush, Taken, Invariant, InRange
<1>2. TypeOK' /\ InRange' /\ OnlyFullThrows'
  BY <1>1 DEF Invariant, TypeOK, InRange, OnlyFullThrows, Phases
<1>3. Linked'
  BY <1>1 DEF Invariant, Linked, Hole
<1>4. Ordered'
  BY <1>1 DEF Invariant, Ordered, Less
<1> QED
  BY <1>2, <1>3, <1>4 DEF Invariant

\* Putting the last element in place of the root.  The root is the popped or
\* removed element itself, or a copy of one that has moved down.
LEMMA HeapifyStep ==
  ASSUME Invariant, Heapify, number > 0,
         phase = "idle" \/ (phase = "shift" /\ at = 0),
         given' \in Elements \cup {Null}
  PROVE  Invariant'
<1> DEFINE last == number - 1
<1>1. /\ buffer' = [buffer EXCEPT ![0] = buffer[last], ![last] = Null]
      /\ index' = [index EXCEPT ![buffer[last]] = 0]
      /\ number' = last /\ phase' = "down" /\ at' = 0
  BY DEF Heapify
<1>2. /\ number \in Nat /\ last \in Nat /\ number = last + 1 /\ last < N /\ N \in Nat /\ 0 < N
      /\ Taken = number /\ Taken' = last /\ last \in Positions
      /\ 0 \in Positions /\ last < Taken
      /\ phase # "failed" /\ (phase = "shift" => last # 0)
  BY Ranges DEF Heapify, Taken, Invariant, InRange, Positions
<1> HIDE DEF last
<1>3. buffer[last] \in Elements /\ index[buffer[last]] = last
  <2>1. CASE phase = "idle"
    BY <1>2, <2>1, Stored DEF Hole
  <2>2. CASE phase = "shift" /\ at = 0
    BY <1>2, <2>2, Stored DEF Hole
  <2> QED
    BY <2>1, <2>2
<1>4. /\ buffer'[last] = Null
      /\ last # 0 => buffer'[0] = buffer[last]
      /\ \A i \in Positions \ {0, last} : buffer'[i] = buffer[i]
      /\ buffer' \in [Positions -> Elements \cup {Null}]
      /\ index' \in [Elements -> Positions]
  BY <1>1, <1>2, <1>3 DEF Invariant, TypeOK
<1>5. TypeOK' /\ InRange' /\ OnlyFullThrows'
  BY <1>1, <1>2, <1>4
  DEF Invariant, TypeOK, InRange, OnlyFullThrows, Phases, Positions
<1>6. ASSUME NEW i \in Positions
      PROVE  /\ buffer'[i] # Null <=> i < last
             /\ i < last => index'[buffer'[i]] = i
  <2>1. i \in Nat /\ (buffer[i] # Null <=> i < number)
    BY <1>2 DEF Invariant, Linked, Positions
  <2>2. CASE i = last
    BY <1>2, <1>4, <2>2
  <2>3. CASE i = 0 /\ i # last
    <3>1. buffer'[i] = buffer[last] /\ index'[buffer[last]] = 0
      BY <1>1, <1>3, <1>4, <2>3 DEF Invariant, TypeOK
    <3> QED
      BY <1>2, <1>3, <2>3, <3>1, NullAssumption
  <2>4. CASE i # 0 /\ i # last
    <3>1. buffer'[i] = buffer[i]
      BY <1>4, <2>4
    <3>2. ASSUME i < last PROVE index'[buffer[i]] = i
      <4>1. ~Hole(i) /\ i < Taken
        BY <1>2, <2>1, <2>4, <3>2 DEF Hole
      <4>2. buffer[i] \in Elements /\ index[buffer[i]] = i
        BY <1>2, <2>1, <4>1, Stored
      <4>3. buffer[i] # buffer[last]
        BY <1>3, <2>4, <4>2
      <4> QED
        BY <1>1, <1>3, <4>2, <4>3 DEF Invariant, TypeOK
    <3> QED
      BY <1>2, <2>1, <2>4, <3>1, <3>2
  <2> QED
    BY <2>2, <2>3, <2>4
<1>7. Linked'
  BY <1>1, <1>2, <1>6 DEF Linked
<1>8. ASSUME NEW i \in Positions, i > 0, i < last, Parent(i) # 0
      PROVE  ~Less(i, Parent(i))'
  <2>1. /\ i \in Nat /\ Parent(i) \in Nat /\ Parent(i) < i
        /\ Parent(i) \in Positions
    BY <1>2, <1>8, TreeFacts DEF Positions
  <2>2. ~Less(i, Parent(i))
    BY <1>2, <1>8 DEF Invariant, Ordered
  <2>3. buffer'[i] = buffer[i] /\ buffer'[Parent(i)] = buffer[Parent(i)]
    BY <1>2, <1>4, <1>8, <2>1
  <2> QED
    BY <2>2, <2>3 DEF Less
<1>9. Ordered'
  BY <1>1, <1>2, <1>8 DEF Ordered
<1> QED
  BY <1>5, <1>7, <1>9 DEF Invariant

LEMMA PopStep ==
  ASSUME Invariant, Pop
  PROVE  Invariant'
<1>1. 0 < Taken /\ phase = "idle" /\ number > 0
  BY Ranges DEF Pop, Invariant, Taken
<1>2. buffer[0] \in Elements
  BY <1>1, Stored
<1> QED
  BY <1>1, <1>2, HeapifyStep DEF Pop

LEMMA RemoveStep ==
  ASSUME Invariant, NEW e \in Elements, Remove(e)
  PROVE  Invariant'
<1>1. PICK i \in Positions : buffer[i] = e
  BY DEF Remove, Members
<1>2. /\ phase = "idle" /\ Taken = number /\ number \in Nat /\ i \in Nat
      /\ number <= N /\ N \in Nat
  BY Ranges DEF Remove, Invariant, Taken, Positions
<1>3. i < number
  BY <1>1, <1>2, NullAssumption DEF Invariant, Linked
<1>4. index[e] = i
  BY <1>1, <1>2, <1>3, Stored DEF Hole
<1>5. CASE i = 0
  <2>1. Heapify /\ given' = Null
    BY <1>2, <1>3, <1>4, <1>5 DEF Remove
  <2> QED
    BY <1>2, <1>3, <2>1, HeapifyStep
<1>6. CASE i # 0
  <2>1. /\ phase' = "shift" /\ at' = i
        /\ UNCHANGED <<buffer, number, index, given>>
    BY <1>2, <1>3, <1>4, <1>6 DEF Remove
  <2>2. TypeOK' /\ InRange' /\ OnlyFullThrows'
    BY <1>2, <1>3, <1>6, <2>1
    DEF Invariant, TypeOK, InRange, OnlyFullThrows, Phases
  <2>3. Linked' /\ Ordered'
    BY <1>2, <2>1 DEF Invariant, Linked, Ordered, Hole, Taken, Less
  <2> QED
    BY <2>2, <2>3 DEF Invariant
<1> QED
  BY <1>5, <1>6

LEMMA ShiftDownStep ==
  ASSUME Invariant, ShiftDown
  PROVE  Invariant'
<1> DEFINE p == Parent(at)
<1>1. /\ phase = "shift" /\ phase' = "shift" /\ at # 0 /\ at' = p
      /\ number' = number /\ given' = Null
      /\ buffer' = [buffer EXCEPT ![at] = buffer[p]]
      /\ index' = [index EXCEPT ![buffer[p]] = at]
      /\ Taken = number /\ Taken' = Taken /\ number > 1 /\ at < number
      /\ number \in Nat /\ at \in Nat /\ at \in Positions
  BY Ranges DEF ShiftDown, Taken, Invariant, InRange, TypeOK
<1>2. /\ p \in Nat /\ p < at /\ p < Taken /\ p \in Positions
      /\ buffer[p] \in Elements /\ index[buffer[p]] = p
  BY <1>1, TreeFacts, Stored DEF Hole
<1> HIDE DEF p
<1>3. TypeOK' /\ InRange' /\ OnlyFullThrows'
  BY <1>1, <1>2 DEF Invariant, TypeOK, InRange, OnlyFullThrows
<1>4. /\ buffer'[at] = buffer[p]
      /\ \A i \in Positions \ {at} : buffer'[i] = buffer[i]
  BY <1>1 DEF Invariant, TypeOK
<1>5. ASSUME NEW i \in Positions
      PROVE  /\ buffer'[i] # Null <=> i < Taken'
             /\ i < Taken' /\ i # p => index'[buffer'[i]] = i
  <2>1. i \in Nat /\ (buffer[i] # Null <=> i < Taken)
    BY <1>1 DEF Invariant, Linked, Positions
  <2>2. CASE i = at
    <3>1. index'[buffer[p]] = at
      BY <1>1, <1>2 DEF Invariant, TypeOK
    <3> QED
      BY <1>1, <1>2, <1>4, <2>1, <2>2, <3>1, NullAssumption
  <2>3. CASE i # at
    <3>1. buffer'[i] = buffer[i]
      BY <1>4, <2>3
    <3>2. ASSUME i < Taken, i # p PROVE index'[buffer[i]] = i
      <4>1. buffer[i] \in Elements /\ index[buffer[i]] = i
        BY <1>1, <2>1, <2>3, <3>2, Stored DEF Hole
      <4>2. buffer[i] # buffer[p]
        BY <1>2, <3>2, <4>1
      <4> QED
        BY <1>1, <1>2, <4>1, <4>2 DEF Invariant, TypeOK
    <3> QED
      BY <1>1, <2>1, <3>1, <3>2
  <2> QED
    BY <2>2, <2>3
<1>6. Linked'
  BY <1>1, <1>5 DEF Linked, Hole
<1>7. ASSUME NEW i \in Positions, i > 0, i < Taken
      PROVE  ~Less(i, Parent(i))'
  <2>1. /\ i \in Nat /\ Parent(i) \in Nat /\ Parent(i) < i
        /\ Parent(i) < Taken /\ Parent(i) \in Positions
    BY <1>1, <1>7, TreeFacts, CapacityAssumption DEF Positions
  <2>2. /\ Key[buffer[i]] \in Int /\ Key[buffer[Parent(i)]] \in Int
        /\ Key[buffer[at]] \in Int /\ Key[buffer[p]] \in Int
    BY <1>1, <1>2, <1>7, <2>1, Stored
  <2>3. ~Less(i, Parent(i)) /\ ~Less(at, p)
    BY <1>1, <1>2, <1>7 DEF Invariant, Ordered, p
  <2>4. Key[buffer[i]] >= Key[buffer[Parent(i)]]
        /\ Key[buffer[at]] >= Key[buffer[p]]
    BY <2>2, <2>3 DEF Less
  <2>5. CASE i = at
    <3>1. Parent(i) = p /\ buffer'[p] = buffer[p]
      BY <1>2, <1>4, <2>5 DEF p
    <3> QED
      BY <1>4, <2>2, <2>5, <3>1 DEF Less
  <2>6. CASE i # at /\ Parent(i) = at
    BY <1>4, <2>2, <2>4, <2>6 DEF Less
  <2>7. CASE i # at /\ Parent(i) # at
    BY <1>4, <2>1, <2>3, <2>7 DEF Less
  <2> QED
    BY <2>5, <2>6, <2>7
<1>8. Ordered'
  BY <1>1, <1>7 DEF Ordered
<1> QED
  BY <1>3, <1>6, <1>8 DEF Invariant

LEMMA EndOfShiftStep ==
  ASSUME Invariant, EndOfShift
  PROVE  Invariant'
<1>1. /\ phase = "shift" /\ at = 0 /\ number > 0 /\ Heapify
      /\ given' \in Elements \cup {Null}
  BY Ranges DEF EndOfShift, Invariant, InRange, TypeOK
<1> QED
  BY <1>1, HeapifyStep

LEMMA SiftDownStep ==
  ASSUME Invariant, SiftDown
  PROVE  Invariant'
<1> DEFINE c == SmallerChild(at)
           l == Left(at)
           r == Right(at)
<1>1. /\ phase = "down" /\ Taken = number /\ number \in Nat /\ at \in Nat
      /\ number <= N /\ N \in Nat /\ at \in Positions
      /\ phase # "failed"
  BY Ranges DEF SiftDown, Taken, Invariant, TypeOK
<1>2. /\ l \in Nat /\ l > at /\ r = l + 1 /\ Parent(l) = at /\ Parent(r) = at
  BY <1>1, TreeFacts
<1>3. /\ Occupied(l) <=> l < number
      /\ Occupied(r) <=> r < number
      /\ l < number => l \in Positions /\ Key[buffer[l]] \in Int
      /\ r < number => r \in Positions /\ Key[buffer[r]] \in Int
  BY <1>1, <1>2, Stored
<1>4. ~(Occupied(r) /\ ~Occupied(l))
  BY <1>1, <1>2, <1>3
<1>5. UNCHANGED <<number, given>>
  BY <1>4 DEF SiftDown
<1>6. \A i \in Positions : i > 0 /\ Parent(i) = at => i = l \/ i = r
  BY <1>1, TreeFacts DEF Positions
<1>7. Occupied(l) =>
        /\ c \in {l, r} /\ c \in Nat /\ c > at /\ c < number
        /\ c \in Positions /\ Parent(c) = at /\ Key[buffer[c]] \in Int
        /\ Key[buffer[c]] <= Key[buffer[l]]
        /\ Occupied(r) => Key[buffer[c]] <= Key[buffer[r]]
  <2>1. CASE Occupied(r) /\ ~Less(l, r)
    BY <1>1, <1>2, <1>3, <2>1 DEF SmallerChild, Less
  <2>2. CASE ~(Occupied(r) /\ ~Less(l, r))
    BY <1>1, <1>2, <1>3, <2>2 DEF SmallerChild, Less
  <2> QED
    BY <2>1, <2>2
<1> HIDE DEF c, l, r
<1>8. ASSUME NEW i \in Positions, i > 0, i < number
      PROVE  /\ i \in Nat /\ Parent(i) \in Nat /\ Parent(i) < i
             /\ Parent(i) < number /\ Parent(i) \in Positions
             /\ Key[buffer[i]] \in Int /\ Key[buffer[Parent(i)]] \in Int
             /\ Parent(i) # at => Key[buffer[i]] >= Key[buffer[Parent(i)]]
             /\ Parent(i) = at => /\ Occupied(l)
                                  /\ Key[buffer[i]] >= Key[buffer[c]]
             /\ Parent(i) = at /\ at > 0
                  => Key[buffer[i]] >= Key[buffer[Parent(at)]]
  <2>1. i \in Nat /\ Parent(i) \in Nat /\ Parent(i) < i /\ Parent(i) < number
    BY <1>1, <1>8, TreeFacts DEF Positions
  <2>2. /\ Parent(i) \in Positions
        /\ Key[buffer[i]] \in Int /\ Key[buffer[Parent(i)]] \in Int
    BY <1>1, <1>8, <2>1, Stored
  <2>3. at > 0 /\ at < number => Key[buffer[Parent(at)]] \in Int
    BY <1>1, TreeFacts, Stored
  <2>4. /\ (~Less(i, Parent(i)) \/ Parent(i) = at)
        /\ Parent(i) = at /\ at > 0 => ~Less(i, Parent(at))
    BY <1>1, <1>8 DEF Invariant, Ordered
  <2>5. Parent(i) # at => Key[buffer[i]] >= Key[buffer[Parent(i)]]
    BY <2>2, <2>4 DEF Less
  <2>6. Parent(i) = at /\ at > 0
          => Key[buffer[i]] >= Key[buffer[Parent(at)]]
    BY <2>1, <2>2, <2>3, <2>4 DEF Less
  <2>7. ASSUME Parent(i) = at
        PROVE  Occupied(l) /\ Key[buffer[i]] >= Key[buffer[c]]
    <3>1. i = l \/ i = r
      BY <1>6, <1>8, <2>7
    <3> QED
      BY <1>1, <1>2, <1>3, <1>7, <1>8, <2>2, <3>1
  <2> QED
    BY <2>1, <2>2, <2>5, <2>6, <2>7
<1>9. CASE ~(Occupied(l) /\ Less(c, at))
  <2>1. phase' = "idle" /\ UNCHANGED <<buffer, index, at>>
    BY <1>4, <1>9 DEF SiftDown, c, l, r
  <2>2. TypeOK' /\ InRange' /\ OnlyFullThrows' /\ Taken' = Taken
    BY <1>1, <1>5, <2>1
    DEF Invariant, TypeOK, InRange, OnlyFullThrows, Phases, Taken
  <2>3. Linked'
    BY <1>1, <1>5, <2>1, <2>2 DEF Invariant, Linked, Hole
  <2>4. ASSUME NEW i \in Positions, i > 0, i < number
        PROVE  ~Less(i, Parent(i))
    <3>1. CASE Parent(i) = at
      BY <1>7, <1>8, <1>9, <2>4, <3>1 DEF Less
    <3>2. CASE Parent(i) # at
      BY <1>8, <2>4, <3>2 DEF Less
    <3> QED
      BY <3>1, <3>2
  <2>5. Ordered'
    BY <1>1, <2>1, <2>2, <2>4 DEF Ordered, Less
  <2> QED
    BY <2>2, <2>3, <2>5 DEF Invariant
<1>10. CASE Occupied(l) /\ Less(c, at)
  <2>1. Swap(c, at) /\ at' = c /\ phase' = "down"
    BY <1>1, <1>4, <1>10 DEF SiftDown, c, l, r
  <2>2. /\ at < number /\ c < number /\ c # at /\ c \in Nat /\ c > 0
        /\ c \in Positions /\ Taken' = Taken /\ Parent(c) = at
        /\ Key[buffer[at]] \in Int /\ Key[buffer[c]] \in Int
        /\ Key[buffer[c]] < Key[buffer[at]]
    BY <1>1, <1>5, <1>7, <1>8, <1>10, <2>1 DEF Less, Taken
  <2>3. /\ Linked'
        /\ buffer' \in [Positions -> Elements \cup {Null}]
        /\ index' \in [Elements -> Positions]
        /\ buffer'[c] = buffer[at] /\ buffer'[at] = buffer[c]
        /\ \A i \in Positions \ {c, at} : buffer'[i] = buffer[i]
    BY <1>1, <2>1, <2>2, SwapLinks
  <2>4. TypeOK' /\ InRange' /\ OnlyFullThrows'
    BY <1>1, <1>5, <2>1, <2>2, <2>3
    DEF Invariant, TypeOK, InRange, OnlyFullThrows
  <2>5. ASSUME NEW i \in Positions, i > 0, i < number
        PROVE  Key[buffer'[i]] \in Int /\ Key[buffer'[Parent(i)]] \in Int
    BY <1>8, <2>2, <2>3, <2>5
  <2>6. ASSUME NEW i \in Positions, i > 0, i < number
        PROVE  /\ Parent(i) # c => Key[buffer'[i]] >= Key[buffer'[Parent(i)]]
               /\ Parent(i) = c => Key[buffer'[i]] >= Key[buffer'[at]]
    <3>1. CASE i = at
      <4>1. Parent(at) < at /\ Parent(at) \in Positions
            /\ Parent(at) \notin {c, at}
        BY <1>1, <1>7, <1>8, <1>10, <2>6, <3>1
      <4>2. buffer'[Parent(at)] = buffer[Parent(at)]
        BY <2>3, <4>1
      <4>3. Key[buffer[c]] >= Key[buffer[Parent(at)]]
        BY <1>8, <2>2, <2>6, <3>1
      <4> QED
        BY <2>3, <3>1, <4>1, <4>2, <4>3
    <3>2. CASE i = c
      BY <1>8, <2>2, <2>3, <2>6, <3>2
    <3>3. CASE i # at /\ i # c
      <4>1. buffer'[i] = buffer[i]
        BY <2>3, <3>3
      <4>2. CASE Parent(i) = c
        BY <1>8, <2>2, <2>3, <2>6, <4>1, <4>2
      <4>3. CASE Parent(i) = at
        BY <1>8, <2>2, <2>3, <2>6, <4>1, <4>3
      <4>4. CASE Parent(i) # c /\ Parent(i) # at
        BY <1>8, <2>3, <2>6, <4>1, <4>4
      <4> QED
        BY <4>2, <4>3, <4>4
    <3> QED
      BY <3>1, <3>2, <3>3
  <2>7. Key[buffer'[at]] \in Int
    BY <2>2, <2>3
  <2>8. Ordered'
    BY <1>1, <2>1, <2>2, <2>5, <2>6, <2>7 DEF Ordered, Less
  <2> QED
    BY <2>3, <2>4, <2>8 DEF Invariant
<1> QED
  BY <1>9, <1>10

LEMMA InvariantStep ==
  ASSUME Invariant, [Next]_vars
  PROVE  Invariant'
<1>1. CASE Iterate
  BY <1>1, SiftUpStep, EndOfPushStep, SiftDownStep, ShiftDownStep,
     EndOfShiftStep DEF Iterate
<1>2. CASE Pop
  BY <1>2, PopStep
<1>3. CASE \E e \in Elements : Remove(e) \/ Push(e)
  BY <1>3, RemoveStep, PushStep
<1>4. CASE UNCHANGED vars
  BY <1>4 DEF vars, Invariant, TypeOK, InRange, Linked, Ordered,
              OnlyFullThrows, Taken, Hole, Less
<1> QED
  BY <1>1, <1>2, <1>3, <1>4 DEF Next

THEOREM InvariantHolds == Spec => []Invariant
<1>1. Init => Invariant
  BY InitInvariant
<1>2. Invariant /\ [Next]_vars => Invariant'
  BY InvariantStep
<1> QED
  BY <1>1, <1>2, PTL DEF Spec

-----------------------------------------------------------------------------
(* What follows from the invariant.                                        *)

\* Types: no loop leaves the array.
THEOREM TypeCorrect == Spec => []TypeOK
<1>1. Invariant => TypeOK
  BY DEF Invariant
<1> QED
  BY <1>1, InvariantHolds, PTL

\* An element in the heap knows its position.
THEOREM LinksCorrect == Spec => []Linked
<1>1. Invariant => Linked
  BY DEF Invariant
<1> QED
  BY <1>1, InvariantHolds, PTL

\* The tree is in order, up to the element a loop is moving.
THEOREM OrderCorrect == Spec => []Ordered
<1>1. Invariant => Ordered
  BY DEF Invariant
<1> QED
  BY <1>1, InvariantHolds, PTL

\* Only a push on a full heap throws.
THEOREM NoOtherAssertionFires == Spec => []OnlyFullThrows
<1>1. Invariant => OnlyFullThrows
  BY DEF Invariant
<1> QED
  BY <1>1, InvariantHolds, PTL

-----------------------------------------------------------------------------
(* The heap is a priority queue.  There is no induction over the path from  *)
(* an element to the root: the first position that holds less than the root *)
(* is the child of an earlier one.                                          *)

Smaller == {p \in Nat \X Nat : p[1] < p[2]}

LEMMA SmallerWellFounded == IsWellFoundedOn(Smaller, Nat)
<1>1. Smaller = OpToRel(<, Nat)
  BY Zenon DEF OpToRel, Smaller
<1> QED
  BY <1>1, NatLessThanWellFounded, Zenon

LEMMA LeastNatural ==
  ASSUME NEW T, T \subseteq Nat, T # {}
  PROVE  \E x \in T : \A y \in T : x <= y
<1>1. PICK x \in T : \A y \in T : <<y, x>> \notin Smaller
  BY SmallerWellFounded, WFMin
<1>2. ASSUME NEW y \in T PROVE x <= y
  <2>1. x \in Nat /\ y \in Nat /\ <<y, x>> \notin Smaller
    BY <1>1
  <2> QED
    BY <2>1 DEF Smaller
<1> QED
  BY <1>2

\* Between two calls no element is less than the root.
LEMMA RootIsLeast ==
  ASSUME Invariant, phase = "idle", NEW i \in Nat, i < number
  PROVE  Key[buffer[0]] <= Key[buffer[i]]
<1> DEFINE T == {n \in Nat : n < number /\ Key[buffer[n]] < Key[buffer[0]]}
<1>1. Taken = number /\ number \in Nat
  BY Ranges DEF Invariant
<1>2. Key[buffer[0]] \in Int /\ Key[buffer[i]] \in Int
  BY <1>1, Stored
<1>3. T = {}
  <2> SUFFICES ASSUME T # {} PROVE FALSE
    OBVIOUS
  <2>1. T \subseteq Nat
    OBVIOUS
  <2> HIDE DEF T
  <2>2. PICK n \in T : \A m \in T : n <= m
    BY <2>1, LeastNatural
  <2>3. n \in Nat /\ n < number /\ Key[buffer[n]] < Key[buffer[0]]
    BY <2>2 DEF T
  <2>4. n > 0
    BY <1>2, <2>3
  <2>5. Parent(n) \in Nat /\ Parent(n) < n
    BY <2>3, <2>4, TreeFacts
  <2>6. /\ n \in Positions
        /\ Key[buffer[n]] \in Int /\ Key[buffer[Parent(n)]] \in Int
    BY <1>1, <2>3, <2>5, Stored
  <2>7. ~(Key[buffer[n]] < Key[buffer[Parent(n)]])
    BY <1>1, <2>3, <2>4, <2>6 DEF Invariant, Ordered, Less
  <2>8. Parent(n) \in T
    BY <1>1, <1>2, <2>3, <2>5, <2>6, <2>7 DEF T
  <2> QED
    BY <2>2, <2>3, <2>5, <2>8
<1>4. i \notin T
  BY <1>3
<1> QED
  BY <1>2, <1>4

-----------------------------------------------------------------------------
(* The elements in the array.                                              *)

LEMMA MembersFacts ==
  /\ \A e : e \in Members <=> e # Null /\ \E i \in Positions : buffer[i] = e
  /\ \A e : e \in Members' <=> e # Null /\ \E i \in Positions : buffer'[i] = e
BY DEF Members

\* Once remove() has written, what is in the hole is also where its index
\* says, which is not the root when the loop has come there.
HoleInv ==
  phase = "shift" =>
    LET own == index[buffer[at]] IN
    /\ buffer[own] = buffer[at]
    /\ own = at \/ given = Null
    /\ own # at \/ at # 0

LEMMA MemberStored ==
  ASSUME Invariant, phase # "failed", NEW e \in Members
  PROVE  \E i \in Nat : i < Taken /\ i \in Positions /\ buffer[i] = e
<1>1. PICK i \in Positions : buffer[i] = e /\ e # Null
  BY MembersFacts
<1>2. i \in Nat /\ i < Taken
  BY <1>1 DEF Invariant, Linked, Positions
<1> QED
  BY <1>1, <1>2

LEMMA SwapKeepsMembers ==
  ASSUME Invariant, NEW n \in Positions, NEW m \in Positions, Swap(n, m)
  PROVE  Members' = Members
<1>1. /\ buffer \in [Positions -> Elements \cup {Null}]
      /\ buffer' = [buffer EXCEPT ![n] = buffer[m], ![m] = buffer[n]]
  BY DEF Swap, Invariant, TypeOK
<1>2. /\ buffer'[m] = buffer[n]
      /\ n # m => buffer'[n] = buffer[m]
      /\ \A i \in Positions \ {n, m} : buffer'[i] = buffer[i]
  BY <1>1
<1>3. ASSUME NEW e
      PROVE  (\E i \in Positions : buffer'[i] = e)
               <=> (\E i \in Positions : buffer[i] = e)
  BY <1>2
<1>4. ASSUME NEW e PROVE e \in Members' <=> e \in Members
  BY <1>3, MembersFacts
<1> QED
  BY <1>4

\* The start of heapify drops what is at the root.
LEMMA HeapifyMembers ==
  ASSUME Invariant, number > 0, Heapify
  PROVE  \A e : e \in Members' <=>
                  e # Null /\ \E i \in Positions \ {0} : buffer[i] = e
<1> DEFINE last == number - 1
<1>1. /\ buffer \in [Positions -> Elements \cup {Null}]
      /\ buffer' = [buffer EXCEPT ![0] = buffer[last], ![last] = Null]
      /\ last \in Positions /\ 0 \in Positions
  BY CapacityAssumption DEF Heapify, Invariant, TypeOK, Positions
<1> HIDE DEF last
<1>2. /\ buffer'[last] = Null
      /\ last # 0 => buffer'[0] = buffer[last]
      /\ \A i \in Positions \ {0, last} : buffer'[i] = buffer[i]
  BY <1>1
<1>3. ASSUME NEW e, e # Null
      PROVE  (\E i \in Positions : buffer'[i] = e)
               <=> (\E i \in Positions \ {0} : buffer[i] = e)
  <2>1. ASSUME NEW i \in Positions, buffer'[i] = e
        PROVE  \E j \in Positions \ {0} : buffer[j] = e
    BY <1>1, <1>2, <1>3, <2>1
  <2>2. ASSUME NEW i \in Positions \ {0}, buffer[i] = e
        PROVE  \E j \in Positions : buffer'[j] = e
    BY <1>1, <1>2, <1>3, <2>2
  <2> QED
    BY <2>1, <2>2
<1> QED
  BY <1>3, MembersFacts

\* Between two calls that drops one element.
LEMMA HeapifyDrops ==
  ASSUME Invariant, phase = "idle", number > 0, Heapify
  PROVE  /\ buffer[0] \in Members /\ buffer[0] \in Elements
         /\ Members' = Members \ {buffer[0]}
<1>1. Taken = number /\ number \in Nat
  BY Ranges DEF Invariant
<1>2. 0 \in Positions /\ buffer[0] \in Elements /\ buffer[0] # Null
  BY <1>1, Stored, NullAssumption
<1>3. buffer[0] \in Members
  BY <1>2, MembersFacts
<1>4. ASSUME NEW i \in Positions \ {0} PROVE buffer[i] # buffer[0]
  <2> SUFFICES ASSUME buffer[i] = buffer[0] PROVE FALSE
    OBVIOUS
  <2>1. i \in Nat /\ i < number
    BY <1>1, <1>2 DEF Invariant, Linked, Positions
  <2> QED
    BY <1>1, <2>1, StoredOnce DEF Hole
<1>5. ASSUME NEW e PROVE e \in Members' <=> e \in Members /\ e # buffer[0]
  BY <1>4, HeapifyMembers, MembersFacts
<1> QED
  BY <1>2, <1>3, <1>5

-----------------------------------------------------------------------------
(* HoleInv is invariant, and each step is one of the queue's, or none.      *)

\* Outside of remove() nothing is said of the hole.
LEMMA NoHole == phase' # "shift" => HoleInv'
BY DEF HoleInv

LEMMA PushInserts ==
  ASSUME Invariant, NEW e \in Elements, Push(e)
  PROVE  HoleInv' /\ (Abstract!Insert(e) \/ UNCHANGED Abstract!vars)
<1>1. CASE number < N
  <2>1. /\ phase' = "up" /\ given' = Null /\ e \notin Members /\ e # Null
        /\ number \in Positions /\ phase = "idle"
        /\ buffer' = [buffer EXCEPT ![number] = e]
        /\ buffer \in [Positions -> Elements \cup {Null}]
    BY <1>1, CapacityAssumption, NullAssumption
    DEF Push, Invariant, TypeOK, Positions
  <2>2. buffer[number] = Null
    <3>1. ~(number < Taken)
      BY <2>1, Ranges DEF Invariant
    <3> QED
      BY <2>1, <3>1 DEF Invariant, Linked
  <2>3. /\ buffer'[number] = e
        /\ \A i \in Positions \ {number} : buffer'[i] = buffer[i]
    BY <2>1
  <2>4. ASSUME NEW x PROVE x \in Members' <=> x \in Members \/ x = e
    BY <2>1, <2>2, <2>3, MembersFacts
  <2>5. Members' = Members \cup {e}
    BY <2>4
  <2>6. Abstract!Insert(e)
    BY <2>1, <2>5 DEF Abstract!Insert
  <2> QED
    BY <2>1, <2>6, NoHole
<1>2. CASE ~(number < N)
  <2>1. phase' = "failed" /\ UNCHANGED <<buffer, given>>
    BY <1>2 DEF Push, Fail
  <2> QED
    BY <2>1, NoHole DEF Abstract!vars, Members
<1> QED
  BY <1>1, <1>2

LEMMA SiftsKeep ==
  ASSUME Invariant, SiftUp \/ EndOfPush \/ SiftDown
  PROVE  HoleInv' /\ UNCHANGED Abstract!vars
<1>1. phase' # "shift" /\ given' = given
  BY DEF SiftUp, EndOfPush, SiftDown, Fail
<1>2. Members' = Members
  <2>1. CASE UNCHANGED buffer
    BY <2>1 DEF Members
  <2>2. CASE SiftUp /\ Swap(at, Parent(at))
    <3>1. at \in Positions /\ Parent(at) \in Positions
      <4>1. phase = "up" /\ at > 0
        BY <2>2 DEF SiftUp
      <4>2. at \in Nat /\ at < N /\ N \in Nat
        BY Ranges DEF Invariant
      <4>3. Parent(at) \in Nat /\ Parent(at) < at
        BY <4>1, <4>2, TreeFacts
      <4> QED
        BY <4>2, <4>3 DEF Positions
    <3> QED
      BY <2>2, <3>1, SwapKeepsMembers
  <2>3. CASE SiftDown /\ Occupied(Left(at)) /\ Swap(SmallerChild(at), at)
    <3>1. at \in Positions /\ SmallerChild(at) \in Positions
      <4>1. at \in Nat /\ at < N /\ N \in Nat
        BY Ranges DEF Invariant
      <4>2. Left(at) \in Nat /\ Right(at) \in Nat
        BY <4>1, TreeFacts
      <4> QED
        BY <2>3, <4>1, <4>2 DEF Positions, SmallerChild, Occupied
    <3> QED
      BY <2>3, <3>1, SwapKeepsMembers
  <2> QED
    BY <2>1, <2>2, <2>3 DEF SiftUp, EndOfPush, SiftDown, Fail
<1> QED
  BY <1>1, <1>2, NoHole DEF Abstract!vars

LEMMA PopExtracts ==
  ASSUME Invariant, Pop
  PROVE  HoleInv' /\ \E e \in Elements : Abstract!Extract(e)
<1>1. phase = "idle" /\ number > 0 /\ given' = buffer[0] /\ Heapify
  BY DEF Pop
<1>2. /\ buffer[0] \in Members /\ buffer[0] \in Elements
      /\ Members' = Members \ {buffer[0]}
  BY <1>1, HeapifyDrops
<1>3. ASSUME NEW e \in Members PROVE Key[buffer[0]] <= Key[e]
  <2>1. PICK i \in Nat : i < Taken /\ buffer[i] = e
    BY <1>1, MemberStored
  <2>2. Taken = number
    BY <1>1 DEF Taken
  <2> QED
    BY <1>1, <2>1, <2>2, RootIsLeast
<1>4. Abstract!Extract(buffer[0])
  BY <1>1, <1>2, <1>3 DEF Abstract!Extract
<1>5. phase' # "shift"
  BY <1>1 DEF Heapify
<1> QED
  BY <1>2, <1>4, <1>5, NoHole

LEMMA RemoveDeletes ==
  ASSUME Invariant, NEW e \in Elements, Remove(e)
  PROVE  HoleInv' /\ (Abstract!Delete(e) \/ UNCHANGED Abstract!vars)
<1>1. phase = "idle" /\ e \in Members
  BY DEF Remove
<1>2. PICK i \in Nat : i < Taken /\ i \in Positions /\ buffer[i] = e
  BY <1>1, MemberStored
<1>3. index[e] = i /\ Taken = number
  BY <1>1, <1>2, Stored DEF Hole, Taken
<1>4. CASE index[e] >= number
  <2>1. phase' = "failed" /\ UNCHANGED <<buffer, given>>
    BY <1>4 DEF Remove, Fail
  <2> QED
    BY <2>1, NoHole DEF Abstract!vars, Members
<1>5. CASE ~(index[e] >= number) /\ index[e] # 0
  <2>1. /\ phase' = "shift" /\ at' = index[e]
        /\ UNCHANGED <<buffer, number, index, given>>
    BY <1>5 DEF Remove
  <2>2. HoleInv'
    BY <1>2, <1>3, <1>5, <2>1 DEF HoleInv
  <2> QED
    BY <2>1, <2>2 DEF Abstract!vars, Members
<1>6. CASE ~(index[e] >= number) /\ index[e] = 0
  <2>1. Heapify /\ given' = Null
    BY <1>6 DEF Remove
  <2>2. e = buffer[0] /\ number > 0
    BY <1>2, <1>3, <1>6
  <2>3. Members' = Members \ {e}
    BY <1>1, <2>1, <2>2, HeapifyDrops
  <2>4. Abstract!Delete(e)
    BY <1>1, <2>1, <2>3 DEF Abstract!Delete
  <2>5. phase' # "shift"
    BY <2>1 DEF Heapify
  <2> QED
    BY <2>4, <2>5, NoHole
<1> QED
  BY <1>4, <1>5, <1>6

\* The first time around, what is written over is deleted; afterwards it is
\* what has moved down before.
LEMMA ShiftDeletes ==
  ASSUME Invariant, HoleInv, ShiftDown
  PROVE  /\ HoleInv'
         /\ \/ \E e \in Elements : Abstract!Delete(e)
            \/ UNCHANGED Abstract!vars
<1> DEFINE p == Parent(at)
           old == buffer[at]
<1>1. /\ phase = "shift" /\ at # 0 /\ phase' = "shift" /\ at' = p /\ given' = Null
      /\ buffer' = [buffer EXCEPT ![at] = buffer[p]]
      /\ index' = [index EXCEPT ![buffer[p]] = at]
      /\ buffer \in [Positions -> Elements \cup {Null}]
      /\ index \in [Elements -> Positions]
  BY DEF ShiftDown, Invariant, TypeOK
<1>2. at \in Nat /\ at < number /\ Taken = number /\ number \in Nat
  BY <1>1, Ranges DEF Invariant, InRange
<1>3. p \in Nat /\ p < at
  BY <1>1, <1>2, TreeFacts
<1>4. /\ at \in Positions /\ old \in Elements /\ old # Null
      /\ index[old] \in Positions
      /\ p \in Positions /\ buffer[p] \in Elements
  BY <1>1, <1>2, <1>3, Stored, NullAssumption
<1>5. /\ buffer[index[old]] = old
      /\ index[old] = at \/ given = Null
  BY <1>1 DEF HoleInv
<1> HIDE DEF p
<1>6. /\ buffer'[at] = buffer[p]
      /\ \A i \in Positions \ {at} : buffer'[i] = buffer[i]
      /\ buffer'[p] = buffer[p] /\ index'[buffer[p]] = at
  BY <1>1, <1>3, <1>4
<1>7. HoleInv'
  BY <1>1, <1>3, <1>6 DEF HoleInv
<1> HIDE DEF old
<1>8. CASE index[old] = at
  <2>1. ASSUME NEW i \in Positions \ {at} PROVE buffer[i] # old
    <3> SUFFICES ASSUME buffer[i] = old PROVE FALSE
      OBVIOUS
    <3>1. i \in Nat /\ i < number
      BY <1>1, <1>2, <1>4 DEF Invariant, Linked, Positions
    <3>2. index[buffer[i]] = i
      BY <1>1, <1>2, <3>1, Stored DEF Hole
    <3> QED
      BY <1>8, <3>2
  <2>2. ASSUME NEW e PROVE e \in Members' <=> e \in Members /\ e # old
    BY <1>3, <1>4, <1>6, <2>1, MembersFacts DEF old
  <2>3. Members' = Members \ {old} /\ old \in Members
    BY <1>4, <2>2, MembersFacts DEF old
  <2>4. Abstract!Delete(old)
    BY <1>1, <2>3 DEF Abstract!Delete
  <2> QED
    BY <1>4, <1>7, <2>4
<1>9. CASE index[old] # at
  <2>1. ASSUME NEW e PROVE e \in Members' <=> e \in Members
    BY <1>4, <1>5, <1>6, <1>9, MembersFacts DEF old
  <2>2. Members' = Members /\ given' = given
    BY <1>1, <1>5, <1>9, <2>1
  <2> QED
    BY <1>7, <2>2 DEF Abstract!vars
<1> QED
  BY <1>8, <1>9

\* What the loop leaves at the root is also in a child.
LEMMA ShiftEnds ==
  ASSUME Invariant, HoleInv, EndOfShift
  PROVE  HoleInv' /\ UNCHANGED Abstract!vars
<1> DEFINE own == index[buffer[0]]
<1>1. /\ phase = "shift" /\ at = 0 /\ Heapify /\ given' = given
      /\ phase' # "shift" /\ number > 0
  BY Ranges DEF EndOfShift, Heapify, Invariant, InRange
<1>2. own # 0 /\ buffer[own] = buffer[0]
  BY <1>1 DEF HoleInv
<1>3. own \in Positions
  BY <1>1, Ranges, Stored DEF Invariant
<1>4. ASSUME NEW e PROVE e \in Members' <=> e \in Members
  BY <1>1, <1>2, <1>3, HeapifyMembers, MembersFacts
<1>5. Members' = Members
  BY <1>4
<1> QED
  BY <1>1, <1>5, NoHole DEF Abstract!vars

LEMMA QueueStep ==
  ASSUME Invariant, HoleInv, [Next]_vars
  PROVE  HoleInv' /\ (Abstract!Next \/ UNCHANGED Abstract!vars)
<1>1. CASE Iterate
  BY <1>1, SiftsKeep, ShiftDeletes, ShiftEnds DEF Iterate, Abstract!Next
<1>2. CASE Pop
  BY <1>2, PopExtracts DEF Abstract!Next
<1>3. CASE \E e \in Elements : Remove(e) \/ Push(e)
  BY <1>3, PushInserts, RemoveDeletes DEF Abstract!Next
<1>4. CASE UNCHANGED vars
  BY <1>4 DEF vars, HoleInv, Abstract!vars, Members
<1> QED
  BY <1>1, <1>2, <1>3, <1>4 DEF Next

LEMMA QueueInit == Init => HoleInv /\ Abstract!Init
<1> SUFFICES ASSUME Init PROVE HoleInv /\ Abstract!Init
  OBVIOUS
<1>1. phase = "idle" /\ given = Null /\ \A i \in Positions : buffer[i] = Null
  BY DEF Init
<1>2. \A e : e \notin Members
  BY <1>1, MembersFacts
<1>3. Members = {}
  BY <1>2
<1> QED
  BY <1>1, <1>3 DEF HoleInv, Abstract!Init

\* pop() gives a least element, and push, pop and remove change which elements
\* are in the heap by their element only: nothing is lost or doubled while the
\* loops move elements around, whatever the keys and the order of the calls.
THEOREM HeapIsPriorityQueue == Spec => ImplementsPriorityQueue
<1>1. Invariant /\ HoleInv /\ [Next]_vars
        => HoleInv' /\ [Abstract!Next]_Abstract!vars
  BY QueueStep
<1> QED
  BY <1>1, QueueInit, InvariantHolds, PTL
  DEF Spec, ImplementsPriorityQueue, Abstract!Spec

-----------------------------------------------------------------------------
(* What CallsReturn rests on.  Of liveness only the fairness of the loops  *)
(* is left to TLC: they get nearer to their end with every iteration.      *)

Looping == phase \in {"up", "shift", "down"}

\* How many iterations are left at most: remove() shifts the ancestors down and
\* then sinks the last element from the root.
IterationsLeft ==
  CASE phase = "up" -> at + 1
    [] phase = "shift" -> N + at + 1
    [] phase = "down" -> N - at
    [] OTHER -> 0

IterationsBounded == IterationsLeft \in 0 .. 2 * N

LoopsGetShorter ==
  [][Looping =>
       /\ Iterate
       /\ IterationsLeft' < IterationsLeft
       /\ phase' # "failed"]_vars

LEMMA LeftFacts ==
  ASSUME TypeOK
  PROVE  /\ IterationsLeft \in Nat /\ IterationsLeft <= 2 * N
         /\ Looping => IterationsLeft > 0
<1>1. N \in Nat /\ at \in Nat /\ at < N
  BY CapacityAssumption DEF TypeOK, Positions
<1> QED
  BY <1>1 DEF IterationsLeft, Looping

\* heapify sinks to a child, and never meets a right one without a left one.
LEMMA SiftDownShortens ==
  ASSUME Invariant, SiftDown
  PROVE  phase' \in {"down", "idle"} /\ (phase' = "down" => at' > at)
<1>1. at \in Nat /\ phase = "down"
  BY Ranges DEF SiftDown, Invariant
<1>2. Left(at) \in Nat /\ Right(at) \in Nat /\ Left(at) < Right(at)
      /\ Left(at) > at
  BY <1>1, TreeFacts
<1>3. Taken \in Nat /\ (Occupied(Left(at)) <=> Left(at) < Taken)
      /\ (Occupied(Right(at)) <=> Right(at) < Taken)
  BY <1>1, <1>2, Ranges, Stored DEF Invariant
<1>4. ~(Occupied(Right(at)) /\ ~Occupied(Left(at)))
  BY <1>2, <1>3
<1>5. SmallerChild(at) > at
  BY <1>1, <1>2 DEF SmallerChild
<1> QED
  BY <1>1, <1>4, <1>5 DEF SiftDown

LEMMA LoopStep ==
  ASSUME Invariant, Invariant', Looping, Next
  PROVE  Iterate /\ IterationsLeft' < IterationsLeft /\ phase' # "failed"
<1>1. N \in Nat /\ at \in Nat /\ at < N /\ at' \in Nat /\ at' < N
  BY CapacityAssumption DEF Invariant, TypeOK, Positions
<1>2. Iterate
  BY DEF Next, Looping, Pop, Remove, Push
<1>3. CASE SiftUp
  <2>1. phase = "up" /\ phase' = "up" /\ at' < at
    BY <1>1, <1>3, TreeFacts DEF SiftUp
  <2> QED
    BY <1>1, <1>2, <2>1 DEF IterationsLeft
<1>4. CASE EndOfPush
  BY <1>1, <1>2, <1>4 DEF EndOfPush, IterationsLeft
<1>5. CASE SiftDown
  <2>1. phase = "down" /\ phase' \in {"down", "idle"}
        /\ (phase' = "down" => at' > at)
    BY <1>5, SiftDownShortens DEF SiftDown
  <2> QED
    BY <1>1, <1>2, <2>1 DEF IterationsLeft
<1>6. CASE ShiftDown
  <2>1. phase = "shift" /\ phase' = "shift" /\ at' < at
    BY <1>1, <1>6, TreeFacts DEF ShiftDown
  <2> QED
    BY <1>1, <1>2, <2>1 DEF IterationsLeft
<1>7. CASE EndOfShift
  BY <1>1, <1>2, <1>7 DEF EndOfShift, Heapify, IterationsLeft
<1> QED
  BY <1>2, <1>3, <1>4, <1>5, <1>6, <1>7 DEF Iterate

\* A call that has begun does nothing but go on with its loops, none of which
\* throws, and has returned after at most twice as many iterations as the heap
\* has places.
THEOREM CallsAreShort == Spec => []IterationsBounded /\ LoopsGetShorter
<1>1. Invariant => IterationsBounded
  BY LeftFacts, CapacityAssumption DEF Invariant, IterationsBounded
<1>2. Invariant /\ Invariant' /\ [Next]_vars =>
        [Looping => /\ Iterate
                    /\ IterationsLeft' < IterationsLeft
                    /\ phase' # "failed"]_vars
  BY LoopStep
<1> QED
  BY <1>1, <1>2, InvariantHolds, PTL DEF Spec, LoopsGetShorter

=============================================================================
