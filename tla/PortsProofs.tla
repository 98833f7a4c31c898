----------------------------- MODULE PortsProofs -----------------------------
(***************************************************************************)
(* Proofs about Ports, for any runners, signals, ports, conditions and     *)
(* values, and however deep pushes nest.                                   *)
(***************************************************************************)
EXTENDS PortsProperties, TLAPS

Frames == Pushes \cup Callbacks

Distinct(l) == \A i, j \in 1 .. Len(l) : l[i] = l[j] => i = j

\* What a list has from a place on.
From(l, k) == {l[i] : i \in k .. Len(l)}

\* A port is bound once, and to its signal.
ListInv(s, l) ==
  /\ Distinct(ports[s][l])
  /\ \A i \in 1 .. Len(ports[s][l]) :
       SignalOf[ports[s][l][i]] = s /\ ListOf(ports[s][l][i]) = l

\* A push owes its value to the rest of the list at which it is: ports that are
\* bound meanwhile come before, and those that are destroyed are gone from both.
After(f, P) ==
  \E k \in 1 .. Len(P[f.signal][f.list]) :
    /\ P[f.signal][f.list][k] = f.at
    /\ f.owed = From(P[f.signal][f.list], k + 1)

AtIt(f, P) ==
  \E k \in 1 .. Len(P[f.signal][f.list]) :
    /\ P[f.signal][f.list][k] = f.at
    /\ f.owed = From(P[f.signal][f.list], k)

PushOk(f, P) ==
  /\ f.at = NoPort => f.owed = {} /\ f.stage = "head"
  /\ f.at # NoPort /\ f.stage = "inside" => After(f, P)
  /\ f.at # NoPort /\ f.stage # "inside" => AtIt(f, P)

\* A callback is called by a push.
StackOk(fs, P) ==
  \A i \in 1 .. Len(fs) :
    /\ fs[i].kind = "push" => PushOk(fs[i], P)
    /\ fs[i].kind = "callback" =>
         i > 1 /\ fs[i - 1].kind = "push" /\ fs[i - 1].stage = "inside"

Bound(q, P) == q \in ToSet(P[SignalOf[q]][ListOf(q)])

Met(c, V, R) ==
  IF c.port \in SamplePorts THEN V[c.port] = c.is
                            ELSE Len(R[c.port]) >= c.atLeast

WaitInv(r) ==
  waitsFor[r] # NoCondition =>
    /\ Bound(waitsFor[r].port, ports)
    /\ state[r] = "sleeping" => ~Met(waitsFor[r], value, ring)

Calls(S, v) ==
  \E r \in Runners : \E i \in 1 .. Len(S[r]) :
    S[r][i].kind = "callback" /\ RunnerOf[S[r][i].port] = v

VirtualInv == virtual # NoRunner => Calls(stack, virtual)

\* What holds as long as no assertion has failed.
Good ==
  /\ \A s \in Signals, l \in Lists : ListInv(s, l)
  /\ \A r \in Runners : StackOk(stack[r], ports)
  /\ \A q \in alive : Bound(q, ports)
  /\ \A r \in Runners : WaitInv(r)
  /\ VirtualInv

Inv == TypeOK /\ (~failed => Good)

-----------------------------------------------------------------------------
(* Sequences.                                                              *)

LEMMA PrependFacts ==
  ASSUME NEW S, NEW l \in Seq(S), NEW x \in S
  PROVE  /\ <<x>> \o l \in Seq(S)
         /\ Len(<<x>> \o l) = Len(l) + 1
         /\ (<<x>> \o l)[1] = x
         /\ \A i \in 1 .. Len(l) : (<<x>> \o l)[i + 1] = l[i]
         /\ \A i \in 2 .. Len(l) + 1 : (<<x>> \o l)[i] = l[i - 1]
OBVIOUS

\* prepend(): what comes after a port is not changed.
LEMMA Prepended ==
  ASSUME NEW S, NEW l \in Seq(S), NEW x \in S, Distinct(l), x \notin From(l, 1)
  PROVE  LET more == <<x>> \o l IN
         /\ Distinct(more)
         /\ \A i \in 1 .. Len(more) : more[i] = x \/ \E j \in 1 .. Len(l) : more[i] = l[j]
         /\ \A k \in 1 .. Len(l) + 1 : From(more, k + 1) = From(l, k)
<1> DEFINE more == <<x>> \o l
<1>6. /\ Len(more) = Len(l) + 1 /\ more[1] = x
      /\ \A i \in 1 .. Len(l) : more[i + 1] = l[i]
      /\ \A i \in 2 .. Len(l) + 1 : more[i] = l[i - 1]
  BY PrependFacts
<1>7. \A i \in 1 .. Len(l) : l[i] # x
  BY DEF From
<1> HIDE DEF more
<1>1. Len(l) \in Nat
  OBVIOUS
<1>2. \A i \in 1 .. Len(more) :
        \/ i = 1 /\ more[i] = x
        \/ i > 1 /\ i - 1 \in 1 .. Len(l) /\ more[i] = l[i - 1] /\ more[i] # x
  BY <1>1, <1>6, <1>7
<1>3. ASSUME NEW i \in 1 .. Len(more), NEW j \in 1 .. Len(more), more[i] = more[j]
      PROVE  i = j
  <2>1. CASE i = 1 \/ j = 1
    BY <2>1, <1>2, <1>3
  <2>2. CASE i # 1 /\ j # 1
    <3>1. i - 1 \in 1 .. Len(l) /\ j - 1 \in 1 .. Len(l) /\ l[i - 1] = l[j - 1]
      BY <2>2, <1>2, <1>3
    <3>2. i - 1 = j - 1
      BY <3>1 DEF Distinct
    <3> QED
      BY <3>2, <1>1
  <2> QED
    BY <2>1, <2>2
<1>4. ASSUME NEW k \in 1 .. Len(l) + 1
      PROVE  From(more, k + 1) = From(l, k)
  <2>1. ASSUME NEW y \in From(more, k + 1) PROVE y \in From(l, k)
    <3>1. PICK i \in k + 1 .. Len(more) : y = more[i]
      BY DEF From
    <3>2. i - 1 \in k .. Len(l) /\ y = l[i - 1]
      BY <3>1, <1>1, <1>6
    <3> QED
      BY <3>2 DEF From
  <2>2. ASSUME NEW y \in From(l, k) PROVE y \in From(more, k + 1)
    <3>1. PICK i \in k .. Len(l) : y = l[i]
      BY DEF From
    <3>2. i + 1 \in k + 1 .. Len(more) /\ y = more[i + 1]
      BY <3>1, <1>1, <1>6
    <3> QED
      BY <3>2 DEF From
  <2> QED
    BY <2>1, <2>2
<1>5. Distinct(more)
  BY <1>3 DEF Distinct
<1> QED
  BY <1>2, <1>4, <1>5 DEF more

\* remove(): what is at a place k, and only there.
LEMMA RemoveFacts ==
  ASSUME NEW S, NEW l \in Seq(S), NEW k \in 1 .. Len(l),
         Distinct(l)
  PROVE  LET rest == RemoveFirst(l, l[k]) IN
         /\ rest \in Seq(S)
         /\ Len(rest) = Len(l) - 1
         /\ \A i \in 1 .. Len(l) - 1 :
              rest[i] = IF i < k THEN l[i] ELSE l[i + 1]
<1> DEFINE I == {i \in 1 .. Len(l) : l[i] = l[k]}
<1>1. I = {k}
  BY DEF Distinct
<1>2. Min({k}) = k
  BY DEF Min
<1>3. SelectInSeq(l, LAMBDA v : v = l[k]) = k
  <2>1. SelectInSeq(l, LAMBDA v : v = l[k]) = IF I # {} THEN Min(I) ELSE 0
    BY DEF SelectInSeq
  <2> QED
    BY <2>1, <1>1, <1>2
<1>4. RemoveFirst(l, l[k]) = RemoveAt(l, k)
  BY <1>3 DEF RemoveFirst
<1>5. /\ SubSeq(l, 1, k - 1) \in Seq(S) /\ Len(SubSeq(l, 1, k - 1)) = k - 1
      /\ \A i \in 1 .. k - 1 : SubSeq(l, 1, k - 1)[i] = l[i]
  OBVIOUS
<1>6. /\ SubSeq(l, k + 1, Len(l)) \in Seq(S)
      /\ Len(SubSeq(l, k + 1, Len(l))) = Len(l) - k
      /\ \A i \in 1 .. Len(l) - k : SubSeq(l, k + 1, Len(l))[i] = l[k + i]
  OBVIOUS
<1> DEFINE front == SubSeq(l, 1, k - 1)
           back == SubSeq(l, k + 1, Len(l))
<1>7. RemoveAt(l, k) = front \o back
  BY DEF RemoveAt
<1> HIDE DEF front, back
<1>8. /\ front \o back \in Seq(S)
      /\ Len(front \o back) = Len(l) - 1
      /\ \A i \in 1 .. Len(l) - 1 :
           (front \o back)[i] = IF i < k THEN front[i] ELSE back[i - (k - 1)]
  <2>1. front \in Seq(S) /\ back \in Seq(S)
    BY <1>5, <1>6 DEF front, back
  <2>2. Len(front) = k - 1 /\ Len(back) = Len(l) - k
    BY <1>5, <1>6 DEF front, back
  <2>3. k - 1 + (Len(l) - k) = Len(l) - 1
    OBVIOUS
  <2>4. Len(front \o back) = Len(l) - 1
    <3>1. Len(front \o back) = Len(front) + Len(back)
      BY <2>1
    <3> QED
      BY <3>1, <2>2, <2>3
  <2>5. ASSUME NEW i \in 1 .. Len(l) - 1
        PROVE  (front \o back)[i] = IF i < k THEN front[i]
                                             ELSE back[i - (k - 1)]
    <3>1. i \in 1 .. Len(front) + Len(back)
      BY <2>2, <2>3
    <3>2. i < k <=> i <= Len(front)
      BY <2>2
    <3>3. (front \o back)[i] = IF i <= Len(front) THEN front[i]
                                                 ELSE back[i - Len(front)]
      BY <2>1, <3>1
    <3> QED
      BY <2>2, <3>2, <3>3
  <2> QED
    BY <2>1, <2>4, <2>5
<1>9. \A i \in 1 .. Len(l) - 1 : i >= k => back[i - (k - 1)] = l[i + 1]
  <2> TAKE i \in 1 .. Len(l) - 1
  <2> HAVE i >= k
  <2>1. i - (k - 1) \in 1 .. Len(l) - k /\ k + (i - (k - 1)) = i + 1
    OBVIOUS
  <2> QED
    BY <2>1, <1>6 DEF back
<1>10. \A i \in 1 .. Len(l) - 1 : i < k => front[i] = l[i]
  BY <1>5 DEF front
<1> QED
  BY <1>4, <1>7, <1>8, <1>9, <1>10

\* What comes after another port loses the one that is removed.
Without(rest, l, k) ==
  /\ Distinct(rest)
  /\ \A i \in 1 .. Len(rest) :
       rest[i] # l[k] /\ \E j \in 1 .. Len(l) : rest[i] = l[j]
  /\ \A j \in 1 .. Len(l) : j # k =>
       \E m \in 1 .. Len(rest) :
         /\ rest[m] = l[j]
         /\ From(rest, m) = From(l, j) \ {l[k]}
         /\ From(rest, m + 1) = From(l, j + 1) \ {l[k]}

LEMMA Removed ==
  ASSUME NEW S, NEW l \in Seq(S), Distinct(l), NEW k \in 1 .. Len(l)
  PROVE  /\ RemoveFirst(l, l[k]) \in Seq(S)
         /\ Without(RemoveFirst(l, l[k]), l, k)
<1> DEFINE rest == RemoveFirst(l, l[k])
<1>9. /\ rest \in Seq(S)
      /\ Len(rest) = Len(l) - 1
      /\ \A i \in 1 .. Len(l) - 1 : rest[i] = IF i < k THEN l[i] ELSE l[i + 1]
  BY RemoveFacts
<1> HIDE DEF rest
<1>1. Len(l) \in Nat
  OBVIOUS
<1> DEFINE Old(i) == IF i < k THEN i ELSE i + 1
           New(j) == IF j <= k THEN j ELSE j - 1
<1>2. \A i \in 1 .. Len(rest) :
        /\ Old(i) \in 1 .. Len(l) /\ Old(i) # k /\ rest[i] = l[Old(i)]
        /\ \A j \in 1 .. Len(l) + 1 : i >= New(j) => Old(i) >= j
  BY <1>1, <1>9
<1>3. \A i, j \in 1 .. Len(rest) : Old(i) = Old(j) => i = j
  BY <1>1, <1>9
<1>4. \A i \in 1 .. Len(l) : i # k =>
        /\ New(i) \in 1 .. Len(rest) /\ Old(New(i)) = i
        /\ New(i + 1) = New(i) + 1
        /\ \A j \in 1 .. Len(l) + 1 : i >= j => New(i) >= New(j)
  BY <1>1, <1>9
<1> HIDE DEF Old, New
<1>5. Distinct(rest)
  BY <1>2, <1>3 DEF Distinct
<1>6. \A i \in 1 .. Len(rest) : rest[i] # l[k]
  BY <1>2 DEF Distinct
<1>7. ASSUME NEW j \in 1 .. Len(l) + 1
      PROVE  From(rest, New(j)) = From(l, j) \ {l[k]}
  <2>0. New(j) \in Nat \ {0}
    BY <1>1 DEF New
  <2>1. ASSUME NEW y \in From(rest, New(j)) PROVE y \in From(l, j) \ {l[k]}
    <3>1. PICK i \in New(j) .. Len(rest) : y = rest[i]
      BY DEF From
    <3>2. i \in 1 .. Len(rest) /\ i >= New(j)
      BY <3>1, <2>0, <1>1, <1>9
    <3>3. Old(i) \in j .. Len(l) /\ y = l[Old(i)] /\ y # l[k]
      BY <3>1, <3>2, <1>1, <1>2, <1>6
    <3> QED
      BY <3>3 DEF From
  <2>2. ASSUME NEW y \in From(l, j) \ {l[k]} PROVE y \in From(rest, New(j))
    <3>1. PICK i \in j .. Len(l) : y = l[i]
      BY DEF From
    <3>2. i \in 1 .. Len(l) /\ i # k /\ i >= j
      BY <3>1, <2>2, <1>1
    <3>3. New(i) \in 1 .. Len(rest) /\ New(i) >= New(j) /\ Old(New(i)) = i
      BY <3>2, <1>4
    <3>4. rest[New(i)] = l[Old(New(i))]
      BY <3>3, <1>2
    <3>5. y = rest[New(i)]
      BY <3>1, <3>3, <3>4
    <3>6. New(i) \in New(j) .. Len(rest)
      BY <3>3, <2>0, <1>1, <1>9
    <3> QED
      BY <3>5, <3>6 DEF From
  <2> QED
    BY <2>1, <2>2
<1>8. ASSUME NEW j \in 1 .. Len(l), j # k
      PROVE  \E m \in 1 .. Len(rest) :
               /\ rest[m] = l[j]
               /\ From(rest, m) = From(l, j) \ {l[k]}
               /\ From(rest, m + 1) = From(l, j + 1) \ {l[k]}
  <2>1. New(j) \in 1 .. Len(rest) /\ rest[New(j)] = l[j] /\ New(j + 1) = New(j) + 1
    BY <1>2, <1>4, <1>8
  <2>2. j \in 1 .. Len(l) + 1 /\ j + 1 \in 1 .. Len(l) + 1
    BY <1>1
  <2> QED
    BY <2>1, <2>2, <1>7
<1> QED
  BY <1>2, <1>5, <1>6, <1>8, <1>9 DEF rest, Without

\* The stack of a runner, when its innermost frame is another one or ends.
LEMMA AppendFacts ==
  ASSUME NEW S, NEW l \in Seq(S), NEW x \in S
  PROVE  /\ Append(l, x) \in Seq(S)
         /\ Len(Append(l, x)) = Len(l) + 1 /\ Len(l) \in Nat
         /\ Append(l, x)[Len(l) + 1] = x
         /\ \A i \in 1 .. Len(l) : Append(l, x)[i] = l[i]
OBVIOUS

LEMMA FrontFacts ==
  ASSUME NEW S, NEW l \in Seq(S), l # <<>>
  PROVE  /\ Front(l) \in Seq(S)
         /\ Len(l) \in Nat \ {0}
         /\ Len(Front(l)) = Len(l) - 1
         /\ Last(l) = l[Len(l)] /\ Last(l) \in S
         /\ \A i \in 1 .. Len(l) - 1 : Front(l)[i] = l[i]
<1>1. Len(l) \in Nat /\ Len(l) > 0
  OBVIOUS
<1> DEFINE n == Len(l) - 1
<1>2. Front(l) = SubSeq(l, 1, n)
  BY DEF Front
<1>3. n \in 0 .. Len(l)
  BY <1>1
<1>4. /\ SubSeq(l, 1, n) \in Seq(S)
      /\ Len(SubSeq(l, 1, n)) = n
      /\ \A i \in 1 .. n : SubSeq(l, 1, n)[i] = l[i]
  <2> HIDE DEF n
  <2> QED
    BY <1>3
<1>5. l[Len(l)] \in S
  BY <1>1
<1>6. Last(l) = l[Len(l)]
  BY DEF Last
<1> QED
  BY <1>1, <1>2, <1>4, <1>5, <1>6

-----------------------------------------------------------------------------
(* Stacks.                                                                 *)

LEMMA TypeFacts ==
  ASSUME TypeOK
  PROVE  /\ \A r \in Runners : stack[r] \in Seq(Frames) /\ Len(stack[r]) \in Nat
         /\ \A r \in Runners : \A i \in 1 .. Len(stack[r]) : stack[r][i] \in Frames
         /\ \A f \in Frames : (f.kind = "push" => f \in Pushes)
                              /\ (f.kind # "push" => f \in Callbacks)
         /\ \A c \in Conditions : c.port \in PortNames
         /\ \A s \in Signals, l \in Lists :
              /\ ports[s][l] \in Seq(PortNames) /\ Len(ports[s][l]) \in Nat
              /\ DOMAIN ports[s][l] = 1 .. Len(ports[s][l])
         /\ \A q \in PortNames : SignalOf[q] \in Signals /\ ListOf(q) \in Lists
<1>1. \A r \in Runners : stack[r] \in Seq(Frames)
  BY DEF TypeOK, Frames
<1>2. \A f \in Frames : (f.kind = "push" => f \in Pushes)
                        /\ (f.kind # "push" => f \in Callbacks)
  BY DEF Frames, Pushes, Callbacks
<1>3. \A c \in Conditions : c.port \in PortNames
  BY ConditionsAssumption DEF PortNames
<1>4. \A s \in Signals, l \in Lists : ports[s][l] \in Seq(PortNames)
  BY DEF TypeOK
<1>5. \A q \in PortNames : SignalOf[q] \in Signals /\ ListOf(q) \in Lists
  BY PortsAssumption DEF ListOf, Lists
<1> QED
  BY <1>1, <1>2, <1>3, <1>4, <1>5

LEMMA NewStack ==
  ASSUME TypeOK, NEW r \in Runners, NEW fs \in Seq(Frames),
         stack' = [stack EXCEPT ![r] = fs]
  PROVE  /\ stack' \in [Runners -> Seq(Pushes \cup Callbacks)]
         /\ stack'[r] = fs
         /\ \A x \in Runners \ {r} : stack'[x] = stack[x]
BY DEF TypeOK, Frames

LEMMA StackPush ==
  ASSUME NEW P, NEW fs \in Seq(Frames), StackOk(fs, P),
         NEW f \in Pushes, PushOk(f, P)
  PROVE  /\ Append(fs, f) \in Seq(Frames)
         /\ StackOk(Append(fs, f), P)
<1>1. f \in Frames /\ f.kind = "push"
  BY DEF Frames, Pushes
<1> DEFINE gs == Append(fs, f)
<1>2. /\ gs \in Seq(Frames) /\ Len(gs) = Len(fs) + 1 /\ Len(fs) \in Nat
      /\ gs[Len(fs) + 1] = f
      /\ \A i \in 1 .. Len(fs) : gs[i] = fs[i]
  BY <1>1, AppendFacts
<1> HIDE DEF gs
<1>3. ASSUME NEW i \in 1 .. Len(gs)
      PROVE  /\ gs[i].kind = "push" => PushOk(gs[i], P)
             /\ gs[i].kind = "callback" =>
                  i > 1 /\ gs[i - 1].kind = "push" /\ gs[i - 1].stage = "inside"
  <2>1. CASE i = Len(fs) + 1
    BY <2>1, <1>1, <1>2
  <2>2. CASE i # Len(fs) + 1
    <3>1. i \in 1 .. Len(fs) /\ gs[i] = fs[i]
      BY <2>2, <1>2
    <3>2. i > 1 => i - 1 \in 1 .. Len(fs) /\ gs[i - 1] = fs[i - 1]
      BY <3>1, <1>2
    <3> QED
      BY <3>1, <3>2 DEF StackOk
  <2> QED
    BY <2>1, <2>2
<1>4. StackOk(gs, P)
  BY <1>3 DEF StackOk
<1> QED
  BY <1>2, <1>4 DEF gs

LEMMA StackCall ==
  ASSUME NEW P, NEW fs \in Seq(Frames), StackOk(fs, P), fs # <<>>,
         Last(fs).kind = "push", Last(fs).stage = "inside", NEW f \in Callbacks
  PROVE  /\ Append(fs, f) \in Seq(Frames)
         /\ StackOk(Append(fs, f), P)
<1>1. f \in Frames /\ f.kind = "callback"
  BY DEF Frames, Callbacks
<1> DEFINE gs == Append(fs, f)
<1>2. /\ gs \in Seq(Frames) /\ Len(gs) = Len(fs) + 1 /\ Len(fs) \in Nat
      /\ gs[Len(fs) + 1] = f
      /\ \A i \in 1 .. Len(fs) : gs[i] = fs[i]
  BY <1>1, AppendFacts
<1>3. Len(fs) > 0 /\ Last(fs) = fs[Len(fs)]
  <2>1. Len(fs) \in Nat \ {0} /\ Last(fs) = fs[Len(fs)]
    BY FrontFacts
  <2> QED
    BY <2>1
<1> HIDE DEF gs
<1>4. ASSUME NEW i \in 1 .. Len(gs)
      PROVE  /\ gs[i].kind = "push" => PushOk(gs[i], P)
             /\ gs[i].kind = "callback" =>
                  i > 1 /\ gs[i - 1].kind = "push" /\ gs[i - 1].stage = "inside"
  <2>1. CASE i = Len(fs) + 1
    <3>1. i > 1 /\ i - 1 = Len(fs) /\ gs[i - 1] = Last(fs)
      BY <2>1, <1>2, <1>3
    <3>2. gs[i].kind # "push"
      BY <2>1, <1>1, <1>2
    <3> QED
      BY <3>1, <3>2
  <2>2. CASE i # Len(fs) + 1
    <3>1. i \in 1 .. Len(fs) /\ gs[i] = fs[i]
      BY <2>2, <1>2
    <3>2. i > 1 => i - 1 \in 1 .. Len(fs) /\ gs[i - 1] = fs[i - 1]
      BY <3>1, <1>2
    <3> QED
      BY <3>1, <3>2 DEF StackOk
  <2> QED
    BY <2>1, <2>2
<1>5. StackOk(gs, P)
  BY <1>4 DEF StackOk
<1> QED
  BY <1>2, <1>5 DEF gs

LEMMA StackPop ==
  ASSUME NEW P, NEW fs \in Seq(Frames), StackOk(fs, P), fs # <<>>
  PROVE  /\ Front(fs) \in Seq(Frames) /\ StackOk(Front(fs), P)
         /\ Last(fs).kind = "push" => PushOk(Last(fs), P)
         /\ Last(fs).kind = "callback" =>
              /\ Front(fs) # <<>>
              /\ Last(Front(fs)).kind = "push" /\ Last(Front(fs)).stage = "inside"
<1> DEFINE gs == Front(fs)
<1>1. /\ gs \in Seq(Frames) /\ Len(fs) \in Nat \ {0} /\ Len(gs) = Len(fs) - 1
      /\ Last(fs) = fs[Len(fs)]
      /\ \A i \in 1 .. Len(fs) - 1 : gs[i] = fs[i]
  BY FrontFacts
<1>2. gs # <<>> => Last(gs) = gs[Len(gs)]
  BY <1>1, FrontFacts
<1>3. Len(gs) > 0 => gs # <<>>
  OBVIOUS
<1> HIDE DEF gs
<1>4. ASSUME NEW i \in 1 .. Len(gs)
      PROVE  /\ gs[i].kind = "push" => PushOk(gs[i], P)
             /\ gs[i].kind = "callback" =>
                  i > 1 /\ gs[i - 1].kind = "push" /\ gs[i - 1].stage = "inside"
  <2>1. i \in 1 .. Len(fs) /\ gs[i] = fs[i]
    BY <1>1
  <2>2. i > 1 => i - 1 \in 1 .. Len(fs) - 1 /\ gs[i - 1] = fs[i - 1]
    BY <2>1, <1>1
  <2> QED
    BY <2>1, <2>2 DEF StackOk
<1>5. StackOk(gs, P)
  BY <1>4 DEF StackOk
<1>6. Len(fs) \in 1 .. Len(fs)
  BY <1>1
<1>7. Last(fs).kind = "push" => PushOk(Last(fs), P)
  BY <1>1, <1>6 DEF StackOk
<1>8. ASSUME Last(fs).kind = "callback"
      PROVE  gs # <<>> /\ Last(gs).kind = "push" /\ Last(gs).stage = "inside"
  <2>1. /\ Len(fs) > 1 /\ fs[Len(fs) - 1].kind = "push"
        /\ fs[Len(fs) - 1].stage = "inside"
    BY <1>1, <1>6, <1>8 DEF StackOk
  <2>2. Len(gs) > 0 /\ gs[Len(gs)] = fs[Len(fs) - 1]
    BY <2>1, <1>1
  <2> QED
    BY <2>1, <2>2, <1>2, <1>3
<1> QED
  BY <1>1, <1>5, <1>7, <1>8 DEF gs

\* A callback that still runs is still there.
LEMMA CallsKept ==
  ASSUME NEW S, NEW T, NEW r \in Runners, NEW v,
         \A x \in Runners \ {r} : T[x] = S[x],
         \A i \in 1 .. Len(S[r]) :
           S[r][i].kind = "callback" => i \in 1 .. Len(T[r]) /\ T[r][i] = S[r][i],
         Calls(S, v)
  PROVE  Calls(T, v)
<1>1. PICK x \in Runners : \E i \in 1 .. Len(S[x]) :
        S[x][i].kind = "callback" /\ RunnerOf[S[x][i].port] = v
  BY DEF Calls
<1>2. PICK i \in 1 .. Len(S[x]) :
        S[x][i].kind = "callback" /\ RunnerOf[S[x][i].port] = v
  BY <1>1
<1>3. i \in 1 .. Len(T[x]) /\ T[x][i] = S[x][i]
  BY <1>2
<1> QED
  BY <1>2, <1>3 DEF Calls

-----------------------------------------------------------------------------
(* Steps that leave the ports and the stacks alone.                        *)

\* Nothing but who waits for what.
LEMMA SamePorts ==
  ASSUME Good, UNCHANGED <<ports, alive, stack, virtual>>,
         \A r \in Runners : WaitInv(r)'
  PROVE  Good'
BY DEF Good, ListInv, VirtualInv

\* The condition of a runner is as it was, and a runner that sleeps slept.
LEMMA SameWaits ==
  ASSUME Good, UNCHANGED <<ports, value, ring, waitsFor>>,
         \A r \in Runners : state'[r] = "sleeping" => state[r] = "sleeping"
  PROVE  \A r \in Runners : WaitInv(r)'
BY DEF Good, WaitInv

LEMMA Meets ==
  ASSUME NEW c
  PROVE  /\ Holds(c) <=> Met(c, value, ring)
         /\ c.port \in SamplePorts \/ c.port \in QueuePorts =>
              (IsBound(c.port) <=> Bound(c.port, ports))
BY DEF Holds, Met, SampleIs, QueueHas, IsBound, Bound

LEMMA ResumeStep ==
  ASSUME TypeOK, Good, NEW r \in Runners, Resume(r)
  PROVE  TypeOK' /\ Good'
<1>1. /\ state' \in [Runners -> Time!States]
      /\ \A x \in Runners : state'[x] = "sleeping" => state[x] = "sleeping"
      /\ UNCHANGED <<now, over>>
  BY DEF TypeOK, Resume, Time!Run, Time!States
<1>2. TypeOK'
  BY <1>1 DEF TypeOK, Resume, portVars
<1>3. \A x \in Runners : WaitInv(x)'
  BY <1>1, SameWaits DEF Resume, portVars
<1> QED
  BY <1>2, <1>3, SamePorts DEF Resume, portVars

LEMMA EndStep ==
  ASSUME TypeOK, Good, End
  PROVE  TypeOK' /\ Good'
<1>1. TypeOK'
  BY DEF TypeOK, End, portVars, Time!End
<1>2. \A x \in Runners : WaitInv(x)'
  BY SameWaits DEF End, Time!End, portVars
<1> QED
  BY <1>1, <1>2, SamePorts DEF End, portVars

LEMMA SleepFacts ==
  ASSUME TypeOK, NEW r \in Runners, Time!Sleep(r, 1)
  PROVE  /\ state' \in [Runners -> Time!States]
         /\ \A x \in Runners \ {r} : state'[x] = state[x]
         /\ UNCHANGED <<now, over>>
BY DEF TypeOK, Time!Sleep, Time!States

LEMMA SleepOnStep ==
  ASSUME TypeOK, Good, NEW r \in Runners, SleepOn(r)
  PROVE  TypeOK' /\ Good'
<1>1. /\ state' \in [Runners -> Time!States]
      /\ \A x \in Runners \ {r} : state'[x] = state[x]
      /\ UNCHANGED <<now, over>>
  BY SleepFacts DEF SleepOn
<1>2. TypeOK'
  BY <1>1 DEF TypeOK, SleepOn, portVars
<1>3. /\ UNCHANGED <<ports, value, ring, waitsFor>>
      /\ ~Met(waitsFor[r], value, ring)
  BY Meets DEF SleepOn, portVars
<1>4. \A x \in Runners : WaitInv(x)'
  BY <1>1, <1>3 DEF Good, WaitInv
<1> QED
  BY <1>2, <1>4, SamePorts DEF SleepOn, portVars

LEMMA WaitStep ==
  ASSUME TypeOK, Good, NEW r \in Runners, NEW c \in Conditions, Wait(r, c)
  PROVE  TypeOK' /\ Good'
<1>1. /\ state' \in [Runners -> Time!States]
      /\ \A x \in Runners \ {r} : state'[x] = state[x]
      /\ UNCHANGED <<now, over>>
  BY SleepFacts DEF Wait
<1>2. /\ waitsFor' \in [Runners -> Conditions \cup {NoCondition}]
      /\ waitsFor'[r] = c
      /\ \A x \in Runners \ {r} : waitsFor'[x] = waitsFor[x]
  BY DEF TypeOK, Wait
<1>3. TypeOK'
  BY <1>1, <1>2 DEF TypeOK, Wait, portVars
<1>4. /\ UNCHANGED <<ports, value, ring>>
      /\ ~Met(c, value, ring) /\ Bound(c.port, ports)
  BY Meets DEF Wait, BeginWait, portVars, Good
<1>5. \A x \in Runners : WaitInv(x)'
  BY <1>1, <1>2, <1>4 DEF Good, WaitInv
<1> QED
  BY <1>3, <1>5, SamePorts DEF Wait, portVars

\* A wait as another runner ends the test.
LEMMA WaitAsAnotherStep ==
  ASSUME TypeOK, NEW r \in Runners, NEW c \in Conditions, WaitAsAnother(r, c)
  PROVE  TypeOK' /\ failed'
<1>1. failed' = TRUE /\ failed' \in BOOLEAN
  BY DEF WaitAsAnother
<1>2. /\ UNCHANGED <<now, state, over, ports, alive, value, ring>>
      /\ UNCHANGED <<stack, waitsFor, virtual>>
  BY DEF WaitAsAnother, timeVars, portVars
<1>3. TypeOK'
  BY <1>1, <1>2 DEF TypeOK
<1> QED
  BY <1>1, <1>3

\* Values are taken out: no condition becomes true.
LEMMA TakeStep ==
  ASSUME TypeOK, Good, NEW r \in Runners, NEW q \in QueuePorts,
         PopValue(r, q) \/ Clear(r, q)
  PROVE  TypeOK' /\ Good'
<1>1. UNCHANGED <<now, state, over, ports, alive, value, stack, waitsFor, virtual,
                  failed>>
  BY DEF PopValue, Clear, timeVars
<1>2. /\ ring' \in [QueuePorts -> Seq(Values)]
      /\ \A x \in QueuePorts : Len(ring'[x]) <= Len(ring[x]) /\ Len(ring[x]) \in Nat
                               /\ Len(ring'[x]) \in Nat
  <2>1. CASE PopValue(r, q)
    <3>1. /\ Tail(ring[q]) \in Seq(Values) /\ Len(Tail(ring[q])) <= Len(ring[q])
          /\ Len(Tail(ring[q])) \in Nat
      BY <2>1 DEF TypeOK, PopValue
    <3>2. ring' = [ring EXCEPT ![q] = Tail(ring[q])]
      BY <2>1 DEF PopValue
    <3> QED
      BY <3>1, <3>2 DEF TypeOK
  <2>2. CASE Clear(r, q)
    <3>1. ring' = [ring EXCEPT ![q] = <<>>]
      BY <2>2 DEF Clear
    <3> QED
      BY <3>1 DEF TypeOK
  <2> QED
    BY <2>1, <2>2
<1>3. TypeOK'
  BY <1>1, <1>2 DEF TypeOK
<1>4. ASSUME NEW c \in Conditions PROVE Met(c, value, ring') => Met(c, value, ring)
  <2>1. CASE c.port \in SamplePorts
    BY <2>1 DEF Met
  <2>2. CASE c.port \notin SamplePorts
    <3>1. c.port \in QueuePorts /\ c.atLeast \in Nat
      BY <2>2, ConditionsAssumption, SizeAssumption
    <3> QED
      BY <2>2, <3>1, <1>2 DEF Met
  <2> QED
    BY <2>1, <2>2
<1>5. \A x \in Runners : WaitInv(x)'
  BY <1>1, <1>4 DEF TypeOK, Good, WaitInv
<1> QED
  BY <1>3, <1>5, <1>1, SamePorts


-----------------------------------------------------------------------------
(* Signal::push.                                                           *)

\* One stack changes, and the values may.
LEMMA PushSteps ==
  ASSUME TypeOK, Good, NEW r \in Runners, NEW fs \in Seq(Frames),
         UNCHANGED <<ports, alive>>,
         stack' = [stack EXCEPT ![r] = fs],
         StackOk(fs, ports), \A x \in Runners : WaitInv(x)', VirtualInv'
  PROVE  Good'
<1>1. /\ stack'[r] = fs
      /\ \A x \in Runners \ {r} : stack'[x] = stack[x]
  BY NewStack
<1>2. \A s \in Signals, l \in Lists : ListInv(s, l)'
  BY DEF Good, ListInv
<1>3. \A x \in Runners : StackOk(stack'[x], ports')
  BY <1>1 DEF Good
<1> QED
  BY <1>2, <1>3 DEF Good

\* No callback ends or begins, and nobody is woken.
LEMMA QuietSteps ==
  ASSUME TypeOK, Good, NEW r \in Runners, NEW fs \in Seq(Frames),
         UNCHANGED <<ports, alive, value, ring, waitsFor>>,
         \A x \in Runners : state'[x] = "sleeping" => state[x] = "sleeping",
         stack' = [stack EXCEPT ![r] = fs], StackOk(fs, ports),
         \/ virtual' = NoRunner
         \/ /\ virtual' = virtual
            /\ \A i \in 1 .. Len(stack[r]) : stack[r][i].kind = "callback" =>
                 i \in 1 .. Len(fs) /\ fs[i] = stack[r][i]
  PROVE  Good'
<1>1. /\ stack'[r] = fs
      /\ \A x \in Runners \ {r} : stack'[x] = stack[x]
  BY NewStack
<1>2. \A x \in Runners : WaitInv(x)'
  BY SameWaits
<1>3. VirtualInv'
  <2>1. CASE virtual' = NoRunner
    BY <2>1 DEF VirtualInv
  <2>2. CASE /\ virtual' = virtual
             /\ \A i \in 1 .. Len(stack[r]) : stack[r][i].kind = "callback" =>
                  i \in 1 .. Len(fs) /\ fs[i] = stack[r][i]
    <3> SUFFICES ASSUME virtual' # NoRunner PROVE Calls(stack', virtual)
      BY <2>2 DEF VirtualInv
    <3>1. Calls(stack, virtual)
      BY <2>2 DEF Good, VirtualInv
    <3>2. \A i \in 1 .. Len(stack[r]) : stack[r][i].kind = "callback" =>
            i \in 1 .. Len(stack'[r]) /\ stack'[r][i] = stack[r][i]
      BY <2>2, <1>1
    <3> DEFINE S == stack
               T == stack'
    <3>3. /\ \A x \in Runners \ {r} : T[x] = S[x]
          /\ \A i \in 1 .. Len(S[r]) : S[r][i].kind = "callback" =>
               i \in 1 .. Len(T[r]) /\ T[r][i] = S[r][i]
          /\ Calls(S, virtual)
      BY <3>1, <3>2, <1>1
    <3> HIDE DEF S, T
    <3>4. Calls(T, virtual)
      BY <3>3, CallsKept
    <3> QED
      BY <3>4 DEF T
  <2> QED
    BY <2>1, <2>2
<1> QED
  BY <1>2, <1>3, PushSteps

\* A push that comes to a list is at its first port.
LEMMA AtListOk ==
  ASSUME TypeOK, NEW s \in Signals, NEW v \in Values, NEW l \in Lists
  PROVE  AtList(s, v, l) \in Pushes /\ PushOk(AtList(s, v, l), ports)
<1> DEFINE those == ports[s][l]
           f == AtList(s, v, l)
<1>1. /\ those \in Seq(PortNames) /\ Len(those) \in Nat
      /\ DOMAIN those = 1 .. Len(those)
  BY TypeFacts
<1>2. /\ f.kind = "push" /\ f.signal = s /\ f.value = v /\ f.list = l
      /\ f.at = (IF those = <<>> THEN NoPort ELSE Head(those))
      /\ f.n = Len(those) /\ f.owed = ToSet(those) /\ f.stage = "head"
  BY DEF AtList
<1> HIDE DEF those
<1>3. ToSet(those) = From(those, 1) /\ ToSet(those) \subseteq PortNames
  BY <1>1 DEF ToSet, From
<1>4. those # <<>> => Head(those) = those[1] /\ 1 \in 1 .. Len(those)
                      /\ Head(those) \in PortNames
  BY <1>1
<1>5. those = <<>> => ToSet(those) = {}
  BY <1>1 DEF ToSet
<1>6. AtList(s, v, l) \in Pushes
  <2>1. f.at \in PortNames \cup {NoPort}
    BY <1>2, <1>4
  <2>2. f = [kind |-> "push", signal |-> s, value |-> v, list |-> l, at |-> f.at,
             n |-> Len(those), owed |-> ToSet(those), stage |-> "head"]
    BY DEF AtList, those
  <2> QED
    BY <2>1, <2>2, <1>1, <1>3 DEF Pushes
<1>7. PushOk(f, ports)
  <2> SUFFICES ASSUME f.at # NoPort PROVE AtIt(f, ports)
    BY <1>2, <1>4, <1>5, PortsAssumption DEF PushOk
  <2>1. /\ those[1] = f.at /\ 1 \in 1 .. Len(those)
        /\ f.owed = From(those, 1)
    BY <1>2, <1>3, <1>4
  <2> QED
    BY <2>1, <1>2 DEF AtIt, those
<1> QED
  BY <1>6, <1>7

\* ++iter of a push that has done what it owed to the port.
LEMMA OnwardOk ==
  ASSUME TypeOK, Good, NEW f \in Pushes, After(f, ports)
  PROVE  Onward(f) \in Pushes /\ PushOk(Onward(f), ports)
<1> DEFINE those == ports[f.signal][f.list]
           here == CHOOSE i \in 1 .. Len(those) : those[i] = f.at
           g == Onward(f)
<1>1. f.signal \in Signals /\ f.list \in Lists
  BY DEF Pushes
<1>2. those \in Seq(PortNames) /\ Len(those) \in Nat /\ Distinct(those)
  BY <1>1, TypeFacts DEF Good, ListInv
<1>3. PICK k \in 1 .. Len(those) : those[k] = f.at /\ f.owed = From(those, k + 1)
  BY DEF After
<1>4. here = k
  <2>1. here \in 1 .. Len(those) /\ those[here] = f.at
    BY <1>3
  <2> QED
    BY <2>1, <1>2, <1>3 DEF Distinct
<1>9. Onward(f) = [f EXCEPT !.stage = "head",
                            !.at = IF here < Len(those) THEN those[here + 1]
                                                        ELSE NoPort]
  BY DEF Onward
<1> HIDE DEF here
<1>5. g = [f EXCEPT !.stage = "head",
                    !.at = IF k < Len(those) THEN those[k + 1] ELSE NoPort]
  BY <1>4, <1>9
<1>6. /\ g \in Pushes
      /\ g.signal = f.signal /\ g.list = f.list /\ g.owed = f.owed
      /\ g.stage = "head"
      /\ g.at = IF k < Len(those) THEN those[k + 1] ELSE NoPort
  <2>1. (IF k < Len(those) THEN those[k + 1] ELSE NoPort) \in PortNames \cup {NoPort}
    BY <1>2, <1>3
  <2> HIDE DEF g, those
  <2> QED
    BY <2>1, <1>5 DEF Pushes
<1> HIDE DEF g
<1>7. CASE k < Len(those)
  <2>1. /\ k + 1 \in 1 .. Len(those) /\ those[k + 1] = g.at
        /\ those[k + 1] \in PortNames
    BY <1>2, <1>3, <1>6, <1>7
  <2>2. g.at # NoPort
    BY <2>1, PortsAssumption
  <2>3. AtIt(g, ports)
    BY <2>1, <1>3, <1>6 DEF AtIt
  <2> QED
    BY <2>2, <2>3, <1>6 DEF PushOk, g
<1>8. CASE ~(k < Len(those))
  <2>1. From(those, k + 1) = {}
    BY <1>2, <1>8 DEF From
  <2>2. g.at = NoPort /\ g.owed = {}
    BY <2>1, <1>3, <1>6, <1>8
  <2> QED
    BY <2>2, <1>6 DEF PushOk, g
<1> QED
  BY <1>7, <1>8

\* The value is given to the port or not: it is not owed any more.
LEMMA GivenOk ==
  ASSUME TypeOK, Good, NEW f \in Pushes, f.at # NoPort, AtIt(f, ports),
         NEW g \in Pushes,
         g.signal = f.signal, g.list = f.list, g.at = f.at, g.owed = f.owed \ {f.at}
  PROVE  After(g, ports)
<1> DEFINE those == ports[f.signal][f.list]
<1>1. f.signal \in Signals /\ f.list \in Lists
  BY DEF Pushes
<1>2. those \in Seq(PortNames) /\ Len(those) \in Nat /\ Distinct(those)
  BY <1>1, TypeFacts DEF Good, ListInv
<1>3. PICK k \in 1 .. Len(those) : those[k] = f.at /\ f.owed = From(those, k)
  BY DEF AtIt
<1> HIDE DEF those
<1>4. From(those, k) \ {those[k]} = From(those, k + 1)
  <2>1. \A i \in k + 1 .. Len(those) :
          i \in 1 .. Len(those) /\ i \in k .. Len(those) /\ i # k
    BY <1>2
  <2>2. \A i \in k .. Len(those) : i # k => i \in k + 1 .. Len(those)
    BY <1>2
  <2>3. \A i \in k + 1 .. Len(those) : those[i] # those[k]
    BY <2>1, <1>2 DEF Distinct
  <2> QED
    BY <2>1, <2>2, <2>3 DEF From
<1> QED
  BY <1>3, <1>4 DEF After, those

LEMMA PushStep ==
  ASSUME TypeOK, Good, NEW r \in Runners, NEW s \in Signals, NEW v \in Values,
         Push(r, s, v)
  PROVE  TypeOK' /\ Good'
<1> DEFINE f == AtList(s, v, "samples")
           fs == Append(stack[r], f)
<1>1. f \in Pushes /\ PushOk(f, ports)
  BY AtListOk DEF Lists
<1>2. stack[r] \in Seq(Frames) /\ StackOk(stack[r], ports) /\ Len(stack[r]) \in Nat
  BY TypeFacts DEF Good
<1> HIDE DEF f
<1>3. fs \in Seq(Frames) /\ StackOk(fs, ports)
  BY <1>1, <1>2, StackPush
<1>4. f \in Frames
  BY <1>1 DEF Frames
<1>5. \A i \in 1 .. Len(stack[r]) : i \in 1 .. Len(fs) /\ fs[i] = stack[r][i]
  BY <1>2, <1>4, AppendFacts
<1>6. /\ stack' = [stack EXCEPT ![r] = fs]
      /\ UNCHANGED <<now, state, over, ports, alive, value, ring, waitsFor, virtual,
                     failed>>
  BY DEF Push, f, timeVars, portVars
<1> HIDE DEF fs
<1>7. TypeOK'
  BY <1>3, <1>6, NewStack DEF TypeOK
<1>8. Good'
  BY <1>3, <1>5, <1>6, QuietSteps
<1> QED
  BY <1>7, <1>8

\* The innermost push of a runner, and what is below it.
LEMMA InPushFacts ==
  ASSUME TypeOK, Good, NEW r \in Runners, NEW stage, InPush(r, stage)
  PROVE  /\ Top(r) \in Pushes /\ Top(r).stage = stage /\ PushOk(Top(r), ports)
         /\ Front(stack[r]) \in Seq(Frames) /\ StackOk(Front(stack[r]), ports)
         /\ \A i \in 1 .. Len(stack[r]) : stack[r][i].kind = "callback" =>
              i \in 1 .. Len(Front(stack[r])) /\ Front(stack[r])[i] = stack[r][i]
<1>1. stack[r] \in Seq(Frames) /\ StackOk(stack[r], ports) /\ stack[r] # <<>>
  BY TypeFacts DEF Good, InPush
<1>2. Top(r) = Last(stack[r]) /\ Top(r).kind = "push" /\ Top(r).stage = stage
  BY DEF Top, InPush
<1> DEFINE fs == stack[r]
           gs == Front(fs)
<1>3. /\ gs \in Seq(Frames) /\ Len(fs) \in Nat \ {0} /\ Len(gs) = Len(fs) - 1
      /\ Last(fs) = fs[Len(fs)] /\ Last(fs) \in Frames
      /\ \A i \in 1 .. Len(fs) - 1 : gs[i] = fs[i]
  BY <1>1, FrontFacts
<1>4. Top(r) \in Pushes
  BY <1>2, <1>3, TypeFacts
<1>5. StackOk(gs, ports) /\ PushOk(Last(fs), ports)
  BY <1>1, <1>2, StackPop
<1>6. \A i \in 1 .. Len(fs) : fs[i].kind = "callback" => i # Len(fs)
  BY <1>2, <1>3
<1>7. \A i \in 1 .. Len(fs) : fs[i].kind = "callback" =>
        i \in 1 .. Len(gs) /\ gs[i] = fs[i]
  <2> HIDE DEF fs, gs
  <2> QED
    BY <1>3, <1>6
<1> QED
  BY <1>2, <1>3, <1>4, <1>5, <1>7

\* The innermost push goes on as another frame.
LEMMA SetTopFacts ==
  ASSUME TypeOK, Good, NEW r \in Runners, NEW stage, InPush(r, stage),
         NEW f \in Pushes, PushOk(f, ports), NEW fs,
         fs = Append(Front(stack[r]), f)
  PROVE  /\ fs \in Seq(Frames) /\ StackOk(fs, ports)
         /\ fs # <<>> /\ Last(fs) = f
         /\ \A i \in 1 .. Len(stack[r]) : stack[r][i].kind = "callback" =>
              i \in 1 .. Len(fs) /\ fs[i] = stack[r][i]
<1> DEFINE gs == Front(stack[r])
<1>1. /\ gs \in Seq(Frames) /\ StackOk(gs, ports)
      /\ \A i \in 1 .. Len(stack[r]) : stack[r][i].kind = "callback" =>
           i \in 1 .. Len(gs) /\ gs[i] = stack[r][i]
  BY InPushFacts
<1> HIDE DEF gs
<1>2. fs = Append(gs, f) /\ f \in Frames
  BY DEF gs, Frames
<1>3. fs \in Seq(Frames) /\ StackOk(fs, ports)
  BY <1>1, <1>2, StackPush
<1>4. /\ Len(fs) = Len(gs) + 1 /\ Len(gs) \in Nat /\ fs[Len(gs) + 1] = f
      /\ \A i \in 1 .. Len(gs) : fs[i] = gs[i]
  BY <1>1, <1>2, AppendFacts
<1>5. fs # <<>>
  BY <1>4
<1>6. Last(fs) = f
  BY <1>4 DEF Last
<1> QED
  BY <1>1, <1>3, <1>4, <1>5, <1>6

LEMMA YieldStep ==
  ASSUME TypeOK, Good, NEW r \in Runners, Yield(r)
  PROVE  TypeOK' /\ Good'
<1> DEFINE f == [Top(r) EXCEPT !.stage = "insert"]
           fs == Append(Front(stack[r]), f)
<1>1. InPush(r, "head") /\ Top(r).at # NoPort
  BY DEF Yield
<1>2. Top(r) \in Pushes /\ Top(r).stage = "head" /\ PushOk(Top(r), ports)
  BY <1>1, InPushFacts
<1>3. /\ f \in Pushes /\ f.stage = "insert" /\ f.at = Top(r).at
      /\ f.owed = Top(r).owed /\ f.signal = Top(r).signal /\ f.list = Top(r).list
  BY <1>2 DEF Pushes
<1> HIDE DEF f
<1>4. PushOk(f, ports)
  BY <1>1, <1>2, <1>3 DEF PushOk, AtIt
<1>5. /\ fs \in Seq(Frames) /\ StackOk(fs, ports)
      /\ \A i \in 1 .. Len(stack[r]) : stack[r][i].kind = "callback" =>
           i \in 1 .. Len(fs) /\ fs[i] = stack[r][i]
  BY <1>1, <1>3, <1>4, SetTopFacts
<1>6. /\ stack' = [stack EXCEPT ![r] = fs]
      /\ UNCHANGED <<now, over, ports, alive, value, ring, waitsFor, virtual,
                     failed>>
      /\ state' = [state EXCEPT ![r] = "ready"]
  BY DEF Yield, SetTop, f, Time!Yield, portVars
<1> HIDE DEF fs
<1>7. /\ state' \in [Runners -> Time!States]
      /\ \A x \in Runners : state'[x] = "sleeping" => state[x] = "sleeping"
  BY <1>6 DEF TypeOK, Time!States
<1>8. TypeOK'
  BY <1>5, <1>6, <1>7, NewStack DEF TypeOK
<1>9. Good'
  BY <1>5, <1>6, <1>7, QuietSteps
<1> QED
  BY <1>8, <1>9

LEMMA EndListStep ==
  ASSUME TypeOK, Good, NEW r \in Runners, EndList(r)
  PROVE  TypeOK' /\ Good'
<1>1. InPush(r, "head")
  BY DEF EndList
<1>2. Top(r) \in Pushes
  BY <1>1, InPushFacts
<1> DEFINE f == AtList(Top(r).signal, Top(r).value, "queues")
<1>3. f \in Pushes /\ PushOk(f, ports)
  BY <1>2, AtListOk DEF Pushes, Lists
<1>4. UNCHANGED <<now, state, over, ports, alive, value, ring, waitsFor, virtual>>
  BY DEF EndList, timeVars, portVars
<1>5. failed' \in BOOLEAN
  BY DEF EndList
<1> HIDE DEF f
<1>6. \E fs \in Seq(Frames) :
        /\ stack' = [stack EXCEPT ![r] = fs] /\ StackOk(fs, ports)
        /\ \A i \in 1 .. Len(stack[r]) : stack[r][i].kind = "callback" =>
             i \in 1 .. Len(fs) /\ fs[i] = stack[r][i]
  <2>1. CASE Top(r).list = "samples"
    <3>1. stack' = [stack EXCEPT ![r] = Append(Front(stack[r]), f)]
      BY <2>1 DEF EndList, SetTop, f
    <3> DEFINE fs == Append(Front(stack[r]), f)
    <3>2. /\ fs \in Seq(Frames) /\ StackOk(fs, ports)
          /\ \A i \in 1 .. Len(stack[r]) : stack[r][i].kind = "callback" =>
               i \in 1 .. Len(fs) /\ fs[i] = stack[r][i]
      BY <1>1, <1>3, SetTopFacts
    <3>3. stack' = [stack EXCEPT ![r] = fs]
      BY <3>1
    <3> HIDE DEF fs
    <3> QED
      BY <3>2, <3>3
  <2>2. CASE Top(r).list # "samples"
    <3>1. stack' = [stack EXCEPT ![r] = Front(stack[r])]
      BY <2>2 DEF EndList
    <3> QED
      BY <3>1, <1>1, InPushFacts
  <2> QED
    BY <2>1, <2>2
<1>7. PICK fs \in Seq(Frames) :
        /\ stack' = [stack EXCEPT ![r] = fs] /\ StackOk(fs, ports)
        /\ \A i \in 1 .. Len(stack[r]) : stack[r][i].kind = "callback" =>
             i \in 1 .. Len(fs) /\ fs[i] = stack[r][i]
  BY <1>6
<1>8. stack' \in [Runners -> Seq(Pushes \cup Callbacks)]
  BY <1>7, NewStack
<1>9. TypeOK'
  BY <1>4, <1>5, <1>8 DEF TypeOK
<1>10. Good'
  BY <1>4, <1>7, QuietSteps
<1> QED
  BY <1>9, <1>10

LEMMA RejectStep ==
  ASSUME TypeOK, Good, NEW r \in Runners, Reject(r)
  PROVE  TypeOK' /\ Good'
<1> DEFINE f == [Top(r) EXCEPT !.owed = @ \ {Top(r).at}]
           g == Onward(f)
           fs == Append(Front(stack[r]), g)
<1>1. InPush(r, "insert")
  BY DEF Reject
<1>2. Top(r) \in Pushes /\ Top(r).stage = "insert" /\ PushOk(Top(r), ports)
  BY <1>1, InPushFacts
<1>3. Top(r).at # NoPort /\ AtIt(Top(r), ports)
  BY <1>2 DEF PushOk
<1>4. /\ f \in Pushes /\ f.at = Top(r).at /\ f.owed = Top(r).owed \ {Top(r).at}
      /\ f.signal = Top(r).signal /\ f.list = Top(r).list
  BY <1>2 DEF Pushes
<1> HIDE DEF f
<1>5. After(f, ports)
  BY <1>2, <1>3, <1>4, GivenOk
<1>6. g \in Pushes /\ PushOk(g, ports)
  BY <1>4, <1>5, OnwardOk
<1> HIDE DEF g
<1>7. fs \in Seq(Frames) /\ StackOk(fs, ports)
  BY <1>1, <1>6, SetTopFacts
<1>8. /\ stack' = [stack EXCEPT ![r] = fs] /\ virtual' = NoRunner
      /\ UNCHANGED <<now, state, over, ports, alive, value, ring, waitsFor, failed>>
  BY DEF Reject, SetTop, f, g, timeVars, portVars
<1> HIDE DEF fs
<1>9. TypeOK'
  BY <1>7, <1>8, NewStack DEF TypeOK
<1>10. Good'
  BY <1>7, <1>8, QuietSteps
<1> QED
  BY <1>9, <1>10

LEMMA EndCallbackStep ==
  ASSUME TypeOK, Good, NEW r \in Runners, EndCallback(r)
  PROVE  TypeOK' /\ Good'
<1> DEFINE below == Front(stack[r])
           g == Onward(Last(below))
           fs == Append(Front(below), g)
<1>1. /\ stack[r] \in Seq(Frames) /\ StackOk(stack[r], ports) /\ stack[r] # <<>>
      /\ Last(stack[r]).kind = "callback"
  BY TypeFacts DEF Good, EndCallback, InCode, Top
<1>2. /\ below \in Seq(Frames) /\ StackOk(below, ports) /\ below # <<>>
      /\ Last(below).kind = "push" /\ Last(below).stage = "inside"
  BY <1>1, StackPop
<1>8. /\ stack' = [stack EXCEPT ![r] = fs] /\ virtual' = NoRunner
      /\ UNCHANGED <<now, state, over, ports, alive, value, ring, waitsFor, failed>>
  BY DEF EndCallback, timeVars, portVars
<1> HIDE DEF below
<1>3. Last(below) \in Frames
  BY <1>2, FrontFacts
<1>4. Last(below) \in Pushes
  BY <1>2, <1>3, TypeFacts
<1>5. /\ Front(below) \in Seq(Frames) /\ StackOk(Front(below), ports)
      /\ PushOk(Last(below), ports)
  BY <1>2, StackPop
<1>6. After(Last(below), ports)
  BY <1>2, <1>5 DEF PushOk
<1>7. g \in Pushes /\ PushOk(g, ports)
  BY <1>4, <1>6, OnwardOk
<1> HIDE DEF g
<1>9. fs \in Seq(Frames) /\ StackOk(fs, ports)
  BY <1>5, <1>7, StackPush
<1> HIDE DEF fs
<1>10. TypeOK'
  BY <1>8, <1>9, NewStack DEF TypeOK
<1>11. Good'
  BY <1>8, <1>9, QuietSteps
<1> QED
  BY <1>10, <1>11

LEMMA AcceptStep ==
  ASSUME TypeOK, Good, NEW r \in Runners, Accept(r)
  PROVE  TypeOK' /\ Good'
<1> DEFINE q == Top(r).at
           v == Top(r).value
           f == [Top(r) EXCEPT !.stage = "inside", !.owed = @ \ {q}]
           call == [kind |-> "callback", port |-> q]
           fs == Append(Front(stack[r]), f)
           gs == Append(fs, call)
<1>1. InPush(r, "insert")
  BY DEF Accept
<1>2. Top(r) \in Pushes /\ Top(r).stage = "insert" /\ PushOk(Top(r), ports)
  BY <1>1, InPushFacts
<1>3. Top(r).at # NoPort /\ AtIt(Top(r), ports)
  BY <1>2 DEF PushOk
<1>4. /\ f \in Pushes /\ f.at = Top(r).at /\ f.owed = Top(r).owed \ {Top(r).at}
      /\ f.signal = Top(r).signal /\ f.list = Top(r).list
      /\ f.kind = "push" /\ f.stage = "inside"
  BY <1>2 DEF Pushes
<1>5. q \in PortNames /\ v \in Values
  BY <1>2, <1>3 DEF Pushes
<1>6. call \in Callbacks /\ call.kind = "callback" /\ call.port = q
  BY <1>5 DEF Callbacks
<1>7. /\ stack' = [stack EXCEPT ![r] = gs] /\ virtual' = RunnerOf[q]
      /\ UNCHANGED <<now, over, ports, alive, waitsFor>>
      /\ InsertSample(q, v) \/ InsertQueue(q, v)
      /\ state' = [x \in Runners |->
                     IF x \in Listeners(q) /\ state[x] = "sleeping"
                     THEN "woken" ELSE state[x]]
  BY DEF Accept, Notify
<1> HIDE DEF f, call, q, v
<1>8. After(f, ports)
  BY <1>2, <1>3, <1>4, GivenOk
<1>9. PushOk(f, ports)
  BY <1>3, <1>4, <1>8 DEF PushOk
<1>10. /\ fs \in Seq(Frames) /\ StackOk(fs, ports) /\ fs # <<>> /\ Last(fs) = f
  BY <1>1, <1>4, <1>9, SetTopFacts
<1> HIDE DEF fs
<1>11. gs \in Seq(Frames) /\ StackOk(gs, ports)
  BY <1>4, <1>6, <1>10, StackCall
<1>12. Len(fs) + 1 \in 1 .. Len(gs) /\ gs[Len(fs) + 1] = call
  <2>1. call \in Frames
    BY <1>6 DEF Frames
  <2> QED
    BY <2>1, <1>10, AppendFacts
<1> HIDE DEF gs
<1>13. /\ value' \in [SamplePorts -> Values \cup {InitialValue}]
       /\ ring' \in [QueuePorts -> Seq(Values)]
       /\ failed' \in BOOLEAN
       /\ \A x \in SamplePorts : x # q => value'[x] = value[x]
       /\ \A x \in QueuePorts : x # q => ring'[x] = ring[x]
  <2>1. CASE InsertSample(q, v)
    BY <2>1, <1>5 DEF InsertSample, TypeOK
  <2>2. CASE InsertQueue(q, v)
    <3>1. q \in QueuePorts /\ Append(ring[q], v) \in Seq(Values)
      BY <2>2, <1>5 DEF InsertQueue, TypeOK
    <3> DEFINE more == Append(ring[q], v)
    <3>2. /\ ring' = [ring EXCEPT ![q] = more] /\ value' = value
          /\ failed' = (Len(ring[q]) = Size)
      BY <2>2 DEF InsertQueue
    <3> HIDE DEF more
    <3> QED
      BY <3>1, <3>2 DEF TypeOK, more
  <2> QED
    BY <2>1, <2>2, <1>7
<1>14. /\ state' \in [Runners -> Time!States]
       /\ \A x \in Runners : state'[x] = "sleeping" =>
            state[x] = "sleeping" /\ x \notin Listeners(q)
  BY <1>7 DEF TypeOK, Time!States
<1>15. RunnerOf[q] \in Runners
  BY <1>5, PortsAssumption
<1>16. TypeOK'
  BY <1>7, <1>11, <1>13, <1>14, <1>15, NewStack DEF TypeOK
<1>17. ASSUME NEW c \in Conditions, c.port # q
       PROVE  Met(c, value', ring') <=> Met(c, value, ring)
  <2>1. c.port \notin SamplePorts => c.port \in QueuePorts
    BY ConditionsAssumption
  <2> QED
    BY <2>1, <1>13, <1>17 DEF Met
<1>18. ASSUME NEW x \in Runners PROVE WaitInv(x)'
  <2> SUFFICES ASSUME waitsFor'[x] # NoCondition
               PROVE  /\ Bound(waitsFor'[x].port, ports')
                      /\ state'[x] = "sleeping" => ~Met(waitsFor'[x], value', ring')
    BY DEF WaitInv
  <2>1. /\ waitsFor' = waitsFor /\ ports' = ports
        /\ Bound(waitsFor[x].port, ports)
        /\ state[x] = "sleeping" => ~Met(waitsFor[x], value, ring)
    BY <1>7 DEF Good, WaitInv
  <2>2. state'[x] = "sleeping" => state[x] = "sleeping" /\ waitsFor[x].port # q
    BY <1>14, <2>1 DEF Listeners
  <2>3. waitsFor[x] \in Conditions
    BY <2>1 DEF TypeOK
  <2> QED
    BY <2>1, <2>2, <2>3, <1>17
<1>19. Calls(stack', RunnerOf[q])
  <2>1. stack'[r] = gs
    BY <1>7, <1>11, NewStack
  <2> QED
    BY <2>1, <1>6, <1>12 DEF Calls
<1>20. Good'
  BY <1>7, <1>11, <1>18, <1>19, PushSteps DEF VirtualInv
<1> QED
  BY <1>16, <1>20

-----------------------------------------------------------------------------
(* Ports come and go.                                                      *)

WithList(P, s, l, those) == [P EXCEPT ![s][l] = those]

LEMMA NewList ==
  ASSUME TypeOK, NEW s \in Signals, NEW l \in Lists, NEW those \in Seq(PortNames),
         ports' = WithList(ports, s, l, those)
  PROVE  /\ ports' \in [Signals -> [Lists -> Seq(PortNames)]]
         /\ ports'[s][l] = those
         /\ \A t \in Signals, m \in Lists :
              t # s \/ m # l => ports'[t][m] = ports[t][m]
<1>1. /\ ports \in [Signals -> [Lists -> Seq(PortNames)]]
      /\ ports' = [ports EXCEPT ![s] = [ports[s] EXCEPT ![l] = those]]
  BY DEF TypeOK, WithList
<1> DEFINE row == [ports[s] EXCEPT ![l] = those]
<1>2. /\ row \in [Lists -> Seq(PortNames)] /\ row[l] = those
      /\ \A m \in Lists : m # l => row[m] = ports[s][m]
  BY <1>1
<1>3. ports' = [ports EXCEPT ![s] = row]
  BY <1>1
<1> HIDE DEF row
<1> QED
  BY <1>1, <1>2, <1>3

\* What a push may be at is in the list at which it is.
LEMMA OwedFacts ==
  ASSUME NEW P, NEW f \in Pushes, PushOk(f, P), NEW x \in f.owed,
         Len(P[f.signal][f.list]) \in Nat
  PROVE  \E i \in 1 .. Len(P[f.signal][f.list]) : P[f.signal][f.list][i] = x
<1> DEFINE n == Len(P[f.signal][f.list])
<1>1. f.at # NoPort /\ (After(f, P) \/ AtIt(f, P))
  BY DEF PushOk
<1>2. CASE After(f, P)
  <2>1. PICK k \in 1 .. n : x \in From(P[f.signal][f.list], k + 1)
    BY <1>2 DEF After
  <2>2. PICK i \in k + 1 .. n : x = P[f.signal][f.list][i]
    BY <2>1 DEF From
  <2> QED
    BY <2>2
<1>3. CASE AtIt(f, P)
  <2>1. PICK k \in 1 .. n : x \in From(P[f.signal][f.list], k)
    BY <1>3 DEF AtIt
  <2>2. PICK i \in k .. n : x = P[f.signal][f.list][i]
    BY <2>1 DEF From
  <2> QED
    BY <2>2
<1> QED
  BY <1>1, <1>2, <1>3

\* Whether something is bound, by its place.
LEMMA BoundAt ==
  ASSUME NEW P, NEW q, NEW those, those = P[SignalOf[q]][ListOf(q)],
         NEW S, those \in Seq(S)
  PROVE  Bound(q, P) <=> \E i \in 1 .. Len(those) : those[i] = q
<1>1. DOMAIN those = 1 .. Len(those)
  OBVIOUS
<1> QED
  BY <1>1 DEF Bound, ToSet

LEMMA BindStep ==
  ASSUME TypeOK, Good, NEW r \in Runners, NEW q \in PortNames, Bind(r, q)
  PROVE  TypeOK' /\ Good'
<1> DEFINE s == SignalOf[q]
           l == ListOf(q)
           old == ports[s][l]
           new == <<q>> \o old
<1>1. s \in Signals /\ l \in Lists
  BY TypeFacts
<1>2. old \in Seq(PortNames) /\ Len(old) \in Nat /\ Distinct(old)
      /\ \A i \in 1 .. Len(old) : SignalOf[old[i]] = s /\ ListOf(old[i]) = l
  BY <1>1, TypeFacts DEF Good, ListInv
<1>3. \A i \in 1 .. Len(old) : old[i] # q
  <2>1. ~Bound(q, ports)
    BY Meets DEF Bind, IsBound, Bound
  <2> QED
    BY <2>1, <1>2, BoundAt
<1>4. /\ UNCHANGED <<now, state, over, value, ring, stack, waitsFor, virtual, failed>>
      /\ alive' = alive \cup {q}
      /\ ports' = WithList(ports, s, l, new)
  BY DEF Bind, timeVars, WithList
<1> HIDE DEF old
<1>5. /\ new \in Seq(PortNames) /\ Len(new) = Len(old) + 1 /\ new[1] = q
      /\ \A i \in 1 .. Len(old) : new[i + 1] = old[i]
  BY <1>2, PrependFacts
<1>18. q \notin From(old, 1)
  BY <1>3 DEF From
<1>6. /\ Distinct(new)
      /\ \A i \in 1 .. Len(new) : new[i] = q \/ \E j \in 1 .. Len(old) : new[i] = old[j]
      /\ \A k \in 1 .. Len(old) + 1 : From(new, k + 1) = From(old, k)
  BY <1>2, <1>18, Prepended
<1> HIDE DEF new
<1> HIDE DEF s, l
<1>7. /\ ports' \in [Signals -> [Lists -> Seq(PortNames)]]
      /\ ports'[s][l] = new
      /\ \A t \in Signals, m \in Lists : t # s \/ m # l => ports'[t][m] = ports[t][m]
  BY <1>1, <1>4, <1>5, NewList
<1>8. TypeOK'
  BY <1>4, <1>7 DEF TypeOK
<1>9. ASSUME NEW t \in Signals, NEW m \in Lists PROVE ListInv(t, m)'
  <2>1. CASE t = s /\ m = l
    <3>1. \A i \in 1 .. Len(new) : SignalOf[new[i]] = s /\ ListOf(new[i]) = l
      BY <1>2, <1>6 DEF s, l
    <3> QED
      BY <2>1, <3>1, <1>6, <1>7 DEF ListInv
  <2>2. CASE ~(t = s /\ m = l)
    <3>1. ports'[t][m] = ports[t][m]
      BY <2>2, <1>7
    <3> QED
      BY <3>1 DEF Good, ListInv
  <2> QED
    BY <2>1, <2>2
<1>10. ASSUME NEW f \in Pushes, PushOk(f, ports) PROVE PushOk(f, ports')
  <2>1. f.signal \in Signals /\ f.list \in Lists
    BY DEF Pushes
  <2>2. CASE f.signal = s /\ f.list = l
    <3>1. ports[f.signal][f.list] = old /\ ports'[f.signal][f.list] = new
      BY <2>2, <1>7 DEF old
    <3>2. \A k \in 1 .. Len(old) :
            /\ k + 1 \in 1 .. Len(new) /\ new[k + 1] = old[k]
            /\ From(new, k + 1) = From(old, k)
            /\ From(new, (k + 1) + 1) = From(old, k + 1)
      <4> TAKE k \in 1 .. Len(old)
      <4>1. k \in 1 .. Len(old) + 1 /\ k + 1 \in 1 .. Len(old) + 1
        BY <1>2
      <4> QED
        BY <4>1, <1>5, <1>6
    <3>3. After(f, ports) => After(f, ports')
      BY <3>1, <3>2 DEF After
    <3>4. AtIt(f, ports) => AtIt(f, ports')
      BY <3>1, <3>2 DEF AtIt
    <3> QED
      BY <3>3, <3>4, <1>10 DEF PushOk
  <2>3. CASE ~(f.signal = s /\ f.list = l)
    <3>1. ports'[f.signal][f.list] = ports[f.signal][f.list]
      BY <2>1, <2>3, <1>7
    <3> QED
      BY <3>1, <1>10 DEF PushOk, After, AtIt
  <2> QED
    BY <2>2, <2>3
<1>11. ASSUME NEW x \in Runners PROVE StackOk(stack'[x], ports')
  <2>1. /\ StackOk(stack[x], ports) /\ stack' = stack
        /\ \A i \in 1 .. Len(stack[x]) :
             stack[x][i].kind = "push" => stack[x][i] \in Pushes
    BY <1>4, TypeFacts DEF Good
  <2> QED
    BY <2>1, <1>10 DEF StackOk
<1>12. ASSUME NEW x \in PortNames, Bound(x, ports) PROVE Bound(x, ports')
  <2>1. SignalOf[x] \in Signals /\ ListOf(x) \in Lists
    BY TypeFacts
  <2>2. CASE SignalOf[x] = s /\ ListOf(x) = l
    <3>1. PICK i \in 1 .. Len(old) : old[i] = x
      BY <2>2, <1>2, <1>12, BoundAt DEF old
    <3>2. i + 1 \in 1 .. Len(new) /\ new[i + 1] = x
      BY <3>1, <1>2, <1>5
    <3> QED
      BY <2>2, <3>2, <1>5, <1>7, BoundAt
  <2>3. CASE ~(SignalOf[x] = s /\ ListOf(x) = l)
    <3>1. ports'[SignalOf[x]][ListOf(x)] = ports[SignalOf[x]][ListOf(x)]
      BY <2>1, <2>3, <1>7
    <3> QED
      BY <3>1, <1>12 DEF Bound
  <2> QED
    BY <2>2, <2>3
<1>13. Bound(q, ports')
  <2>1. 1 \in 1 .. Len(new) /\ new[1] = q
    BY <1>2, <1>5
  <2> QED
    BY <2>1, <1>5, <1>7, BoundAt DEF s, l
<1>14. \A x \in alive' : Bound(x, ports')
  BY <1>4, <1>12, <1>13 DEF TypeOK, Good
<1>15. ASSUME NEW x \in Runners PROVE WaitInv(x)'
  <2>1. waitsFor[x] # NoCondition => waitsFor[x].port \in PortNames
    BY TypeFacts DEF TypeOK
  <2> QED
    BY <2>1, <1>4, <1>12 DEF Good, WaitInv
<1>16. VirtualInv'
  BY <1>4 DEF Good, VirtualInv
<1>17. Good'
  BY <1>9, <1>11, <1>14, <1>15, <1>16 DEF Good
<1> QED
  BY <1>8, <1>17

\* What the other frames forget.
LEMMA Forgotten ==
  ASSUME TypeOK, NEW q \in PortNames, NEW r \in Runners, NEW fs,
         fs = [i \in 1 .. Len(stack[r]) |-> Forget(stack[r][i], q)]
  PROVE  /\ fs \in Seq(Frames) /\ Len(fs) = Len(stack[r])
         /\ \A i \in 1 .. Len(stack[r]) : fs[i] = Forget(stack[r][i], q)
<1>1. Len(stack[r]) \in Nat /\ \A i \in 1 .. Len(stack[r]) : stack[r][i] \in Frames
  BY TypeFacts
<1>2. ASSUME NEW f \in Frames PROVE Forget(f, q) \in Frames
  <2>1. CASE f.kind = "push"
    <3>1. f \in Pushes
      BY <2>1, TypeFacts
    <3>2. [f EXCEPT !.owed = @ \ {q}] \in Pushes
      BY <3>1 DEF Pushes
    <3> QED
      BY <2>1, <3>2 DEF Forget, Frames
  <2>2. CASE f.kind # "push"
    BY <2>2 DEF Forget
  <2> QED
    BY <2>1, <2>2
<1>3. \A i \in 1 .. Len(stack[r]) : Forget(stack[r][i], q) \in Frames
  BY <1>1, <1>2
<1>4. fs \in [1 .. Len(stack[r]) -> Frames]
  BY <1>3
<1> QED
  BY <1>1, <1>4

\* The types, whether or not the assertion fails.
LEMMA UnbindType ==
  ASSUME TypeOK, NEW q \in PortNames, Unbind(q), Bound(q, ports), Good
  PROVE  /\ ports' \in [Signals -> [Lists -> Seq(PortNames)]]
         /\ value' \in [SamplePorts -> Values \cup {InitialValue}]
         /\ ring' \in [QueuePorts -> Seq(Values)]
         /\ stack' \in [Runners -> Seq(Pushes \cup Callbacks)]
         /\ failed' \in BOOLEAN
         /\ \A x \in Runners :
              /\ Len(stack'[x]) = Len(stack[x])
              /\ \A i \in 1 .. Len(stack[x]) :
                   stack'[x][i] = Forget(stack[x][i], q)
         /\ \E k \in 1 .. Len(ports[SignalOf[q]][ListOf(q)]) :
              /\ ports[SignalOf[q]][ListOf(q)][k] = q
              /\ ports'[SignalOf[q]][ListOf(q)]
                   = RemoveFirst(ports[SignalOf[q]][ListOf(q)], q)
         /\ \A t \in Signals, m \in Lists :
              t # SignalOf[q] \/ m # ListOf(q) => ports'[t][m] = ports[t][m]
<1> DEFINE s == SignalOf[q]
           l == ListOf(q)
           old == ports[s][l]
           rest == RemoveFirst(old, q)
<1>1. s \in Signals /\ l \in Lists
  BY TypeFacts
<1>2. old \in Seq(PortNames) /\ Len(old) \in Nat /\ Distinct(old)
  BY <1>1, TypeFacts DEF Good, ListInv
<1>3. PICK k \in 1 .. Len(old) : old[k] = q
  BY <1>2, BoundAt
<1>4. rest \in Seq(PortNames)
  <2> HIDE DEF old
  <2> QED
    BY <1>2, <1>3, Removed
<1>5. ports' = WithList(ports, s, l, rest)
  BY DEF Unbind, WithList
<1> HIDE DEF rest
<1>6. /\ ports' \in [Signals -> [Lists -> Seq(PortNames)]]
      /\ ports'[s][l] = rest
      /\ \A t \in Signals, m \in Lists : t # s \/ m # l => ports'[t][m] = ports[t][m]
  <2> HIDE DEF s, l
  <2> QED
    BY <1>1, <1>4, <1>5, NewList
<1>7. value' \in [SamplePorts -> Values \cup {InitialValue}]
  BY DEF Unbind, TypeOK
<1>8. ring' \in [QueuePorts -> Seq(Values)]
  <2>1. <<>> \in Seq(Values)
    OBVIOUS
  <2>2. \A x \in QueuePorts : ring[x] \in Seq(Values)
    BY DEF TypeOK
  <2>3. ring' = [x \in QueuePorts |-> IF x = q THEN <<>> ELSE ring[x]]
    BY DEF Unbind
  <2> QED
    BY <2>1, <2>2, <2>3
<1>9. failed' \in BOOLEAN
  BY DEF Unbind, IsAt
<1>10. ASSUME NEW x \in Runners
       PROVE  /\ stack'[x] \in Seq(Frames) /\ Len(stack'[x]) = Len(stack[x])
              /\ \A i \in 1 .. Len(stack[x]) : stack'[x][i] = Forget(stack[x][i], q)
  <2> DEFINE fs == [i \in 1 .. Len(stack[x]) |-> Forget(stack[x][i], q)]
  <2>1. stack'[x] = fs
    BY DEF Unbind
  <2>2. /\ fs \in Seq(Frames) /\ Len(fs) = Len(stack[x])
        /\ \A i \in 1 .. Len(stack[x]) : fs[i] = Forget(stack[x][i], q)
    BY Forgotten
  <2> HIDE DEF fs
  <2> QED
    BY <2>1, <2>2
<1>11. stack' \in [Runners -> Seq(Pushes \cup Callbacks)]
  <2>1. stack' = [x \in Runners |-> stack'[x]]
    BY DEF Unbind
  <2> QED
    BY <2>1, <1>10 DEF Frames
<1> QED
  BY <1>3, <1>6, <1>7, <1>8, <1>9, <1>10, <1>11 DEF rest

LEMMA UnbindGood ==
  ASSUME TypeOK, Good, NEW q \in PortNames, Unbind(q), Bound(q, ports), ~failed'
  PROVE  /\ \A s \in Signals, l \in Lists : ListInv(s, l)'
         /\ \A x \in Runners : StackOk(stack'[x], ports')
         /\ \A x \in PortNames : x # q /\ Bound(x, ports) => Bound(x, ports')
         /\ \A c \in Conditions : c.port # q =>
              (Met(c, value', ring') <=> Met(c, value, ring))
         /\ \A v : Calls(stack, v) => Calls(stack', v)
<1> DEFINE s == SignalOf[q]
           l == ListOf(q)
           old == ports[s][l]
           rest == ports'[s][l]
<1>1. s \in Signals /\ l \in Lists
  BY TypeFacts
<1>2. old \in Seq(PortNames) /\ Len(old) \in Nat /\ Distinct(old)
      /\ \A i \in 1 .. Len(old) : SignalOf[old[i]] = s /\ ListOf(old[i]) = l
  BY <1>1, TypeFacts DEF Good, ListInv
<1>3. PICK k \in 1 .. Len(old) : old[k] = q /\ rest = RemoveFirst(old, q)
  BY UnbindType
<1>4. \A t \in Signals, m \in Lists : t # s \/ m # l => ports'[t][m] = ports[t][m]
  BY UnbindType
<1>5. \A x \in Runners :
        /\ Len(stack'[x]) = Len(stack[x])
        /\ \A i \in 1 .. Len(stack[x]) : stack'[x][i] = Forget(stack[x][i], q)
  BY UnbindType
<1> HIDE DEF old, rest
<1>6. /\ rest \in Seq(PortNames)
      /\ Distinct(rest)
      /\ \A i \in 1 .. Len(rest) :
           rest[i] # q /\ \E j \in 1 .. Len(old) : rest[i] = old[j]
      /\ \A j \in 1 .. Len(old) : j # k =>
           \E m \in 1 .. Len(rest) :
             /\ rest[m] = old[j]
             /\ From(rest, m) = From(old, j) \ {q}
             /\ From(rest, m + 1) = From(old, j + 1) \ {q}
  <2>1. RemoveFirst(old, old[k]) \in Seq(PortNames)
        /\ Without(RemoveFirst(old, old[k]), old, k)
    BY <1>2, Removed
  <2>2. rest \in Seq(PortNames) /\ Without(rest, old, k)
    BY <2>1, <1>3
  <2> QED
    BY <2>2, <1>3 DEF Without
<1>7. ASSUME NEW t \in Signals, NEW m \in Lists PROVE ListInv(t, m)'
  <2>1. CASE t = s /\ m = l
    <3>1. ASSUME NEW i \in 1 .. Len(rest)
          PROVE  SignalOf[rest[i]] = s /\ ListOf(rest[i]) = l
      <4>1. PICK j \in 1 .. Len(old) : rest[i] = old[j]
        BY <1>6
      <4>2. SignalOf[old[j]] = s /\ ListOf(old[j]) = l
        BY <1>2
      <4> QED
        BY <4>1, <4>2
    <3> QED
      BY <2>1, <3>1, <1>6 DEF ListInv, rest
  <2>2. CASE ~(t = s /\ m = l)
    <3>1. ports'[t][m] = ports[t][m]
      BY <2>2, <1>4
    <3> QED
      BY <3>1 DEF Good, ListInv
  <2> QED
    BY <2>1, <2>2
<1>8. ASSUME NEW f \in Pushes, PushOk(f, ports), f.at # q
      PROVE  PushOk(Forget(f, q), ports')
  <2> DEFINE g == Forget(f, q)
  <2>1. f.signal \in Signals /\ f.list \in Lists /\ f.kind = "push"
    BY DEF Pushes
  <2>2. /\ g.signal = f.signal /\ g.list = f.list /\ g.at = f.at
        /\ g.stage = f.stage /\ g.owed = f.owed \ {q}
    BY <2>1 DEF Pushes, Forget
  <2> HIDE DEF g
  <2>3. CASE f.at = NoPort
    BY <2>2, <2>3, <1>8 DEF PushOk, g
  <2>4. CASE f.at # NoPort /\ f.signal = s /\ f.list = l
    <3>1. ports[f.signal][f.list] = old /\ ports'[f.signal][f.list] = rest
      BY <2>4 DEF old, rest
    <3>2. After(f, ports) => After(g, ports')
      <4> SUFFICES ASSUME After(f, ports) PROVE After(g, ports')
        OBVIOUS
      <4>1. PICK j \in 1 .. Len(old) : old[j] = f.at /\ f.owed = From(old, j + 1)
        BY <3>1 DEF After
      <4>2. j # k
        BY <4>1, <1>3, <1>8
      <4>3. PICK m \in 1 .. Len(rest) :
              rest[m] = old[j] /\ From(rest, m + 1) = From(old, j + 1) \ {q}
        BY <4>2, <1>6
      <4> QED
        BY <4>1, <4>3, <3>1, <2>2 DEF After
    <3>3. AtIt(f, ports) => AtIt(g, ports')
      <4> SUFFICES ASSUME AtIt(f, ports) PROVE AtIt(g, ports')
        OBVIOUS
      <4>1. PICK j \in 1 .. Len(old) : old[j] = f.at /\ f.owed = From(old, j)
        BY <3>1 DEF AtIt
      <4>2. j # k
        BY <4>1, <1>3, <1>8
      <4>3. PICK m \in 1 .. Len(rest) :
              rest[m] = old[j] /\ From(rest, m) = From(old, j) \ {q}
        BY <4>2, <1>6
      <4> QED
        BY <4>1, <4>3, <3>1, <2>2 DEF AtIt
    <3> QED
      BY <2>2, <2>4, <3>2, <3>3, <1>8 DEF PushOk, g
  <2>5. CASE f.at # NoPort /\ ~(f.signal = s /\ f.list = l)
    <3>1. ports'[f.signal][f.list] = ports[f.signal][f.list]
      BY <2>1, <2>5, <1>4
    <3>2. q \notin f.owed
      <4> SUFFICES ASSUME q \in f.owed PROVE FALSE
        OBVIOUS
      <4>1. Len(ports[f.signal][f.list]) \in Nat
        BY <2>1, TypeFacts
      <4>2. PICK i \in 1 .. Len(ports[f.signal][f.list]) :
              ports[f.signal][f.list][i] = q
        BY <4>1, <1>8, OwedFacts
      <4>3. SignalOf[q] = f.signal /\ ListOf(q) = f.list
        BY <4>2, <2>1 DEF Good, ListInv
      <4> QED
        BY <4>3, <2>5
    <3>3. g.owed = f.owed
      BY <3>2, <2>2
    <3> QED
      BY <2>2, <3>1, <3>3, <1>8 DEF PushOk, After, AtIt, g
  <2> QED
    BY <2>3, <2>4, <2>5
<1>9. \A x \in Runners : \A i \in 1 .. Len(stack[x]) :
        stack[x][i].kind = "push" => stack[x][i].at # q
  BY DEF Unbind, IsAt
<1>10. \A f \in Frames : Forget(f, q).kind = f.kind
                         /\ (f.kind = "push" => Forget(f, q).stage = f.stage)
                         /\ (f.kind # "push" => Forget(f, q) = f)
  <2> TAKE f \in Frames
  <2>1. CASE f.kind = "push"
    <3>1. f \in Pushes
      BY <2>1, TypeFacts
    <3> QED
      BY <2>1, <3>1 DEF Pushes, Forget
  <2>2. CASE f.kind # "push"
    BY <2>2 DEF Forget
  <2> QED
    BY <2>1, <2>2
<1>11. ASSUME NEW x \in Runners PROVE StackOk(stack'[x], ports')
  <2> DEFINE fs == stack[x]
             gs == stack'[x]
  <2>1. /\ Len(fs) \in Nat /\ \A i \in 1 .. Len(fs) : fs[i] \in Frames
        /\ Len(gs) = Len(fs) /\ \A i \in 1 .. Len(fs) : gs[i] = Forget(fs[i], q)
        /\ StackOk(fs, ports)
    BY <1>5, TypeFacts DEF Good
  <2>2. \A i \in 1 .. Len(fs) : fs[i].kind = "push" => fs[i].at # q
    BY <1>9
  <2> HIDE DEF fs, gs
  <2>3. ASSUME NEW i \in 1 .. Len(gs)
        PROVE  /\ gs[i].kind = "push" => PushOk(gs[i], ports')
               /\ gs[i].kind = "callback" =>
                    i > 1 /\ gs[i - 1].kind = "push" /\ gs[i - 1].stage = "inside"
    <3>1. i \in 1 .. Len(fs) /\ gs[i] = Forget(fs[i], q) /\ fs[i] \in Frames
      BY <2>1
    <3>2. gs[i].kind = fs[i].kind
      BY <3>1, <1>10
    <3>3. ASSUME gs[i].kind = "push" PROVE PushOk(gs[i], ports')
      <4>1. fs[i].kind = "push" /\ PushOk(fs[i], ports) /\ fs[i].at # q
        BY <3>1, <3>2, <3>3, <2>1, <2>2 DEF StackOk
      <4>2. fs[i] \in Pushes
        BY <4>1, <3>1, TypeFacts
      <4> QED
        BY <4>1, <4>2, <3>1, <1>8
    <3>4. ASSUME gs[i].kind = "callback"
          PROVE  i > 1 /\ gs[i - 1].kind = "push" /\ gs[i - 1].stage = "inside"
      <4>1. i > 1 /\ fs[i - 1].kind = "push" /\ fs[i - 1].stage = "inside"
        BY <3>1, <3>2, <3>4, <2>1 DEF StackOk
      <4>2. i - 1 \in 1 .. Len(fs)
        BY <4>1, <3>1, <2>1
      <4>3. gs[i - 1] = Forget(fs[i - 1], q) /\ fs[i - 1] \in Frames
        BY <4>2, <2>1
      <4> QED
        BY <4>1, <4>3, <1>10
    <3> QED
      BY <3>3, <3>4
  <2>4. StackOk(gs, ports')
    BY <2>3 DEF StackOk
  <2> QED
    BY <2>4 DEF gs
<1>12. ASSUME NEW x \in PortNames, x # q, Bound(x, ports) PROVE Bound(x, ports')
  <2>1. SignalOf[x] \in Signals /\ ListOf(x) \in Lists
    BY TypeFacts
  <2>2. CASE SignalOf[x] = s /\ ListOf(x) = l
    <3>1. PICK i \in 1 .. Len(old) : old[i] = x
      BY <2>2, <1>2, <1>12, BoundAt DEF old
    <3>2. i # k
      BY <3>1, <1>3, <1>12
    <3>3. \E m \in 1 .. Len(rest) : rest[m] = x
      BY <3>1, <3>2, <1>6
    <3> QED
      BY <2>2, <3>3, <1>6, BoundAt DEF rest
  <2>3. CASE ~(SignalOf[x] = s /\ ListOf(x) = l)
    <3>1. ports'[SignalOf[x]][ListOf(x)] = ports[SignalOf[x]][ListOf(x)]
      BY <2>1, <2>3, <1>4
    <3> QED
      BY <3>1, <1>12 DEF Bound
  <2> QED
    BY <2>2, <2>3
<1>13. ASSUME NEW c \in Conditions, c.port # q
       PROVE  Met(c, value', ring') <=> Met(c, value, ring)
  <2>1. c.port \notin SamplePorts => c.port \in QueuePorts
    BY ConditionsAssumption
  <2>2. /\ c.port \in SamplePorts => value'[c.port] = value[c.port]
        /\ c.port \in QueuePorts => ring'[c.port] = ring[c.port]
    BY <1>13 DEF Unbind
  <2> QED
    BY <2>1, <2>2 DEF Met
<1>14. ASSUME NEW v, Calls(stack, v) PROVE Calls(stack', v)
  <2>1. PICK x \in Runners : \E i \in 1 .. Len(stack[x]) :
          stack[x][i].kind = "callback" /\ RunnerOf[stack[x][i].port] = v
    BY <1>14 DEF Calls
  <2>2. PICK i \in 1 .. Len(stack[x]) :
          stack[x][i].kind = "callback" /\ RunnerOf[stack[x][i].port] = v
    BY <2>1
  <2>3. i \in 1 .. Len(stack'[x]) /\ stack'[x][i] = stack[x][i]
    <3>1. stack[x][i] \in Frames
      BY TypeFacts
    <3>2. stack[x][i].kind # "push"
      BY <2>2
    <3>3. stack'[x][i] = Forget(stack[x][i], q) /\ Len(stack'[x]) = Len(stack[x])
      BY <1>5
    <3> QED
      BY <3>1, <3>2, <3>3, <1>10
  <2> QED
    BY <2>2, <2>3 DEF Calls
<1> QED
  BY <1>7, <1>11, <1>12, <1>13, <1>14

\* Nobody who still waits, and no port that is alive, loses what is destroyed.
LEMMA UnbindStep ==
  ASSUME TypeOK, Good, NEW q \in PortNames, Unbind(q), Bound(q, ports),
         UNCHANGED <<now, state, over, virtual>>,
         alive' \subseteq alive, q \notin alive',
         waitsFor' \in [Runners -> Conditions \cup {NoCondition}],
         \A x \in Runners : waitsFor'[x] # NoCondition =>
           waitsFor'[x] = waitsFor[x] /\ waitsFor[x].port # q
  PROVE  TypeOK' /\ (~failed' => Good')
<1>1. TypeOK'
  <2>1. alive' \subseteq PortNames
    BY DEF TypeOK
  <2>2. /\ ports' \in [Signals -> [Lists -> Seq(PortNames)]]
        /\ value' \in [SamplePorts -> Values \cup {InitialValue}]
        /\ ring' \in [QueuePorts -> Seq(Values)]
        /\ stack' \in [Runners -> Seq(Pushes \cup Callbacks)]
        /\ failed' \in BOOLEAN
    BY UnbindType
  <2> QED
    BY <2>1, <2>2 DEF TypeOK
<1> SUFFICES ASSUME ~failed' PROVE Good'
  BY <1>1
<1>2. /\ \A s \in Signals, l \in Lists : ListInv(s, l)'
      /\ \A x \in Runners : StackOk(stack'[x], ports')
      /\ \A x \in PortNames : x # q /\ Bound(x, ports) => Bound(x, ports')
      /\ \A c \in Conditions : c.port # q =>
           (Met(c, value', ring') <=> Met(c, value, ring))
      /\ \A v : Calls(stack, v) => Calls(stack', v)
  BY UnbindGood
<1>3. \A x \in alive' : Bound(x, ports')
  BY <1>2 DEF TypeOK, Good
<1>4. ASSUME NEW x \in Runners PROVE WaitInv(x)'
  <2> SUFFICES ASSUME waitsFor'[x] # NoCondition
               PROVE  /\ Bound(waitsFor'[x].port, ports')
                      /\ state'[x] = "sleeping" => ~Met(waitsFor'[x], value', ring')
    BY DEF WaitInv
  <2>1. waitsFor'[x] = waitsFor[x] /\ waitsFor[x].port # q /\ waitsFor[x] \in Conditions
    BY DEF TypeOK
  <2>2. waitsFor[x].port \in PortNames
    BY <2>1, TypeFacts
  <2>3. /\ Bound(waitsFor[x].port, ports)
        /\ state[x] = "sleeping" => ~Met(waitsFor[x], value, ring)
    BY <2>1, ConditionsAssumption DEF Good, WaitInv
  <2> QED
    BY <2>1, <2>2, <2>3, <1>2
<1>5. VirtualInv'
  BY <1>2 DEF Good, VirtualInv
<1> QED
  BY <1>2, <1>3, <1>4, <1>5 DEF Good

LEMMA DestroyStep ==
  ASSUME TypeOK, Good, NEW r \in Runners, NEW q \in PortNames, Destroy(r, q)
  PROVE  TypeOK' /\ (~failed' => Good')
<1>1. /\ alive' = alive \ {q} /\ q \in alive
      /\ UNCHANGED <<now, state, over, waitsFor, virtual>>
  BY DEF Destroy, timeVars
<1>2. CASE Listeners(q) = {}
  <2>1. Unbind(q) /\ Bound(q, ports)
    BY <1>1, <1>2 DEF Destroy, Good
  <2>2. waitsFor' \in [Runners -> Conditions \cup {NoCondition}]
    BY <1>1 DEF TypeOK
  <2>3. \A x \in Runners : waitsFor'[x] # NoCondition =>
          waitsFor'[x] = waitsFor[x] /\ waitsFor[x].port # q
    BY <1>1, <1>2 DEF Listeners
  <2> QED
    BY <1>1, <2>1, <2>2, <2>3, UnbindStep
<1>3. CASE Listeners(q) # {}
  <2>1. UNCHANGED <<ports, value, ring, stack, failed>>
    BY <1>3 DEF Destroy
  <2>2. TypeOK'
    BY <1>1, <2>1 DEF TypeOK
  <2>3. \A x \in Runners : WaitInv(x)'
    BY <1>1, <2>1, SameWaits
  <2>4. Good'
    BY <1>1, <2>1, <2>3 DEF Good, ListInv, VirtualInv
  <2> QED
    BY <2>2, <2>4
<1> QED
  BY <1>2, <1>3

LEMMA EndWaitStep ==
  ASSUME TypeOK, Good, NEW r \in Runners, EndWait(r)
  PROVE  TypeOK' /\ (~failed' => Good')
<1> DEFINE q == waitsFor[r].port
<1>1. /\ waitsFor[r] # NoCondition
      /\ waitsFor' = [waitsFor EXCEPT ![r] = NoCondition]
      /\ UNCHANGED <<now, state, over, alive, virtual>>
  BY DEF EndWait, timeVars
<1>2. q \in PortNames /\ Bound(q, ports)
  BY <1>1, TypeFacts DEF TypeOK, Good, WaitInv
<1>3. /\ waitsFor' \in [Runners -> Conditions \cup {NoCondition}]
      /\ \A x \in Runners : waitsFor'[x] # NoCondition =>
           x # r /\ waitsFor'[x] = waitsFor[x]
  BY <1>1 DEF TypeOK
<1>4. CASE q \notin alive /\ Listeners(q) = {r}
  <2>1. Unbind(q)
    BY <1>4 DEF EndWait
  <2>2. \A x \in Runners : waitsFor'[x] # NoCondition =>
          waitsFor'[x] = waitsFor[x] /\ waitsFor[x].port # q
    BY <1>3, <1>4 DEF Listeners
  <2> HIDE DEF q
  <2> QED
    BY <1>1, <1>2, <1>3, <1>4, <2>1, <2>2, UnbindStep
<1>5. CASE ~(q \notin alive /\ Listeners(q) = {r})
  <2>1. UNCHANGED <<ports, value, ring, stack, failed>>
    BY <1>5 DEF EndWait
  <2>2. TypeOK'
    BY <1>1, <1>3, <2>1 DEF TypeOK
  <2>3. \A x \in Runners : WaitInv(x)'
    BY <1>1, <1>3, <2>1 DEF Good, WaitInv
  <2>4. Good'
    BY <1>1, <2>1, <2>3, SamePorts
  <2> QED
    BY <2>2, <2>4
<1> QED
  BY <1>4, <1>5

-----------------------------------------------------------------------------
(* The theorems.                                                           *)

LEMMA InitInv ==
  ASSUME Init
  PROVE  Inv
<1>1. TypeOK
  <2> USE DEF Init
  <2>1. <<>> \in Seq(PortNames) /\ <<>> \in Seq(Values)
        /\ <<>> \in Seq(Pushes \cup Callbacks)
    OBVIOUS
  <2>2. ports \in [Signals -> [Lists -> Seq(PortNames)]]
    BY <2>1
  <2>3. ring \in [QueuePorts -> Seq(Values)] /\ alive \subseteq PortNames
    BY <2>1
  <2>4. stack \in [Runners -> Seq(Pushes \cup Callbacks)]
    BY <2>1
  <2>5. /\ value \in [SamplePorts -> Values \cup {InitialValue}]
        /\ state \in [Runners -> Time!States]
        /\ waitsFor \in [Runners -> Conditions \cup {NoCondition}]
        /\ failed \in BOOLEAN /\ now = 0 /\ virtual = NoRunner
    BY DEF Time!States
  <2> QED
    BY <2>2, <2>3, <2>4, <2>5 DEF TypeOK
<1>2. \A s \in Signals, l \in Lists : ListInv(s, l)
  BY DEF Init, ListInv, Distinct
<1>3. \A r \in Runners : StackOk(stack[r], ports)
  BY DEF Init, StackOk
<1>4. (\A q \in alive : Bound(q, ports)) /\ (\A r \in Runners : WaitInv(r))
      /\ VirtualInv
  BY DEF Init, WaitInv, VirtualInv
<1> QED
  BY <1>1, <1>2, <1>3, <1>4 DEF Inv, Good

LEMMA NextInv ==
  ASSUME Inv, [Next]_vars
  PROVE  Inv'
<1>1. CASE Next
  <2>1. TypeOK /\ Good
    BY <1>1 DEF Inv, Next
  <2>2. CASE End
    BY <2>1, <2>2, EndStep DEF Inv
  <2>3. ASSUME NEW r \in Runners, Step(r) PROVE Inv'
    <3>1. CASE Resume(r)
      BY <2>1, <3>1, ResumeStep DEF Inv
    <3>2. CASE SleepOn(r)
      BY <2>1, <3>2, SleepOnStep DEF Inv
    <3>3. CASE EndWait(r)
      BY <2>1, <3>3, EndWaitStep DEF Inv
    <3>4. ASSUME NEW c \in Conditions, Wait(r, c) \/ WaitAsAnother(r, c)
          PROVE  Inv'
      <4>1. CASE Wait(r, c)
        BY <2>1, <4>1, WaitStep DEF Inv
      <4>2. CASE WaitAsAnother(r, c)
        BY <2>1, <4>2, WaitAsAnotherStep DEF Inv
      <4> QED
        BY <3>4, <4>1, <4>2
    <3>5. ASSUME NEW q \in PortNames, Bind(r, q) PROVE Inv'
      BY <2>1, <3>5, BindStep DEF Inv
    <3>6. ASSUME NEW q \in PortNames, Destroy(r, q) PROVE Inv'
      BY <2>1, <3>6, DestroyStep DEF Inv
    <3>7. ASSUME NEW q \in QueuePorts, PopValue(r, q) \/ Clear(r, q) PROVE Inv'
      BY <2>1, <3>7, TakeStep DEF Inv
    <3>8. ASSUME NEW s \in Signals, NEW v \in Values, Push(r, s, v) PROVE Inv'
      BY <2>1, <3>8, PushStep DEF Inv
    <3>9. CASE Yield(r)
      BY <2>1, <3>9, YieldStep DEF Inv
    <3>10. CASE EndList(r)
      BY <2>1, <3>10, EndListStep DEF Inv
    <3>11. CASE Accept(r)
      BY <2>1, <3>11, AcceptStep DEF Inv
    <3>12. CASE Reject(r)
      BY <2>1, <3>12, RejectStep DEF Inv
    <3>13. CASE EndCallback(r)
      BY <2>1, <3>13, EndCallbackStep DEF Inv
    <3> QED
      BY <2>3, <3>1, <3>2, <3>3, <3>4, <3>5, <3>6, <3>7, <3>8, <3>9, <3>10, <3>11,
         <3>12, <3>13 DEF Step
  <2> QED
    BY <1>1, <2>2, <2>3 DEF Next
<1>2. CASE UNCHANGED vars
  <2> USE <1>2 DEF vars, timeVars, portVars
  <2>1. TypeOK' <=> TypeOK
    BY DEF TypeOK
  <2>2. failed' = failed
    OBVIOUS
  <2>3. Good => Good'
    BY SamePorts, SameWaits
  <2> QED
    BY <2>1, <2>2, <2>3 DEF Inv
<1> QED
  BY <1>1, <1>2

LEMMA Invariance == Spec => []Inv
<1>1. Init => Inv
  BY InitInv
<1>2. Inv /\ [Next]_vars => Inv'
  BY NextInv
<1> QED
  BY <1>1, <1>2, PTL DEF Spec

\* Signals, ports and the frames of pushes and callbacks keep their types,
\* however deep the callbacks push.
THEOREM TypeCorrect == Spec => []TypeOK
<1>1. Inv => TypeOK
  BY DEF Inv
<1> QED
  BY <1>1, Invariance, PTL

\* Signal::push hands its value to the ports that are in a list when it comes
\* there and to no other, none twice, and to all of them that live, whatever is
\* bound, destroyed and pushed while it gives up the CPU.
THEOREM PushesReachTheirPorts == Spec => []PushesDeliver
<1>1. Inv => PushesDeliver
  <2> SUFFICES ASSUME TypeOK, Good, NEW f \in PushFrames
               PROVE  /\ f.stage = "insert" => f.at \in f.owed
                      /\ f.at = NoPort => f.owed = {}
    BY DEF Inv, PushesDeliver
  <2>1. f \in Pushes /\ f.kind = "push"
    BY DEF PushFrames, Pushes
  <2>2. PICK r \in Runners : f \in {stack[r][i] : i \in 1 .. Len(stack[r])}
    BY DEF PushFrames
  <2>3. PushOk(f, ports)
    BY <2>1, <2>2 DEF Good, StackOk
  <2>4. ASSUME f.stage = "insert" PROVE f.at \in f.owed
    <3>1. f.signal \in Signals /\ f.list \in Lists
      BY <2>1 DEF Pushes
    <3>2. AtIt(f, ports) /\ Len(ports[f.signal][f.list]) \in Nat
      BY <2>3, <2>4, <3>1, TypeFacts DEF PushOk
    <3>3. PICK k \in 1 .. Len(ports[f.signal][f.list]) :
            /\ ports[f.signal][f.list][k] = f.at
            /\ f.owed = From(ports[f.signal][f.list], k)
      BY <3>2 DEF AtIt
    <3>4. k \in k .. Len(ports[f.signal][f.list])
      BY <3>2
    <3> QED
      BY <3>3, <3>4 DEF From
  <2> QED
    BY <2>3, <2>4 DEF PushOk
<1> QED
  BY <1>1, Invariance, PTL

\* A runner that sleeps in a wait for a condition on a port sleeps while it does
\* not hold, and what the port consists of is bound until the wait has ended.
THEOREM WaitsAreWoken == Spec => []NoLostWakeUp
<1>1. Inv => NoLostWakeUp
  BY Meets, TypeFacts DEF Inv, Good, WaitInv, NoLostWakeUp, Bound, IsBound
<1> QED
  BY <1>1, Invariance, PTL

\* The virtual runner of the context is the runner of a port whose callback
\* executes, or none.
THEOREM VirtualRunners == Spec => []VirtualIsTemporary
<1>1. Inv => VirtualIsTemporary
  BY DEF Inv, Good, VirtualInv, Calls, VirtualIsTemporary
<1> QED
  BY <1>1, Invariance, PTL

=============================================================================
