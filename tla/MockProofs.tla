------------------------------ MODULE MockProofs ------------------------------
(***************************************************************************)
(* Proofs about Mock, for any mocks, calls, expectations and runners, and  *)
(* any number of them.                                                     *)
(***************************************************************************)
EXTENDS MockProperties, FiniteSetTheorems, WellFoundedInduction, TLAPS

\* What is before an expectation has been made; one that is not made yet has
\* not been called.
OnlyCreated ==
  /\ retiring \subseteq Expectations
  /\ \A r \in Runners : implicit[r] <= created
  /\ \A e \in Ids : prerequisites[e] \subseteq Expectations
  /\ \A e \in Ids : e > created => counter[e] = 0

Inv ==
  /\ TypeOK
  /\ OnlyCreated
  /\ PrerequisitesRetire

-----------------------------------------------------------------------------
LEMMA ContractFacts ==
  ASSUME TypeOK, NEW e \in Expectations
  PROVE  /\ e \in Ids
         /\ contract[e].mock \in Mocks
         /\ contract[e].min \in Nat
         /\ contract[e].max \in Nat
<1>1. e \in Ids
  BY BoundsAssumption DEF TypeOK, Expectations, Ids
<1>2. contract[e] \in Contracts
  BY DEF TypeOK
<1> QED
  BY <1>1, <1>2, ContractsAssumption

\* The prerequisites of all levels are what retireAllPrerequisites() visits: a
\* set with its own prerequisites, of expectations that are made.
LEMMA AllPrerequisitesClosed ==
  ASSUME TypeOK, OnlyCreated, NEW e \in Ids
  PROVE  /\ AllPrerequisites(e) \subseteq Expectations
         /\ prerequisites[e] \subseteq AllPrerequisites(e)
         /\ \A x \in AllPrerequisites(e) :
              prerequisites[x] \subseteq AllPrerequisites(e)
<1>1. Expectations \in SUBSET Ids
  BY BoundsAssumption DEF TypeOK, Expectations, Ids
<1>2. AllPrerequisites(e) \subseteq Expectations
  BY <1>1 DEF AllPrerequisites, OnlyCreated
<1>3. prerequisites[e] \subseteq AllPrerequisites(e)
  BY DEF AllPrerequisites, TypeOK
<1>4. ASSUME NEW x \in AllPrerequisites(e), NEW y \in prerequisites[x]
      PROVE  y \in AllPrerequisites(e)
  <2>1. x \in Ids /\ y \in Ids
    BY <1>4 DEF AllPrerequisites, TypeOK
  <2>2. ASSUME NEW S \in SUBSET Ids,
               prerequisites[e] \subseteq S,
               \A z \in S : prerequisites[z] \subseteq S
        PROVE  y \in S
    <3>1. x \in S
      BY <2>2, <1>4 DEF AllPrerequisites
    <3> QED
      BY <3>1, <2>2, <1>4
  <2> QED
    BY <2>1, <2>2 DEF AllPrerequisites
<1> QED
  BY <1>2, <1>3, <1>4

-----------------------------------------------------------------------------
LEMMA InitInv == Init => Inv
<1> SUFFICES ASSUME Init PROVE Inv
  OBVIOUS
<1>1. Expectations = {} /\ created = 0
  BY DEF Init, Expectations
<1>2. TypeOK
  <2>1. contract \in [Expectations -> Contracts]
    BY <1>1 DEF Init
  <2>2. condition \in BOOLEAN /\ retiring = {} /\ alive = Mocks /\ calls = 0
    BY DEF Init
  <2>3. prerequisites \in [Ids -> SUBSET Ids]
    BY DEF Init
  <2>4. implicit \in [Runners -> 0 .. MaxExpectations] /\ scopes \in [Runners -> Nat]
    BY BoundsAssumption DEF Init, None
  <2>5. /\ counter \in [Ids -> Nat]
        /\ unexpected \in [Ids -> Nat]
        /\ unmet \in [Ids -> Nat]
        /\ missing \in [Ids -> Nat]
        /\ unknown \in [Mocks -> Nat]
    BY DEF Init
  <2> QED
    BY <1>1, <2>1, <2>2, <2>3, <2>4, <2>5, BoundsAssumption DEF TypeOK
<1>3. OnlyCreated
  <2>1. retiring = {} /\ \A r \in Runners : implicit[r] = 0
    BY DEF Init, None
  <2>2. \A e \in Ids : prerequisites[e] = {} /\ counter[e] = 0
    BY DEF Init
  <2> QED
    BY <1>1, <2>1, <2>2 DEF OnlyCreated
<1>4. PrerequisitesRetire
  BY <1>1 DEF PrerequisitesRetire
<1> QED
  BY <1>2, <1>3, <1>4 DEF Inv

\* A new expectation changes nothing for the others, and is not called yet.
LEMMA ExpectCallInv ==
  ASSUME Inv, NEW r \in Runners, NEW c \in Contracts,
         NEW earlier \in SUBSET Expectations, ExpectCall(r, c, earlier)
  PROVE  Inv'
<1> DEFINE e == created + 1
<1> USE DEF Inv
<1>1. /\ e \in Ids /\ created \in Nat /\ created' = e
      /\ Expectations' = Expectations \cup {e} /\ e \notin Expectations
      /\ Expectations' \subseteq Ids
  <2>1. e \in Ids /\ created \in Nat /\ created' = e
    BY BoundsAssumption DEF ExpectCall, TypeOK, Ids
  <2>2. Expectations' = 1 .. e /\ Expectations = 1 .. created
    BY <2>1 DEF Expectations
  <2>3. 1 .. e = (1 .. created) \cup {e} /\ e \notin 1 .. created
    BY <2>1
  <2> QED
    BY <2>1, <2>2, <2>3, BoundsAssumption DEF Ids
<1>2. earlier \cup ImplicitPredecessors(r) \subseteq Expectations
  <2>1. implicit[r] \in Nat /\ implicit[r] <= created
    BY BoundsAssumption DEF TypeOK, OnlyCreated
  <2>2. ImplicitPredecessors(r) \subseteq Expectations
    BY <1>1, <2>1 DEF ImplicitPredecessors, Expectations, None
  <2> QED
    BY <2>2
<1>3. prerequisites' =
        [prerequisites EXCEPT ![e] = earlier \cup ImplicitPredecessors(r)]
  BY DEF ExpectCall
<1>4. TypeOK'
  <2>1. contract' \in [Expectations' -> Contracts]
    BY <1>1 DEF ExpectCall, TypeOK, Expectations
  <2>2. prerequisites' \in [Ids -> SUBSET Ids]
    BY <1>1, <1>2, <1>3 DEF TypeOK
  <2>3. implicit' \in [Runners -> 0 .. MaxExpectations]
    <3>1. e \in 0 .. MaxExpectations
      BY <1>1, BoundsAssumption DEF Ids
    <3>2. implicit' = [implicit EXCEPT ![r] =
                         IF scopes[r] > 0 THEN e ELSE implicit[r]]
      BY DEF ExpectCall
    <3> QED
      BY <3>1, <3>2 DEF TypeOK
  <2>4. retiring' \subseteq Ids /\ created' \in 0 .. MaxExpectations
    <3>1. {x \in {e} : c.retires} \subseteq {e}
      OBVIOUS
    <3>2. retiring' = retiring \cup {x \in {e} : c.retires}
      BY DEF ExpectCall
    <3>3. retiring \subseteq Ids
      BY DEF TypeOK
    <3>4. created' \in 0 .. MaxExpectations
      BY <1>1, BoundsAssumption DEF Ids
    <3> QED
      BY <1>1, <3>1, <3>2, <3>3, <3>4
  <2> QED
    BY <2>1, <2>2, <2>3, <2>4 DEF ExpectCall, TypeOK, reports
<1>5. OnlyCreated'
  <2>1. retiring' \subseteq Expectations'
    BY <1>1 DEF ExpectCall, OnlyCreated
  <2>2. \A x \in Runners : implicit'[x] <= created'
    BY <1>1 DEF ExpectCall, OnlyCreated, TypeOK
  <2>3. \A x \in Ids : prerequisites'[x] \subseteq Expectations'
    BY <1>1, <1>2, <1>3 DEF OnlyCreated, TypeOK
  <2>4. \A x \in Ids : x > created' => counter'[x] = 0
    BY <1>1 DEF ExpectCall, OnlyCreated, Ids
  <2> QED
    BY <2>1, <2>2, <2>3, <2>4 DEF OnlyCreated
<1>6. PrerequisitesRetire'
  <2> SUFFICES ASSUME NEW x \in Expectations', counter'[x] > 0
               PROVE  \E S \in SUBSET retiring' :
                        /\ prerequisites'[x] \subseteq S
                        /\ \A y \in S : prerequisites'[y] \subseteq S
    BY DEF PrerequisitesRetire
  <2>1. counter' = counter /\ counter[e] = 0
    BY <1>1 DEF ExpectCall, OnlyCreated
  <2>2. x \in Expectations /\ x # e
    BY <1>1, <2>1
  <2>3. PICK S \in SUBSET retiring :
          /\ prerequisites[x] \subseteq S
          /\ \A y \in S : prerequisites[y] \subseteq S
    BY <2>1, <2>2 DEF PrerequisitesRetire
  <2>4. e \notin S /\ S \subseteq Ids
    BY <1>1 DEF OnlyCreated
  <2>5. \A y \in Ids \ {e} : prerequisites'[y] = prerequisites[y]
    BY <1>3 DEF TypeOK
  <2>6. retiring \subseteq retiring'
    BY DEF ExpectCall
  <2> QED
    BY <1>1, <2>2, <2>3, <2>4, <2>5, <2>6
<1> QED
  BY <1>4, <1>5, <1>6

\* A call retires what is before its expectation; what is before others stays.
LEMMA HandleCallInv ==
  ASSUME Inv, NEW m \in Mocks, NEW c \in Calls, NEW e \in Expectations,
         HandleCall(m, c, e)
  PROVE  Inv'
<1> USE DEF Inv
<1>1. e \in Ids /\ AllPrerequisites(e) \subseteq Expectations
      /\ Expectations \subseteq Ids
  BY ContractFacts, AllPrerequisitesClosed
<1>2. /\ UNCHANGED <<created, contract, prerequisites, orderVars, condition,
                     alive, missing, unexpected, unknown>>
      /\ calls' = calls + 1
      /\ counter' = [counter EXCEPT ![e] = @ + 1]
      /\ retiring' = retiring \cup AllPrerequisites(e)
  BY DEF HandleCall, IsCalled
<1>3. TypeOK'
  <2>1. unmet' \in [Ids -> Nat]
    BY <1>1 DEF HandleCall, TypeOK
  <2>2. counter' \in [Ids -> Nat] /\ retiring' \subseteq Ids
    BY <1>1, <1>2 DEF TypeOK
  <2>3. Expectations' = Expectations /\ calls' \in Nat
    BY <1>2 DEF Expectations, TypeOK
  <2> QED
    BY <1>2, <2>1, <2>2, <2>3 DEF TypeOK, orderVars
<1>4. OnlyCreated'
  <2>1. Expectations' = Expectations /\ retiring' \subseteq Expectations
    BY <1>1, <1>2 DEF Expectations, OnlyCreated
  <2>2. ~(e > created)
    BY <1>1, BoundsAssumption DEF Expectations, TypeOK
  <2>3. \A x \in Ids : x > created => counter'[x] = 0
    BY <1>1, <1>2, <2>2 DEF OnlyCreated, TypeOK
  <2> QED
    BY <1>2, <2>1, <2>3 DEF OnlyCreated, orderVars
<1>5. PrerequisitesRetire'
  <2> SUFFICES ASSUME NEW x \in Expectations, counter'[x] > 0
               PROVE  \E S \in SUBSET retiring' :
                        /\ prerequisites[x] \subseteq S
                        /\ \A y \in S : prerequisites[y] \subseteq S
    BY <1>2 DEF PrerequisitesRetire, Expectations
  <2>1. CASE x = e
    BY <2>1, <1>1, <1>2, AllPrerequisitesClosed
  <2>2. CASE x # e
    <3>1. counter[x] > 0
      BY <2>2, <1>1, <1>2 DEF TypeOK
    <3> QED
      BY <3>1, <1>2 DEF PrerequisitesRetire
  <2> QED
    BY <2>1, <2>2
<1> QED
  BY <1>3, <1>4, <1>5

LEMMA NextInv == Inv /\ [Next]_vars => Inv'
<1> SUFFICES ASSUME Inv, [Next]_vars PROVE Inv'
  OBVIOUS
<1> USE DEF Inv
<1>1. ASSUME NEW r \in Runners, EnterSequence(r) PROVE Inv'
  <2>1. UNCHANGED <<created, contract, prerequisites, retiring, counter,
                    implicit, condition, alive, calls, reports>>
    BY <1>1 DEF EnterSequence
  <2>2. TypeOK'
    BY <1>1, <2>1 DEF EnterSequence, TypeOK, reports, Expectations
  <2> QED
    BY <2>1, <2>2 DEF OnlyCreated, PrerequisitesRetire, Expectations
<1>2. ASSUME NEW r \in Runners, LeaveSequence(r) PROVE Inv'
  <2>1. UNCHANGED <<created, contract, prerequisites, retiring, counter,
                    condition, alive, calls, reports>>
    BY <1>2 DEF LeaveSequence
  <2>2. TypeOK' /\ \A x \in Runners : implicit'[x] <= created
    BY <1>2, <2>1, BoundsAssumption
    DEF LeaveSequence, TypeOK, reports, Expectations, None, OnlyCreated
  <2> QED
    BY <2>1, <2>2 DEF OnlyCreated, PrerequisitesRetire, Expectations
<1>3. ASSUME NEW r \in Runners, NEW c \in Contracts,
             NEW earlier \in SUBSET Expectations, ExpectCall(r, c, earlier)
      PROVE  Inv'
  BY <1>3, ExpectCallInv
<1>4. ASSUME NEW m \in Mocks, NEW c \in Calls, UnknownCall(m, c) PROVE Inv'
  <2>1. UNCHANGED <<created, contract, prerequisites, retiring, counter,
                    orderVars, condition, alive, missing, unexpected, unmet>>
    BY <1>4 DEF UnknownCall, IsCalled
  <2>2. calls' = calls + 1 /\ unknown' = [unknown EXCEPT ![m] = @ + 1]
    BY <1>4 DEF UnknownCall, IsCalled
  <2>3. TypeOK'
    BY <2>1, <2>2 DEF TypeOK, orderVars, Expectations
  <2> QED
    BY <2>1, <2>3 DEF OnlyCreated, PrerequisitesRetire, Expectations, orderVars
<1>5. ASSUME NEW m \in Mocks, NEW c \in Calls, NEW e \in Expectations,
             UnexpectedCall(m, c, e)
      PROVE  Inv'
  <2>1. UNCHANGED <<created, contract, prerequisites, retiring, counter,
                    orderVars, condition, alive, missing, unmet, unknown>>
    BY <1>5 DEF UnexpectedCall, IsCalled
  <2>2. calls' = calls + 1 /\ unexpected' = [unexpected EXCEPT ![e] = @ + 1]
    BY <1>5 DEF UnexpectedCall, IsCalled
  <2>3. unexpected' \in [Ids -> Nat] /\ calls' \in Nat
    BY <2>2, ContractFacts DEF TypeOK
  <2>4. TypeOK'
    BY <2>1, <2>3 DEF TypeOK, orderVars, Expectations
  <2> QED
    BY <2>1, <2>4 DEF OnlyCreated, PrerequisitesRetire, Expectations, orderVars
<1>6. ASSUME NEW m \in Mocks, NEW c \in Calls, NEW e \in Expectations,
             HandleCall(m, c, e)
      PROVE  Inv'
  BY <1>6, HandleCallInv
<1>7. ASSUME NEW m \in Mocks, DestroyMock(m) PROVE Inv'
  <2>1. UNCHANGED <<created, contract, prerequisites, retiring, counter,
                    orderVars, condition, calls, unexpected, unmet, unknown>>
    BY <1>7 DEF DestroyMock
  <2>2. missing' \in [Ids -> Nat] /\ alive' \subseteq Mocks
    BY <1>7 DEF DestroyMock, TypeOK
  <2>3. TypeOK'
    BY <2>1, <2>2 DEF TypeOK, orderVars, Expectations
  <2> QED
    BY <2>1, <2>3 DEF OnlyCreated, PrerequisitesRetire, Expectations, orderVars
<1>8. CASE ChangeCondition
  <2>1. UNCHANGED <<created, contract, prerequisites, retiring, counter,
                    orderVars, alive, calls, reports>>
    BY <1>8 DEF ChangeCondition
  <2>2. condition' \in BOOLEAN
    BY <1>8, Zenon DEF ChangeCondition
  <2>3. TypeOK'
    BY <2>1, <2>2 DEF TypeOK, orderVars, Expectations, reports
  <2> QED
    BY <2>1, <2>3 DEF OnlyCreated, PrerequisitesRetire, Expectations, orderVars
<1>9. CASE UNCHANGED vars
  BY <1>9 DEF vars, orderVars, reports, TypeOK, OnlyCreated,
              PrerequisitesRetire, Expectations
<1> QED
  BY <1>1, <1>2, <1>3, <1>4, <1>5, <1>6, <1>7, <1>8, <1>9 DEF Next

LEMMA Invariance == Spec => []Inv
  BY InitInv, NextInv, PTL DEF Spec

THEOREM TypeCorrect == Spec => []TypeOK
  BY Invariance, PTL DEF Inv

\* Once an expectation has been called all that is before it is set to retire.
THEOREM Retirement == Spec => []PrerequisitesRetire
  BY Invariance, PTL DEF Inv

-----------------------------------------------------------------------------
(* The refinement.                                                         *)

\* A new expectation is an Expect of the ideal mock.
LEMMA ExpectCallImplements ==
  ASSUME Inv, NEW r \in Runners, NEW c \in Contracts,
         NEW earlier \in SUBSET Expectations, ExpectCall(r, c, earlier),
         NEW e \in Ids, e = created + 1
  PROVE  Ideal!Expect(e)
<1> USE DEF Inv
<1>1. e \in Ids /\ created \in Nat /\ created' = e
  BY DEF ExpectCall, TypeOK
<1>2. Expectations' = Expectations \cup {e} /\ e \notin Expectations
  <2>1. Expectations' = 1 .. e /\ Expectations = 1 .. created
    BY <1>1 DEF Expectations
  <2> QED
    BY <1>1, <2>1
<1>3. \A x \in Expectations : contract'[x] = contract[x]
  BY <1>1, <1>2 DEF ExpectCall, Expectations
<1>4. prerequisites'[e] \subseteq Expectations
  <2>1. implicit[r] \in Nat /\ implicit[r] <= created
    BY BoundsAssumption DEF TypeOK, OnlyCreated
  <2>2. ImplicitPredecessors(r) \subseteq Expectations
    BY <1>1, <2>1 DEF ImplicitPredecessors, Expectations, None
  <2> QED
    BY <1>1, <2>2 DEF ExpectCall, TypeOK
<1>5. \A x \in Ids \ {e} : prerequisites'[x] = prerequisites[x]
  BY <1>1 DEF ExpectCall, TypeOK
<1>6. counter' = counter /\ counter[e] = 0 /\ UNCHANGED reports
  BY <1>1 DEF ExpectCall, OnlyCreated
<1>7. NoFailures' <=> NoFailures
  BY <1>6 DEF NoFailures, reports
<1> QED
  BY <1>2, <1>3, <1>4, <1>5, <1>6, <1>7 DEF Ideal!Expect


\* A call that belongs to an expectation is a Call of the ideal mock, or there
\* is a report.
LEMMA HandleCallImplements ==
  ASSUME Inv, NEW m \in Mocks, NEW c \in Calls, NEW e \in Expectations,
         HandleCall(m, c, e)
  PROVE  Ideal!Next
<1> USE DEF Inv
<1>1. e \in Ids /\ contract[e].min \in Nat /\ contract[e].max \in Nat
  BY ContractFacts
<1>2. /\ UNCHANGED <<created, contract, prerequisites, missing, unexpected,
                     unknown>>
      /\ counter' = [counter EXCEPT ![e] = counter[e] + 1]
      /\ unmet' = [unmet EXCEPT ![e] =
                     unmet[e] + IF PrerequisitesMet(e) THEN 0 ELSE 1]
  BY DEF HandleCall, IsCalled
<1>3. Expectations' = Expectations
  BY <1>2 DEF Expectations
<1>4. counter[e] < contract[e].max
  BY <1>1 DEF HandleCall, IsSaturated, TypeOK
<1>5. CASE PrerequisitesMet(e)
  <2>1. unmet' = unmet
    BY <1>1, <1>2, <1>5 DEF TypeOK
  <2>2. NoFailures' <=> NoFailures
    BY <1>2, <2>1 DEF NoFailures
  <2>3. \A x \in prerequisites[e] :
          /\ x \in Expectations
          /\ contract[x].min <= counter[x] /\ counter[x] <= contract[x].max
    <3>1. \A x \in prerequisites[e] : x \in Expectations
      BY <1>1 DEF OnlyCreated
    <3>2. \A x \in prerequisites[e] :
            counter[x] <= contract[x].max /\ counter[x] >= contract[x].min
      BY <1>5 DEF PrerequisitesMet, IsSatisfied
    <3>3. \A x \in Expectations : counter[x] \in Nat /\ contract[x].min \in Nat
      BY ContractFacts DEF TypeOK
    <3> QED
      BY <3>1, <3>2, <3>3
  <2>4. Ideal!Call(e)
    BY <1>2, <1>3, <1>4, <2>2, <2>3 DEF Ideal!Call
  <2> QED
    BY <1>1, <2>4 DEF Ideal!Next
<1>6. CASE ~PrerequisitesMet(e)
  <2>1. unmet'[e] # 0
    BY <1>1, <1>2, <1>6 DEF TypeOK
  <2>2. ~NoFailures'
    BY <1>1, <2>1 DEF NoFailures
  <2>3. UNCHANGED <<[x \in Expectations |-> contract[x].min],
                    [x \in Expectations |-> contract[x].max], prerequisites>>
    BY <1>2, <1>3
  <2>4. \E x \in DOMAIN [y \in Expectations |-> contract[y].min] :
          /\ counter[x] < [y \in Expectations |-> contract[y].max][x]
          /\ counter' = [counter EXCEPT ![x] = counter[x] + 1]
    BY <1>2, <1>4
  <2>5. NoFailures' <=> FALSE
    BY <2>2
  <2>6. Ideal!Complain
    BY <2>3, <2>4, <2>5 DEF Ideal!Complain
  <2> QED
    BY <2>6 DEF Ideal!Next
<1> QED
  BY <1>5, <1>6

\* The mocks implement the ideal one: as long as nothing is reported, no
\* expectation is called too often or too early.
THEOREM Refinement == Spec => ImplementsIdealMock
<1>1. Init => Ideal!Init
  <2> SUFFICES ASSUME Init PROVE Ideal!Init
    OBVIOUS
  <2>1. Expectations = {}
    BY DEF Init, Expectations
  <2>2. NoFailures
    BY DEF Init, NoFailures
  <2> QED
    BY <2>1, <2>2 DEF Init, Ideal!Init
<1>2. ASSUME Inv, [Next]_vars
      PROVE  [Ideal!Next]_(Ideal!vars)
  <2> USE DEF Inv
  <2>1. ASSUME NEW r \in Runners, NEW c \in Contracts,
               NEW earlier \in SUBSET Expectations, ExpectCall(r, c, earlier)
        PROVE  Ideal!Next
    <3>1. PICK e \in Ids : e = created + 1
      BY <2>1 DEF ExpectCall
    <3>2. Ideal!Expect(e)
      BY <1>2, <2>1, <3>1, ExpectCallImplements
    <3> QED
      BY <3>2 DEF Ideal!Next
  <2>2. ASSUME NEW m \in Mocks, NEW c \in Calls, NEW e \in Expectations,
               HandleCall(m, c, e)
        PROVE  Ideal!Next
    BY <1>2, <2>2, HandleCallImplements
  <2>3. ASSUME NEW m \in Mocks, NEW c \in Calls, UnknownCall(m, c)
        PROVE  Ideal!Next
    <3>1. unknown'[m] # 0
      BY <1>2, <2>3 DEF UnknownCall, TypeOK
    <3>2. ~NoFailures'
      BY <3>1 DEF NoFailures
    <3>3. UNCHANGED <<created, contract, prerequisites, counter>>
      BY <2>3 DEF UnknownCall, IsCalled
    <3>4. Expectations' = Expectations
      BY <3>3 DEF Expectations
    <3> QED
      BY <3>2, <3>3, <3>4 DEF Ideal!Next, Ideal!Complain
  <2>4. ASSUME NEW m \in Mocks, NEW c \in Calls, NEW e \in Expectations,
               UnexpectedCall(m, c, e)
        PROVE  Ideal!Next
    <3>1. e \in Ids /\ unexpected'[e] # 0
      BY <1>2, <2>4, ContractFacts DEF UnexpectedCall, TypeOK
    <3>2. ~NoFailures'
      BY <3>1 DEF NoFailures
    <3>3. UNCHANGED <<created, contract, prerequisites, counter>>
      BY <2>4 DEF UnexpectedCall, IsCalled
    <3>4. Expectations' = Expectations
      BY <3>3 DEF Expectations
    <3> QED
      BY <3>2, <3>3, <3>4 DEF Ideal!Next, Ideal!Complain
  <2>5. ASSUME NEW m \in Mocks, DestroyMock(m)
        PROVE  [Ideal!Next]_(Ideal!vars)
    <3>1. UNCHANGED <<created, contract, prerequisites, counter, unexpected,
                      unmet, unknown>>
      BY <2>5 DEF DestroyMock
    <3>2. Expectations' = Expectations
      BY <3>1 DEF Expectations
    <3>3. CASE missing' = missing
      <4>1. NoFailures' <=> NoFailures
        BY <3>1, <3>3 DEF NoFailures
      <4> QED
        BY <3>1, <3>2, <4>1 DEF Ideal!vars
    <3>4. CASE missing' # missing
      <4>1. PICK e \in Ids : missing'[e] # missing[e]
        BY <1>2, <2>5, <3>4 DEF DestroyMock, TypeOK
      <4>2. missing'[e] # 0
        BY <1>2, <2>5, <4>1 DEF DestroyMock, TypeOK
      <4>3. ~NoFailures'
        BY <4>2 DEF NoFailures
      <4> QED
        BY <3>1, <3>2, <4>3 DEF Ideal!Next, Ideal!Complain
    <3> QED
      BY <3>3, <3>4
  <2>6. ASSUME UNCHANGED <<created, contract, prerequisites, counter, reports>>
        PROVE  UNCHANGED Ideal!vars
    <3>1. NoFailures' <=> NoFailures
      BY <2>6 DEF NoFailures, reports
    <3> QED
      BY <2>6, <3>1 DEF Ideal!vars, Expectations
  <2>7. CASE \/ \E r \in Runners : EnterSequence(r) \/ LeaveSequence(r)
             \/ ChangeCondition
             \/ UNCHANGED vars
    BY <2>6, <2>7 DEF EnterSequence, LeaveSequence, ChangeCondition, vars
  <2> QED
    BY <1>2, <2>1, <2>2, <2>3, <2>4, <2>5, <2>7 DEF Next
<1> QED
  BY <1>1, <1>2, Invariance, PTL DEF Spec, ImplementsIdealMock, Ideal!Spec

-----------------------------------------------------------------------------
(* The verdict.  A sum over a set is defined by recursion; it is given a   *)
(* meaning that needs none: the calls that belong to the expectations of a *)
(* set, each with its number.                                              *)

CallsOf(f, S) == UNION {{x} \X (1 .. f[x]) : x \in S}

LEMMA CallsOfFacts ==
  ASSUME NEW f, NEW S
  PROVE  /\ CallsOf(f, {}) = {}
         /\ \A p : p \in CallsOf(f, S) <=>
              \E x \in S : p \in {x} \X (1 .. f[x])
         /\ \A T \in SUBSET S : CallsOf(f, T) \subseteq CallsOf(f, S)
  BY DEF CallsOf

\* The calls of one expectation apart from those of the others.
LEMMA CallsOfOne ==
  ASSUME NEW f, NEW S, NEW x \in S, f[x] \in Nat,
         IsFiniteSet(CallsOf(f, S))
  PROVE  /\ IsFiniteSet(CallsOf(f, S \ {x}))
         /\ Cardinality(CallsOf(f, S \ {x})) \in Nat
         /\ Cardinality(CallsOf(f, S)) =
              f[x] + Cardinality(CallsOf(f, S \ {x}))
<1> DEFINE A == {x} \X (1 .. f[x])
           B == CallsOf(f, S \ {x})
<1>1. CallsOf(f, S) = A \cup B
  BY DEF CallsOf
<1>2. A \cap B = {}
  BY DEF CallsOf
<1>3. IsFiniteSet(A) /\ Cardinality(A) = f[x]
  <2>1. IsFiniteSet({x}) /\ Cardinality({x}) = 1
    BY FS_Singleton
  <2>2. IsFiniteSet(1 .. f[x]) /\ Cardinality(1 .. f[x]) = f[x]
    BY FS_Interval
  <2>3. IsFiniteSet(A) /\ Cardinality(A) = 1 * Cardinality(1 .. f[x])
    BY <2>1, <2>2, FS_Product
  <2> QED
    BY <2>2, <2>3
<1>4. IsFiniteSet(B)
  <2>1. B \in SUBSET CallsOf(f, S)
    BY <1>1
  <2> QED
    BY <2>1, FS_Subset
<1>5. Cardinality(B) \in Nat
  BY <1>4, FS_CardinalityType
<1> HIDE DEF A, B
<1>6. Cardinality(A \cup B) = f[x] + Cardinality(B)
  BY <1>2, <1>3, <1>4, <1>5, FS_Union, FS_EmptySet
<1> QED
  BY <1>1, <1>4, <1>5, <1>6 DEF B

\* Which element a sum takes first.
First(s) == CHOOSE x \in s : TRUE

\* What every function does that adds up f over the subsets of S.
Adds(f, S, g) ==
  g = [s \in SUBSET S |->
         IF s = {} THEN 0 ELSE f[First(s)] + g[s \ {First(s)}]]

LEMMA SumIsAdded ==
  ASSUME NEW f, NEW S
  PROVE  MapThenSumSet(LAMBDA e : f[e], S) = (CHOOSE g : Adds(f, S, g))[S]
  BY Zenon DEF MapThenSumSet, MapThenFoldSet, Adds, First

LEMMA CountingAdds ==
  ASSUME NEW f, NEW S, \A x \in S : f[x] \in Nat,
         IsFiniteSet(CallsOf(f, S))
  PROVE  Adds(f, S, [s \in SUBSET S |-> Cardinality(CallsOf(f, s))])
<1> DEFINE g == [s \in SUBSET S |-> Cardinality(CallsOf(f, s))]
<1>1. ASSUME NEW s \in SUBSET S, s # {}
      PROVE  g[s] = f[First(s)] + g[s \ {First(s)}]
  <2>1. First(s) \in s
    BY <1>1 DEF First
  <2>2. IsFiniteSet(CallsOf(f, s))
    <3>1. CallsOf(f, s) \in SUBSET CallsOf(f, S)
      BY DEF CallsOf
    <3> QED
      BY <3>1, FS_Subset
  <2>3. Cardinality(CallsOf(f, s)) =
          f[First(s)] + Cardinality(CallsOf(f, s \ {First(s)}))
    <3> DEFINE x == First(s)
    <3>1. x \in s /\ f[x] \in Nat
      BY <2>1
    <3> HIDE DEF x
    <3>2. Cardinality(CallsOf(f, s)) =
            f[x] + Cardinality(CallsOf(f, s \ {x}))
      BY <2>2, <3>1, CallsOfOne
    <3> QED
      BY <3>2 DEF x
  <2>4. s \ {First(s)} \in SUBSET S
    OBVIOUS
  <2> QED
    BY <2>3, <2>4
<1>2. g[{}] = 0
  BY CallsOfFacts, FS_EmptySet
<1> HIDE DEF First
<1>3. \A s \in SUBSET S :
        g[s] = IF s = {} THEN 0 ELSE f[First(s)] + g[s \ {First(s)}]
  BY <1>1, <1>2
<1>4. g = [s \in SUBSET S |-> g[s]]
  OBVIOUS
<1> HIDE DEF g
<1>5. g = [s \in SUBSET S |->
             IF s = {} THEN 0 ELSE f[First(s)] + g[s \ {First(s)}]]
  BY <1>3, <1>4, Zenon
<1> QED
  BY <1>5 DEF Adds, g

Smaller == {p \in Nat \X Nat : p[1] < p[2]}

LEMMA SmallerWellFounded == IsWellFoundedOn(Smaller, Nat)
<1>1. Smaller = OpToRel(<, Nat)
  BY Zenon DEF OpToRel, Smaller
<1> QED
  BY <1>1, NatLessThanWellFounded, Zenon

\* Two functions that add up the same are the same: there is no smallest set on
\* which they differ.
LEMMA AddsOnce ==
  ASSUME NEW f, NEW S, IsFiniteSet(S), NEW g, Adds(f, S, g),
         NEW h, Adds(f, S, h)
  PROVE  g[S] = h[S]
<1> DEFINE Differ(n) == \E s \in SUBSET S : Cardinality(s) = n /\ g[s] # h[s]
           T == {n \in Nat : Differ(n)}
<1>1. \A s \in SUBSET S : Cardinality(s) \in Nat /\ IsFiniteSet(s)
  BY FS_Subset, FS_CardinalityType
<1>2. \A s \in SUBSET S :
        /\ g[s] = IF s = {} THEN 0 ELSE f[First(s)] + g[s \ {First(s)}]
        /\ h[s] = IF s = {} THEN 0 ELSE f[First(s)] + h[s \ {First(s)}]
  BY Zenon DEF Adds
<1>3. T = {}
  <2> SUFFICES ASSUME T # {} PROVE FALSE
    OBVIOUS
  <2>1. T \subseteq Nat
    OBVIOUS
  <2> HIDE DEF T
  <2>2. PICK n \in T : \A k \in T : <<k, n>> \notin Smaller
    BY <2>1, SmallerWellFounded, WFMin
  <2>3. n \in Nat /\ Differ(n)
    BY <2>2 DEF T
  <2>4. PICK s \in SUBSET S : Cardinality(s) = n /\ g[s] # h[s]
    BY <2>3
  <2>5. s # {} /\ g[s \ {First(s)}] # h[s \ {First(s)}]
    BY <1>2, <2>4
  <2>6. First(s) \in s
    BY <2>5 DEF First
  <2>7. s \ {First(s)} \in SUBSET S
    OBVIOUS
  <2>8. Cardinality(s \ {First(s)}) = n - 1
    BY <1>1, <2>4, <2>6, FS_RemoveElement
  <2>9. n - 1 \in T /\ n - 1 < n
    BY <1>1, <2>3, <2>5, <2>7, <2>8 DEF T
  <2>10. <<n - 1, n>> \in Smaller
    BY <2>1, <2>3, <2>9 DEF Smaller
  <2> QED
    BY <2>2, <2>9, <2>10
<1>4. Cardinality(S) \in Nat /\ Cardinality(S) \notin T
  BY <1>1, <1>3
<1> QED
  BY <1>4

\* The sum of f over S is the number of the calls.
LEMMA SumIsCount ==
  ASSUME NEW f, NEW S, IsFiniteSet(S), \A x \in S : f[x] \in Nat,
         IsFiniteSet(CallsOf(f, S))
  PROVE  MapThenSumSet(LAMBDA e : f[e], S) = Cardinality(CallsOf(f, S))
<1> DEFINE g == [s \in SUBSET S |-> Cardinality(CallsOf(f, s))]
           h == CHOOSE k : Adds(f, S, k)
<1>1. Adds(f, S, g)
  BY CountingAdds
<1>2. g[S] = Cardinality(CallsOf(f, S))
  OBVIOUS
<1> HIDE DEF g
<1>3. Adds(f, S, h)
  BY <1>1, Zenon
<1> HIDE DEF h
<1>4. g[S] = h[S]
  BY <1>1, <1>3, AddsOnce
<1>5. MapThenSumSet(LAMBDA e : f[e], S) = h[S]
  BY SumIsAdded, Zenon DEF h
<1> QED
  BY <1>2, <1>4, <1>5, Zenon

-----------------------------------------------------------------------------
(* The part of the invariant that the verdict rests on: as long as nothing *)
(* is reported every call belongs to an expectation, and an expectation    *)
(* whose mock is destroyed was satisfied, or is reported.                  *)

CallsCounted ==
  /\ IsFiniteSet(CallsOf(counter, Expectations))
  /\ NoFailures => calls = Cardinality(CallsOf(counter, Expectations))

MissingReported ==
  \A e \in Expectations :
    contract[e].mock \in alive \/ missing[e] > 0 \/ IsSatisfied(e)

VerdictInv == CallsCounted /\ MissingReported

\* The invariant says what the verdict says.
LEMMA VerdictFollows == Inv /\ VerdictInv => VerdictIsSound
<1> SUFFICES ASSUME Inv, VerdictInv, alive = {}, NoFailures
             PROVE  /\ \A e \in Expectations : IsSatisfied(e)
                    /\ calls = MapThenSumSet(LAMBDA e : counter[e], Expectations)
  BY Zenon DEF VerdictIsSound
<1>1. \A e \in Expectations : e \in Ids /\ counter[e] \in Nat
  BY ContractFacts DEF Inv, TypeOK
<1>2. IsFiniteSet(Expectations)
  BY FS_Interval, BoundsAssumption DEF Expectations, Inv, TypeOK
<1>3. \A e \in Expectations : IsSatisfied(e)
  BY <1>1 DEF VerdictInv, MissingReported, NoFailures
<1>4. MapThenSumSet(LAMBDA e : counter[e], Expectations)
        = Cardinality(CallsOf(counter, Expectations))
  BY <1>1, <1>2, SumIsCount, Zenon DEF VerdictInv, CallsCounted
<1> QED
  BY <1>3, <1>4, Zenon DEF VerdictInv, CallsCounted

LEMMA VerdictInit == Init => VerdictInv
<1> SUFFICES ASSUME Init PROVE VerdictInv
  OBVIOUS
<1>1. Expectations = {} /\ calls = 0
  BY DEF Init, Expectations
<1>2. CallsOf(counter, Expectations) = {}
  BY <1>1, CallsOfFacts
<1> QED
  BY <1>1, <1>2, FS_EmptySet DEF VerdictInv, CallsCounted, MissingReported

\* Reports are not taken back, and an expectation that is as it was is satisfied
\* if it was.
LEMMA VerdictKept ==
  ASSUME Inv, VerdictInv,
         UNCHANGED <<created, contract, counter, calls, alive, reports>>
  PROVE  VerdictInv'
<1>1. Expectations' = Expectations
  BY DEF Expectations
<1>2. NoFailures' <=> NoFailures
  BY DEF NoFailures, reports
<1>3. CallsCounted'
  BY <1>1, <1>2 DEF VerdictInv, CallsCounted, CallsOf
<1>4. MissingReported'
  BY <1>1 DEF VerdictInv, MissingReported, IsSatisfied, reports
<1> QED
  BY <1>3, <1>4 DEF VerdictInv

\* A call that is reported need not be counted.
LEMMA ReportedVerdict ==
  ASSUME Inv, VerdictInv, ~NoFailures',
         UNCHANGED <<created, contract, counter, alive, missing>>
  PROVE  VerdictInv'
<1>1. Expectations' = Expectations
  BY DEF Expectations
<1>2. CallsCounted'
  BY <1>1 DEF VerdictInv, CallsCounted, CallsOf
<1>3. MissingReported'
  BY <1>1 DEF VerdictInv, MissingReported, IsSatisfied
<1> QED
  BY <1>2, <1>3 DEF VerdictInv

LEMMA ExpectCallVerdict ==
  ASSUME Inv, VerdictInv, NEW r \in Runners, NEW c \in Contracts,
         NEW earlier \in SUBSET Expectations, ExpectCall(r, c, earlier)
  PROVE  VerdictInv'
<1> DEFINE e == created + 1
<1>1. /\ created \in Nat /\ created' = e /\ e \in Ids
      /\ Expectations' = Expectations \cup {e} /\ e \notin Expectations
  <2>1. e \in Ids /\ created \in Nat /\ created' = e
    BY BoundsAssumption DEF ExpectCall, Inv, TypeOK, Ids
  <2>2. Expectations' = 1 .. e /\ Expectations = 1 .. created
    BY <2>1 DEF Expectations
  <2> QED
    BY <2>1, <2>2
<1>2. /\ counter' = counter /\ counter[e] = 0
      /\ UNCHANGED <<alive, calls, reports>>
  BY <1>1 DEF ExpectCall, Inv, OnlyCreated
<1>3. contract'[e] = c /\ \A x \in Expectations : contract'[x] = contract[x]
  BY <1>1 DEF ExpectCall, Expectations
<1>4. c.mock \in alive
  BY DEF ExpectCall
<1> HIDE DEF e
<1>5. CallsOf(counter', Expectations') = CallsOf(counter, Expectations)
  BY <1>1, <1>2 DEF CallsOf
<1>6. NoFailures' <=> NoFailures
  BY <1>2 DEF NoFailures, reports
<1>7. CallsCounted'
  BY <1>2, <1>5, <1>6 DEF VerdictInv, CallsCounted
<1>8. MissingReported'
  BY <1>1, <1>2, <1>3, <1>4
  DEF VerdictInv, MissingReported, IsSatisfied, reports
<1> QED
  BY <1>7, <1>8 DEF VerdictInv

\* The only call that is not reported is one more of an expectation of a mock
\* that is alive.
LEMMA HandleCallVerdict ==
  ASSUME Inv, VerdictInv, NEW m \in Mocks, NEW c \in Calls,
         NEW e \in Expectations, HandleCall(m, c, e)
  PROVE  VerdictInv'
<1> DEFINE last == <<e, counter[e] + 1>>
<1>1. e \in Ids /\ counter[e] \in Nat /\ Expectations \subseteq Ids
  BY ContractFacts DEF Inv, TypeOK
<1>2. /\ UNCHANGED <<created, contract, alive, missing, unexpected, unknown>>
      /\ calls' = calls + 1
      /\ counter' = [counter EXCEPT ![e] = counter[e] + 1]
      /\ unmet' = [unmet EXCEPT ![e] =
                     unmet[e] + IF PrerequisitesMet(e) THEN 0 ELSE 1]
      /\ m \in alive
  BY DEF HandleCall, IsCalled
<1>3. contract[e].mock = m
  BY DEF HandleCall, Matches, Candidates, LastBests, Matching
<1>4. Expectations' = Expectations
  BY <1>2 DEF Expectations
<1>5. /\ counter'[e] = counter[e] + 1
      /\ \A x \in Ids \ {e} : counter'[x] = counter[x]
  BY <1>1, <1>2 DEF Inv, TypeOK
<1>6. /\ CallsOf(counter', Expectations) = CallsOf(counter, Expectations) \cup {last}
      /\ last \notin CallsOf(counter, Expectations)
  <2>1. 1 .. counter'[e] = (1 .. counter[e]) \cup {counter[e] + 1}
    BY <1>1, <1>5
  <2>2. {e} \X (1 .. counter'[e]) = ({e} \X (1 .. counter[e])) \cup {last}
    BY <2>1
  <2>3. \A p : p \in CallsOf(counter', Expectations) <=>
               \E x \in Expectations : p \in {x} \X (1 .. counter'[x])
    BY DEF CallsOf
  <2>4. \A p : p \in CallsOf(counter, Expectations) <=>
               \E x \in Expectations : p \in {x} \X (1 .. counter[x])
    BY CallsOfFacts
  <2>5. \A x \in Expectations : x # e =>
          {x} \X (1 .. counter'[x]) = {x} \X (1 .. counter[x])
    BY <1>1, <1>5
  <2>6. last \notin CallsOf(counter, Expectations)
    BY <1>1, <2>4
  <2> HIDE DEF last
  <2> QED
    BY <2>2, <2>3, <2>4, <2>5, <2>6
<1>7. /\ IsFiniteSet(CallsOf(counter', Expectations))
      /\ Cardinality(CallsOf(counter', Expectations)) =
           Cardinality(CallsOf(counter, Expectations)) + 1
  BY <1>6, FS_AddElement DEF VerdictInv, CallsCounted
<1>8. NoFailures' => NoFailures
  <2>1. \A x \in Ids : unmet'[x] = 0 => unmet[x] = 0
    BY <1>1, <1>2 DEF Inv, TypeOK
  <2> QED
    BY <1>2, <2>1 DEF NoFailures
<1>9. CallsCounted'
  BY <1>2, <1>4, <1>7, <1>8 DEF VerdictInv, CallsCounted
<1>10. MissingReported'
  BY <1>1, <1>2, <1>3, <1>4, <1>5 DEF VerdictInv, MissingReported, IsSatisfied
<1> QED
  BY <1>9, <1>10 DEF VerdictInv

\* What is missing when a mock is destroyed is reported then.
LEMMA DestroyMockVerdict ==
  ASSUME Inv, VerdictInv, NEW m \in Mocks, DestroyMock(m)
  PROVE  VerdictInv'
<1>1. /\ UNCHANGED <<created, contract, counter, calls, unexpected, unmet,
                     unknown>>
      /\ alive' = alive \ {m}
      /\ missing' = [e \in Ids |->
           IF e \in Expectations /\ contract[e].mock = m /\ ~IsSatisfied(e)
           THEN missing[e] + 1 ELSE missing[e]]
  BY DEF DestroyMock
<1>2. Expectations' = Expectations /\ Expectations \subseteq Ids
  BY <1>1, ContractFacts DEF Expectations, Inv
<1>3. \A e \in Ids : missing[e] \in Nat
  BY DEF Inv, TypeOK
<1>4. NoFailures' => NoFailures
  BY <1>1, <1>3 DEF NoFailures
<1>5. CallsCounted'
  BY <1>1, <1>2, <1>4 DEF VerdictInv, CallsCounted
<1>6. \A e \in Expectations : IsSatisfied(e)' <=> IsSatisfied(e)
  BY <1>1 DEF IsSatisfied
<1>7. MissingReported'
  BY <1>1, <1>2, <1>3, <1>6 DEF VerdictInv, MissingReported
<1> QED
  BY <1>5, <1>7 DEF VerdictInv

LEMMA NextVerdict == Inv /\ VerdictInv /\ [Next]_vars => VerdictInv'
<1> SUFFICES ASSUME Inv, VerdictInv, [Next]_vars PROVE VerdictInv'
  OBVIOUS
<1>1. CASE \/ \E r \in Runners : EnterSequence(r) \/ LeaveSequence(r)
           \/ ChangeCondition
           \/ UNCHANGED vars
  BY <1>1, VerdictKept DEF EnterSequence, LeaveSequence, ChangeCondition, vars
<1>2. ASSUME NEW r \in Runners, NEW c \in Contracts,
             NEW earlier \in SUBSET Expectations, ExpectCall(r, c, earlier)
      PROVE  VerdictInv'
  BY <1>2, ExpectCallVerdict
<1>3. ASSUME NEW m \in Mocks, NEW c \in Calls, UnknownCall(m, c)
      PROVE  VerdictInv'
  <2>1. unknown'[m] # 0
    BY <1>3 DEF UnknownCall, Inv, TypeOK
  <2>2. ~NoFailures'
    BY <2>1 DEF NoFailures
  <2> QED
    BY <1>3, <2>2, ReportedVerdict DEF UnknownCall, IsCalled
<1>4. ASSUME NEW m \in Mocks, NEW c \in Calls, NEW e \in Expectations,
             UnexpectedCall(m, c, e)
      PROVE  VerdictInv'
  <2>1. e \in Ids /\ unexpected'[e] # 0
    BY <1>4, ContractFacts DEF UnexpectedCall, Inv, TypeOK
  <2>2. ~NoFailures'
    BY <2>1 DEF NoFailures
  <2> QED
    BY <1>4, <2>2, ReportedVerdict DEF UnexpectedCall, IsCalled
<1>5. ASSUME NEW m \in Mocks, NEW c \in Calls, NEW e \in Expectations,
             HandleCall(m, c, e)
      PROVE  VerdictInv'
  BY <1>5, HandleCallVerdict
<1>6. ASSUME NEW m \in Mocks, DestroyMock(m) PROVE VerdictInv'
  BY <1>6, DestroyMockVerdict
<1> QED
  BY <1>1, <1>2, <1>3, <1>4, <1>5, <1>6 DEF Next

\* A test of which no failure is reported has had the calls it expected, each as
\* often as it says, and no others.
THEOREM Verdict == Spec => []VerdictIsSound
  BY Invariance, VerdictInit, NextVerdict, VerdictFollows, PTL DEF Spec

=============================================================================
