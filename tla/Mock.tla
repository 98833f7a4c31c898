--------------------------------- MODULE Mock ---------------------------------
(***************************************************************************)
(* Mock objects: what is expected to be called, how often and in which     *)
(* order; to which expectation a call belongs; and what is reported.       *)
(*                                                                         *)
(* All that a call does to the state happens before its action is          *)
(* performed, so a call is a step, also if its action calls mocks or       *)
(* yields.  Expectations are numbered as they are made.  A call stands for *)
(* a function and its arguments.  Left out: the choice of an action, and   *)
(* the report itself.  Reference: see IdealMock.                           *)
(***************************************************************************)
EXTENDS Integers, FiniteSets

CONSTANTS
  Mocks,
  Calls,
  Contracts,  \* the expectations that tests make
  Runners,    \* make expectations
  MaxExpectations, \* bound: how many expectations there are
  MaxCalls         \* bound: how many calls there are

Ids == 1 .. MaxExpectations
None == 0

\* calls is what the matchers match, min and max are the cardinality, retires
\* says that retireOnSaturation() is called, and when that there is a clause.
ASSUME ContractsAssumption ==
  Contracts \subseteq [mock : Mocks, calls : SUBSET Calls, min : Nat, max : Nat,
                       retires : BOOLEAN, when : BOOLEAN]
ASSUME CardinalityAssumption == \A c \in Contracts : c.min <= c.max
ASSUME BoundsAssumption == MaxExpectations \in Nat /\ MaxCalls \in Nat

VARIABLES
  created,   \* how many expectations there are
  contract,  \* per expectation
  prerequisites, \* mPrerequisites
  retiring,  \* the expectations whose mRetiresOnSaturationCalled is set
  counter,   \* mCallCounter
  scopes,    \* per runner: how many InSequence objects it has
  implicit,  \* per runner: mLast of its ImplicitSequence
  condition, \* the expression of all the clauses
  alive,     \* the mocks that are not destroyed
  calls,     \* how many calls there were
  unexpected, unmet, missing, \* what is reported about each expectation,
  unknown    \* and of each mock

orderVars == <<scopes, implicit>>
reports == <<unexpected, unmet, missing, unknown>>
vars == <<created, contract, prerequisites, retiring, counter, orderVars,
          condition, alive, calls, reports>>

Expectations == 1 .. created

TypeOK ==
  /\ created \in 0 .. MaxExpectations
  /\ contract \in [Expectations -> Contracts]
  /\ prerequisites \in [Ids -> SUBSET Ids]
  /\ retiring \subseteq Ids
  /\ counter \in [Ids -> Nat]
  /\ scopes \in [Runners -> Nat]
  /\ implicit \in [Runners -> 0 .. MaxExpectations]
  /\ condition \in BOOLEAN
  /\ alive \subseteq Mocks
  /\ calls \in Nat
  /\ unexpected \in [Ids -> Nat]
  /\ unmet \in [Ids -> Nat]
  /\ missing \in [Ids -> Nat]
  /\ unknown \in [Mocks -> Nat]

Init ==
  /\ created = 0
  /\ contract = [e \in Expectations |-> None]
  /\ prerequisites = [e \in Ids |-> {}]
  /\ retiring = {}
  /\ counter = [e \in Ids |-> 0]
  /\ scopes = [r \in Runners |-> 0]
  /\ implicit = [r \in Runners |-> None]
  /\ condition \in BOOLEAN
  /\ alive = Mocks
  /\ calls = 0
  /\ unexpected = [e \in Ids |-> 0]
  /\ unmet = [e \in Ids |-> 0]
  /\ missing = [e \in Ids |-> 0]
  /\ unknown = [m \in Mocks |-> 0]

-----------------------------------------------------------------------------
(* An expectation.                                                         *)

\* Mutant: one call too many.
MutantIsSaturated(e) == counter[e] > contract[e].max

IsSaturated(e) == counter[e] >= contract[e].max

IsSatisfied(e) ==
  /\ counter[e] <= contract[e].max
  /\ counter[e] >= contract[e].min

PrerequisitesMet(e) == \A p \in prerequisites[e] : IsSatisfied(p)

WhenConditionFulfilled(e) == contract[e].when => condition

\* Mutant: the prerequisites themselves, but not theirs.
MutantAllPrerequisites(e) == prerequisites[e]

\* The prerequisites, their prerequisites, and so on.
AllPrerequisites(e) ==
  {p \in Ids :
     \A S \in SUBSET Ids :
       /\ prerequisites[e] \subseteq S
       /\ \A x \in S : prerequisites[x] \subseteq S
       => p \in S}

-----------------------------------------------------------------------------
(* Making expectations.                                                    *)

\* InSequence: an inner one does nothing.
EnterSequence(r) ==
  /\ scopes[r] < 2 /\ created < MaxExpectations
  /\ scopes' = [scopes EXCEPT ![r] = @ + 1]
  /\ UNCHANGED <<created, contract, prerequisites, retiring, counter, implicit,
                 condition, alive, calls, reports>>

LeaveSequence(r) ==
  /\ scopes[r] > 0
  /\ scopes' = [scopes EXCEPT ![r] = @ - 1]
  /\ implicit' = [implicit EXCEPT ![r] = IF scopes[r] = 1 THEN None ELSE @]
  /\ UNCHANGED <<created, contract, prerequisites, retiring, counter,
                 condition, alive, calls, reports>>

\* What ImplicitSequence::addExpectation adds to the prerequisites.
ImplicitPredecessors(r) == {implicit[r]} \ {None}

\* expectCall() by r, with after() for some expectations; inSequence() is the
\* same for the one that was last put into the sequence.
ExpectCall(r, c, earlier) ==
  LET e == created + 1 IN
  /\ e \in Ids
  /\ c.mock \in alive
  /\ created' = e
  /\ contract' = [x \in 1 .. e |-> IF x = e THEN c ELSE contract[x]]
  /\ prerequisites' =
       [prerequisites EXCEPT ![e] = earlier \cup ImplicitPredecessors(r)]
  /\ retiring' = retiring \cup {x \in {e} : c.retires}
  /\ implicit' = [implicit EXCEPT ![r] = IF scopes[r] > 0 THEN e ELSE @]
  /\ UNCHANGED <<counter, scopes, condition, alive, calls, reports>>

-----------------------------------------------------------------------------
(* Calls.                                                                  *)

Matching(m, c) ==
  {e \in Expectations : contract[e].mock = m /\ c \in contract[e].calls}

IsCandidate(e) ==
  /\ IsSaturated(e) => e \notin retiring
  /\ PrerequisitesMet(e)
  /\ WhenConditionFulfilled(e)

IsLastBest(e) == ~PrerequisitesMet(e) \/ ~WhenConditionFulfilled(e)

Candidates(m, c) == {e \in Matching(m, c) : IsCandidate(e)}
LastBests(m, c) == {e \in Matching(m, c) : IsLastBest(e)}

\* findMatchingExpectation(): the latest candidate, or else the earliest that
\* is there for the report only.
Matches(m, c, e) ==
  \/ /\ e \in Candidates(m, c)
     /\ \A other \in Candidates(m, c) : other <= e
  \/ /\ Candidates(m, c) = {}
     /\ e \in LastBests(m, c)
     /\ \A other \in LastBests(m, c) : e <= other

\* What every call does.
IsCalled(m) ==
  /\ m \in alive
  /\ calls < MaxCalls
  /\ calls' = calls + 1
  /\ UNCHANGED <<created, contract, prerequisites, orderVars, condition, alive,
                 missing>>

\* There is no expectation to which the call belongs.
UnknownCall(m, c) ==
  /\ IsCalled(m)
  /\ Candidates(m, c) \cup LastBests(m, c) = {}
  /\ unknown' = [unknown EXCEPT ![m] = @ + 1]
  /\ UNCHANGED <<retiring, counter, unexpected, unmet>>

UnexpectedCall(m, c, e) ==
  /\ IsCalled(m)
  /\ Matches(m, c, e)
  /\ IsSaturated(e) \/ ~WhenConditionFulfilled(e)
  /\ unexpected' = [unexpected EXCEPT ![e] = @ + 1]
  /\ UNCHANGED <<retiring, counter, unmet, unknown>>

\* handleCallToMockFunction()
HandleCall(m, c, e) ==
  /\ IsCalled(m)
  /\ Matches(m, c, e)
  /\ ~IsSaturated(e) /\ WhenConditionFulfilled(e)
  /\ retiring' = retiring \cup AllPrerequisites(e)
  /\ counter' = [counter EXCEPT ![e] = @ + 1]
  /\ unmet' = [unmet EXCEPT ![e] = @ + IF PrerequisitesMet(e) THEN 0 ELSE 1]
  /\ UNCHANGED <<unexpected, unknown>>

-----------------------------------------------------------------------------
\* Mutant: what was not called at all is not missing.
MutantDestroyMock(m) ==
  /\ m \in alive
  /\ alive' = alive \ {m}
  /\ missing' = [e \in Ids |->
       IF /\ e \in Expectations
          /\ contract[e].mock = m /\ ~IsSatisfied(e) /\ counter[e] > 0
       THEN missing[e] + 1 ELSE missing[e]]
  /\ UNCHANGED <<created, contract, prerequisites, retiring, counter, orderVars,
                 condition, calls, unexpected, unmet, unknown>>

\* checkMissingCalls() of all functions of a mock.  Expectations of other mocks
\* keep those that they have as prerequisites.
DestroyMock(m) ==
  /\ m \in alive
  /\ alive' = alive \ {m}
  /\ missing' = [e \in Ids |->
       IF e \in Expectations /\ contract[e].mock = m /\ ~IsSatisfied(e)
       THEN missing[e] + 1 ELSE missing[e]]
  /\ UNCHANGED <<created, contract, prerequisites, retiring, counter, orderVars,
                 condition, calls, unexpected, unmet, unknown>>

\* The program changes what the clauses are about.
ChangeCondition ==
  /\ condition' = ~condition
  /\ UNCHANGED <<created, contract, prerequisites, retiring, counter, orderVars,
                 alive, calls, reports>>

Next ==
  \/ \E r \in Runners : EnterSequence(r) \/ LeaveSequence(r)
  \/ \E r \in Runners, c \in Contracts, earlier \in SUBSET Expectations :
       ExpectCall(r, c, earlier)
  \/ \E m \in Mocks, c \in Calls :
       \/ UnknownCall(m, c)
       \/ \E e \in Expectations : UnexpectedCall(m, c, e) \/ HandleCall(m, c, e)
  \/ \E m \in Mocks : DestroyMock(m)
  \/ ChangeCondition

Spec == Init /\ [][Next]_vars

=============================================================================
