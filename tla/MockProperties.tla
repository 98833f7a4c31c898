--------------------------- MODULE MockProperties ---------------------------
(***************************************************************************)
(* What mocks promise.                                                     *)
(***************************************************************************)
EXTENDS Mock, FiniteSetsExt

\* getNumberOfMockFailures() is zero.
NoFailures ==
  /\ \A e \in Ids : unexpected[e] = 0 /\ unmet[e] = 0 /\ missing[e] = 0
  /\ \A m \in Mocks : unknown[m] = 0

\* When all mocks are destroyed and no failure is reported, the calls that there
\* were are those that were expected: every expectation has been called as often
\* as it says, and each call was one of these, whenever expectations and mocks
\* came and went.
VerdictIsSound ==
  alive = {} /\ NoFailures =>
    /\ \A e \in Expectations : IsSatisfied(e)
    /\ calls = MapThenSumSet(LAMBDA e : counter[e], Expectations)

\* After a call that belongs to an expectation, all that comes before it in its
\* sequences is ignored when saturated, however far before it is and whichever
\* mock it belongs to.
PrerequisitesRetire ==
  \A e \in Expectations :
    counter[e] > 0 =>
      \E S \in SUBSET retiring :
        /\ prerequisites[e] \subseteq S
        /\ \A x \in S : prerequisites[x] \subseteq S

Ideal == INSTANCE IdealMock WITH
  Expectations <- Ids,
  min <- [e \in Expectations |-> contract[e].min],
  max <- [e \in Expectations |-> contract[e].max],
  after <- prerequisites,
  done <- counter,
  fine <- NoFailures

\* As long as no failure is reported, no expectation is called too often, nor
\* before its prerequisites are satisfied: evaluatedCall() reports whatever is
\* wrong with a call, whichever expectation it chooses.
ImplementsIdealMock == Ideal!Spec

=============================================================================
