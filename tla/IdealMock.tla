------------------------------ MODULE IdealMock ------------------------------
(***************************************************************************)
(* What a verdict about calls means.  Expectations are made, each after    *)
(* some earlier ones.  A call that belongs to an expectation is fine if it *)
(* is not one too many and all that has to happen before has happened      *)
(* often enough.  As long as only such calls happen there is nothing to    *)
(* complain about.                                                         *)
(***************************************************************************)
EXTENDS Integers

CONSTANTS Expectations

VARIABLES
  min, max, \* per expectation that is made: how often it is to be called
  after,    \* per expectation: those that come before
  done,     \* per expectation: how often it has been called
  fine

vars == <<min, max, after, done, fine>>

Init ==
  /\ min = [e \in {} |-> 0]
  /\ max = [e \in {} |-> 0]
  /\ after = [e \in Expectations |-> {}]
  /\ done = [e \in Expectations |-> 0]
  /\ fine = TRUE

\* A new expectation has its own terms, and does not touch those of others.
Expect(e) ==
  /\ e \notin DOMAIN min
  /\ DOMAIN min' = DOMAIN min \cup {e}
  /\ DOMAIN max' = DOMAIN max \cup {e}
  /\ \A x \in DOMAIN min : min'[x] = min[x] /\ max'[x] = max[x]
  /\ after'[e] \subseteq DOMAIN min
  /\ \A x \in Expectations \ {e} : after'[x] = after[x]
  /\ done[e] = 0
  /\ UNCHANGED <<done, fine>>

Call(e) ==
  /\ e \in DOMAIN min
  /\ done[e] < max[e]
  /\ \A x \in after[e] : min[x] <= done[x] /\ done[x] <= max[x]
  /\ done' = [done EXCEPT ![e] = @ + 1]
  /\ UNCHANGED <<min, max, after, fine>>

\* Something is wrong, which is remembered.  An expectation that is called at
\* the wrong time counts the call, and never one too many.
Complain ==
  /\ fine' = FALSE
  /\ \/ UNCHANGED done
     \/ \E e \in DOMAIN min :
          done[e] < max[e] /\ done' = [done EXCEPT ![e] = @ + 1]
  /\ UNCHANGED <<min, max, after>>

Next == (\E e \in Expectations : Expect(e) \/ Call(e)) \/ Complain

Spec == Init /\ [][Next]_vars

=============================================================================
