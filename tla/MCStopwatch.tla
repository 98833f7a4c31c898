----------------------------- MODULE MCStopwatch -----------------------------
(***************************************************************************)
(* The instance of Stopwatch that TLC checks.                              *)
(***************************************************************************)
EXTENDS StopwatchProperties, TLC

CONSTANTS o1, o2

MCOperators == {o1, o2}
MCSymmetry == Permutations(Operators)

=============================================================================
