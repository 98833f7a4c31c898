------------------------------- MODULE MCTimer -------------------------------
(***************************************************************************)
(* The instances of Timer that TLC checks.                                 *)
(***************************************************************************)
EXTENDS TimerProperties, TLC

CONSTANTS r1, r2, t1, t2

MCRunners == {r1, r2}
MCTimers == {t1, t2}
MCOneTimer == {t1}
MCSymmetry == Permutations(Jobs)
MCOwner == [t \in Jobs |-> r1]

=============================================================================
