------------------------------- MODULE MCHeap -------------------------------
(***************************************************************************)
(* The instance of Heap that TLC checks.                                   *)
(***************************************************************************)
EXTENDS Heap, TLC

CONSTANTS e1, e2, e3, e4, e5, e6

MCElements == {e1, e2, e3, e4, e5, e6}

MCKey ==
  e1 :> 0 @@ e2 :> 0 @@ e3 :> 1 @@ e4 :> 1 @@ e5 :> 2 @@ e6 :> 2

=============================================================================
