--------------------------- MODULE PriorityQueue ---------------------------
(***************************************************************************)
(* What utils::Heap promises: a set of elements, each with a key, from     *)
(* which a least one can be taken and any one deleted.  Which of several   *)
(* least ones is taken is left open.                                       *)
(***************************************************************************)
EXTENDS Integers

CONSTANTS Elements, Key, Nothing

VARIABLES
  members, \* the elements in the queue
  given    \* what the last call returned, if it took an element

vars == <<members, given>>

Init ==
  /\ members = {}
  /\ given = Nothing

Insert(e) ==
  /\ e \notin members
  /\ members' = members \cup {e}
  /\ given' = Nothing

Extract(e) ==
  /\ e \in members
  /\ \A other \in members : Key[e] <= Key[other]
  /\ members' = members \ {e}
  /\ given' = e

Delete(e) ==
  /\ e \in members
  /\ members' = members \ {e}
  /\ given' = Nothing

Next == \E e \in Elements : Insert(e) \/ Extract(e) \/ Delete(e)

Spec == Init /\ [][Next]_vars

=============================================================================
