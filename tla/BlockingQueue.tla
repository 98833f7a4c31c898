--------------------------- MODULE BlockingQueue ---------------------------
(***************************************************************************)
(* What rtos::Queue promises: a bounded first-in first-out queue.  A put   *)
(* and a get each happen at one instant; every value that was put is got   *)
(* once, in the order of the puts, and there are never more than Capacity  *)
(* values on their way.                                                    *)
(***************************************************************************)
EXTENDS Integers, Sequences

CONSTANTS Threads, Values, Capacity

VARIABLES
  content, \* the values in the queue
  value    \* per thread: the variable that its calls refer to

vars == <<content, value>>

Init ==
  /\ content = <<>>
  /\ value \in [Threads -> Values]

Put(t) ==
  /\ Len(content) < Capacity
  /\ content' = Append(content, value[t])
  /\ UNCHANGED value

Get(t) ==
  /\ content # <<>>
  /\ content' = Tail(content)
  /\ value' = [value EXCEPT ![t] = Head(content)]

\* A thread sets its variable to what it is going to put.
Assign(t) ==
  /\ \E v \in Values : value' = [value EXCEPT ![t] = v]
  /\ UNCHANGED content

Next == \E t \in Threads : Put(t) \/ Get(t) \/ Assign(t)

Spec == Init /\ [][Next]_vars

=============================================================================
