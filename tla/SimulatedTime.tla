--------------------------- MODULE SimulatedTime ---------------------------
(***************************************************************************)
(* What the coroutine scheduler promises its users: cooperative coroutines *)
(* in simulated time.  At most one coroutine runs.  Time stands still      *)
(* while any coroutine can run; when none can, it jumps to the earliest    *)
(* deadline and the coroutine that waits for it runs, told that its wait   *)
(* timed out.  A coroutine that is woken first runs before time moves      *)
(* again, told that it did not time out, and its deadline is forgotten.    *)
(* When no deadline before the end of the epoche is left, the run is over. *)
(*                                                                         *)
(* Nothing is said of the order among the coroutines that can run, or of   *)
(* the queues, flags and counters an implementation keeps.                 *)
(***************************************************************************)
EXTENDS Integers

CONSTANTS Coroutines, EndOfTime

VARIABLES
  now,       \* simulated time
  state,     \* per coroutine: what it is doing
  deadline,  \* per coroutine: when its wait times out, EndOfTime for never
  outcome,   \* per coroutine: whether its last wait timed out
  over       \* the run has ended

vars == <<now, state, deadline, outcome, over>>

States == {"unknown", "ready", "woken", "running", "sleeping", "gone"}

In(s) == {c \in Coroutines : state[c] = s}
Ready == In("ready") \cup In("woken")

Init ==
  /\ now = 0
  /\ state = [c \in Coroutines |-> "unknown"]
  /\ deadline = [c \in Coroutines |-> 0]
  /\ outcome = [c \in Coroutines |-> FALSE]
  /\ over = FALSE

Add(c) ==
  /\ ~over
  /\ state[c] = "unknown"
  /\ state' = [state EXCEPT ![c] = "ready"]
  /\ UNCHANGED <<now, deadline, outcome, over>>

\* A coroutine that can run is given the CPU.
Run(c) ==
  /\ ~over
  /\ In("running") = {}
  /\ c \in Ready
  /\ state' = [state EXCEPT ![c] = "running"]
  /\ outcome' = IF state[c] = "woken"
                THEN [outcome EXCEPT ![c] = FALSE]
                ELSE outcome
  /\ UNCHANGED <<now, deadline, over>>

Yield(c) ==
  /\ state[c] = "running"
  /\ state' = [state EXCEPT ![c] = "ready"]
  /\ UNCHANGED <<now, deadline, outcome, over>>

Sleep(c, until) ==
  /\ state[c] = "running"
  /\ until >= now
  /\ state' = [state EXCEPT ![c] = "sleeping"]
  /\ deadline' = [deadline EXCEPT ![c] = until]
  /\ UNCHANGED <<now, outcome, over>>

Wake(c, other) ==
  /\ state[c] = "running"
  /\ state[other] = "sleeping"
  /\ state' = [state EXCEPT ![other] = "woken"]
  /\ UNCHANGED <<now, deadline, outcome, over>>

Leave(c) ==
  /\ state[c] = "running"
  /\ state' = [state EXCEPT ![c] = "gone"]
  /\ UNCHANGED <<now, deadline, outcome, over>>

Idle == In("running") = {} /\ Ready = {}

\* Time jumps to the earliest deadline.
TimeOut(c) ==
  /\ ~over
  /\ Idle
  /\ c \in In("sleeping")
  /\ deadline[c] < EndOfTime
  /\ \A other \in In("sleeping") : deadline[c] <= deadline[other]
  /\ now' = deadline[c]
  /\ state' = [state EXCEPT ![c] = "running"]
  /\ outcome' = [outcome EXCEPT ![c] = TRUE]
  /\ UNCHANGED <<deadline, over>>

\* No deadline is left.  Those that still sleep do so until the end.
End ==
  /\ ~over
  /\ Idle
  /\ \A c \in In("sleeping") : deadline[c] = EndOfTime
  /\ over' = TRUE
  /\ now' = IF In("sleeping") = {} THEN now ELSE EndOfTime
  /\ UNCHANGED <<state, deadline, outcome>>

Next ==
  \/ \E c \in Coroutines :
       \/ Add(c)
       \/ Run(c)
       \/ Yield(c)
       \/ \E until \in 0 .. EndOfTime : Sleep(c, until)
       \/ \E other \in Coroutines : Wake(c, other)
       \/ Leave(c)
       \/ TimeOut(c)
  \/ End

Spec == Init /\ [][Next]_vars

=============================================================================
